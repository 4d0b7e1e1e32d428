---------------------------- MODULE MCReadCache ----------------------------
(***************************************************************************)
(* Instances of ReadCache for TLC.                                         *)
(***************************************************************************)
EXTENDS ReadCache

CONSTANTS a, b, c, w1, n1, n2

Left(v, ids, ok) == [ver |-> v, ids |-> ids, net |-> n1, ok |-> ok]

(* What the earlier session left: two entries, or three of which the third  *)
(* cannot be deserialized.                                                 *)
TwoLeft == [k \in CacheKeys |-> IF k = a THEN Left(1, {w1}, TRUE) ELSE Left(2, WillIds, TRUE)]
OneCorrupt ==
  [k \in CacheKeys |->
     CASE k = a -> Left(1, {w1}, TRUE) [] k = b -> Left(2, WillIds, TRUE) [] k = c -> Left(3, {w1}, FALSE)]

FairSpec == Spec /\ Fairness
=============================================================================
