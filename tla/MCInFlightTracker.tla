------------------------- MODULE MCInFlightTracker -------------------------
(***************************************************************************)
(* Instances of InFlightTracker for TLC.                                   *)
(***************************************************************************)
EXTENDS InFlightTracker

CONSTANTS c1, c2, c3, c4, c5, k1, k2, k3, w1, w2

(* Keys and wallets: the first three calls share k1; c1, c2 and c4 share w1. *)
SharedKey == [c \in Calls |-> CASE c \in {c1, c2, c3} -> k1 [] c = c4 -> k2 [] OTHER -> k3]
SharedWallet == [c \in Calls |-> IF c \in {c1, c2, c4} THEN w1 ELSE w2]
(* The three methods with a will id meet on k1; track and trackByKey also *)
(* have a key of their own.                                               *)
EachMethod ==
  [c \in Calls |-> CASE c = c2 -> "exclusive" [] c = c3 -> "ifPending" [] c = c5 -> "byKey" [] OTHER -> "track"]
AllTrack == [c \in Calls |-> "track"]
=============================================================================
