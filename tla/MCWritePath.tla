--------------------------- MODULE MCWritePath ---------------------------
(***************************************************************************)
(* Instances of WritePath for TLC.                                         *)
(***************************************************************************)
EXTENDS WritePath, TLC

CONSTANTS o1, o2, o3, k1, k2

(* Three calls on one key. *)
OneKey == [o \in Ops |-> k1]
(* Two calls that share a key, and one without will_id. *)
TwoAndUntracked == [o \in Ops |-> IF o = o3 THEN NoKey ELSE k1]
(* One key each for the first two calls. *)
OwnKeys == [o \in Ops |-> IF o = o1 THEN k1 ELSE k2]

OwnArgs == [o \in Ops |-> o]

(* The wallet never answers the first call. *)
Hung == {o1}
HungSpec == Spec /\ HungFairness(Hung)

(* A call made after another one was aborted settles, though the wallet    *)
(* never answers the one aborted (serializeWrite).                         *)
FreshCall == FreshCallAfterAbort(Hung)

Symmetry == Permutations(Ops)
=============================================================================
