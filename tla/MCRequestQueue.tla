-------------------------- MODULE MCRequestQueue --------------------------
(***************************************************************************)
(* Instances of RequestQueue for TLC.                                      *)
(***************************************************************************)
EXTENDS RequestQueue, TLC

CONSTANTS r1, r2, r3, r4, r5

(* One urgent request among the others. *)
OneUrgent == [r \in Requests |-> IF r = r1 THEN 2 ELSE 1]

Symmetry == Permutations(Requests)
SymmetryButUrgent == Permutations(Requests \ {r1})
=============================================================================
