------------------------- MODULE MCRpcEndpointPool -------------------------
(***************************************************************************)
(* Instances of RpcEndpointPool for TLC.                                   *)
(***************************************************************************)
EXTENDS RpcEndpointPool, TLC

CONSTANTS a, b

(* The delays of the model are those of the code: base * 2^(failures - 1), *)
(* up to the most (recordEndpointBackoff()).                               *)
ASSUME DelaysDouble ==
  \A base, most \in 1..9 :
    LET after[f \in 1..6] ==
          IF f = 1 THEN Lesser(base, most) ELSE Doubled(after[f - 1], most)
    IN \A f \in 1..6 : after[f] = Lesser(base * 2^(f - 1), most)

Symmetry == Permutations(Calls)
=============================================================================
