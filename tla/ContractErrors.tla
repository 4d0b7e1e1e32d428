---------------------------- MODULE ContractErrors ----------------------------
(***************************************************************************)
(* mapContractError() of errors.ts.  An error is the sequence of itself    *)
(* and its causes, each with its class and the code of a contract error    *)
(* that its message names; a SimulationError has the code in a field of    *)
(* its own.                                                                *)
(***************************************************************************)
EXTENDS Integers, Sequences, SequencesExt, FiniteSetsExt

CONSTANTS
  NoCode,        (* No code is named.                                      *)
  KnownCodes     (* The codes of CONTRACT_ERRORS.                          *)

ASSUME ContractErrorsAssumption == NoCode \notin Int /\ KnownCodes \subseteq Nat

MaxDepth == 5

(* errorText(), searched for a code: the first in the messages it joins. *)
NamedCode(error) ==
  LET named == {i \in DOMAIN error : i <= MaxDepth /\ error[i].code # NoCode}
  IN IF named = {} THEN NoCode ELSE error[Min(named)].code

Wrap(class, code, error) == <<[class |-> class, code |-> code, field |-> NoCode]>> \o error

MapContractError(error) ==
  LET simulated == IF error[1].class = "simulation" THEN error[1].field ELSE NoCode
      named == NamedCode(error)
  IN IF error[1].class \in {"contract", "timeout"} THEN error
     ELSE IF simulated \in KnownCodes THEN Wrap("contract", simulated, error)
     ELSE IF named = NoCode THEN error
     ELSE IF named \in KnownCodes THEN Wrap("contract", named, error)
     ELSE Wrap("unknownCode", named, error)
=============================================================================
