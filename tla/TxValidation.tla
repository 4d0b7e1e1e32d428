----------------------------- MODULE TxValidation -----------------------------
(***************************************************************************)
(* The checks of txValidation.ts on a transaction before it is signed and  *)
(* before it is sent.  An operation is a record with its type, its source  *)
(* account and its body; that of a host function has the function's kind   *)
(* and authorizations, and for a contract the contract, the name and the   *)
(* arguments.  Their XDR is compared as what it encodes.                   *)
(***************************************************************************)
EXTENDS Naturals, Sequences

(* operationsMatch(): of contract calls what is called, of host functions  *)
(* of another kind nothing, of other operations everything.                *)
SameCall(intended, prepared) ==
  /\ intended.contract = prepared.contract
  /\ intended.name = prepared.name
  /\ Len(intended.args) = Len(prepared.args)
  /\ \A i \in DOMAIN intended.args : intended.args[i] = prepared.args[i]

OperationsMatch(intended, prepared) ==
  /\ intended.type = prepared.type
  /\ IF intended.type = "hostFunction"
     THEN /\ intended.body.kind = prepared.body.kind
          /\ intended.body.kind = "invokeContract"
          /\ SameCall(intended.body.call, prepared.body.call)
     ELSE intended = prepared

(* readOperationsFromEnvelope(): of a fee bump, those of what it wraps. *)
Operations(envelope) ==
  IF envelope.kind = "feeBump" THEN envelope.inner.operations ELSE envelope.operations

(* assertPreparedTransactionMatchesIntendedOperation(), with the status of *)
(* a simulation or "none"; "other" is any that is not "SUCCESS".           *)
TransactionsMatch(intended, prepared, status) ==
  LET wanted == Operations(intended)
      found == Operations(prepared)
  IN /\ status # "other"
     /\ Len(found) = Len(wanted)
     /\ \A i \in DOMAIN wanted : OperationsMatch(wanted[i], found[i])

(* assertSupportedSignatureAlgorithm(): a signature has its size, a hint,  *)
(* its key and the transaction it signs; with keys to expect, that of the  *)
(* first with its hint.                                                    *)
WellFormed(signature) == signature.size = "64" /\ signature.hintSize = "4"

Verifies(signature, key, transaction) ==
  signature.by = key /\ signature.over = transaction

SupportedSignatures(signatures, transaction, hintOf, expected) ==
  \A i \in DOMAIN signatures :
    LET candidates == {n \in DOMAIN expected : hintOf[expected[n]] = signatures[i].hint}
    IN /\ WellFormed(signatures[i])
       /\ expected # <<>> =>
            \E n \in candidates :
              /\ \A m \in candidates : n <= m
              /\ Verifies(signatures[i], expected[n], transaction)
=============================================================================
