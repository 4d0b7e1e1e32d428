--------------------------- MODULE MultisigCollector ---------------------------
(***************************************************************************)
(* MultisigCollector of multisig.ts: collectors of one transaction, each   *)
(* on a device of its own, which gather the signatures of its signers,     *)
(* are stored or sent with toJSON() and made again with fromJSON(), reset, *)
(* and built into a signed transaction once enough have signed, unless     *)
(* the time for it is over.                                                *)
(*                                                                         *)
(* A signature is of this transaction or of another one: addSignature()    *)
(* checks whose it is, by its hint, and not what it signs.  The order that *)
(* build() gives signatures is left out.                                   *)
(***************************************************************************)
EXTENDS Naturals, FiniteSets

CONSTANTS
  MsCollectors,  (* Devices.                                               *)
  MsSigners,     (* Accounts that may sign.                                *)
  MsThreshold,   (* Option threshold.                                      *)
  MsTimeout,     (* Option timeoutMs, or MsNone.                           *)
  MsMaxAge,      (* Bound: the age of a collection that is told apart.     *)
  MsNone

ASSUME MultisigAssumption ==
  /\ MsThreshold \in Nat \ {0}
  /\ MsTimeout # MsNone => MsTimeout \in 1..MsMaxAge

VARIABLES
  signatures,  (* What each collector has.                                 *)
  startedAt,   (* How long ago each has started.                           *)
  stored,      (* The last state that was stored or sent, or MsNone.       *)
  built        (* What build() of each has put into the transaction.       *)

msVars == <<signatures, startedAt, stored, built>>

(* A signature: who is said to have made it, and of this transaction. *)
MsSignatures == MsSigners \X BOOLEAN
SignersOf(sigs) == {sig[1] : sig \in sigs}

MultisigInit ==
  /\ signatures = [c \in MsCollectors |-> {}]
  /\ startedAt = [c \in MsCollectors |-> 0]
  /\ stored = MsNone
  /\ built = [c \in MsCollectors |-> {}]

IsReady(c) == Cardinality(signatures[c]) >= MsThreshold

IsTimedOut(c) == MsTimeout # MsNone /\ ~IsReady(c) /\ startedAt[c] >= MsTimeout

(* Mutant: a signer may sign again. *)
NewInAnyCase(sigs, signer) == TRUE

NewSigner(sigs, signer) == signer \notin SignersOf(sigs)
-----------------------------------------------------------------------------
(* addSignature() of what a signer has sent, of this transaction or of     *)
(* another; all else throws.                                               *)
AddSignature(c, sig) ==
  /\ ~IsTimedOut(c)
  /\ NewSigner(signatures[c], sig[1])
  /\ signatures' = [signatures EXCEPT ![c] = @ \cup {sig}]
  /\ UNCHANGED <<startedAt, stored, built>>

ResetCollection(c) ==
  /\ signatures' = [signatures EXCEPT ![c] = {}]
  /\ startedAt' = [startedAt EXCEPT ![c] = 0]
  /\ UNCHANGED <<stored, built>>

ToJSON(c) ==
  /\ stored' = signatures[c]
  /\ UNCHANGED <<signatures, startedAt, built>>

(* fromJSON(): a new collector, whose time begins now, and to which the    *)
(* signatures are added one after another.                                 *)
FromJSON(c) ==
  /\ stored # MsNone
  /\ Cardinality(SignersOf(stored)) = Cardinality(stored)
  /\ signatures' = [signatures EXCEPT ![c] = stored]
  /\ startedAt' = [startedAt EXCEPT ![c] = 0]
  /\ UNCHANGED <<stored, built>>

(* build(): the envelope is decoded anew; the collector stays as it is. *)
BuildTransaction(c) ==
  /\ ~IsTimedOut(c) /\ IsReady(c)
  /\ built' = [built EXCEPT ![c] = signatures[c]]
  /\ UNCHANGED <<signatures, startedAt, stored>>

MsTick ==
  /\ startedAt' = [c \in MsCollectors |->
       IF startedAt[c] < MsMaxAge THEN startedAt[c] + 1 ELSE MsMaxAge]
  /\ UNCHANGED <<signatures, stored, built>>

MultisigNext ==
  \/ \E c \in MsCollectors :
       \/ \E sig \in MsSignatures : AddSignature(c, sig)
       \/ ResetCollection(c) \/ ToJSON(c) \/ FromJSON(c) \/ BuildTransaction(c)
  \/ MsTick

MultisigSpec == MultisigInit /\ [][MultisigNext]_msVars
-----------------------------------------------------------------------------
(* A built transaction carries signatures of as many different signers as  *)
(* it needs, and each signer's once, through stores, resets and copies.    *)
BuiltBySigners ==
  \A c \in MsCollectors : built[c] # {} =>
    Cardinality(SignersOf(built[c])) = Cardinality(built[c])
    /\ Cardinality(built[c]) >= MsThreshold
-----------------------------------------------------------------------------
(* What the documentation says and the code does not do.                   *)

(* "isReady: Whether enough signatures have been collected to submit": the *)
(* ledger takes those of this transaction.                                 *)
ReadyCanBeSubmitted ==
  \A c \in MsCollectors : IsReady(c) =>
    Cardinality({sig \in signatures[c] : sig[2]}) >= MsThreshold

(* "Throws if the coordination timeout has elapsed": a collection that was *)
(* late stays so until it is reset.                                        *)
LateStaysLate ==
  [][\A c \in MsCollectors :
       IsTimedOut(c) /\ ~IsTimedOut(c)' => signatures'[c] = {}]_msVars
=============================================================================
