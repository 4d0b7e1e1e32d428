----------------------------- MODULE WritePath -----------------------------
(***************************************************************************)
(* The state-changing path of SoroWillClient: invoke() registers the call  *)
(* with the in-flight tracker, runs the hooks, loads the contract spec and *)
(* hands a transaction to submit(), which runs one submission at a time on *)
(* a promise chain.  The caller's promise and the submission are two       *)
(* processes: an abort settles the first and does not stop the second.     *)
(*                                                                         *)
(* The ledger, the RPC nodes and the wallet are external.  The request     *)
(* that sends a transaction goes on by itself once the queue has started   *)
(* it: fail-over, the retries of timeouts and those of rate limits         *)
(* transmit at any later moment, after a timeout too.  A transaction that  *)
(* was ever transmitted may be applied at any later moment while its       *)
(* sequence number is the next one of the account, or never: this covers   *)
(* lost and late answers, resends and a full mempool.                      *)
(***************************************************************************)
EXTENDS Naturals, FiniteSets

CONSTANTS
  Ops,            (* Invocations: one per call of a state-changing method.   *)
  Keys,           (* Tracker keys: (willId, method) pairs.                   *)
  NoKey,          (* The key of a call without will_id, which is untracked.  *)
  None,           (* No invocation.                                          *)
  KeyOf,          (* The tracker key of each invocation.                     *)
  ArgOf,          (* The arguments of each invocation.                       *)
  ExclusiveKeys,  (* Keys of methods routed through trackExclusive.          *)
  MaxInFlight,    (* Capacity of the tracker.                                *)
  AutoBump,       (* Option autoFeeBumpOnTimeout.                            *)
  AsyncHooks,     (* Asynchronous hooks are registered.                      *)
  MaxLag,         (* Ledgers an RPC node may lag behind when read.           *)
  WithSignal,     (* Invocations whose caller passes options.signal.         *)
  Events,         (* Bound: which events of the environment are explored.    *)
  MaxSeq          (* Bound: account sequence numbers explored.               *)

ASSUME WritePathAssumption ==
  /\ NoKey \notin Keys
  /\ None \notin Ops
  /\ KeyOf \in [Ops -> Keys \cup {NoKey}]
  /\ ExclusiveKeys \subseteq Keys
  /\ MaxInFlight \in Nat \ {0}
  /\ AutoBump \in BOOLEAN
  /\ AsyncHooks \in BOOLEAN
  /\ MaxLag \in Nat
  /\ WithSignal \subseteq Ops
  /\ Events \subseteq {"cancel", "destroy", "expire", "other"}
  /\ MaxSeq \in Nat

VARIABLES
  call,         (* Where execute() of each invocation is.                    *)
  leader,       (* The invocation whose promise a coalesced caller shares.   *)
  entry,        (* InFlightTracker.inFlight: the owner of each key.          *)
  calls,        (* Number of calls that reached the tracker.                 *)
  issued,       (* Order of those calls: the insertion order of the map.     *)
  expired,      (* Tracked invocations older than the tracker's TTL.         *)
  aborted,      (* Invocations whose tracker signal fired.                   *)
  userAborted,  (* Invocations whose options.signal fired.                   *)
  hooking,      (* HookManager.executing, with the invocation that set it.   *)
  destroyed,    (* destroy() was called.                                     *)
  sub,          (* Where submitUnserialized() of each invocation is.         *)
  pos,          (* Place of the submission on writeChain, 0 when not on it.  *)
  links,        (* Number of submissions put on writeChain so far.           *)
  done,         (* Number of submissions of the chain that have finished.    *)
  signing,      (* signedTransactionHashes.                                  *)
  seq,          (* Sequence number of the invocation's transactions.         *)
  ledgerSeq,    (* External: current sequence number of the account.         *)
  handed,       (* Transactions whose request to send them has started.      *)
  sent,         (* External: transactions transmitted to some RPC node.      *)
  landed        (* External: transactions applied, with their outcome.       *)

callerVars == <<call, leader, entry, calls, issued, expired, hooking>>
signalVars == <<aborted, userAborted, destroyed>>
submitVars == <<sub, pos, links, done, signing, seq>>
ledgerVars == <<ledgerSeq, handed, sent, landed>>
vars == <<callerVars, signalVars, submitVars, ledgerVars>>

CallStates == {"idle", "joined", "before", "spec", "racing",
               "afterOk", "afterErr", "ok", "failed"}
SubStates == {"none", "queued", "prepare", "sign", "send", "reply", "poll",
              "bumpPrepare", "bumpSign", "bumpSend", "bumpReply", "bumpPoll",
              "ok", "failed"}
Kinds == {"orig", "bump"}

(* Mutant: the replacement takes the number after the pending transaction. *)
TxOnNextNumber(o, kind) ==
  [op |-> o, kind |-> kind, seq |-> IF kind = "bump" THEN seq[o] + 1 ELSE seq[o]]

(* The transaction built for o, and the one that replaces it: the second   *)
(* is rebuilt from an Account one below the pending transaction's sequence *)
(* number, so that it reuses that number.                                  *)
Tx(o, kind) == [op |-> o, kind |-> kind, seq |-> seq[o]]

(* What the prepared XDR of o identifies: its content and sequence number. *)
SignKey(o) == <<KeyOf[o], ArgOf[o], seq[o]>>

Init ==
  /\ call = [o \in Ops |-> "idle"]
  /\ leader = [o \in Ops |-> None]
  /\ entry = [k \in Keys |-> None]
  /\ calls = 0
  /\ issued = [o \in Ops |-> 0]
  /\ expired = {}
  /\ aborted = {}
  /\ userAborted = {}
  /\ hooking = None
  /\ destroyed = FALSE
  /\ sub = [o \in Ops |-> "none"]
  /\ pos = [o \in Ops |-> 0]
  /\ links = 0
  /\ done = 0
  /\ signing = {}
  /\ seq = [o \in Ops |-> 0]
  /\ ledgerSeq = 0
  /\ handed = {}
  /\ sent = {}
  /\ landed = {}
-----------------------------------------------------------------------------
(* The tracker: which entries a new call finds and which ones it drops.    *)

Signalled == aborted \cup userAborted

(* The invocations that own an entry. *)
InFlight == {o \in Ops : \E k \in Keys : entry[k] = o}
Live == InFlight \ expired

(* An unexpired entry exists for the key of o. *)
Occupied(o) == entry[KeyOf[o]] \in Live

(* evictOldest(): at capacity, the first entry in insertion order goes. *)
Oldest ==
  IF Cardinality(Live) >= MaxInFlight
  THEN {o \in Live : \A p \in Live : issued[o] <= issued[p]}
  ELSE {}

(* pruneExpired() and evictOldest() abort what they drop. *)
Dropped == (InFlight \cap expired) \cup Oldest

Without(S) == [k \in Keys |-> IF entry[k] \in S THEN None ELSE entry[k]]

(* Mutant: the finally removes whatever entry the key has. *)
ReleaseKey(o) == [k \in Keys |-> IF k = KeyOf[o] THEN None ELSE entry[k]]

(* The finally of track(): only the entry this call created is removed. *)
ReleaseEntry(o) == Without({o})
-----------------------------------------------------------------------------
(* Settling of the caller's promise.                                       *)

Settle(o, outcome) ==
  /\ call' = [call EXCEPT ![o] = outcome]
  /\ entry' = ReleaseEntry(o)

(* runAfterInvoke(): asynchronous hooks keep `executing` set while they    *)
(* run.  When another invocation's hooks hold it, HookRecursionError is    *)
(* thrown: a success becomes a failure, a failure is only logged.          *)
Complete(o, ok) ==
  IF AsyncHooks /\ hooking = None
  THEN /\ call' = [call EXCEPT ![o] = IF ok THEN "afterOk" ELSE "afterErr"]
       /\ hooking' = o
       /\ UNCHANGED entry
  ELSE /\ Settle(o, IF ok /\ hooking = None THEN "ok" ELSE "failed")
       /\ UNCHANGED hooking
-----------------------------------------------------------------------------
(* invoke().                                                               *)

(* A call without will_id is not tracked: execute() starts at once. *)
CallUntracked(o) ==
  /\ call[o] = "idle"
  /\ KeyOf[o] = NoKey
  /\ IF hooking # None
     THEN call' = [call EXCEPT ![o] = "failed"] /\ UNCHANGED hooking
     ELSE /\ call' = [call EXCEPT ![o] = IF AsyncHooks THEN "before" ELSE "spec"]
          /\ hooking' = IF AsyncHooks THEN o ELSE None
  /\ UNCHANGED <<leader, entry, calls, issued, expired, signalVars, submitVars, ledgerVars>>

(* trackExclusive() rejects the duplicate of an operation in flight. *)
CallDuplicate(o) ==
  /\ call[o] = "idle"
  /\ KeyOf[o] \in ExclusiveKeys
  /\ Occupied(o)
  /\ call' = [call EXCEPT ![o] = "failed"]
  /\ UNCHANGED <<leader, entry, calls, issued, expired, hooking, signalVars, submitVars, ledgerVars>>

(* track() hands out the promise of the operation in flight. *)
CallJoin(o) ==
  /\ call[o] = "idle"
  /\ KeyOf[o] \in Keys \ ExclusiveKeys
  /\ Occupied(o)
  /\ call' = [call EXCEPT ![o] = "joined"]
  /\ leader' = [leader EXCEPT ![o] = entry[KeyOf[o]]]
  /\ UNCHANGED <<entry, calls, issued, expired, hooking, signalVars, submitVars, ledgerVars>>

(* track() prunes, evicts, starts execute() and inserts the entry.  The    *)
(* hooks run first; they are refused while another invocation's hooks run, *)
(* and the entry is then gone as soon as the rejection is delivered.       *)
CallTracked(o) ==
  /\ call[o] = "idle"
  /\ KeyOf[o] \in Keys
  /\ ~Occupied(o)
  /\ aborted' = aborted \cup Dropped
  /\ expired' = expired \ Dropped
  /\ calls' = calls + 1
  /\ issued' = [issued EXCEPT ![o] = calls + 1]
  /\ IF hooking # None
     THEN /\ call' = [call EXCEPT ![o] = "failed"]
          /\ entry' = Without(Dropped)
          /\ UNCHANGED hooking
     ELSE /\ call' = [call EXCEPT ![o] = IF AsyncHooks THEN "before" ELSE "spec"]
          /\ entry' = [Without(Dropped) EXCEPT ![KeyOf[o]] = o]
          /\ hooking' = IF AsyncHooks THEN o ELSE None
  /\ UNCHANGED <<leader, userAborted, destroyed, submitVars, ledgerVars>>

(* The beforeInvoke hooks let the call proceed; the signals are checked. *)
HooksProceed(o) ==
  /\ call[o] = "before"
  /\ o \notin Signalled
  /\ call' = [call EXCEPT ![o] = "spec"]
  /\ hooking' = None
  /\ UNCHANGED <<leader, entry, calls, issued, expired, signalVars, submitVars, ledgerVars>>

(* A hook returned false, or a signal fired meanwhile: the afterInvoke     *)
(* hooks run next with the error (the hand-over is one microtask).         *)
HooksVeto(o) ==
  /\ call[o] = "before"
  /\ call' = [call EXCEPT ![o] = "afterErr"]
  /\ UNCHANGED <<leader, entry, calls, issued, expired, hooking, signalVars, submitVars, ledgerVars>>

(* A hook threw: no afterInvoke hook runs. *)
HooksThrow(o) ==
  /\ call[o] = "before"
  /\ Settle(o, "failed")
  /\ hooking' = None
  /\ UNCHANGED <<leader, calls, issued, expired, signalVars, submitVars, ledgerVars>>

(* getSpec() resolves.  The argument of Promise.race is evaluated first:   *)
(* the submission joins writeChain even when a signal has already fired.   *)
SpecLoaded(o) ==
  /\ call[o] = "spec"
  /\ call' = [call EXCEPT ![o] = "racing"]
  /\ sub' = [sub EXCEPT ![o] = "queued"]
  /\ links' = links + 1
  /\ pos' = [pos EXCEPT ![o] = links + 1]
  /\ UNCHANGED <<leader, entry, calls, issued, expired, hooking, signalVars, done, signing, seq, ledgerVars>>

SpecFails(o) ==
  /\ call[o] = "spec"
  /\ Complete(o, FALSE)
  /\ UNCHANGED <<leader, calls, issued, expired, signalVars, submitVars, ledgerVars>>

(* A fired signal wins the race: the caller is rejected. *)
RaceAborted(o) ==
  /\ call[o] = "racing"
  /\ o \in Signalled
  /\ Complete(o, FALSE)
  /\ UNCHANGED <<leader, calls, issued, expired, signalVars, submitVars, ledgerVars>>

(* The afterInvoke hooks of o are over; the promise settles. *)
AfterHooks(o) ==
  /\ call[o] \in {"afterOk", "afterErr"}
  /\ Settle(o, IF call[o] = "afterOk" THEN "ok" ELSE "failed")
  /\ hooking' = None
  /\ UNCHANGED <<leader, calls, issued, expired, signalVars, submitVars, ledgerVars>>
-----------------------------------------------------------------------------
(* Signals and the tracker's clock.                                        *)

(* options.signal of the call that started the operation. *)
UserAbort(o) ==
  /\ o \in WithSignal
  /\ call[o] \in {"before", "spec", "racing"} \/ sub[o] \notin {"none", "ok", "failed"}
  /\ o \notin userAborted
  /\ userAborted' = userAborted \cup {o}
  /\ UNCHANGED <<callerVars, aborted, destroyed, submitVars, ledgerVars>>

(* cancelOperation(): the tracker aborts the entry and frees its key. *)
CancelOperation(k) ==
  /\ "cancel" \in Events
  /\ entry[k] # None
  /\ aborted' = aborted \cup {entry[k]}
  /\ entry' = [entry EXCEPT ![k] = None]
  /\ UNCHANGED <<call, leader, calls, issued, expired, hooking, userAborted, destroyed, submitVars, ledgerVars>>

(* destroy(): every tracked operation is aborted.  The RPC requests it     *)
(* rejects from the queue fail as any request may (SubFail, PollFails).    *)
Destroy ==
  /\ "destroy" \in Events
  /\ ~destroyed
  /\ destroyed' = TRUE
  /\ aborted' = aborted \cup InFlight
  /\ entry' = [k \in Keys |-> None]
  /\ UNCHANGED <<call, leader, calls, issued, expired, hooking, userAborted, submitVars, ledgerVars>>

(* The TTL of an entry runs out; older entries run out first. *)
Age(o) ==
  /\ "expire" \in Events
  /\ o \in Live
  /\ \A p \in Live : issued[o] <= issued[p]
  /\ expired' = expired \cup {o}
  /\ UNCHANGED <<call, leader, entry, calls, issued, hooking, signalVars, submitVars, ledgerVars>>
-----------------------------------------------------------------------------
(* submitUnserialized(), one link of writeChain at a time.                 *)

(* Mutant: every submission starts as soon as it is handed over. *)
TurnAtOnce(o) == pos[o] # 0

(* The links before that of o have finished. *)
Turn(o) == pos[o] = done + 1

(* Mutant: no signal is passed on to the submission. *)
UnstoppedAlways(o) == o \in Ops

(* throwIfAborted() and the request queue stop a link whose options.signal *)
(* fired; the tracker's signal is not looked at.                           *)
Unstopped(o) == o \notin userAborted

(* Mutant: the rejection of a link poisons the chain. *)
SubEndPoisonsChain(o, ok) ==
  /\ sub' = [sub EXCEPT ![o] = IF ok THEN "ok" ELSE "failed"]
  /\ done' = IF ok THEN done + 1 ELSE done
  /\ signing' = signing \ {SignKey(o)}
  /\ IF call[o] = "racing" /\ o \notin Signalled
     THEN Complete(o, ok)
     ELSE UNCHANGED <<call, entry, hooking>>
  /\ UNCHANGED <<leader, calls, issued, expired, signalVars, pos, links, seq, ledgerVars>>

(* Mutant: the chain's own catch swallows the rejection. *)
SubEndSwallowsFailure(o, ok) ==
  /\ sub' = [sub EXCEPT ![o] = IF ok THEN "ok" ELSE "failed"]
  /\ done' = done + 1
  /\ signing' = signing \ {SignKey(o)}
  /\ IF ok /\ call[o] = "racing" /\ o \notin Signalled
     THEN Complete(o, ok)
     ELSE UNCHANGED <<call, entry, hooking>>
  /\ UNCHANGED <<leader, calls, issued, expired, signalVars, pos, links, seq, ledgerVars>>

(* Mutant: a caller that was told of the abort is told again. *)
SubEndTellsAgain(o, ok) ==
  /\ sub' = [sub EXCEPT ![o] = IF ok THEN "ok" ELSE "failed"]
  /\ done' = done + 1
  /\ signing' = signing \ {SignKey(o)}
  /\ Complete(o, ok)
  /\ UNCHANGED <<leader, calls, issued, expired, signalVars, pos, links, seq, ledgerVars>>

(* The link of o ends; the caller is told unless a signal won the race. *)
SubEnd(o, ok) ==
  /\ sub' = [sub EXCEPT ![o] = IF ok THEN "ok" ELSE "failed"]
  /\ done' = done + 1
  /\ signing' = signing \ {SignKey(o)}
  /\ IF call[o] = "racing" /\ o \notin Signalled
     THEN Complete(o, ok)
     ELSE UNCHANGED <<call, entry, hooking>>
  /\ UNCHANGED <<leader, calls, issued, expired, signalVars, pos, links, seq, ledgerVars>>

SubGoto(o, from, to) ==
  /\ sub[o] = from
  /\ Turn(o)
  /\ sub' = [sub EXCEPT ![o] = to]

(* getAccount(): the node that answers may lag behind the ledger. *)
LoadAccount(o) ==
  /\ SubGoto(o, "queued", "prepare")
  /\ Unstopped(o)
  /\ \E s \in 0..ledgerSeq :
       /\ ledgerSeq <= s + MaxLag
       /\ seq' = [seq EXCEPT ![o] = s + 1]
  /\ UNCHANGED <<callerVars, signalVars, pos, links, done, signing, ledgerVars>>

(* prepareTransaction() simulates; the prepared XDR must not be in         *)
(* signedTransactionHashes already.                                        *)
Prepare(o) ==
  /\ SubGoto(o, "prepare", "sign")
  /\ Unstopped(o)
  /\ SignKey(o) \notin signing
  /\ signing' = signing \cup {SignKey(o)}
  /\ UNCHANGED <<callerVars, signalVars, pos, links, done, seq, ledgerVars>>

(* wallet.signTransaction() resolves with a valid signature. *)
Sign(o) ==
  /\ SubGoto(o, "sign", "send")
  /\ Unstopped(o)
  /\ UNCHANGED <<callerVars, signalVars, pos, links, done, signing, seq, ledgerVars>>

(* The request that sends the transaction leaves the queue, which takes    *)
(* its listener off options.signal.                                        *)
Send(o) ==
  /\ SubGoto(o, "send", "reply")
  /\ Unstopped(o)
  /\ handed' = handed \cup {Tx(o, "orig")}
  /\ UNCHANGED <<callerVars, signalVars, pos, links, done, signing, seq, ledgerSeq, sent, landed>>

(* An attempt of such a request reaches a node: the first one, that of     *)
(* another endpoint, or one after a timeout or a rate limit.  None of them *)
(* looks at a signal, at the caller or at the link, which may be over.     *)
Transmit(tx) ==
  /\ tx \in handed \ sent
  /\ sent' = sent \cup {tx}
  /\ UNCHANGED <<callerVars, signalVars, submitVars, ledgerSeq, handed, landed>>

(* sendTransaction() answers PENDING or DUPLICATE. *)
Reply(o) ==
  /\ SubGoto(o, "reply", "poll")
  /\ Unstopped(o)
  /\ Tx(o, "orig") \in sent
  /\ UNCHANGED <<callerVars, signalVars, pos, links, done, signing, seq, ledgerVars>>

(* Mutant: the status of the applied transaction is not looked at. *)
AppliedAnyhow(o, kind, ok) == \E r \in BOOLEAN : [tx |-> Tx(o, kind), ok |-> r] \in landed

(* pollTransaction() finds the transaction applied with success. *)
Applied(o, kind, ok) == [tx |-> Tx(o, kind), ok |-> ok] \in landed

PollSucceeds(o) ==
  /\ Turn(o)
  /\ \/ sub[o] = "poll" /\ Applied(o, "orig", TRUE)
     \/ sub[o] = "bumpPoll" /\ Applied(o, "bump", TRUE)
  /\ SubEnd(o, TRUE)

(* The poll of the original ends without success: with the option, any     *)
(* such end leads to the resubmission, else the error is thrown.           *)
PollEndsWithoutSuccess(o) ==
  IF AutoBump
  THEN /\ SubGoto(o, "poll", "bumpPrepare")
       /\ UNCHANGED <<callerVars, signalVars, pos, links, done, signing, seq, ledgerVars>>
  ELSE /\ sub[o] = "poll"
       /\ Turn(o)
       /\ SubEnd(o, FALSE)

(* The request times out or fails, or its signal fires. *)
PollFails(o) == PollEndsWithoutSuccess(o)

(* The transaction was applied and its invocation failed. *)
PollFindsFailure(o) ==
  /\ Applied(o, "orig", FALSE)
  /\ PollEndsWithoutSuccess(o)

(* computeBumpedFee(), a rebuild on the same sequence number, simulation. *)
BumpPrepare(o) ==
  /\ SubGoto(o, "bumpPrepare", "bumpSign")
  /\ Unstopped(o)
  /\ UNCHANGED <<callerVars, signalVars, pos, links, done, signing, seq, ledgerVars>>

(* signWithWallet(): no signal is looked at before or after it. *)
BumpSign(o) ==
  /\ SubGoto(o, "bumpSign", "bumpSend")
  /\ UNCHANGED <<callerVars, signalVars, pos, links, done, signing, seq, ledgerVars>>

BumpSend(o) ==
  /\ SubGoto(o, "bumpSend", "bumpReply")
  /\ Unstopped(o)
  /\ handed' = handed \cup {Tx(o, "bump")}
  /\ UNCHANGED <<callerVars, signalVars, pos, links, done, signing, seq, ledgerSeq, sent, landed>>

(* Any answer but ERROR is polled, TRY_AGAIN_LATER too. *)
BumpReply(o) ==
  /\ SubGoto(o, "bumpReply", "bumpPoll")
  /\ Tx(o, "bump") \in sent
  /\ UNCHANGED <<callerVars, signalVars, pos, links, done, signing, seq, ledgerVars>>

(* Every other end of a link: a wallet on another network, an RPC error,   *)
(* timeout or rejection by destroy(), a failed simulation, a refused       *)
(* signature, an ERROR or TRY_AGAIN_LATER answer, a fired options.signal.  *)
SubFail(o) ==
  /\ sub[o] \notin {"none", "poll", "ok", "failed"}
  /\ Turn(o)
  /\ SubEnd(o, FALSE)
-----------------------------------------------------------------------------
(* The account on the ledger (external).                                   *)

(* A transmitted transaction with the next sequence number is applied; the *)
(* number is consumed whether or not the contract call succeeds.           *)
Land(tx, ok) ==
  /\ tx \in sent
  /\ tx.seq = ledgerSeq + 1
  /\ ledgerSeq < MaxSeq
  /\ ledgerSeq' = ledgerSeq + 1
  /\ landed' = landed \cup {[tx |-> tx, ok |-> ok]}
  /\ UNCHANGED <<callerVars, signalVars, submitVars, handed, sent>>

(* The account's owner, another client or submitSignedTransaction() uses   *)
(* the next sequence number.                                               *)
OtherTransaction ==
  /\ "other" \in Events
  /\ ledgerSeq < MaxSeq
  /\ ledgerSeq' = ledgerSeq + 1
  /\ UNCHANGED <<callerVars, signalVars, submitVars, handed, sent, landed>>
-----------------------------------------------------------------------------
Call(o) == CallUntracked(o) \/ CallDuplicate(o) \/ CallJoin(o) \/ CallTracked(o)

CallStep(o) ==
  \/ HooksProceed(o) \/ HooksVeto(o) \/ HooksThrow(o)
  \/ SpecLoaded(o) \/ SpecFails(o)
  \/ RaceAborted(o)
  \/ AfterHooks(o)

(* The wallet's part of a link, and the rest of it. *)
WalletStep(o) == Sign(o) \/ BumpSign(o)

RpcStep(o) ==
  \/ LoadAccount(o) \/ Prepare(o) \/ Send(o) \/ Reply(o)
  \/ PollSucceeds(o) \/ PollFails(o) \/ PollFindsFailure(o)
  \/ BumpPrepare(o) \/ BumpSend(o) \/ BumpReply(o)

Next ==
  \/ \E o \in Ops : \/ Call(o) \/ CallStep(o)
                    \/ WalletStep(o) \/ RpcStep(o) \/ SubFail(o)
                    \/ UserAbort(o) \/ Age(o)
  \/ \E k \in Keys : CancelOperation(k)
  \/ Destroy
  \/ \E tx \in handed : Transmit(tx)
  \/ \E tx \in sent, ok \in BOOLEAN : Land(tx, ok)
  \/ OtherTransaction

Spec == Init /\ [][Next]_vars

(* The hooks return, the spec request and every RPC request end (the       *)
(* request queue times them out), and the user answers the wallet: the     *)
(* code sets that no time (FreshCallAfterAbort).  Callers, signals and the *)
(* ledger owe nothing.                                                     *)
Fairness ==
  \A o \in Ops : /\ WF_vars(CallStep(o))
                 /\ WF_vars(WalletStep(o) \/ RpcStep(o) \/ SubFail(o))

FairSpec == Spec /\ Fairness
-----------------------------------------------------------------------------
Settled(o) ==
  \/ call[o] \in {"ok", "failed"}
  \/ call[o] = "joined" /\ call[leader[o]] \in {"ok", "failed"}

Pending(o) == call[o] \in {"before", "spec", "racing", "afterOk", "afterErr"}

(* Types: every variable has the shape its comment says. *)
TypeOK ==
  /\ call \in [Ops -> CallStates]
  /\ leader \in [Ops -> Ops \cup {None}]
  /\ entry \in [Keys -> Ops \cup {None}]
  /\ calls \in Nat
  /\ issued \in [Ops -> Nat]
  /\ expired \subseteq Ops
  /\ aborted \subseteq Ops
  /\ userAborted \subseteq Ops
  /\ hooking \in Ops \cup {None}
  /\ destroyed \in BOOLEAN
  /\ sub \in [Ops -> SubStates]
  /\ pos \in [Ops -> Nat]
  /\ links \in Nat
  /\ done \in Nat
  /\ seq \in [Ops -> Nat]
  /\ ledgerSeq \in Nat
  /\ handed \subseteq [op : Ops, kind : Kinds, seq : Nat]
  /\ sent \subseteq handed
  /\ landed \subseteq [tx : sent, ok : BOOLEAN]

(* One invocation is applied at most once, however often its envelope is   *)
(* resent by fail-over, replaced by a higher fee, aborted or reported as   *)
(* failed (the comment on sendTransaction in submitUnserialized).          *)
AtMostOnce == \A e, f \in landed : e.tx.op = f.tx.op => e = f

(* A call reports success only when its own invocation was applied and     *)
(* succeeded on the ledger (invoke, waitForTransaction).                   *)
SuccessMeansLanded ==
  \A o \in Ops : call[o] \in {"afterOk", "ok"} =>
    \E e \in landed : e.tx.op = o /\ e.ok

(* "a retried operation can never land after an operation that was issued  *)
(* later" (serializeWrite): applied transactions are in the order of the   *)
(* chain, even when a poll timed out and its transaction is still around.  *)
LandsInChainOrder ==
  \A e, f \in landed : pos[e.tx.op] < pos[f.tx.op] => e.tx.seq < f.tx.seq

(* Two unaborted calls never own the same (willId, method) at a time       *)
(* (track, trackExclusive): the tracker's entry outlives its caller's wait *)
(* unless it is aborted, and a settling call removes no entry but its own. *)
ExclusiveAdmission ==
  \A o, p \in Ops :
    /\ o # p /\ KeyOf[o] = KeyOf[p] /\ KeyOf[o] # NoKey
    /\ Pending(o) /\ Pending(p)
    => o \in aborted \/ p \in aborted

(* A request to send a transaction, the bump too, starts only for a caller *)
(* that still waits, or after an abort through the tracker, and never once *)
(* options.signal has fired, whatever the caller was told meanwhile        *)
(* (invoke, submitUnserialized, rpc).  What its retries transmit later is  *)
(* not stopped by anything: NothingSentAfterSignal.                        *)
HandedForAWaitingCaller ==
  [][\A tx \in handed' \ handed :
       /\ tx.op \notin userAborted
       /\ Pending(tx.op) \/ tx.op \in aborted]_vars

(* What an invocation did on the ledger, and what its caller was told: a   *)
(* coalesced caller is told what the call it joined is told.               *)
Effect == [o \in Ops |->
  IF \E e \in landed : e.tx.op = o /\ e.ok THEN "ok"
  ELSE IF \E e \in landed : e.tx.op = o THEN "failed" ELSE "none"]

Answering(o) == IF call[o] = "joined" THEN leader[o] ELSE o

Verdict == [o \in Ops |->
  IF call[Answering(o)] \in {"ok", "failed"} THEN call[Answering(o)] ELSE "open"]

Promise == INSTANCE OperationLedger WITH place <- pos, effect <- Effect, verdict <- Verdict

(* The write path implements the ledger of operations: tracker, hooks,     *)
(* chain, resends and fee bumps amount to operations that line up while    *)
(* their caller waits, take effect once and in order, and are reported to  *)
(* their caller and those who joined it, once.                             *)
ImplementsPromise == Promise!Spec

(* Every call settles and every link of writeChain ends, failures and      *)
(* aborts included: a failed link never poisons the chain.  A call that    *)
(* has settled and a link that has ended stay so and the calls are finite  *)
(* in number, so from some moment on none that was made is left.           *)
EveryCallSettles == <>[](\A o \in Ops : call[o] # "idle" => Settled(o))
EveryLinkEnds == <>[](\A o \in Ops : pos[o] # 0 => sub[o] \in {"ok", "failed"})
-----------------------------------------------------------------------------
(* What the documentation and the tests say and the code does not do.      *)

(* destroy(): "so nothing continues running in the background after        *)
(* teardown".                                                              *)
NothingSentAfterDestroy == [][destroyed => sent' = sent]_vars

(* RequestQueue: "an aborted request never runs"; one whose options.signal *)
(* fires after its start goes on, and transmits again.                     *)
NothingSentAfterSignal == [][\A tx \in sent' \ sent : tx.op \notin userAborted]_vars

(* HookManager: an afterInvoke hook "must never convert an                 *)
(* otherwise-successful (or already-failed) invocation into a different    *)
(* outcome for the caller".                                                *)
HooksKeepTheOutcome ==
  \A o \in Ops : sub[o] = "ok" /\ o \notin Signalled =>
                   call[o] \notin {"afterErr", "failed"}

(* The tracker deduplicates "identical" requests: a coalesced caller shares *)
(* the outcome of a call with its own arguments.                           *)
JoinedCallIsIdentical ==
  \A o \in Ops : call[o] = "joined" => ArgOf[leader[o]] = ArgOf[o]

(* The returned hash is that of the transaction the call was applied in. *)
ReturnedHashLanded ==
  \A o \in Ops : call[o] = "ok" => \E e \in landed : e.tx = Tx(o, "orig")

(* autoFeeBumpOnTimeout resubmits when a transaction "doesn't land within  *)
(* the poll window", not when it landed and failed.                        *)
BumpOnlyOnTimeout ==
  [][\A o \in Ops : PollFindsFailure(o) => sub'[o] # "bumpPrepare"]_vars

(* "allows a fresh operation after an aborted one": a wallet that never    *)
(* answers an aborted call does not hold up the calls made later.          *)
HungFairness(H) ==
  /\ \A o \in Ops : /\ WF_vars(CallStep(o))
                    /\ WF_vars(RpcStep(o) \/ (sub[o] # "sign" /\ sub[o] # "bumpSign" /\ SubFail(o)))
  /\ \A o \in Ops \ H : WF_vars(WalletStep(o))
FreshCallAfterAbort(H) ==
  \A o \in Ops \ H : call[o] # "idle" /\ H \subseteq userAborted ~> Settled(o)
=============================================================================
