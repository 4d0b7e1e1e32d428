-------------------------- MODULE WritePathProofs --------------------------
(***************************************************************************)
(* Proofs about WritePath, for every set of invocations and keys and every *)
(* value of its options: its types, the safety properties that the runs    *)
(* of MCWritePath check on small instances, and the refinement.            *)
(***************************************************************************)
EXTENDS WritePath, TLAPS

(* Every step of one invocation. *)
OpStep(o) == \/ Call(o) \/ CallStep(o)
             \/ WalletStep(o) \/ RpcStep(o) \/ SubFail(o)
             \/ UserAbort(o) \/ Age(o)

(* The ways a call settles and a link ends are operators shared by several *)
(* actions; what they leave behind is stated once.                         *)

(* Whoever releases an entry leaves a function from keys to owners. *)
LEMMA WithoutType ==
  ASSUME TypeOK, NEW S
  PROVE  Without(S) \in [Keys -> Ops \cup {None}]
  BY DEF TypeOK, Without

(* Completing a call keeps the types of what it changes. *)
LEMMA CompleteType ==
  ASSUME TypeOK, NEW o \in Ops, NEW ok \in BOOLEAN, Complete(o, ok)
  PROVE  /\ call' \in [Ops -> CallStates]
         /\ entry' \in [Keys -> Ops \cup {None}]
         /\ hooking' \in Ops \cup {None}
  BY WithoutType DEF Complete, Settle, ReleaseEntry, TypeOK, CallStates

(* The end of a link keeps the types. *)
LEMMA SubEndType ==
  ASSUME TypeOK, NEW o \in Ops, NEW ok \in BOOLEAN, SubEnd(o, ok)
  PROVE  TypeOK'
<1>1. /\ call' \in [Ops -> CallStates]
      /\ entry' \in [Keys -> Ops \cup {None}]
      /\ hooking' \in Ops \cup {None}
  BY CompleteType DEF SubEnd, TypeOK
<1>2. /\ sub' \in [Ops -> SubStates]
      /\ done' \in Nat
  BY DEF SubEnd, TypeOK, SubStates
<1> QED
  BY <1>1, <1>2 DEF SubEnd, TypeOK, signalVars, ledgerVars

(* The transactions transmitted are well typed. *)
LEMMA TxType ==
  ASSUME TypeOK, NEW o \in Ops, NEW kind \in Kinds
  PROVE  Tx(o, kind) \in [op : Ops, kind : Kinds, seq : Nat]
  BY DEF TypeOK, Tx

(* The caller's side of an invocation keeps the types. *)
LEMMA CallType ==
  ASSUME WritePathAssumption, TypeOK, NEW o \in Ops, Call(o) \/ CallStep(o)
  PROVE  TypeOK'
<1> USE DEF signalVars, submitVars, ledgerVars
<1>1. CASE CallUntracked(o)
  BY <1>1 DEF CallUntracked, TypeOK, CallStates
<1>2. CASE CallDuplicate(o)
  BY <1>2 DEF CallDuplicate, TypeOK, CallStates
<1>3. CASE CallJoin(o)
  BY <1>3 DEF CallJoin, TypeOK, CallStates
<1>4. CASE CallTracked(o)
  <2>1. /\ call' \in [Ops -> CallStates]
        /\ hooking' \in Ops \cup {None}
    BY <1>4 DEF CallTracked, TypeOK, CallStates
  <2>2. entry' \in [Keys -> Ops \cup {None}]
    BY <1>4, WithoutType DEF CallTracked, TypeOK
  <2>3. Dropped \subseteq Ops
    BY DEF Dropped, Oldest, Live, InFlight
  <2>4. /\ aborted' \subseteq Ops /\ expired' \subseteq Ops
        /\ calls' \in Nat /\ issued' \in [Ops -> Nat]
    BY <1>4, <2>3 DEF CallTracked, TypeOK
  <2> QED
    BY <1>4, <2>1, <2>2, <2>4 DEF CallTracked, TypeOK
<1>5. CASE HooksProceed(o)
  BY <1>5 DEF HooksProceed, TypeOK, CallStates
<1>6. CASE HooksVeto(o)
  BY <1>6 DEF HooksVeto, TypeOK, CallStates
<1>7. CASE HooksThrow(o)
  BY <1>7, WithoutType DEF HooksThrow, Settle, ReleaseEntry, TypeOK, CallStates
<1>8. CASE SpecLoaded(o)
  BY <1>8 DEF SpecLoaded, TypeOK, CallStates, SubStates
<1>9. CASE SpecFails(o)
  BY <1>9, CompleteType DEF SpecFails, TypeOK
<1>10. CASE RaceAborted(o)
  BY <1>10, CompleteType DEF RaceAborted, TypeOK
<1>11. CASE AfterHooks(o)
  BY <1>11, WithoutType DEF AfterHooks, Settle, ReleaseEntry, TypeOK, CallStates
<1> QED
  BY <1>1, <1>2, <1>3, <1>4, <1>5, <1>6, <1>7, <1>8, <1>9, <1>10, <1>11
  DEF Call, CallStep

(* The links of writeChain keep the types. *)
LEMMA LinkType ==
  ASSUME TypeOK, NEW o \in Ops, WalletStep(o) \/ RpcStep(o) \/ SubFail(o)
  PROVE  TypeOK'
<1> USE DEF callerVars, signalVars, ledgerVars
<1>1. CASE LoadAccount(o)
  <2>1. PICK s \in 0..ledgerSeq : seq' = [seq EXCEPT ![o] = s + 1]
    BY <1>1 DEF LoadAccount
  <2> QED
    BY <1>1, <2>1 DEF LoadAccount, SubGoto, TypeOK, SubStates
<1>2. CASE Prepare(o)
  BY <1>2 DEF Prepare, SubGoto, TypeOK, SubStates
<1>3. CASE Sign(o)
  BY <1>3 DEF Sign, SubGoto, TypeOK, SubStates
<1>4. CASE Send(o)
  <2>1. handed \subseteq handed' /\ handed' \subseteq [op : Ops, kind : Kinds, seq : Nat]
    BY <1>4, TxType DEF Send, TypeOK, Kinds
  <2> QED
    BY <1>4, <2>1 DEF Send, SubGoto, TypeOK, SubStates
<1>5. CASE Reply(o)
  BY <1>5 DEF Reply, SubGoto, TypeOK, SubStates
<1>6. CASE PollSucceeds(o)
  BY <1>6, SubEndType DEF PollSucceeds
<1>7. CASE PollEndsWithoutSuccess(o)
  <2>1. CASE AutoBump
    BY <1>7, <2>1 DEF PollEndsWithoutSuccess, SubGoto, TypeOK, SubStates
  <2>2. CASE ~AutoBump
    BY <1>7, <2>2, SubEndType DEF PollEndsWithoutSuccess
  <2> QED
    BY <2>1, <2>2
<1>8. CASE BumpPrepare(o)
  BY <1>8 DEF BumpPrepare, SubGoto, TypeOK, SubStates
<1>9. CASE BumpSign(o)
  BY <1>9 DEF BumpSign, SubGoto, TypeOK, SubStates
<1>10. CASE BumpSend(o)
  <2>1. handed \subseteq handed' /\ handed' \subseteq [op : Ops, kind : Kinds, seq : Nat]
    BY <1>10, TxType DEF BumpSend, TypeOK, Kinds
  <2> QED
    BY <1>10, <2>1 DEF BumpSend, SubGoto, TypeOK, SubStates
<1>11. CASE BumpReply(o)
  BY <1>11 DEF BumpReply, SubGoto, TypeOK, SubStates
<1>12. CASE SubFail(o)
  BY <1>12, SubEndType DEF SubFail
<1> QED
  BY <1>1, <1>2, <1>3, <1>4, <1>5, <1>6, <1>7, <1>8, <1>9, <1>10, <1>11, <1>12
  DEF WalletStep, RpcStep, PollFails, PollFindsFailure

(* Every step keeps the types. *)
LEMMA TypeStep ==
  ASSUME WritePathAssumption, TypeOK, [Next]_vars
  PROVE  TypeOK'
<1> USE DEF callerVars, signalVars, submitVars, ledgerVars
<1>1. ASSUME NEW o \in Ops, OpStep(o)
      PROVE  TypeOK'
  <2>1. CASE UserAbort(o)
    BY <2>1 DEF UserAbort, TypeOK
  <2>2. CASE Age(o)
    BY <2>2 DEF Age, TypeOK
  <2> QED
    BY <1>1, <2>1, <2>2, CallType, LinkType DEF OpStep
<1>2. ASSUME NEW k \in Keys, CancelOperation(k)
      PROVE  TypeOK'
  BY <1>2 DEF CancelOperation, TypeOK
<1>3. CASE Destroy
  BY <1>3 DEF Destroy, InFlight, TypeOK
<1>4. ASSUME NEW tx \in sent, NEW ok \in BOOLEAN, Land(tx, ok)
      PROVE  TypeOK'
  BY <1>4 DEF Land, TypeOK
<1>5. CASE OtherTransaction
  BY <1>5 DEF OtherTransaction, TypeOK
<1>6. CASE UNCHANGED vars
  BY <1>6 DEF vars, TypeOK
<1>7. ASSUME NEW tx \in handed, Transmit(tx)
      PROVE  TypeOK'
  <2>1. sent \subseteq sent' /\ sent' \subseteq handed'
    BY <1>7 DEF Transmit, TypeOK
  <2> QED
    BY <1>7, <2>1 DEF Transmit, TypeOK
<1> QED
  BY <1>1, <1>2, <1>3, <1>4, <1>5, <1>6, <1>7 DEF Next, OpStep

(* The variables keep their types: the tracker's map, the chain and the    *)
(* ledger stay well formed whatever the order of calls, answers and aborts *)
(* (InFlightTracker, serializeWrite, submitUnserialized).                  *)
THEOREM TypeCorrect == Spec => []TypeOK
<1>1. ASSUME Init
      PROVE  TypeOK
  <2>1. /\ call \in [Ops -> CallStates]
        /\ sub \in [Ops -> SubStates]
    BY <1>1 DEF Init, CallStates, SubStates
  <2>2. /\ handed \subseteq [op : Ops, kind : Kinds, seq : Nat]
        /\ sent \subseteq handed
        /\ landed \subseteq [tx : sent, ok : BOOLEAN]
    BY <1>1 DEF Init
  <2> QED
    BY <1>1, <2>1, <2>2 DEF Init, TypeOK
<1>2. TypeOK /\ [Next]_vars => TypeOK'
  BY WritePathAssumption, TypeStep
<1> QED
  BY <1>1, <1>2, PTL DEF Spec
-----------------------------------------------------------------------------
(* The ledger's side.  The invariant relates what was sent and applied to  *)
(* the place of each submission on the chain.                              *)

(* o has got past getAccount(), or its link ended before. *)
Loaded(o) == sub[o] \notin {"none", "queued"}

(* No transaction of o can be applied any more. *)
Dead(o) == seq[o] <= ledgerSeq /\ \A e \in landed : e.tx.op # o

(* A submission joins the chain once, and its number is set once. *)
LoadedOnce ==
  \A o \in Ops : /\ call[o] \in {"idle", "before", "spec"} => sub[o] = "none"
                 /\ ~Loaded(o) => seq[o] = 0
                 /\ seq[o] <= ledgerSeq + 1

(* What was handed to the queue, and so what was sent, carries the number  *)
(* of its submission: a resend and a replacement reuse it.                 *)
SentAsLoaded == \A tx \in handed : tx.seq = seq[tx.op] /\ Loaded(tx.op)

(* The account applies one transaction per number. *)
OnePerNumber ==
  \A e \in landed : /\ e.tx.seq <= ledgerSeq
                    /\ \A f \in landed : e.tx.seq = f.tx.seq => e = f

(* The links start one after another. *)
ChainPlaces == \A o \in Ops : Loaded(o) => pos[o] <= done + 1

(* A later link loads a later number, or one that is used up already. *)
ChainOrder ==
  \A o, p \in Ops :
    Loaded(o) /\ Loaded(p) /\ pos[o] < pos[p] => seq[o] <= seq[p] \/ Dead(p)

LedgerInv == LoadedOnce /\ SentAsLoaded /\ OnePerNumber /\ ChainPlaces /\ ChainOrder

(* What the steps of a link do to these variables. *)
Joins(o) ==
  /\ sub[o] = "none"
  /\ call' = [call EXCEPT ![o] = "racing"]
  /\ sub' = [sub EXCEPT ![o] = "queued"]
  /\ pos' = [pos EXCEPT ![o] = links + 1]
  /\ UNCHANGED <<done, seq, ledgerVars>>
Loads(o) ==
  /\ sub[o] = "queued"
  /\ Turn(o)
  /\ sub' = [sub EXCEPT ![o] = "prepare"]
  /\ \E s \in 0..ledgerSeq : seq' = [seq EXCEPT ![o] = s + 1]
  /\ UNCHANGED <<pos, done, call, ledgerVars>>
Moves(o) ==
  /\ Loaded(o)
  /\ \E x \in SubStates \ {"none", "queued"} : sub' = [sub EXCEPT ![o] = x]
  /\ handed' \subseteq handed \cup {Tx(o, "orig"), Tx(o, "bump")}
  /\ UNCHANGED <<pos, done, seq, call, ledgerSeq, sent, landed>>
Ends(o) ==
  /\ sub[o] # "none"
  /\ Turn(o)
  /\ \E x \in {"ok", "failed"} : sub' = [sub EXCEPT ![o] = x]
  /\ done' = done + 1
  /\ \A p \in Ops : call'[p] # call[p] => call'[p] \in {"afterOk", "afterErr", "ok", "failed"}
  /\ UNCHANGED <<pos, seq, ledgerVars>>
Waits ==
  /\ \A p \in Ops : call'[p] \in {"idle", "before", "spec"}
                    => call[p] \in {"idle", "before", "spec"}
  /\ UNCHANGED <<sub, pos, done, seq, ledgerVars>>

(* A step of the caller's side joins the chain or leaves it alone. *)
LEMMA CallShape ==
  ASSUME TypeOK, LoadedOnce, NEW o \in Ops, Call(o) \/ CallStep(o)
  PROVE  Joins(o) \/ Waits
<1> USE DEF TypeOK, submitVars, ledgerVars, Waits
<1>1. CASE CallUntracked(o)
  BY <1>1 DEF CallUntracked
<1>2. CASE CallDuplicate(o)
  BY <1>2 DEF CallDuplicate
<1>3. CASE CallJoin(o)
  BY <1>3 DEF CallJoin
<1>4. CASE CallTracked(o)
  BY <1>4 DEF CallTracked
<1>5. CASE HooksProceed(o)
  BY <1>5 DEF HooksProceed
<1>6. CASE HooksVeto(o)
  BY <1>6 DEF HooksVeto
<1>7. CASE HooksThrow(o)
  BY <1>7 DEF HooksThrow, Settle
<1>8. CASE SpecLoaded(o)
  BY <1>8 DEF SpecLoaded, Joins, LoadedOnce
<1>9. CASE SpecFails(o)
  BY <1>9 DEF SpecFails, Complete, Settle
<1>10. CASE RaceAborted(o)
  BY <1>10 DEF RaceAborted, Complete, Settle
<1>11. CASE AfterHooks(o)
  BY <1>11 DEF AfterHooks, Settle
<1> QED
  BY <1>1, <1>2, <1>3, <1>4, <1>5, <1>6, <1>7, <1>8, <1>9, <1>10, <1>11
  DEF Call, CallStep

(* The end of a link, seen from the chain. *)
LEMMA SubEndShape ==
  ASSUME TypeOK, NEW o \in Ops, NEW ok \in BOOLEAN, SubEnd(o, ok), Turn(o),
         sub[o] # "none"
  PROVE  Ends(o)
  BY DEF SubEnd, Complete, Settle, Ends, TypeOK, signalVars, ledgerVars

(* A step of a link loads the account, moves on or ends the link. *)
LEMMA LinkShape ==
  ASSUME TypeOK, NEW o \in Ops, WalletStep(o) \/ RpcStep(o) \/ SubFail(o)
  PROVE  Loads(o) \/ Moves(o) \/ Ends(o)
<1> USE DEF callerVars, ledgerVars, SubGoto, SubStates, Moves, Loaded
<1>1. CASE LoadAccount(o)
  BY <1>1 DEF LoadAccount, Loads
<1>2. CASE Prepare(o)
  BY <1>2 DEF Prepare
<1>3. CASE Sign(o)
  BY <1>3 DEF Sign
<1>4. CASE Send(o)
  BY <1>4 DEF Send
<1>5. CASE Reply(o)
  BY <1>5 DEF Reply
<1>6. CASE PollSucceeds(o)
  BY <1>6, SubEndShape DEF PollSucceeds
<1>7. CASE PollEndsWithoutSuccess(o)
  <2>1. CASE AutoBump
    BY <1>7, <2>1 DEF PollEndsWithoutSuccess
  <2>2. CASE ~AutoBump
    BY <1>7, <2>2, SubEndShape DEF PollEndsWithoutSuccess
  <2> QED
    BY <2>1, <2>2
<1>8. CASE BumpPrepare(o)
  BY <1>8 DEF BumpPrepare
<1>9. CASE BumpSign(o)
  BY <1>9 DEF BumpSign
<1>10. CASE BumpSend(o)
  BY <1>10 DEF BumpSend
<1>11. CASE BumpReply(o)
  BY <1>11 DEF BumpReply
<1>12. CASE SubFail(o)
  BY <1>12, SubEndShape DEF SubFail
<1> QED
  BY <1>1, <1>2, <1>3, <1>4, <1>5, <1>6, <1>7, <1>8, <1>9, <1>10, <1>11, <1>12
  DEF WalletStep, RpcStep, PollFails, PollFindsFailure

(* Joining the chain disturbs nothing that was loaded. *)
LEMMA JoinsLedger ==
  ASSUME TypeOK, LedgerInv, NEW o \in Ops, Joins(o)
  PROVE  LedgerInv'
<1> USE DEF Joins, Loaded, TypeOK, LedgerInv, ledgerVars
<1>1. LoadedOnce'
  BY DEF LoadedOnce
<1>2. SentAsLoaded' /\ OnePerNumber'
  BY DEF SentAsLoaded, OnePerNumber
<1>3. ChainPlaces'
  BY DEF ChainPlaces
<1>4. ChainOrder'
  BY DEF ChainOrder, Dead
<1> QED
  BY <1>1, <1>2, <1>3, <1>4

(* getAccount() answers a number that no earlier link can still need. *)
LEMMA LoadsLedger ==
  ASSUME TypeOK, LedgerInv, NEW o \in Ops, Loads(o)
  PROVE  LedgerInv'
<1> USE DEF Loads, Loaded, TypeOK, LedgerInv, ledgerVars
<1>1. PICK s \in 0..ledgerSeq : seq' = [seq EXCEPT ![o] = s + 1]
  OBVIOUS
<1>2. LoadedOnce'
  BY <1>1 DEF LoadedOnce
<1>3. \A tx \in handed : tx.op \in Ops /\ tx.op # o
  BY DEF SentAsLoaded
<1>4. SentAsLoaded' /\ OnePerNumber'
  BY <1>1, <1>3 DEF SentAsLoaded, OnePerNumber
<1>5. ChainPlaces'
  BY DEF ChainPlaces, Turn
<1>6. \A e \in landed : e.tx.op # o
  BY <1>3
<1>7. ASSUME NEW p \in Ops, NEW q \in Ops,
             Loaded(p)', Loaded(q)', pos[p] < pos[q]
      PROVE  seq'[p] <= seq'[q] \/ Dead(q)'
  <2>1. CASE p # o /\ q # o
    BY <1>1, <1>7, <2>1 DEF ChainOrder, Dead
  <2>2. CASE q = o
    BY <1>1, <1>6, <1>7, <2>2 DEF LoadedOnce, Dead
  <2>3. CASE p = o /\ q # o
    BY <1>7, <2>3 DEF ChainPlaces, Turn
  <2> QED
    BY <2>1, <2>2, <2>3
<1> QED
  BY <1>2, <1>4, <1>5, <1>7 DEF ChainOrder

(* Sending a transaction of a loaded submission keeps its number. *)
LEMMA MovesLedger ==
  ASSUME TypeOK, LedgerInv, NEW o \in Ops, Moves(o)
  PROVE  LedgerInv'
<1> USE DEF Moves, Loaded, TypeOK, LedgerInv, ledgerVars, SubStates
<1>1. LoadedOnce'
  BY DEF LoadedOnce
<1>2. SentAsLoaded' /\ OnePerNumber'
  BY DEF SentAsLoaded, OnePerNumber, Tx
<1>3. ChainPlaces'
  BY DEF ChainPlaces
<1>4. ChainOrder'
  BY DEF ChainOrder, Dead
<1> QED
  BY <1>1, <1>2, <1>3, <1>4

(* The end of a link lets the next one start. *)
LEMMA EndsLedger ==
  ASSUME TypeOK, LedgerInv, NEW o \in Ops, Ends(o)
  PROVE  LedgerInv'
<1> USE DEF Ends, Loaded, TypeOK, LedgerInv, ledgerVars
<1>1. LoadedOnce'
  BY DEF LoadedOnce
<1>2. SentAsLoaded' /\ OnePerNumber'
  BY DEF SentAsLoaded, OnePerNumber
<1>3. ChainPlaces'
  BY DEF ChainPlaces, Turn
<1>4. ASSUME NEW p \in Ops, NEW q \in Ops,
             Loaded(p)', Loaded(q)', pos[p] < pos[q]
      PROVE  seq[p] <= seq[q] \/ Dead(q)
  <2>1. CASE Loaded(p) /\ Loaded(q)
    BY <1>4, <2>1 DEF ChainOrder
  <2>2. CASE ~Loaded(p)
    BY <2>2 DEF LoadedOnce
  <2>3. CASE ~Loaded(q)
    BY <2>3 DEF LoadedOnce, SentAsLoaded, Dead
  <2> QED
    BY <2>1, <2>2, <2>3
<1>5. ChainOrder'
  BY <1>4 DEF ChainOrder, Dead
<1> QED
  BY <1>1, <1>2, <1>3, <1>5

(* The account applies only the transaction that carries its next number. *)
LEMMA LandLedger ==
  ASSUME TypeOK, LedgerInv, NEW tx \in sent, NEW ok \in BOOLEAN, Land(tx, ok)
  PROVE  LedgerInv'
<1> USE DEF Land, Loaded, TypeOK, LedgerInv, callerVars, submitVars
<1>1. LoadedOnce' /\ SentAsLoaded' /\ ChainPlaces'
  BY DEF LoadedOnce, SentAsLoaded, ChainPlaces
<1>2. OnePerNumber'
  BY DEF OnePerNumber
<1>3. ChainOrder'
  BY DEF ChainOrder, SentAsLoaded, Dead
<1> QED
  BY <1>1, <1>2, <1>3

(* The invariant of the ledger's side is preserved by every step. *)
LEMMA LedgerStep ==
  ASSUME TypeOK, LedgerInv, [Next]_vars
  PROVE  LedgerInv'
<1> USE DEF callerVars, signalVars, submitVars, ledgerVars
<1>1. ASSUME Waits
      PROVE  LedgerInv'
  BY <1>1 DEF Waits, LedgerInv, LoadedOnce, Loaded, SentAsLoaded, OnePerNumber,
              ChainPlaces, ChainOrder, Dead
<1>2. ASSUME NEW o \in Ops, OpStep(o)
      PROVE  LedgerInv'
  <2>1. CASE Call(o) \/ CallStep(o)
    BY <1>1, <2>1, CallShape, JoinsLedger DEF LedgerInv
  <2>2. CASE WalletStep(o) \/ RpcStep(o) \/ SubFail(o)
    BY <2>2, LinkShape, LoadsLedger, MovesLedger, EndsLedger
  <2>3. CASE UserAbort(o)
    BY <1>1, <2>3 DEF UserAbort, Waits
  <2>4. CASE Age(o)
    BY <1>1, <2>4 DEF Age, Waits
  <2> QED
    BY <1>2, <2>1, <2>2, <2>3, <2>4 DEF OpStep
<1>3. ASSUME NEW k \in Keys, CancelOperation(k)
      PROVE  LedgerInv'
  BY <1>1, <1>3 DEF CancelOperation, Waits
<1>4. CASE Destroy
  BY <1>1, <1>4 DEF Destroy, Waits
<1>5. ASSUME NEW tx \in sent, NEW ok \in BOOLEAN, Land(tx, ok)
      PROVE  LedgerInv'
  BY <1>5, LandLedger
<1>6. CASE OtherTransaction
  BY <1>6 DEF OtherTransaction, LedgerInv, LoadedOnce, Loaded, SentAsLoaded,
              OnePerNumber, ChainPlaces, ChainOrder, Dead, TypeOK
<1>7. CASE UNCHANGED vars
  BY <1>1, <1>7 DEF vars, Waits
<1>8. ASSUME NEW tx \in handed, Transmit(tx)
      PROVE  LedgerInv'
  BY <1>8 DEF Transmit, LedgerInv, LoadedOnce, Loaded, SentAsLoaded, OnePerNumber,
              ChainPlaces, ChainOrder, Dead
<1> QED
  BY <1>2, <1>3, <1>4, <1>5, <1>6, <1>7, <1>8 DEF Next, OpStep

(* The ledger's invariant holds throughout. *)
LEMMA LedgerCorrect == Spec => []LedgerInv
<1>1. Init => LedgerInv
  BY DEF Init, LedgerInv, LoadedOnce, Loaded, SentAsLoaded, OnePerNumber,
         ChainPlaces, ChainOrder, Dead
<1>2. TypeOK /\ LedgerInv /\ [Next]_vars => LedgerInv'
  BY LedgerStep
<1> QED
  BY <1>1, <1>2, TypeCorrect, PTL DEF Spec

(* An invocation is applied at most once: fail-over resends, fee           *)
(* replacements and timeouts never execute it twice.                       *)
THEOREM AppliedAtMostOnce == Spec => []AtMostOnce
<1>1. TypeOK /\ LedgerInv => AtMostOnce
  BY DEF TypeOK, LedgerInv, SentAsLoaded, OnePerNumber, AtMostOnce
<1> QED
  BY <1>1, TypeCorrect, LedgerCorrect, PTL

(* Applied transactions are in the order of writeChain, late ones too. *)
THEOREM AppliedInChainOrder == Spec => []LandsInChainOrder
<1>1. ASSUME TypeOK, LedgerInv, NEW e \in landed, NEW f \in landed,
             pos[e.tx.op] < pos[f.tx.op]
      PROVE  e.tx.seq < f.tx.seq
  <2>1. /\ e.tx \in handed /\ f.tx \in handed
        /\ e.tx.op \in Ops /\ f.tx.op \in Ops
        /\ e.tx.seq \in Nat /\ f.tx.seq \in Nat
    BY <1>1 DEF TypeOK
  <2>2. e.tx.seq <= f.tx.seq
    BY <1>1, <2>1 DEF LedgerInv, SentAsLoaded, ChainOrder, Dead
  <2>3. e.tx.seq # f.tx.seq
    BY <1>1, <2>1 DEF LedgerInv, OnePerNumber, TypeOK
  <2> QED
    BY <2>1, <2>2, <2>3
<1>2. TypeOK /\ LedgerInv => LandsInChainOrder
  BY <1>1 DEF LandsInChainOrder
<1> QED
  BY <1>2, TypeCorrect, LedgerCorrect, PTL
-----------------------------------------------------------------------------
(* The caller's side.                                                      *)

(* A tracked call that waits and was not aborted owns the entry of its key. *)
OwnsEntry ==
  \A o \in Ops : Pending(o) /\ KeyOf[o] # NoKey /\ o \notin aborted => entry[KeyOf[o]] = o

(* A call whose link is not over still waits, unless a signal fired. *)
StillAwaited ==
  \A o \in Ops : sub[o] \notin {"none", "ok", "failed"} =>
                   call[o] = "racing" \/ o \in Signalled

CallerInv == OwnsEntry /\ StillAwaited /\ SuccessMeansLanded

(* A settling call takes no entry but its own with it. *)
LEMMA SettleCaller ==
  ASSUME TypeOK, WritePathAssumption, OwnsEntry, NEW o \in Ops,
         NEW outcome \in {"ok", "failed"}, Settle(o, outcome), UNCHANGED aborted
  PROVE  OwnsEntry'
  BY DEF OwnsEntry, Settle, ReleaseEntry, Without, Pending, TypeOK, WritePathAssumption

(* Nor does a completing one. *)
LEMMA CompleteCaller ==
  ASSUME TypeOK, WritePathAssumption, OwnsEntry, NEW o \in Ops, NEW ok \in BOOLEAN,
         Complete(o, ok), Pending(o), UNCHANGED aborted
  PROVE  OwnsEntry'
<1>1. CASE AsyncHooks /\ hooking = None
  BY <1>1 DEF Complete, OwnsEntry, Pending, TypeOK
<1>2. CASE ~(AsyncHooks /\ hooking = None)
  BY <1>2, SettleCaller DEF Complete
<1> QED
  BY <1>1, <1>2

(* The end of a link tells the caller once, and only of what was applied. *)
LEMMA SubEndCaller ==
  ASSUME TypeOK, WritePathAssumption, CallerInv, NEW o \in Ops, NEW ok \in BOOLEAN,
         SubEnd(o, ok), ok => \E e \in landed : e.tx.op = o /\ e.ok
  PROVE  CallerInv'
<1> USE DEF CallerInv, signalVars, ledgerVars
<1>1. OwnsEntry'
  <2>1. CASE call[o] = "racing" /\ o \notin Signalled
    BY <2>1, CompleteCaller DEF SubEnd, Pending
  <2>2. CASE ~(call[o] = "racing" /\ o \notin Signalled)
    BY <2>2 DEF SubEnd, OwnsEntry, Pending
  <2> QED
    BY <2>1, <2>2
<1>2. StillAwaited'
  BY DEF SubEnd, Complete, Settle, StillAwaited, Signalled, TypeOK
<1>3. SuccessMeansLanded'
  BY DEF SubEnd, Complete, Settle, SuccessMeansLanded, TypeOK
<1> QED
  BY <1>1, <1>2, <1>3

(* The entries that track() drops belong to calls it aborts. *)
LEMMA TrackedCaller ==
  ASSUME TypeOK, WritePathAssumption, CallerInv, NEW o \in Ops, CallTracked(o)
  PROVE  OwnsEntry'
<1> USE DEF CallTracked
<1>1. \A p \in Ops : entry[KeyOf[o]] = p => p \in Dropped
  BY DEF Occupied, Live, InFlight, Dropped, WritePathAssumption
<1>2. ASSUME NEW p \in Ops, p # o, Pending(p)', KeyOf[p] # NoKey, p \notin aborted'
      PROVE  entry'[KeyOf[p]] = p
  <2>1. Pending(p) /\ p \notin aborted /\ p \notin Dropped
    BY <1>2 DEF Pending, TypeOK
  <2>2. entry[KeyOf[p]] = p /\ KeyOf[p] \in Keys /\ KeyOf[p] # KeyOf[o]
    BY <1>1, <1>2, <2>1 DEF CallerInv, OwnsEntry, WritePathAssumption
  <2>3. Without(Dropped)[KeyOf[p]] = p
    BY <2>1, <2>2 DEF Without
  <2> QED
    BY <2>2, <2>3, WithoutType
<1>3. ASSUME Pending(o)'
      PROVE  entry'[KeyOf[o]] = o
  BY <1>3, WithoutType DEF Pending, TypeOK
<1> QED
  BY <1>2, <1>3 DEF OwnsEntry

(* Each step of the caller's side. *)
LEMMA CallCaller ==
  ASSUME TypeOK, WritePathAssumption, CallerInv, NEW o \in Ops, Call(o) \/ CallStep(o),
         LoadedOnce
  PROVE  CallerInv'
<1> USE DEF CallerInv, OwnsEntry, StillAwaited, SuccessMeansLanded, Pending, Signalled,
            TypeOK, signalVars, submitVars, ledgerVars
<1>1. CASE CallUntracked(o)
  BY <1>1 DEF CallUntracked, LoadedOnce
<1>2. CASE CallDuplicate(o)
  BY <1>2 DEF CallDuplicate, LoadedOnce
<1>3. CASE CallJoin(o)
  BY <1>3 DEF CallJoin, LoadedOnce
<1>4. CASE CallTracked(o)
  <2>1. OwnsEntry'
    BY <1>4, TrackedCaller
  <2>2. StillAwaited' /\ SuccessMeansLanded'
    BY <1>4 DEF CallTracked, LoadedOnce
  <2> QED
    BY <2>1, <2>2
<1>5. CASE HooksProceed(o)
  BY <1>5 DEF HooksProceed, LoadedOnce
<1>6. CASE HooksVeto(o)
  BY <1>6 DEF HooksVeto, LoadedOnce
<1>7. CASE HooksThrow(o)
  <2>1. OwnsEntry'
    BY <1>7, SettleCaller DEF HooksThrow
  <2>2. StillAwaited' /\ SuccessMeansLanded'
    BY <1>7 DEF HooksThrow, LoadedOnce, Settle
  <2> QED
    BY <2>1, <2>2
<1>8. CASE SpecLoaded(o)
  BY <1>8 DEF SpecLoaded
<1>9. CASE SpecFails(o)
  BY <1>9, CompleteCaller DEF SpecFails, LoadedOnce, Complete, Settle
<1>10. CASE RaceAborted(o)
  <2>1. OwnsEntry'
    BY <1>10, CompleteCaller DEF RaceAborted
  <2>2. StillAwaited' /\ SuccessMeansLanded'
    BY <1>10 DEF RaceAborted, Complete, Settle
  <2> QED
    BY <2>1, <2>2
<1>11. CASE AfterHooks(o)
  <2>1. OwnsEntry'
    BY <1>11, SettleCaller DEF AfterHooks
  <2>2. StillAwaited' /\ SuccessMeansLanded'
    BY <1>11 DEF AfterHooks, Settle
  <2> QED
    BY <2>1, <2>2
<1> QED
  BY <1>1, <1>2, <1>3, <1>4, <1>5, <1>6, <1>7, <1>8, <1>9, <1>10, <1>11
  DEF Call, CallStep

(* Each step of a link. *)
LEMMA LinkCaller ==
  ASSUME TypeOK, WritePathAssumption, CallerInv, NEW o \in Ops,
         WalletStep(o) \/ RpcStep(o) \/ SubFail(o)
  PROVE  CallerInv'
<1> DEFINE Goes == \E x \in SubStates : sub[o] \notin {"none", "ok", "failed"}
                                      /\ sub' = [sub EXCEPT ![o] = x]
<1>1. ASSUME Goes, UNCHANGED <<callerVars, signalVars, landed>>
      PROVE  CallerInv'
  BY <1>1 DEF CallerInv, OwnsEntry, StillAwaited, SuccessMeansLanded, Pending, Signalled,
              TypeOK, callerVars, signalVars
<1>2. CASE LoadAccount(o) \/ Prepare(o) \/ Sign(o) \/ Send(o) \/ Reply(o)
           \/ BumpPrepare(o) \/ BumpSign(o) \/ BumpSend(o) \/ BumpReply(o)
  BY <1>1, <1>2 DEF LoadAccount, Prepare, Sign, Send, Reply, BumpPrepare, BumpSign,
                    BumpSend, BumpReply, SubGoto, SubStates, ledgerVars
<1>3. CASE PollSucceeds(o)
  <2>1. \E e \in landed : e.tx.op = o /\ e.ok
    BY <1>3 DEF PollSucceeds, Applied, Tx
  <2> QED
    BY <1>3, <2>1, SubEndCaller DEF PollSucceeds
<1>4. CASE PollEndsWithoutSuccess(o)
  <2>1. CASE AutoBump
    BY <1>1, <1>4, <2>1 DEF PollEndsWithoutSuccess, SubGoto, SubStates, ledgerVars
  <2>2. CASE ~AutoBump
    BY <1>4, <2>2, SubEndCaller DEF PollEndsWithoutSuccess
  <2> QED
    BY <2>1, <2>2
<1>5. CASE SubFail(o)
  BY <1>5, SubEndCaller DEF SubFail
<1> QED
  BY <1>2, <1>3, <1>4, <1>5 DEF WalletStep, RpcStep, PollFails, PollFindsFailure

(* The invariant of the caller's side is preserved by every step. *)
LEMMA CallerStep ==
  ASSUME TypeOK, WritePathAssumption, CallerInv, LoadedOnce, [Next]_vars
  PROVE  CallerInv'
<1> USE DEF callerVars, signalVars, submitVars, ledgerVars
<1>1. ASSUME NEW o \in Ops, OpStep(o)
      PROVE  CallerInv'
  <2>1. CASE UserAbort(o)
    BY <2>1 DEF UserAbort, CallerInv, OwnsEntry, StillAwaited, SuccessMeansLanded,
                Pending, Signalled
  <2>2. CASE Age(o)
    BY <2>2 DEF Age, CallerInv, OwnsEntry, StillAwaited, SuccessMeansLanded,
                Pending, Signalled
  <2> QED
    BY <1>1, <2>1, <2>2, CallCaller, LinkCaller DEF OpStep
<1>2. ASSUME NEW k \in Keys, CancelOperation(k)
      PROVE  CallerInv'
  BY <1>2 DEF CancelOperation, CallerInv, OwnsEntry, StillAwaited, SuccessMeansLanded,
              Pending, Signalled, TypeOK
<1>3. CASE Destroy
  BY <1>3 DEF Destroy, InFlight, CallerInv, OwnsEntry, StillAwaited, SuccessMeansLanded,
              Pending, Signalled, TypeOK, WritePathAssumption
<1>4. ASSUME NEW tx \in sent, NEW ok \in BOOLEAN, Land(tx, ok)
      PROVE  CallerInv'
  BY <1>4 DEF Land, CallerInv, OwnsEntry, StillAwaited, SuccessMeansLanded,
              Pending, Signalled
<1>5. CASE OtherTransaction
  BY <1>5 DEF OtherTransaction, CallerInv, OwnsEntry, StillAwaited, SuccessMeansLanded,
              Pending, Signalled
<1>6. CASE UNCHANGED vars
  BY <1>6 DEF vars, CallerInv, OwnsEntry, StillAwaited, SuccessMeansLanded,
              Pending, Signalled
<1>7. ASSUME NEW tx \in handed, Transmit(tx)
      PROVE  CallerInv'
  BY <1>7 DEF Transmit, CallerInv, OwnsEntry, StillAwaited, SuccessMeansLanded,
              Pending, Signalled
<1> QED
  BY <1>1, <1>2, <1>3, <1>4, <1>5, <1>6, <1>7 DEF Next, OpStep

(* The caller's invariant holds throughout. *)
LEMMA CallerCorrect == Spec => []CallerInv
<1>1. Init => CallerInv
  BY DEF Init, CallerInv, OwnsEntry, StillAwaited, SuccessMeansLanded, Pending
<1>2. TypeOK /\ LedgerInv /\ CallerInv /\ [Next]_vars => CallerInv'
  BY WritePathAssumption, CallerStep DEF LedgerInv
<1> QED
  BY <1>1, <1>2, TypeCorrect, LedgerCorrect, PTL DEF Spec

(* A call reports success only when its own invocation was applied. *)
THEOREM SuccessIsReal == Spec => []SuccessMeansLanded
  BY CallerCorrect, PTL DEF CallerInv

(* Two unaborted calls never wait on the same (willId, method) pair. *)
THEOREM AdmissionIsExclusive == Spec => []ExclusiveAdmission
<1>1. CallerInv => ExclusiveAdmission
  BY DEF CallerInv, OwnsEntry, ExclusiveAdmission
<1> QED
  BY <1>1, CallerCorrect, PTL

(* A request to send starts for a caller that waits or was aborted through *)
(* the tracker, and not after options.signal fired (rpc): what its retries *)
(* do afterwards is not bound by it.                                       *)
THEOREM SendRequestsAreAwaited == Spec => HandedForAWaitingCaller
<1> DEFINE Good == \A tx \in handed' \ handed : /\ tx.op \notin userAborted
                                                /\ Pending(tx.op) \/ tx.op \in aborted
<1>1. ASSUME TypeOK, CallerInv, [Next]_vars
      PROVE  Good \/ UNCHANGED vars
  <2>1. ASSUME NEW o \in Ops, Send(o) \/ BumpSend(o)
        PROVE  Good
    BY <1>1, <2>1 DEF Send, BumpSend, SubGoto, Unstopped, Tx, CallerInv, StillAwaited,
                      Signalled, Pending
  <2>2. ASSUME UNCHANGED handed
        PROVE  Good
    BY <2>2
  <2>3. ASSUME NEW o \in Ops, Call(o) \/ CallStep(o)
        PROVE  UNCHANGED handed
    BY <2>3 DEF Call, CallStep, CallUntracked, CallDuplicate, CallJoin, CallTracked,
                HooksProceed, HooksVeto, HooksThrow, SpecLoaded, SpecFails, RaceAborted,
                AfterHooks, ledgerVars
  <2>4. ASSUME NEW o \in Ops, WalletStep(o) \/ RpcStep(o) \/ SubFail(o),
               ~Send(o), ~BumpSend(o)
        PROVE  UNCHANGED handed
    BY <2>4 DEF WalletStep, RpcStep, SubFail, LoadAccount, Prepare, Sign, Reply,
                PollSucceeds, PollFails, PollFindsFailure, PollEndsWithoutSuccess,
                BumpPrepare, BumpSign, BumpReply, SubEnd, ledgerVars
  <2>5. ASSUME NEW o \in Ops, UserAbort(o) \/ Age(o)
        PROVE  UNCHANGED handed
    BY <2>5 DEF UserAbort, Age, ledgerVars
  <2>6. ASSUME \/ \E k \in Keys : CancelOperation(k)
               \/ Destroy
               \/ \E tx \in handed : Transmit(tx)
               \/ \E tx \in sent, ok \in BOOLEAN : Land(tx, ok)
               \/ OtherTransaction
        PROVE  UNCHANGED handed
    BY <2>6 DEF CancelOperation, Destroy, Transmit, Land, OtherTransaction, ledgerVars
  <2> QED
    BY <1>1, <2>1, <2>2, <2>3, <2>4, <2>5, <2>6 DEF Next
<1>2. TypeOK /\ CallerInv /\ [Next]_vars
      => [\A tx \in handed' \ handed : /\ tx.op \notin userAborted
                                       /\ Pending(tx.op) \/ tx.op \in aborted]_vars
  BY <1>1
<1> QED
  BY <1>2, TypeCorrect, CallerCorrect, PTL DEF Spec, HandedForAWaitingCaller
-----------------------------------------------------------------------------
(***************************************************************************)
(* WritePath implements OperationLedger, for every set of invocations and  *)
(* keys and every option: under the mapping of WritePath, each of its      *)
(* steps lines an operation up, applies one, tells the callers of one, or  *)
(* is none of the caller's business.                                       *)
(***************************************************************************)

PendingStates == {"before", "spec", "racing", "afterOk", "afterErr"}

(* A coalesced caller joined a call that runs on its own. *)
JoinedCallsRun ==
  \A o \in Ops : call[o] = "joined" =>
    leader[o] \in Ops /\ call[leader[o]] \notin {"idle", "joined"}

(* The owner of an entry waits. *)
OwnersWait == \A k \in Keys : entry[k] # None => entry[k] \in Ops /\ Pending(entry[k])

(* A submission has a place exactly when it was handed over, which no      *)
(* joined call does.                                                       *)
PlacesGiven ==
  \A o \in Ops : /\ sub[o] = "none" <=> pos[o] = 0
                 /\ pos[o] <= links
                 /\ call[o] \in {"idle", "joined", "before", "spec"} => sub[o] = "none"

JoinInv == JoinedCallsRun /\ OwnersWait /\ PlacesGiven

(* What the steps do to the call of o. *)
Told(o, outcome) ==
  /\ call[o] \in PendingStates \cup {"idle"}
  /\ call' = [call EXCEPT ![o] = outcome]
  /\ \A k \in Keys : entry'[k] # None => entry'[k] = entry[k] /\ entry[k] # o
  /\ UNCHANGED leader
WaitsOn(o) ==
  /\ call[o] \in PendingStates \cup {"idle"}
  /\ \E x \in PendingStates : call' = [call EXCEPT ![o] = x]
  /\ \A k \in Keys : entry'[k] # None => entry'[k] = entry[k] \/ entry'[k] = o
  /\ UNCHANGED leader
Leaves ==
  /\ \A k \in Keys : entry'[k] # None => entry'[k] = entry[k]
  /\ UNCHANGED <<call, leader>>

CallerMove(o) == WaitsOn(o) \/ Told(o, "ok") \/ Told(o, "failed")

(* Dropping entries adds none. *)
LEMMA WithoutAdds ==
  ASSUME TypeOK, NEW S, NEW k \in Keys, Without(S)[k] # None
  PROVE  Without(S)[k] = entry[k] /\ entry[k] \notin S
  BY DEF Without, TypeOK

(* A settling call tells its caller. *)
LEMMA SettleMoves ==
  ASSUME TypeOK, NEW o \in Ops, NEW outcome \in {"ok", "failed"}, Settle(o, outcome),
         call[o] \in PendingStates \cup {"idle"}, UNCHANGED leader
  PROVE  Told(o, outcome)
  BY WithoutAdds DEF Settle, ReleaseEntry, Told

(* A completing one tells it or runs the hooks first. *)
LEMMA CompleteMoves ==
  ASSUME TypeOK, NEW o \in Ops, NEW ok \in BOOLEAN, Complete(o, ok),
         call[o] \in PendingStates, UNCHANGED leader
  PROVE  CallerMove(o)
<1>1. CASE AsyncHooks /\ hooking = None
  BY <1>1 DEF Complete, CallerMove, WaitsOn, PendingStates
<1>2. CASE ~(AsyncHooks /\ hooking = None)
  BY <1>2, SettleMoves DEF Complete, CallerMove
<1> QED
  BY <1>1, <1>2

(* An idle call owns no entry. *)
LEMMA IdleOwnsNone ==
  ASSUME TypeOK, WritePathAssumption, OwnersWait, NEW o \in Ops, call[o] = "idle", NEW k \in Keys
  PROVE  entry[k] # o
  BY DEF OwnersWait, Pending, WritePathAssumption

(* Every step of the caller's side is one of these. *)
LEMMA CallMoves ==
  ASSUME TypeOK, WritePathAssumption, OwnersWait, NEW o \in Ops, Call(o) \/ CallStep(o)
  PROVE  CallerMove(o) \/ CallJoin(o)
<1> USE DEF CallerMove, PendingStates
<1>1. CASE CallUntracked(o)
  BY <1>1, IdleOwnsNone DEF CallUntracked, WaitsOn, Told, TypeOK
<1>2. CASE CallDuplicate(o)
  BY <1>2, IdleOwnsNone DEF CallDuplicate, Told, TypeOK
<1>3. CASE CallJoin(o)
  BY <1>3
<1>4. CASE CallTracked(o)
  <2>1. CASE hooking # None
    BY <1>4, <2>1, IdleOwnsNone, WithoutAdds DEF CallTracked, Told
  <2>2. CASE hooking = None
    <3>1. \A k \in Keys : entry'[k] # None => entry'[k] = entry[k] \/ entry'[k] = o
      BY <1>4, <2>2, WithoutAdds, WithoutType DEF CallTracked
    <3> QED
      BY <1>4, <2>2, <3>1 DEF CallTracked, WaitsOn
  <2> QED
    BY <2>1, <2>2
<1>5. CASE HooksProceed(o)
  BY <1>5 DEF HooksProceed, WaitsOn
<1>6. CASE HooksVeto(o)
  BY <1>6 DEF HooksVeto, WaitsOn
<1>7. CASE HooksThrow(o)
  BY <1>7, SettleMoves DEF HooksThrow
<1>8. CASE SpecLoaded(o)
  BY <1>8 DEF SpecLoaded, WaitsOn
<1>9. CASE SpecFails(o)
  BY <1>9, CompleteMoves DEF SpecFails
<1>10. CASE RaceAborted(o)
  BY <1>10, CompleteMoves DEF RaceAborted
<1>11. CASE AfterHooks(o)
  BY <1>11, SettleMoves DEF AfterHooks
<1> QED
  BY <1>1, <1>2, <1>3, <1>4, <1>5, <1>6, <1>7, <1>8, <1>9, <1>10, <1>11
  DEF Call, CallStep

(* The end of a link tells the caller, if it still listens. *)
LEMMA SubEndMoves ==
  ASSUME TypeOK, NEW o \in Ops, NEW ok \in BOOLEAN, SubEnd(o, ok)
  PROVE  CallerMove(o) \/ Leaves
<1>1. CASE call[o] = "racing" /\ o \notin Signalled
  BY <1>1, CompleteMoves DEF SubEnd, PendingStates
<1>2. CASE ~(call[o] = "racing" /\ o \notin Signalled)
  BY <1>2 DEF SubEnd, Leaves
<1> QED
  BY <1>1, <1>2

(* A step of a link moves its call so or leaves it alone. *)
LEMMA LinkMoves ==
  ASSUME TypeOK, NEW o \in Ops, WalletStep(o) \/ RpcStep(o) \/ SubFail(o)
  PROVE  CallerMove(o) \/ Leaves
<1>1. CASE UNCHANGED callerVars
  BY <1>1 DEF callerVars, Leaves
<1>2. ASSUME NEW ok \in BOOLEAN, SubEnd(o, ok)
      PROVE  CallerMove(o) \/ Leaves
  BY <1>2, SubEndMoves
<1> QED
  BY <1>1, <1>2 DEF WalletStep, RpcStep, SubFail, LoadAccount, Prepare, Sign, Send, Reply,
     PollSucceeds, PollFails, PollFindsFailure, PollEndsWithoutSuccess, BumpPrepare,
     BumpSign, BumpSend, BumpReply

(* The entries of the map and the joined calls stay in order. *)
LEMMA MoveJoins ==
  ASSUME TypeOK, WritePathAssumption, JoinedCallsRun, OwnersWait, NEW o \in Ops,
         CallerMove(o) \/ CallJoin(o)
  PROVE  JoinedCallsRun' /\ OwnersWait'
<1> USE DEF TypeOK, JoinedCallsRun, OwnersWait, Pending, PendingStates
<1>1. CASE WaitsOn(o)
  BY <1>1 DEF WaitsOn
<1>2. ASSUME NEW outcome \in {"ok", "failed"}, Told(o, outcome)
      PROVE  JoinedCallsRun' /\ OwnersWait'
  BY <1>2 DEF Told
<1>3. CASE CallJoin(o)
  <2>1. /\ leader'[o] \in Ops /\ call[leader'[o]] \in PendingStates
        /\ leader'[o] # o
    BY <1>3 DEF CallJoin, Occupied, Live, InFlight, WritePathAssumption
  <2> QED
    BY <1>3, <2>1 DEF CallJoin
<1> QED
  BY <1>1, <1>2, <1>3 DEF CallerMove

(* Places are given once, in the order of the hand-over. *)
LEMMA PlacesStep ==
  ASSUME TypeOK, WritePathAssumption, PlacesGiven, LoadedOnce, OwnersWait, [Next]_vars
  PROVE  PlacesGiven'
<1> USE DEF PlacesGiven, TypeOK
<1> DEFINE Stays == /\ UNCHANGED <<pos, links>>
                    /\ \A p \in Ops : sub[p] = "none" <=> sub'[p] = "none"
                    /\ \A p \in Ops : call'[p] \in {"idle", "joined", "before", "spec"}
                         => call[p] \in {"idle", "joined", "before", "spec"}
<1>1. ASSUME Stays
      PROVE  PlacesGiven'
  BY <1>1
<1> HIDE DEF Stays
<1>2. ASSUME NEW o \in Ops, SpecLoaded(o)
      PROVE  PlacesGiven'
  BY <1>2 DEF SpecLoaded
<1>3. ASSUME NEW o \in Ops, Call(o) \/ CallStep(o), ~SpecLoaded(o)
      PROVE  Stays
  <2>1. UNCHANGED submitVars
    BY <1>3 DEF Call, CallStep, CallUntracked, CallDuplicate, CallJoin, CallTracked,
                HooksProceed, HooksVeto, HooksThrow, SpecFails, RaceAborted, AfterHooks
  <2>2. \A p \in Ops : call'[p] \in {"idle", "joined", "before", "spec"}
                         => call[p] \in {"idle", "joined", "before", "spec"}
    BY <1>3 DEF Call, CallStep, CallUntracked, CallDuplicate, CallJoin, CallTracked,
                HooksProceed, HooksVeto, HooksThrow, SpecFails, RaceAborted, AfterHooks,
                Complete, Settle
  <2> QED
    BY <2>1, <2>2 DEF Stays, submitVars
<1>4. ASSUME NEW o \in Ops, WalletStep(o) \/ RpcStep(o) \/ SubFail(o)
      PROVE  Stays
  <2>1. ASSUME NEW from \in SubStates \ {"none"}, NEW to \in SubStates \ {"none"},
               SubGoto(o, from, to), UNCHANGED <<callerVars, pos, links>>
        PROVE  Stays
    BY <2>1 DEF SubGoto, Stays, callerVars
  <2>2. ASSUME NEW ok \in BOOLEAN, SubEnd(o, ok), sub[o] # "none"
        PROVE  Stays
    BY <2>2 DEF SubEnd, Complete, Settle, Stays
  <2> QED
    BY <1>4, <2>1, <2>2 DEF WalletStep, RpcStep, SubFail, LoadAccount, Prepare, Sign, Send,
       Reply, PollSucceeds, PollFails, PollFindsFailure, PollEndsWithoutSuccess, BumpPrepare,
       BumpSign, BumpSend, BumpReply, SubStates
<1>5. ASSUME \/ \E o \in Ops : UserAbort(o) \/ Age(o)
             \/ \E k \in Keys : CancelOperation(k)
             \/ Destroy
             \/ \E tx \in handed : Transmit(tx)
             \/ \E tx \in sent, ok \in BOOLEAN : Land(tx, ok)
             \/ OtherTransaction
             \/ UNCHANGED vars
      PROVE  Stays
  BY <1>5 DEF UserAbort, Age, CancelOperation, Destroy, Transmit, Land, OtherTransaction, vars,
              callerVars, signalVars, submitVars, ledgerVars, Stays
<1> QED
  BY <1>1, <1>2, <1>3, <1>4, <1>5 DEF Next

(* The invariant of the refinement is preserved. *)
LEMMA JoinStep ==
  ASSUME TypeOK, WritePathAssumption, JoinInv, LoadedOnce, [Next]_vars
  PROVE  JoinInv'
<1> USE DEF JoinInv
<1>1. ASSUME Leaves
      PROVE  JoinedCallsRun' /\ OwnersWait'
  BY <1>1 DEF Leaves, JoinedCallsRun, OwnersWait, Pending
<1>2. ASSUME NEW o \in Ops, OpStep(o)
      PROVE  JoinedCallsRun' /\ OwnersWait'
  <2>1. CASE Call(o) \/ CallStep(o)
    BY <2>1, CallMoves, MoveJoins
  <2>2. CASE WalletStep(o) \/ RpcStep(o) \/ SubFail(o)
    BY <1>1, <2>2, LinkMoves, MoveJoins
  <2>3. CASE UserAbort(o) \/ Age(o)
    BY <1>1, <2>3 DEF UserAbort, Age, Leaves, callerVars
  <2> QED
    BY <1>2, <2>1, <2>2, <2>3 DEF OpStep
<1>3. ASSUME \/ \E k \in Keys : CancelOperation(k)
             \/ Destroy
             \/ \E tx \in handed : Transmit(tx)
             \/ \E tx \in sent, ok \in BOOLEAN : Land(tx, ok)
             \/ OtherTransaction
             \/ UNCHANGED vars
      PROVE  JoinedCallsRun' /\ OwnersWait'
  <2>1. Leaves
    BY <1>3 DEF CancelOperation, Destroy, Transmit, Land, OtherTransaction, vars, callerVars, Leaves,
                TypeOK
  <2> QED
    BY <1>1, <2>1
<1> QED
  BY <1>2, <1>3, PlacesStep DEF Next, OpStep

(* The invariant of the refinement holds throughout. *)
LEMMA JoinCorrect == Spec => []JoinInv
<1>1. Init => JoinInv
  BY DEF Init, JoinInv, JoinedCallsRun, OwnersWait, PlacesGiven
<1>2. TypeOK /\ LedgerInv /\ JoinInv /\ [Next]_vars => JoinInv'
  BY WritePathAssumption, JoinStep DEF LedgerInv
<1> QED
  BY <1>1, <1>2, TypeCorrect, LedgerCorrect, PTL DEF Spec
-----------------------------------------------------------------------------
(* The steps of the abstract ledger.                                       *)

(* A call that goes on, or joins one, tells nobody. *)
LEMMA WaitingTellsNobody ==
  ASSUME TypeOK, WritePathAssumption, JoinInv, NEW o \in Ops, WaitsOn(o) \/ CallJoin(o)
  PROVE  Verdict' = Verdict
<1> USE DEF TypeOK, JoinInv, JoinedCallsRun, PendingStates
<1>1. ASSUME NEW p \in Ops, WaitsOn(o)
      PROVE  Verdict'[p] = Verdict[p]
  BY <1>1 DEF WaitsOn, Verdict, Answering
<1>2. ASSUME NEW p \in Ops, CallJoin(o)
      PROVE  Verdict'[p] = Verdict[p]
  <2>1. /\ leader'[o] \in Ops /\ call[leader'[o]] \in PendingStates
        /\ leader'[o] # o /\ call[o] = "idle"
    BY <1>2 DEF CallJoin, Occupied, Live, InFlight, OwnersWait, Pending, WritePathAssumption
  <2>2. call' = [call EXCEPT ![o] = "joined"]
        /\ leader' = [leader EXCEPT ![o] = leader'[o]]
    BY <1>2 DEF CallJoin
  <2>3. CASE p = o
    BY <2>1, <2>2, <2>3 DEF Verdict, Answering
  <2>4. CASE p # o
    BY <2>1, <2>2, <2>4 DEF Verdict, Answering
  <2> QED
    BY <2>3, <2>4
<1>3. \A p \in Ops : Verdict'[p] = Verdict[p]
  BY <1>1, <1>2
<1> QED
  BY <1>3 DEF Verdict

(* Telling a caller tells those that joined it, and nobody else. *)
LEMMA TellingTellsSharers ==
  ASSUME TypeOK, JoinInv, SuccessMeansLanded', NEW o \in Ops, NEW outcome \in {"ok", "failed"},
         Told(o, outcome), UNCHANGED <<pos, landed>>
  PROVE  \E sharing \in SUBSET Ops : Promise!Tell(o, sharing, outcome)
<1> USE DEF TypeOK, JoinInv, JoinedCallsRun, PendingStates
<1> DEFINE S == {p \in Ops : call[p] = "joined" /\ leader[p] = o}
<1>1. \A p \in S \cup {o} : Verdict[p] = "open"
  BY DEF Told, Verdict, Answering
<1>2. \A p \in S : pos[p] = 0
  BY DEF PlacesGiven
<1>3. ASSUME NEW p \in Ops
      PROVE  Verdict'[p] = IF p \in S \cup {o} THEN outcome ELSE Verdict[p]
  <2>1. CASE p = o
    BY <2>1 DEF Told, Verdict, Answering
  <2>2. CASE p \in S
    BY <2>2 DEF Told, Verdict, Answering
  <2>3. CASE p # o /\ p \notin S
    BY <2>3 DEF Told, Verdict, Answering
  <2> QED
    BY <2>1, <2>2, <2>3
<1>4. Verdict' = [p \in Ops |-> IF p \in S \cup {o} THEN outcome ELSE Verdict[p]]
  BY <1>3 DEF Verdict
<1>5. outcome = "ok" => Effect[o] = "ok"
  BY DEF SuccessMeansLanded, Told, Effect
<1>6. Effect' = Effect
  BY DEF Effect
<1> HIDE DEF S
<1>7. S \in SUBSET Ops
  BY DEF S
<1>8. Promise!Tell(o, S, outcome)
  BY <1>1, <1>2, <1>4, <1>5, <1>6 DEF Promise!Tell
<1> QED
  BY <1>7, <1>8

(* A call that moves without a new place or effect is a step of the ledger *)
(* of operations, or none.                                                 *)
LEMMA MovesImplement ==
  ASSUME TypeOK, WritePathAssumption, JoinInv, SuccessMeansLanded', NEW o \in Ops,
         CallerMove(o) \/ CallJoin(o), UNCHANGED <<pos, landed>>
  PROVE  [Promise!Next]_(Promise!promiseVars)
<1>1. CASE WaitsOn(o) \/ CallJoin(o)
  BY <1>1, WaitingTellsNobody DEF Promise!promiseVars, Effect
<1>2. ASSUME NEW outcome \in {"ok", "failed"}, Told(o, outcome)
      PROVE  Promise!Next
  BY <1>2, TellingTellsSharers DEF Promise!Next
<1> QED
  BY <1>1, <1>2 DEF CallerMove

(* Handing a submission over is lining up. *)
LEMMA HandOverImplements ==
  ASSUME TypeOK, WritePathAssumption, JoinInv, NEW o \in Ops, SpecLoaded(o)
  PROVE  Promise!LineUp(o)
<1>1. WaitsOn(o)
  BY DEF SpecLoaded, WaitsOn, PendingStates
<1>2. Verdict' = Verdict /\ Effect' = Effect
  BY <1>1, WaitingTellsNobody DEF SpecLoaded, Effect, ledgerVars
<1>3. Verdict[o] = "open"
  BY DEF SpecLoaded, Verdict, Answering
<1>4. pos[o] = 0
  BY DEF SpecLoaded, JoinInv, PlacesGiven
<1>5. /\ pos' = [pos EXCEPT ![o] = pos'[o]]
      /\ pos'[o] \in Nat
      /\ \A p \in Ops : pos'[o] > pos[p]
  BY DEF SpecLoaded, JoinInv, PlacesGiven, TypeOK
<1> QED
  BY <1>2, <1>3, <1>4, <1>5 DEF Promise!LineUp

(* Applying a transaction of o is o's effect. *)
LEMMA LandImplements ==
  ASSUME TypeOK, TypeOK', LedgerInv, JoinInv, AtMostOnce', LandsInChainOrder',
         NEW tx \in sent, NEW ok \in BOOLEAN, Land(tx, ok)
  PROVE  Promise!TakeEffect(tx.op, IF ok THEN "ok" ELSE "failed")
<1> DEFINE e == [tx |-> tx, ok |-> ok]
<1>1. tx \in handed /\ tx.op \in Ops /\ e.tx = tx /\ e.ok = ok
  BY DEF TypeOK
<1>2. landed' = landed \cup {e} /\ UNCHANGED <<call, leader, pos>>
  BY DEF Land, callerVars, submitVars
<1>3. e \notin landed
  BY DEF Land, LedgerInv, OnePerNumber, TypeOK
<1>4. \A f \in landed : f.tx.op # tx.op
  BY <1>1, <1>2, <1>3 DEF AtMostOnce
<1>5. pos[tx.op] # 0
  BY <1>1 DEF LedgerInv, SentAsLoaded, Loaded, JoinInv, PlacesGiven
<1>6. \A f \in landed : f.tx.seq < tx.seq /\ f.tx.op \in Ops /\ f.tx.seq \in Nat
  BY DEF Land, LedgerInv, OnePerNumber, TypeOK
<1>7. \A f \in landed : ~(pos[tx.op] < pos[f.tx.op])
  <2> SUFFICES ASSUME NEW f \in landed, pos[tx.op] < pos[f.tx.op]
               PROVE  FALSE
    OBVIOUS
  <2>1. tx.seq < f.tx.seq
    BY <1>1, <1>2 DEF LandsInChainOrder
  <2> QED
    BY <2>1, <1>6 DEF TypeOK
<1> HIDE DEF e
<1>8. \A p \in Ops : pos[p] > pos[tx.op] => Effect[p] = "none"
  BY <1>7, <1>6 DEF Effect, TypeOK
<1>9. Effect[tx.op] = "none"
  BY <1>1, <1>4 DEF Effect
<1>10. Effect' = [Effect EXCEPT ![tx.op] = IF ok THEN "ok" ELSE "failed"]
  <2>1. ASSUME NEW p \in Ops, p # tx.op
        PROVE  Effect'[p] = Effect[p]
    BY <1>1, <1>2, <2>1 DEF Effect
  <2>2. Effect'[tx.op] = IF ok THEN "ok" ELSE "failed"
    BY <1>1, <1>2, <1>4 DEF Effect
  <2> QED
    BY <1>1, <2>1, <2>2 DEF Effect
<1>11. Verdict' = Verdict
  BY <1>2 DEF Verdict, Answering
<1> QED
  BY <1>2, <1>5, <1>8, <1>9, <1>10, <1>11 DEF Promise!TakeEffect

(* Every step of the write path is a step of the ledger, or none. *)
LEMMA StepImplements ==
  ASSUME TypeOK, TypeOK', WritePathAssumption, LedgerInv, JoinInv, SuccessMeansLanded',
         AtMostOnce', LandsInChainOrder', [Next]_vars
  PROVE  [Promise!Next]_(Promise!promiseVars)
<1>1. ASSUME UNCHANGED <<call, leader, pos, landed>>
      PROVE  UNCHANGED Promise!promiseVars
  BY <1>1 DEF Promise!promiseVars, Effect, Verdict, Answering
<1>2. ASSUME NEW o \in Ops, Call(o) \/ CallStep(o)
      PROVE  [Promise!Next]_(Promise!promiseVars)
  <2>1. CASE SpecLoaded(o)
    BY <2>1, HandOverImplements DEF Promise!Next
  <2>2. ASSUME ~SpecLoaded(o)
        PROVE  UNCHANGED <<pos, landed>>
    BY <1>2, <2>2 DEF Call, CallStep, CallUntracked, CallDuplicate, CallJoin, CallTracked,
       HooksProceed, HooksVeto, HooksThrow, SpecFails, RaceAborted, AfterHooks,
       submitVars, ledgerVars
  <2>3. CallerMove(o) \/ CallJoin(o)
    BY <1>2, CallMoves DEF JoinInv
  <2> QED
    BY <2>1, <2>2, <2>3, MovesImplement
<1>3. ASSUME NEW o \in Ops, WalletStep(o) \/ RpcStep(o) \/ SubFail(o)
      PROVE  [Promise!Next]_(Promise!promiseVars)
  <2>1. UNCHANGED <<pos, landed>>
    BY <1>3 DEF WalletStep, RpcStep, SubFail, LoadAccount, Prepare, Sign, Send, Reply,
       PollSucceeds, PollFails, PollFindsFailure, PollEndsWithoutSuccess, BumpPrepare,
       BumpSign, BumpSend, BumpReply, SubEnd, ledgerVars
  <2>2. CASE Leaves
    BY <1>1, <2>1, <2>2 DEF Leaves
  <2>3. CASE CallerMove(o)
    BY <2>1, <2>3, MovesImplement
  <2> QED
    BY <1>3, <2>2, <2>3, LinkMoves
<1>4. ASSUME NEW tx \in sent, NEW ok \in BOOLEAN, Land(tx, ok)
      PROVE  Promise!Next
  <2>1. tx.op \in Ops
    BY DEF TypeOK
  <2> QED
    BY <1>4, <2>1, LandImplements DEF Promise!Next
<1>5. ASSUME \/ \E o \in Ops : UserAbort(o) \/ Age(o)
             \/ \E k \in Keys : CancelOperation(k)
             \/ Destroy
             \/ \E tx \in handed : Transmit(tx)
             \/ OtherTransaction
             \/ UNCHANGED vars
      PROVE  UNCHANGED Promise!promiseVars
  BY <1>1, <1>5 DEF UserAbort, Age, CancelOperation, Destroy, Transmit, OtherTransaction, vars,
     callerVars, signalVars, submitVars, ledgerVars
<1> QED
  BY <1>2, <1>3, <1>4, <1>5 DEF Next

(* The write path implements the ledger of operations: whatever the        *)
(* tracker, the hooks, the chain and the fee bump do, it amounts to        *)
(* operations that line up while their caller waits, take effect once and  *)
(* in order, and are reported once, success only after the effect          *)
(* (invoke, serializeWrite, submitUnserialized, InFlightTracker.track).    *)
THEOREM Implementation == Spec => ImplementsPromise
<1>1. Init => Promise!Init
  <2>1. ASSUME Init
        PROVE  /\ Effect = [o \in Ops |-> "none"]
               /\ Verdict = [o \in Ops |-> "open"]
    BY <2>1 DEF Init, Effect, Verdict, Answering
  <2> QED
    BY <2>1 DEF Init, Promise!Init
<1>2. TypeOK /\ TypeOK' /\ LedgerInv /\ JoinInv /\ SuccessMeansLanded' /\ AtMostOnce'
      /\ LandsInChainOrder' /\ [Next]_vars
      => [Promise!Next]_(Promise!promiseVars)
  BY WritePathAssumption, StepImplements
<1> QED
  BY <1>1, <1>2, TypeCorrect, LedgerCorrect, JoinCorrect, SuccessIsReal, AppliedAtMostOnce,
     AppliedInChainOrder, PTL DEF Spec, ImplementsPromise, Promise!Spec
=============================================================================
