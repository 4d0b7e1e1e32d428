------------------------------ MODULE BatchCalls ------------------------------
(***************************************************************************)
(* batch() of SoroWillClient, a raw call that takes its turn in the write  *)
(* chain, beside transactions that an app builds with buildTransaction(),  *)
(* signs by itself and sends with submitSignedTransaction() outside the    *)
(* chain, on one account of the ledger.                                    *)
(*                                                                         *)
(* An actor is a call of batch() or such an app.  Its stage names what it  *)
(* waits for.  The spec, the operation and the fee are left out, and that  *)
(* the prepared transaction is the intended one.                           *)
(***************************************************************************)
EXTENDS Naturals, Sequences

CONSTANTS
  BcCalls,    (* Calls of batch().                                         *)
  BcApps,     (* Transactions built and sent outside the chain.            *)
  BcNetworks, (* What an operation may declare, BcOurs among them.         *)
  BcOurs,     (* The network of the client.                                *)
  BcNone

ASSUME BatchCallsAssumption ==
  /\ BcCalls \cap BcApps = {}
  /\ BcOurs \in BcNetworks /\ BcNone \notin BcNetworks

VARIABLES
  bcStage,    (* What each actor waits for.                                *)
  bcAhead,    (* The links ahead of each call's in writeChain, until they  *)
              (* end.                                                      *)
  bcNumber,   (* The sequence number each transaction is built with.       *)
  bcLoadedAt, (* How far the ledger was when getAccount() answered.        *)
  bcHooking,  (* Flag of the hooks: some run is on.                        *)
  bcOutcome,  (* What each actor has been told.                            *)
  bcPool,     (* Transactions a node has taken and the ledger has not.     *)
  bcApplied,  (* Whose transaction has taken each number.                  *)
  bcWallet    (* The network of the wallet.                                *)

bcVars == <<bcStage, bcAhead, bcNumber, bcLoadedAt, bcHooking, bcOutcome,
            bcPool, bcApplied, bcWallet>>
bcLedger == <<bcPool, bcApplied, bcWallet>>

BcActors == BcCalls \cup BcApps

BatchCallsInit ==
  /\ bcStage = [a \in BcActors |-> "idle"]
  /\ bcAhead = [a \in BcActors |-> {}] /\ bcHooking = FALSE
  /\ bcNumber = [a \in BcActors |-> 0]
  /\ bcLoadedAt = [a \in BcActors |-> 0]
  /\ bcOutcome = [a \in BcActors |-> BcNone]
  /\ bcPool = {} /\ bcApplied = <<>>
  /\ bcWallet \in BcNetworks

(* assertBatchNetworks() and the size, of the networks the operations of a *)
(* batch declare or leave open.                                            *)
Declared(ops) == {ops[i] : i \in DOMAIN ops} \ {BcNone}
BatchRefused(ops) == Len(ops) # 1 \/ ~(Declared(ops) \subseteq {BcOurs})

ToStage(a, stage) == bcStage' = [bcStage EXCEPT ![a] = stage]
Told(a, outcome) == bcOutcome' = [bcOutcome EXCEPT ![a] = outcome]

(* A promise is rejected before anything has been put on the chain. *)
Refused(a) ==
  /\ ToStage(a, "done") /\ Told(a, "refused")
  /\ UNCHANGED <<bcAhead, bcNumber, bcLoadedAt, bcLedger>>

(* serializeWrite(): a link is put behind those that have not ended, and   *)
(* starts when there is none before it.                                    *)
Links == {a \in BcCalls : bcStage[a] \in {"account", "sign", "again", "send", "poll"}}
LinkStarts(a) == bcAhead' = [bcAhead EXCEPT ![a] = Links]
LinkEnds(a) == bcAhead' = [b \in BcActors |-> bcAhead[b] \ {a}]

(* Mutant: a link starts without waiting for those before it. *)
AtOnce(a) == a \in BcCalls

ItsTurn(a) == bcAhead[a] = {}

(* The link of a batch ends and its afterInvoke hooks run, which throw at  *)
(* once while another run is on; the promise of an app is settled.         *)
SubmissionEnds(a, outcome) ==
  /\ UNCHANGED <<bcNumber, bcLoadedAt>>
  /\ \/ /\ a \in BcApps
        /\ ToStage(a, "done") /\ Told(a, outcome)
        /\ UNCHANGED <<bcAhead, bcHooking>>
     \/ /\ a \in BcCalls /\ bcHooking
        /\ ToStage(a, "done") /\ Told(a, "recursion")
        /\ LinkEnds(a)
        /\ UNCHANGED bcHooking
     \/ /\ a \in BcCalls /\ ~bcHooking
        /\ ToStage(a, "after") /\ Told(a, outcome)
        /\ LinkEnds(a)
        /\ bcHooking' = TRUE

-----------------------------------------------------------------------------
(* batch() up to its first await. *)
BatchCall(a) ==
  /\ a \in BcCalls /\ bcStage[a] = "idle"
  /\ \E ops \in UNION {[1..n -> BcNetworks \cup {BcNone}] : n \in 0..2} :
       \/ BatchRefused(ops) /\ Refused(a)
       \/ /\ ~BatchRefused(ops) /\ ToStage(a, "network")
          /\ UNCHANGED <<bcAhead, bcNumber, bcLoadedAt, bcOutcome, bcLedger>>
  /\ UNCHANGED bcHooking

(* buildTransaction(), or submitSignedTransaction() of what the app has    *)
(* signed, up to its first await.                                          *)
AppCall(a) ==
  /\ a \in BcApps
  /\ \/ bcStage[a] = "idle" /\ ToStage(a, "network")
     \/ bcStage[a] = "unsigned" /\ ToStage(a, "again")
  /\ UNCHANGED <<bcAhead, bcNumber, bcLoadedAt, bcHooking, bcOutcome, bcLedger>>

(* assertWalletNetwork() of the first call, and the beforeInvoke hooks of  *)
(* a batch begin, which throw at once while another run is on.             *)
WalletNetwork(a) ==
  /\ bcStage[a] = "network"
  /\ \/ Refused(a) /\ UNCHANGED bcHooking
     \/ /\ bcWallet = BcOurs /\ a \in BcApps
        /\ ToStage(a, "account")
        /\ UNCHANGED <<bcAhead, bcNumber, bcLoadedAt, bcHooking, bcOutcome, bcLedger>>
     \/ /\ bcWallet = BcOurs /\ a \in BcCalls /\ ~bcHooking
        /\ ToStage(a, "before") /\ bcHooking' = TRUE
        /\ UNCHANGED <<bcAhead, bcNumber, bcLoadedAt, bcOutcome, bcLedger>>

(* The hooks refuse, or let the call go on to the end of the chain. *)
BeforeHooksEnd(a) ==
  /\ bcStage[a] = "before" /\ bcHooking' = FALSE
  /\ \/ Refused(a)
     \/ /\ ToStage(a, "account") /\ LinkStarts(a)
        /\ UNCHANGED <<bcNumber, bcLoadedAt, bcOutcome, bcLedger>>

(* getAccount() of a node that may be one ledger behind. *)
Loaded(a) ==
  /\ \E lag \in 0..1 :
       /\ lag <= Len(bcApplied)
       /\ bcNumber' = [bcNumber EXCEPT ![a] = Len(bcApplied) - lag + 1]
  /\ bcLoadedAt' = [bcLoadedAt EXCEPT ![a] = Len(bcApplied)]
  /\ UNCHANGED <<bcAhead, bcHooking, bcOutcome>>

(* The link of a batch: key, spec, account and prepareTransaction(). *)
LoadNumber(a) ==
  /\ a \in BcCalls /\ bcStage[a] = "account" /\ ItsTurn(a)
  /\ \/ SubmissionEnds(a, "failed")
     \/ Loaded(a) /\ ToStage(a, "sign")
  /\ UNCHANGED bcLedger

(* buildInvocationTransaction() and prepareInvocation(), for an app. *)
BuildForApp(a) ==
  /\ a \in BcApps /\ bcStage[a] = "account"
  /\ \/ SubmissionEnds(a, "failed")
     \/ Loaded(a) /\ ToStage(a, "unsigned")
  /\ UNCHANGED bcLedger

(* signWithWallet(). *)
SignBatch(a) ==
  /\ bcStage[a] = "sign"
  /\ \/ SubmissionEnds(a, "failed")
     \/ /\ ToStage(a, "again")
        /\ UNCHANGED <<bcAhead, bcNumber, bcLoadedAt, bcHooking, bcOutcome>>
  /\ UNCHANGED bcLedger

(* submitSignedTransaction(): the network of the wallet once more, and     *)
(* what must be read though nothing is done with it.                       *)
CheckAgain(a) ==
  /\ bcStage[a] = "again"
  /\ \/ SubmissionEnds(a, "failed")
     \/ /\ bcWallet = BcOurs /\ ToStage(a, "send")
        /\ UNCHANGED <<bcAhead, bcNumber, bcLoadedAt, bcHooking, bcOutcome>>
  /\ UNCHANGED bcLedger

(* sendTransaction(): taken, refused, or taken or not with the answer lost.*)
SendSigned(a) ==
  /\ bcStage[a] = "send"
  /\ \/ /\ bcNumber[a] > Len(bcApplied) /\ bcPool' = bcPool \cup {a}
        /\ \/ SubmissionEnds(a, "unknown")
           \/ /\ ToStage(a, "poll")
              /\ UNCHANGED <<bcAhead, bcNumber, bcLoadedAt, bcHooking, bcOutcome>>
     \/ SubmissionEnds(a, "failed") /\ UNCHANGED bcPool
  /\ UNCHANGED <<bcApplied, bcWallet>>

(* pollTransaction(): a verdict, or none within its attempts or its time.  *)
(* What the ledger has applied may have failed, and its result may not     *)
(* decode.                                                                 *)
PollSigned(a) ==
  /\ bcStage[a] = "poll"
  /\ \/ SubmissionEnds(a, "unknown")
     \/ /\ \E n \in DOMAIN bcApplied : bcApplied[n] = a
        /\ \E outcome \in {"succeeded", "failed"} : SubmissionEnds(a, outcome)
  /\ UNCHANGED bcLedger

(* The finally block has run the afterInvoke hooks. *)
AfterHooksEnd(a) ==
  /\ bcStage[a] = "after" /\ ToStage(a, "done") /\ bcHooking' = FALSE
  /\ UNCHANGED <<bcAhead, bcNumber, bcLoadedAt, bcOutcome, bcLedger>>
-----------------------------------------------------------------------------
(* External: the ledger applies a transaction whose number is the next, or *)
(* drops it; the user takes the wallet to another network.                 *)
BcApplies(a) ==
  /\ a \in bcPool /\ bcNumber[a] = Len(bcApplied) + 1
  /\ bcApplied' = Append(bcApplied, a) /\ bcPool' = bcPool \ {a}
  /\ UNCHANGED <<bcStage, bcAhead, bcNumber, bcLoadedAt, bcHooking, bcOutcome, bcWallet>>

BcDrops(a) ==
  /\ a \in bcPool /\ bcPool' = bcPool \ {a}
  /\ UNCHANGED <<bcStage, bcAhead, bcNumber, bcLoadedAt, bcHooking, bcOutcome,
                 bcApplied, bcWallet>>

WalletSwitches ==
  /\ \E n \in BcNetworks \ {bcWallet} : bcWallet' = n
  /\ UNCHANGED <<bcStage, bcAhead, bcNumber, bcLoadedAt, bcHooking, bcOutcome,
                 bcPool, bcApplied>>

BatchCallsNext ==
  \/ \E a \in BcActors :
       \/ BatchCall(a) \/ AppCall(a) \/ WalletNetwork(a) \/ BeforeHooksEnd(a)
       \/ LoadNumber(a) \/ BuildForApp(a) \/ SignBatch(a) \/ CheckAgain(a)
       \/ SendSigned(a) \/ PollSigned(a) \/ AfterHooksEnd(a) \/ BcApplies(a) \/ BcDrops(a)
  \/ WalletSwitches

BatchCallsSpec == BatchCallsInit /\ [][BatchCallsNext]_bcVars
-----------------------------------------------------------------------------
(* What takes the number a batch was built with, from the time it has read *)
(* it to the end of its link, is its own transaction, one from outside the *)
(* chain, or one whose link has ended without a verdict: links do not take *)
(* each other's numbers.                                                   *)
NumberLostOnlyToOutsiders ==
  \A a \in BcCalls : bcStage[a] \in {"sign", "again", "send", "poll"} =>
    \A n \in bcLoadedAt[a] + 1 .. Len(bcApplied) :
      LET taker == bcApplied[n]
      IN  \/ taker \in {a} \cup BcApps
          \/ /\ bcStage[taker] \in {"after", "done"}
             /\ bcOutcome[taker] \in {"unknown", "recursion"}
-----------------------------------------------------------------------------
(* What the documentation says and the code does not do.                   *)

(* "must never convert an otherwise-successful (or already-failed)         *)
(* invocation into a different outcome", of the afterInvoke hooks.         *)
AppliedIsTold ==
  \A a \in BcCalls : bcOutcome[a] = "recursion" =>
    \A n \in DOMAIN bcApplied : bcApplied[n] # a
=============================================================================
