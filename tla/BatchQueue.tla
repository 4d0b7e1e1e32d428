------------------------------ MODULE BatchQueue ------------------------------
(***************************************************************************)
(* SoroWillClient.batchSequential(): operations invoked one after another, *)
(* each with retries, an outcome for each, what is cached of their wills   *)
(* dropped at the end, and the caller's signal.                            *)
(*                                                                         *)
(* An invocation is the one of module WritePath, reduced to what this loop *)
(* sees of it: whether a transaction was sent, and how the call ended.     *)
(***************************************************************************)
EXTENDS Naturals, Sequences

CONSTANTS
  Length,      (* Operations of the queue.                                 *)
  MaxRetries,  (* Option maxRetries.                                       *)
  Policies     (* Option onFailure: "stop", "continue".                    *)

ASSUME BatchQueueAssumption ==
  /\ Length \in Nat \ {0}
  /\ MaxRetries \in Nat
  /\ Policies \subseteq {"stop", "continue"}

VARIABLES
  policy,    (* The option of this queue.                                  *)
  stage,     (* "next", "invoking", "sent", "done".                        *)
  attempts,  (* Attempts of the operation at hand.                         *)
  results,   (* The status of each operation so far.                       *)
  halted,    (* An operation failed under "stop", or the signal was seen.  *)
  aborted,   (* options.signal has fired.                                  *)
  sent,      (* External: the transactions sent: an operation, an attempt. *)
  onLedger   (* External: those that are on the ledger.                    *)

bqVars == <<policy, stage, attempts, results, halted, aborted, sent, onLedger>>

Ops == 1..Length
Transactions == Ops \X (1..(MaxRetries + 1))
Statuses == {"success", "failed", "skipped"}
Current == Len(results) + 1

BatchInit ==
  /\ policy \in Policies
  /\ stage = "next"
  /\ attempts = 0
  /\ results = <<>>
  /\ halted = FALSE
  /\ aborted = FALSE
  /\ sent = {}
  /\ onLedger = {}

Report(status) ==
  /\ results' = Append(results, status)
  /\ attempts' = 0
  /\ stage' = "next"

(* Mutant: a failure is reported and the next operation goes on. *)
ReportsFailure ==
  /\ Report("failed")
  /\ halted' = aborted

(* lastError is reported, and under "stop" the queue ends here. *)
ReportFailure ==
  /\ Report("failed")
  /\ halted' = (halted \/ policy = "stop")
-----------------------------------------------------------------------------
(* The next operation is not submitted. *)
Skip ==
  /\ stage = "next" /\ Current \in Ops
  /\ halted \/ aborted
  /\ Report("skipped")
  /\ halted' = TRUE
  /\ UNCHANGED <<policy, aborted, sent, onLedger>>

StartInvoke ==
  /\ stage = "next" /\ Current \in Ops
  /\ ~halted /\ ~aborted
  /\ stage' = "invoking"
  /\ attempts' = 1
  /\ UNCHANGED <<policy, results, halted, aborted, sent, onLedger>>

(* A failure that is tried again. *)
Retry ==
  /\ attempts <= MaxRetries /\ ~aborted
  /\ attempts' = attempts + 1
  /\ stage' = "invoking"
  /\ UNCHANGED <<results, halted>>

(* One that is not: the contract's, the wallet's network, the signal, or    *)
(* the last attempt.                                                       *)
GiveUp(deterministic) ==
  /\ deterministic \/ aborted \/ attempts > MaxRetries
  /\ ReportFailure

(* invoke() fails before it sends: its hooks, the simulation, the wallet,  *)
(* a node.                                                                 *)
FailsUnsent(deterministic) ==
  /\ stage = "invoking"
  /\ (~deterministic /\ Retry) \/ GiveUp(deterministic)
  /\ UNCHANGED <<policy, aborted, sent, onLedger>>

Sends ==
  /\ stage = "invoking"
  /\ stage' = "sent"
  /\ sent' = sent \cup {<<Current, attempts>>}
  /\ UNCHANGED <<policy, attempts, results, halted, aborted, onLedger>>

(* The poll says SUCCESS. *)
Succeeds ==
  /\ stage = "sent"
  /\ <<Current, attempts>> \in onLedger
  /\ Report("success")
  /\ UNCHANGED <<policy, halted, aborted, sent, onLedger>>

(* The send or the poll fails: what was sent may land yet, or have landed. *)
FailsSent ==
  /\ stage = "sent"
  /\ Retry \/ GiveUp(FALSE)
  /\ UNCHANGED <<policy, aborted, sent, onLedger>>

(* invalidateByWillId() of every will of the queue: BatchEnds of CachedReads. *)
Cleanup ==
  /\ stage = "next" /\ Current \notin Ops
  /\ stage' = "done"
  /\ UNCHANGED <<policy, attempts, results, halted, aborted, sent, onLedger>>
-----------------------------------------------------------------------------
(* options.signal fires. *)
SignalFires ==
  /\ ~aborted /\ stage # "done"
  /\ aborted' = TRUE
  /\ UNCHANGED <<policy, stage, attempts, results, halted, sent, onLedger>>

(* A transaction lands, maybe after its attempt was given up. *)
Lands(tx) ==
  /\ tx \in sent \ onLedger
  /\ onLedger' = onLedger \cup {tx}
  /\ UNCHANGED <<policy, stage, attempts, results, halted, aborted, sent>>

BatchNext ==
  \/ Skip \/ StartInvoke \/ Sends \/ Succeeds \/ FailsSent \/ Cleanup
  \/ \E deterministic \in BOOLEAN : FailsUnsent(deterministic)
  \/ SignalFires
  \/ \E tx \in Transactions : Lands(tx)

BatchSpec == BatchInit /\ [][BatchNext]_bqVars
-----------------------------------------------------------------------------
(* Types: every variable has the shape its comment says. *)
BatchTypeOK ==
  /\ policy \in Policies
  /\ stage \in {"next", "invoking", "sent", "done"}
  /\ attempts \in 0..(MaxRetries + 1)
  /\ results \in Seq(Statuses) /\ Len(results) <= Length
  /\ halted \in BOOLEAN /\ aborted \in BOOLEAN
  /\ sent \subseteq Transactions /\ onLedger \subseteq sent

TransactionsOf(i, txs) == {tx \in txs : tx[1] = i}

Status(i) == IF i <= Len(results) THEN results[i] ELSE "open"

(* "every operation after a failure is marked `skipped` and never          *)
(* submitted", and so is every one after an abort; a success has landed;   *)
(* no operation is sent before the outcome of those ahead of it.           *)
OutcomesAreTrue ==
  \A i \in Ops :
    /\ Status(i) = "success" => TransactionsOf(i, onLedger) # {}
    /\ Status(i) = "skipped" => TransactionsOf(i, sent) = {}
    /\ \A j \in 1..(i - 1) :
         Status(j) \in {"open", "skipped"} \/ (policy = "stop" /\ Status(j) = "failed")
         => TransactionsOf(i, sent) = {}
-----------------------------------------------------------------------------
(* What the documentation says and the code does not do.                   *)

(* An operation of the queue is carried out once (a retry sends another    *)
(* transaction while the first may still land).                            *)
CarriedOutOnce == \A t, u \in onLedger : t[1] = u[1] => t = u

(* "Cached reads for every will touched by the queue are invalidated, so a *)
(* subsequent read reflects whatever actually landed on-chain": nothing    *)
(* lands after the invalidation.                                           *)
LandsBeforeInvalidation == [][stage = "done" => UNCHANGED onLedger]_bqVars
=============================================================================
