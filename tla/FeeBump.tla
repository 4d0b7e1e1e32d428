-------------------------------- MODULE FeeBump --------------------------------
(***************************************************************************)
(* feeBump.ts: calls of submitFeeBump() and autoFeeBumpOnTimeout() for one *)
(* inner transaction, with the caller's estimate of the fee, the market it *)
(* goes stale against, and the set of failed sequence numbers.             *)
(*                                                                         *)
(* Envelopes are the original and one bump per call; all have the sequence *)
(* number of the inner transaction, so the ledger applies one at most.     *)
(* External: the ledger, the inclusion fee of the network, the nodes,      *)
(* which know an envelope by its own hash.                                 *)
(***************************************************************************)
EXTENDS Integers, FiniteSetsExt

CONSTANTS
  Submits,      (* Calls of submitFeeBump().                               *)
  Autos,        (* Calls of autoFeeBumpOnTimeout().                        *)
  Original,     (* The inner transaction as an envelope.                   *)
  NoEnvelope,
  MaxFee,       (* Bound: the highest fee of the network, in BASE_FEE.     *)
  InnerPerOp,   (* Inclusion fee per operation of the inner transaction.   *)
  InnerFee,     (* Its fee, resources included.                            *)
  Cap,          (* maxFeeMultiplier: 0 disables the check.                 *)
  FeeOptions    (* What calls give: "estimate", "fee", "nothing".          *)

Bumps == Submits \cup Autos
Envelopes == Bumps \cup {Original}

ASSUME FeeBumpAssumption ==
  /\ Submits \cap Autos = {}
  /\ Original \notin Bumps /\ NoEnvelope \notin Envelopes
  /\ MaxFee \in Nat \ {0} /\ InnerPerOp \in 0..MaxFee /\ InnerFee \in Nat \ {0}
  /\ Cap \in Nat
  /\ FeeOptions \subseteq {"estimate", "fee", "nothing"}

VARIABLES
  market,     (* External: p90 of getFeeStats().                           *)
  option,     (* What each call gives.                                     *)
  estimate,   (* options.feeEstimate or options.fee of each call.          *)
  fresh,      (* The estimate is within the staleness threshold.           *)
  step,       (* Where each call is.                                       *)
  bid,        (* The fee of its bump, 0 before.                            *)
  outcome,    (* The envelope a call reports as landed, NoEnvelope before. *)
  failedSequences, (* failedFeeBumpSequenceNumbers.                        *)
  mempool,    (* External: envelopes a node has accepted.                  *)
  applied,    (* External: the envelope on the ledger.                     *)
  succeeded   (* External: with success.                                   *)

feeVars == <<estimate, fresh, bid>>
netVars == <<mempool, applied, succeeded>>
fbVars == <<market, option, feeVars, step, outcome, failedSequences, netVars>>

Steps == {"idle", "sendOriginal", "wait", "timer", "confirm", "recheck",
          "refresh", "send", "poll", "landed", "failed"}

(* The sequence of the inner transaction, and what FeeBumpTransaction has.  *)
Sequences == {"inner", "undefined"}

(* estimateFeeBumpFee(): per operation, and no less than the inner bid. *)
Baseline == Max({market, 1, InnerPerOp})

FeeBumpInit ==
  /\ market = 1
  /\ option \in [Bumps -> FeeOptions]
  /\ estimate = [b \in Bumps |-> 0]
  /\ fresh = [b \in Bumps |-> FALSE]
  /\ step = [b \in Bumps |-> "idle"]
  /\ bid = [b \in Bumps |-> 0]
  /\ outcome = [b \in Bumps |-> NoEnvelope]
  /\ failedSequences = {}
  /\ mempool = {}
  /\ applied = NoEnvelope
  /\ succeeded = FALSE

BumpGoto(b, s) == step' = [step EXCEPT ![b] = s]

BumpFails(b) == BumpGoto(b, "failed") /\ UNCHANGED outcome

(* Mutant: the bump is reported under the hash of the original. *)
LandedAsOriginal(b, e) ==
  /\ BumpGoto(b, "landed")
  /\ outcome' = [outcome EXCEPT ![b] = IF b \in Autos THEN Original ELSE e]

Landed(b, e) ==
  /\ BumpGoto(b, "landed")
  /\ outcome' = [outcome EXCEPT ![b] = e]
-----------------------------------------------------------------------------
(* The caller prepares: an estimate, or a fee of its own.                  *)

PrepareFee(b) ==
  /\ step[b] = "idle" /\ estimate[b] = 0
  /\ \/ /\ option[b] = "estimate"
        /\ estimate' = [estimate EXCEPT ![b] = Baseline]
        /\ fresh' = [fresh EXCEPT ![b] = TRUE]
     \/ /\ option[b] = "fee"
        /\ \E f \in 1..MaxFee : estimate' = [estimate EXCEPT ![b] = f]
        /\ UNCHANGED fresh
  /\ UNCHANGED <<market, option, step, bid, outcome, failedSequences, netVars>>

EstimateAges(b) ==
  /\ fresh[b]
  /\ fresh' = [fresh EXCEPT ![b] = FALSE]
  /\ UNCHANGED <<market, option, estimate, step, bid, outcome, failedSequences, netVars>>

MarketMoves ==
  /\ market' \in 1..MaxFee \ {market}
  /\ UNCHANGED <<option, feeVars, step, outcome, failedSequences, netVars>>

(* trackFailedFeeBumpSequence() and resetFailedFeeBumpSequences() of the app. *)
AppTracks ==
  /\ failedSequences' = failedSequences \cup {"inner"}
  /\ UNCHANGED <<market, option, feeVars, step, outcome, netVars>>

AppResets ==
  /\ failedSequences' = {}
  /\ UNCHANGED <<market, option, feeVars, step, outcome, netVars>>
-----------------------------------------------------------------------------
(* submitFeeBump().                                                        *)

(* buildFeeBumpXdr(), which refuses an exorbitant fee, and the signature. *)
Build(b, fee) ==
  IF Cap > 0 /\ fee > Cap
  THEN BumpFails(b) /\ UNCHANGED bid
  ELSE /\ bid' = [bid EXCEPT ![b] = fee]
       /\ BumpGoto(b, "send")
       /\ UNCHANGED outcome

(* From the call to its first wait: a sequence known as failed is refused,  *)
(* a stale estimate is made again.                                         *)
BeginBump(b) ==
  CASE "inner" \in failedSequences -> BumpFails(b) /\ UNCHANGED bid
    [] "inner" \notin failedSequences /\ option[b] = "estimate" /\ ~fresh[b] ->
         BumpGoto(b, "refresh") /\ UNCHANGED <<bid, outcome>>
    [] OTHER -> Build(b, IF option[b] = "nothing" THEN InnerFee ELSE estimate[b])

Ready(b) == step[b] = "idle" /\ (option[b] = "nothing" \/ estimate[b] # 0)

Submit(b) ==
  /\ b \in Submits /\ Ready(b)
  /\ BeginBump(b)
  /\ UNCHANGED <<market, option, estimate, fresh, failedSequences, netVars>>

(* refreshFeeEstimateIfStale(): the higher of both; getFeeStats may fail. *)
Refresh(b) ==
  /\ step[b] = "refresh"
  /\ \/ Build(b, Max({estimate[b], Baseline}))
     \/ BumpFails(b) /\ UNCHANGED bid
  /\ UNCHANGED <<market, option, estimate, fresh, failedSequences, netVars>>

(* submitFeeBumpTransaction() reads .sequence of a fee bump: undefined. *)
TrackFailed == failedSequences' = failedSequences \cup {"undefined"}

(* A node accepts an envelope whose sequence is not used. *)
Accepts(e) == applied = NoEnvelope /\ mempool' = mempool \cup {e}

(* PENDING or DUPLICATE. *)
BumpAccepted(b) ==
  /\ step[b] = "send"
  /\ Accepts(b)
  /\ BumpGoto(b, "poll")
  /\ UNCHANGED <<market, option, feeVars, outcome, failedSequences, applied, succeeded>>

(* ERROR, as after the original has used the sequence. *)
BumpRefused(b) ==
  /\ step[b] = "send"
  /\ BumpFails(b)
  /\ TrackFailed
  /\ UNCHANGED <<market, option, feeVars, netVars>>

(* TRY_AGAIN_LATER, or no endpoint answers; one may have the envelope. *)
BumpNotSent(b) ==
  /\ step[b] = "send"
  /\ BumpFails(b)
  /\ Accepts(b) \/ UNCHANGED mempool
  /\ UNCHANGED <<market, option, feeVars, failedSequences, applied, succeeded>>

BumpLanded(b) ==
  /\ step[b] = "poll"
  /\ applied = b /\ succeeded
  /\ Landed(b, b)
  /\ UNCHANGED <<market, option, feeVars, failedSequences, netVars>>

(* FAILED, or NOT_FOUND until the attempts are used up. *)
BumpNotLanded(b) ==
  /\ step[b] = "poll"
  /\ applied # b \/ ~succeeded
  /\ BumpFails(b)
  /\ TrackFailed
  /\ UNCHANGED <<market, option, feeVars, netVars>>

PollLost(b) ==
  /\ step[b] = "poll"
  /\ BumpFails(b)
  /\ UNCHANGED <<market, option, feeVars, failedSequences, netVars>>
-----------------------------------------------------------------------------
(* autoFeeBumpOnTimeout().                                                 *)

AutoStep(b, from) == b \in Autos /\ step[b] = from

StartAuto(b) ==
  /\ b \in Autos /\ Ready(b)
  /\ BumpGoto(b, "sendOriginal")
  /\ UNCHANGED <<market, option, feeVars, outcome, failedSequences, netVars>>

(* Anything but ERROR counts as sent, TRY_AGAIN_LATER too. *)
SendOriginal(b) ==
  /\ AutoStep(b, "sendOriginal")
  /\ BumpGoto(b, "wait")
  /\ Accepts(Original) \/ UNCHANGED mempool
  /\ UNCHANGED <<market, option, feeVars, outcome, failedSequences, applied, succeeded>>

(* ERROR or no answer; in the second case the node may have the original. *)
OriginalRefused(b) ==
  /\ AutoStep(b, "sendOriginal")
  /\ BumpFails(b)
  /\ Accepts(Original) \/ UNCHANGED mempool
  /\ UNCHANGED <<market, option, feeVars, failedSequences, applied, succeeded>>

(* The single poll: anything but a success leaves the call to the timer. *)
PollOriginal(b) ==
  /\ AutoStep(b, "wait")
  /\ \/ applied = Original /\ succeeded /\ BumpGoto(b, "confirm")
     \/ BumpGoto(b, "timer")
  /\ UNCHANGED <<market, option, feeVars, outcome, failedSequences, netVars>>

TimerFires(b) ==
  /\ b \in Autos /\ step[b] \in {"wait", "timer"}
  /\ BumpGoto(b, "recheck")
  /\ UNCHANGED <<market, option, feeVars, outcome, failedSequences, netVars>>

(* The transaction is read once more for its time. *)
Confirm(b) ==
  /\ AutoStep(b, "confirm")
  /\ Landed(b, Original) \/ BumpFails(b)
  /\ UNCHANGED <<market, option, feeVars, failedSequences, netVars>>

(* The original's status before the bump: landed, failed, or not found, as *)
(* a node that is behind the ledger still says of an applied one.          *)
Recheck(b) ==
  /\ AutoStep(b, "recheck")
  /\ \/ applied = Original /\ succeeded /\ Landed(b, Original) /\ UNCHANGED bid
     \/ applied = Original /\ ~succeeded /\ BumpFails(b) /\ UNCHANGED bid
     \/ BeginBump(b)
  /\ UNCHANGED <<market, option, estimate, fresh, failedSequences, netVars>>

RecheckLost(b) ==
  /\ AutoStep(b, "recheck")
  /\ BumpFails(b)
  /\ UNCHANGED <<market, option, feeVars, failedSequences, netVars>>
-----------------------------------------------------------------------------
(* The ledger.                                                             *)

LedgerApplies(e) ==
  /\ e \in mempool /\ applied = NoEnvelope
  /\ applied' = e
  /\ succeeded' \in BOOLEAN
  /\ mempool' = mempool \ {e}
  /\ UNCHANGED <<market, option, feeVars, step, outcome, failedSequences>>

LedgerDrops(e) ==
  /\ e \in mempool
  /\ mempool' = mempool \ {e}
  /\ UNCHANGED <<market, option, feeVars, step, outcome, failedSequences, applied, succeeded>>
-----------------------------------------------------------------------------
FeeBumpNext ==
  \/ \E b \in Bumps :
       \/ PrepareFee(b) \/ EstimateAges(b) \/ Submit(b) \/ Refresh(b)
       \/ BumpAccepted(b) \/ BumpRefused(b) \/ BumpNotSent(b)
       \/ BumpLanded(b) \/ BumpNotLanded(b) \/ PollLost(b)
       \/ StartAuto(b) \/ SendOriginal(b) \/ OriginalRefused(b) \/ PollOriginal(b)
       \/ TimerFires(b) \/ Confirm(b) \/ Recheck(b) \/ RecheckLost(b)
  \/ \E e \in Envelopes : LedgerApplies(e) \/ LedgerDrops(e)
  \/ MarketMoves \/ AppTracks \/ AppResets

FeeBumpSpec == FeeBumpInit /\ [][FeeBumpNext]_fbVars
-----------------------------------------------------------------------------
(* Types: every variable has the shape its comment says. *)
FeeBumpTypeOK ==
  /\ market \in 1..MaxFee
  /\ option \in [Bumps -> FeeOptions]
  /\ estimate \in [Bumps -> Nat]
  /\ fresh \in [Bumps -> BOOLEAN]
  /\ step \in [Bumps -> Steps]
  /\ bid \in [Bumps -> Nat]
  /\ outcome \in [Bumps -> Envelopes \cup {NoEnvelope}]
  /\ failedSequences \subseteq Sequences
  /\ mempool \subseteq Envelopes
  /\ applied \in Envelopes \cup {NoEnvelope}
  /\ succeeded \in BOOLEAN

(* Whatever lands first, the original, this bump or another call's: a call *)
(* that reports success reports the envelope that is on the ledger.        *)
ReportedIsApplied ==
  \A b \in Bumps : step[b] = "landed" => applied = outcome[b] /\ succeeded

(* A bump under an estimate never bids less than the estimate ("The        *)
(* returned estimate's fee is never lower than the original") nor than the *)
(* inner transaction, and no bump more than the multiplier allows.         *)
BidInBounds ==
  \A b \in Bumps : bid[b] # 0 =>
    /\ Cap > 0 => bid[b] <= Cap
    /\ option[b] = "estimate" => bid[b] >= estimate[b] /\ bid[b] >= InnerPerOp
-----------------------------------------------------------------------------
(* What the documentation says and the code does not do.                   *)

(* "Record the sequence number of an inner transaction whose fee-bump      *)
(* attempt failed, so that a subsequent retry does not blindly reuse it."  *)
FailedIsRemembered ==
  \A b \in Bumps : step[b] = "failed" /\ bid[b] # 0 => failedSequences # {"undefined"}

(* "preventing a duplicate operation when the original merely reported     *)
(* slowly": a call that fails leaves no applied original behind.           *)
FailureIsNotApplied ==
  \A b \in Autos : step[b] = "failed" => applied # Original \/ ~succeeded
=============================================================================
