------------------------------ MODULE WillRules ------------------------------
(***************************************************************************)
(* What the SDK computes of a will, over the will's life: the actions      *)
(* getNextActionableState() offers, the checks the write methods make on   *)
(* the will they have read before they send, and the beneficiaries as they *)
(* are validated, written in basis points, and read back.                  *)
(*                                                                         *)
(* The application computes its offers from a will it has read before, and *)
(* getWill() may answer a method from the cache: `held` is that will.  One *)
(* call of releaseInheritance() is followed from await to await, while     *)
(* time passes and others act on the will.                                 *)
(*                                                                         *)
(* External: the contract, which takes what the SDK would offer to its     *)
(* owner on the will as it is, and refuses the rest; the accounts of the   *)
(* beneficiaries.  Time is in ticks of which TicksPerSecond make the       *)
(* second getTimeUntilCheckin() rounds down to.                            *)
(***************************************************************************)
EXTENDS Integers, SequencesExt

CONSTANTS
  Period,          (* checkinPeriodDays, in ticks.                         *)
  Grace,           (* gracePeriodDays, in ticks.                           *)
  TicksPerSecond,
  MaxTime,         (* Bound: the last tick.                                *)
  None,
  Percent,         (* Basis points of one percent.                         *)
  MaxBeneficiaries,
  Lists            (* Beneficiary lists given to the SDK: the percentage   *)
                   (* of each, in basis points.                            *)

ASSUME WillRulesAssumption ==
  /\ Period \in Nat \ {0} /\ Grace \in Nat \ {0} /\ TicksPerSecond \in Nat \ {0}
  /\ MaxTime \in Nat
  /\ None \notin Int
  /\ Percent \in Nat \ {0} /\ MaxBeneficiaries \in Nat
  /\ Lists \subseteq Seq(Int)

VARIABLES
  now,             (* The time, the same for the client and the ledger.    *)
  status,          (* The status of the will, "none" before it is created. *)
  lastCheckin,
  triggerTime,
  basisPoints,     (* Its beneficiaries on the ledger.                     *)
  held,            (* The will as it was read last, None before.           *)
  funded,          (* External: the account of each beneficiary exists.    *)
  release,         (* Where the call of releaseInheritance() is: "none",   *)
                   (* "asked", "checked", or how the last one ended:       *)
                   (* "grace" and "unfunded" if refused by the SDK, else   *)
                   (* "sent".                                              *)
  offer,           (* History: triggerTime of the will on which the app    *)
                   (* was offered the release it asked for, None if it     *)
                   (* was not.                                             *)
  lastTriggered    (* History: when the will was last triggered.           *)

timeVars == <<lastCheckin, triggerTime, lastTriggered>>
ledgerVars == <<status, timeVars, basisPoints>>
callVars == <<held, funded, release, offer>>
wrVars == <<now, ledgerVars, callVars>>

WillStatuses == {"none", "active", "triggered", "released", "cancelled"}

WillRulesInit ==
  /\ now = 0
  /\ status = "none"
  /\ lastCheckin = 0
  /\ triggerTime = None
  /\ basisPoints = <<>>
  /\ held = None
  /\ funded \in BOOLEAN
  /\ release = "none"
  /\ offer = None
  /\ lastTriggered = 0
-----------------------------------------------------------------------------
(* getNextActionableState() of the will w, for the owner. *)
Deadline(w) == w.lastCheckin + Period
CheckinOverdue(w) == w.status = "active" /\ Deadline(w) < now
GraceExpired(w) == w.triggerTime # None /\ w.triggerTime + Grace < now

CanCheckIn(w) == w.status = "active" /\ ~CheckinOverdue(w)
CanTrigger(w) == CheckinOverdue(w) /\ w.status # "triggered"
CanEmergencyCheckIn(w) == w.status = "triggered" /\ ~GraceExpired(w)
CanRelease(w) == w.status = "triggered" /\ GraceExpired(w)
CanCancel(w) == w.status \in {"active", "triggered"}

(* getTimeUntilCheckin() and isCheckinDue(). *)
TimeUntilCheckin(w) == (Deadline(w) - now) \div TicksPerSecond
IsCheckinDue(w) == TimeUntilCheckin(w) <= 0

(* Mutant: the other period of the will is taken for its grace period. *)
GraceActiveForPeriod(w) == w.triggerTime # None /\ now < w.triggerTime + Period

(* What checkIn() and releaseInheritance() refuse before they send. *)
RefusesCheckIn(w) == w.status = "triggered"
GraceActive(w) == w.triggerTime # None /\ now < w.triggerTime + Grace
-----------------------------------------------------------------------------
(* Beneficiaries.                                                          *)

Sum(list) == FoldSeq(LAMBDA p, total : p + total, 0, list)

(* validateBeneficiaries(); createWill() checks the sum in basis points too. *)
ValidBeneficiaries(list) ==
  /\ Len(list) \in 1..MaxBeneficiaries
  /\ \A i \in DOMAIN list : list[i] > 0
  /\ Sum(list) = 100 * Percent

(* fromContractBeneficiaries(): whole percentages only. *)
Readable == \A i \in DOMAIN basisPoints : basisPoints[i] % Percent = 0

(* The will as it is, and what getWill() may answer: that, if it can be    *)
(* read, or from the cache.                                                *)
TheWill == [status |-> status, lastCheckin |-> lastCheckin, triggerTime |-> triggerTime]
Reads ==
  {w \in {TheWill} : status # "none" /\ Readable} \cup ({held} \ {None})

(* calculateShares(): the last one gets the remainder. *)
Shares(balance, percentages) ==
  LET rounded == [i \in 1..(Len(percentages) - 1) |-> (balance * percentages[i]) \div 100]
  IN Append(rounded, balance - Sum(rounded))

(* distribute() of the contract, in basis points of 10,000. *)
Distributed(balance, points) ==
  LET rounded == [i \in 1..(Len(points) - 1) |-> (balance * points[i]) \div (100 * Percent)]
  IN Append(rounded, balance - Sum(rounded))
-----------------------------------------------------------------------------
(* The methods, each with its checks on the will it reads, if it does, and *)
(* the contract's on the will as it is.                                    *)

CreateWill(list) ==
  /\ status = "none"
  /\ ValidBeneficiaries(list)
  /\ status' = "active"
  /\ lastCheckin' = now
  /\ basisPoints' = list
  /\ UNCHANGED <<now, triggerTime, lastTriggered, callVars>>

(* With skipExistenceCheck it does not read the will. *)
UpdateBeneficiaries(list) ==
  /\ status = "active"
  /\ ValidBeneficiaries(list)
  /\ basisPoints' = list
  /\ UNCHANGED <<now, status, timeVars, callVars>>

CheckIn ==
  /\ \E w \in Reads : ~RefusesCheckIn(w)
  /\ CanCheckIn(TheWill)
  /\ lastCheckin' = now
  /\ UNCHANGED <<now, status, triggerTime, lastTriggered, basisPoints, callVars>>

TriggerWill ==
  /\ CanTrigger(TheWill)
  /\ status' = "triggered"
  /\ triggerTime' = now
  /\ lastTriggered' = now
  /\ UNCHANGED <<now, lastCheckin, basisPoints, callVars>>

EmergencyCheckIn ==
  /\ Reads # {}
  /\ CanEmergencyCheckIn(TheWill)
  /\ status' = "active"
  /\ lastCheckin' = now
  /\ triggerTime' = None
  /\ UNCHANGED <<now, lastTriggered, basisPoints, callVars>>

(* releaseInheritance() is called, on an offer or without. *)
AskRelease ==
  /\ release \notin {"asked", "checked"}
  /\ release' = "asked"
  /\ offer' = IF held # None /\ CanRelease(held) THEN held.triggerTime ELSE None
  /\ UNCHANGED <<now, ledgerVars, held, funded>>

(* It has read the will. *)
CheckGrace ==
  /\ release = "asked"
  /\ \E w \in Reads : release' = IF GraceActive(w) THEN "grace" ELSE "checked"
  /\ UNCHANGED <<now, ledgerVars, held, funded, offer>>

(* validateBeneficiariesFunded(): an account that cannot be read, for any  *)
(* reason, counts as not funded.                                           *)
FundingRefused ==
  /\ release = "checked"
  /\ release' = "unfunded"
  /\ UNCHANGED <<now, ledgerVars, held, funded, offer>>

(* It sends; the contract takes it or not. *)
ReleaseInheritance ==
  /\ release = "checked"
  /\ funded
  /\ release' = "sent"
  /\ status' = IF CanRelease(TheWill) THEN "released" ELSE status
  /\ UNCHANGED <<now, timeVars, basisPoints, held, funded, offer>>

CancelWill ==
  /\ CanCancel(TheWill)
  /\ status' = "cancelled"
  /\ UNCHANGED <<now, timeVars, basisPoints, callVars>>

(* The app reads the will anew. *)
GetWill ==
  /\ held' \in Reads
  /\ UNCHANGED <<now, ledgerVars, funded, release, offer>>

AccountsChange ==
  /\ funded' = ~funded
  /\ UNCHANGED <<now, ledgerVars, held, release, offer>>

TimePasses ==
  /\ now < MaxTime
  /\ now' = now + 1
  /\ UNCHANGED <<ledgerVars, callVars>>

WillRulesNext ==
  \/ \E list \in Lists : CreateWill(list) \/ UpdateBeneficiaries(list)
  \/ CheckIn \/ TriggerWill \/ EmergencyCheckIn \/ CancelWill
  \/ AskRelease \/ CheckGrace \/ FundingRefused \/ ReleaseInheritance
  \/ GetWill \/ AccountsChange \/ TimePasses

WillRulesSpec == WillRulesInit /\ [][WillRulesNext]_wrVars
-----------------------------------------------------------------------------
(* Types: every variable has the shape its comment says. *)
WillRulesTypeOK ==
  /\ now \in 0..MaxTime
  /\ status \in WillStatuses
  /\ lastCheckin \in 0..MaxTime
  /\ triggerTime \in 0..MaxTime \cup {None}
  /\ basisPoints \in Lists \cup {<<>>}
  /\ held = None \/ held \in [status : WillStatuses, lastCheckin : 0..MaxTime,
                               triggerTime : 0..MaxTime \cup {None}]
  /\ funded \in BOOLEAN
  /\ release \in {"none", "asked", "checked", "grace", "unfunded", "sent"}
  /\ offer \in 0..MaxTime \cup {None}
  /\ lastTriggered \in 0..MaxTime

(* A release that was offered, whatever happens until it is asked for and   *)
(* between the awaits of releaseInheritance(), and whether the offer or    *)
(* the method was made on an older read of the will: it is refused over    *)
(* the grace period only if the will has been triggered again since it was *)
(* read for the offer (getNextActionableState() and releaseInheritance()   *)
(* compare the same times, one strictly and the other not).                *)
OffersAreAccepted == release = "grace" /\ offer # None => lastTriggered > offer
-----------------------------------------------------------------------------
(* What the documentation says and the code does not do.                   *)

(* Releasing is "permissionless once [its] on-chain preconditions are met" *)
(* (getNextActionableState()): what it offers is not refused unsent.       *)
OfferedIsSent == offer # None => release # "unfunded"

(* "@throws BeneficiaryValidationError If any beneficiary account is not   *)
(* found on-chain or is unfunded": and not for another reason.             *)
FundingRefusalIsTrue == [][FundingRefused => ~funded]_wrVars

(* "If the will is in the Triggered state [...] the contract will reject    *)
(* check_in": what checkIn() refuses is triggered.                         *)
CheckInRefusalIsTrue == \A w \in Reads : RefusesCheckIn(w) => status = "triggered"

(* "The SDK only ever writes whole percentages": a will written by the SDK  *)
(* can be read by it.                                                      *)
WrittenIsReadable == Readable

(* A check-in that is due is overdue: the two disagree within a second.    *)
DueIsOverdue ==
  status = "active" /\ IsCheckinDue(TheWill) => CheckinOverdue(TheWill)
=============================================================================
