---------------------------- MODULE ServiceProofs ----------------------------
(***************************************************************************)
(* The services around the client's calls, each a component of its own,    *)
(* for every value of its constants: the counts of references and of       *)
(* signatures, the spec that is kept, what is offered of a will, what is   *)
(* reported of fee bumps and of queues of operations, the events of a      *)
(* subscription, and the sequence number of a batch.                       *)
(***************************************************************************)
EXTENDS SharedQueues, MultisigCollector, ContractSpec, WillRules, FeeBump, BatchQueue,
        EventSubscription, BatchCalls, FiniteSetTheorems, TLAPS

(* A queue that has not been made has no references, its core has been     *)
(* made, and the queues in use have the registered core, which counts them.*)
CoresFit ==
  /\ released \subseteq Made
  /\ \A q \in Queues \ Made : refCount[q] = 0
  /\ \A q \in Made : coreOf[q] \in Made
  /\ sharedCore = NoQueue => InUse = {}
  /\ sharedCore # NoQueue => sharedCore \in Made /\ refCount[sharedCore] = Cardinality(InUse)
  /\ sharedQueue # NoQueue => sharedQueue \in Made
  /\ \A q \in InUse : coreOf[q] = sharedCore

CoreInv == SharedQueuesTypeOK /\ CoresFit

LEMMA InUseFinite ==
  ASSUME SharedQueuesTypeOK
  PROVE  /\ InUse \subseteq Queues /\ IsFiniteSet(InUse) /\ Cardinality(InUse) \in Nat
BY SharedQueuesAssumption, FS_Subset, FS_CardinalityType DEF InUse, Made

LEMMA ConstructFits ==
  ASSUME CoreInv, NEW q \in Queues, Construct(q), UNCHANGED released,
         sharedQueue' \in {sharedQueue, q}
  PROVE  CoreInv'
<1> USE DEF CoreInv, SharedQueuesTypeOK
<1> DEFINE core == IF sharedCore = NoQueue THEN q ELSE sharedCore
<1>1. /\ coreOf' = [coreOf EXCEPT ![q] = core] /\ sharedCore' = core
      /\ refCount' = [refCount EXCEPT ![core] = @ + 1]
      /\ q \notin Made
  BY DEF Construct
<1>2. core \in Queues /\ core # NoQueue /\ core \in Made \cup {q} /\ q # NoQueue
  BY SharedQueuesAssumption DEF CoresFit, Made
<1> HIDE DEF core
<1>3. Made' = Made \cup {q} /\ InUse' = InUse \cup {q} /\ q \notin InUse
  <2>1. Made' = Made \cup {q}
    BY <1>1, <1>2 DEF Made
  <2> QED
    BY <2>1, <1>1 DEF InUse, CoresFit
<1>4. SharedQueuesTypeOK'
  <2>1. refCount' \in [Queues -> Nat]
    <3>1. refCount[core] + 1 \in Nat
      BY <1>2
    <3> QED
      BY <3>1, <1>1
  <2>2. coreOf' \in [Queues -> Queues \cup {NoQueue}]
    BY <1>1, <1>2
  <2> QED
    BY <2>1, <2>2, <1>1, <1>2
<1>5. released' \subseteq Made' /\ (sharedQueue' # NoQueue => sharedQueue' \in Made')
  BY <1>3 DEF CoresFit
<1>6. \A r \in Queues \ Made' : refCount'[r] = 0
  BY <1>1, <1>2, <1>3 DEF CoresFit
<1>7. \A r \in Made' : coreOf'[r] \in Made'
  BY <1>1, <1>2, <1>3 DEF CoresFit, Made
<1>8. \A r \in InUse' : coreOf'[r] = sharedCore'
  <2>1. ASSUME NEW r \in InUse PROVE coreOf[r] = core /\ r # q /\ r \in Queues
    BY <1>3 DEF CoresFit, core, InUse, Made
  <2> QED
    BY <2>1, <1>1, <1>3
<1>9. refCount'[sharedCore'] = Cardinality(InUse')
  <2>1. Cardinality(InUse') = Cardinality(InUse) + 1
    BY <1>3, InUseFinite, FS_AddElement
  <2>2. refCount'[sharedCore'] = refCount[core] + 1
    BY <1>1, <1>2
  <2>3. refCount[core] = Cardinality(InUse)
    <3>1. CASE sharedCore = NoQueue
      BY <3>1, <1>1, FS_EmptySet DEF CoresFit, core
    <3>2. CASE sharedCore # NoQueue
      BY <3>2 DEF CoresFit, core
    <3> QED
      BY <3>1, <3>2
  <2> QED
    BY <2>1, <2>2, <2>3
<1> QED
  BY <1>1, <1>2, <1>3, <1>4, <1>5, <1>6, <1>7, <1>8, <1>9 DEF CoresFit

LEMMA ReleaseFits ==
  ASSUME CoreInv, NEW q \in Made, Release(q), UNCHANGED coreOf,
         sharedQueue' \in {sharedQueue, NoQueue}
  PROVE  CoreInv'
<1> USE DEF CoreInv, SharedQueuesTypeOK
<1>1. released' = released \cup {q} /\ Made' = Made /\ q \in Queues
  BY DEF Release, Made
<1>2. InUse' = InUse \ {q}
  BY <1>1 DEF InUse
<1>3. CASE q \in released
  <2>1. UNCHANGED <<refCount, sharedCore>> /\ InUse' = InUse
    BY <1>2, <1>3 DEF Release, InUse
  <2> QED
    BY <2>1, <1>1, SharedQueuesAssumption DEF CoresFit
<1>4. CASE q \notin released
  <2>1. q \in InUse /\ coreOf[q] = sharedCore /\ sharedCore \in Made /\ sharedCore # NoQueue
    BY <1>4, SharedQueuesAssumption DEF InUse, CoresFit, Made
  <2>2. /\ refCount' = [refCount EXCEPT ![sharedCore] = @ - 1]
        /\ sharedCore' = IF refCount[sharedCore] <= 1 THEN NoQueue ELSE sharedCore
    BY <2>1, <1>4 DEF Release, GiveBack
  <2>3. /\ refCount[sharedCore] = Cardinality(InUse) /\ Cardinality(InUse) \in Nat
        /\ Cardinality(InUse') = Cardinality(InUse) - 1 /\ Cardinality(InUse') \in Nat
        /\ IsFiniteSet(InUse')
    BY <2>1, <1>2, InUseFinite, FS_RemoveElement, FS_CardinalityType DEF CoresFit
  <2>4. sharedCore \in Queues
    BY <2>1 DEF Made
  <2>5. SharedQueuesTypeOK'
    <3>1. refCount[sharedCore] - 1 \in Nat
      BY <2>3
    <3>2. refCount' \in [Queues -> Nat]
      BY <3>1, <2>2, <2>4
    <3> QED
      BY <3>2, <1>1, <2>2
  <2>6. sharedCore' = NoQueue => InUse' = {}
    BY <2>2, <2>3, <2>1, FS_EmptySet
  <2>7. sharedCore' # NoQueue =>
          sharedCore' \in Made' /\ refCount'[sharedCore'] = Cardinality(InUse')
    BY <2>1, <2>2, <2>3, <2>4, <1>1
  <2>8. \A r \in InUse' : coreOf'[r] = sharedCore'
    BY <2>2, <2>6, <1>2 DEF CoresFit
  <2>9. \A r \in Queues \ Made' : refCount'[r] = 0
    BY <1>1, <2>1, <2>2 DEF CoresFit
  <2>10. released' \subseteq Made' /\ \A r \in Made' : coreOf'[r] \in Made'
    BY <1>1 DEF CoresFit
  <2>11. sharedQueue' # NoQueue => sharedQueue' \in Made'
    BY <1>1 DEF CoresFit
  <2> QED
    BY <2>5, <2>6, <2>7, <2>8, <2>9, <2>10, <2>11 DEF CoresFit
<1> QED
  BY <1>3, <1>4

LEMMA CoreStep == CoreInv /\ [SharedQueuesNext]_sqVars => CoreInv'
<1> SUFFICES ASSUME CoreInv, [SharedQueuesNext]_sqVars PROVE CoreInv'
  OBVIOUS
<1>1. ASSUME NEW q \in Queues, NewQueue(q) \/ GetShared(q) PROVE CoreInv'
  BY <1>1, ConstructFits DEF NewQueue, GetShared
<1>2. ASSUME NEW q \in Queues, ReleaseQueue(q) PROVE CoreInv'
  BY <1>2, ReleaseFits DEF ReleaseQueue
<1>3. CASE ReleaseShared
  <2>1. sharedQueue \in Made
    BY <1>3 DEF ReleaseShared, CoreInv, CoresFit
  <2> QED
    BY <2>1, <1>3, ReleaseFits DEF ReleaseShared
<1>4. CASE UNCHANGED sqVars
  <2>1. Made' = Made /\ InUse' = InUse
    BY <1>4 DEF sqVars, Made, InUse
  <2> QED
    BY <2>1, <1>4 DEF sqVars, CoreInv, CoresFit, SharedQueuesTypeOK
<1> QED
  BY <1>1, <1>2, <1>3, <1>4 DEF SharedQueuesNext

LEMMA CoreInit == SharedQueuesInit => CoreInv
<1> SUFFICES ASSUME SharedQueuesInit PROVE CoreInv
  OBVIOUS
<1>1. Made = {} /\ InUse = {}
  BY DEF SharedQueuesInit, Made, InUse
<1> QED
  BY <1>1 DEF SharedQueuesInit, CoreInv, CoresFit, SharedQueuesTypeOK

(* The queues of an account that are not released share the one core that  *)
(* is registered and counts them, however often and by whomever the others *)
(* are released (RequestQueue.release(), releaseSharedRequestQueue()).     *)
THEOREM AccountHasOneCore == SharedQueuesSpec => []OneCorePerAccount
<1>1. CoreInv => OneCorePerAccount
  <2> SUFFICES ASSUME CoreInv PROVE OneCorePerAccount
    OBVIOUS
  <2>1. {q \in InUse : coreOf[q] = sharedCore} = InUse
    BY DEF CoreInv, CoresFit
  <2> QED
    BY <2>1 DEF CoreInv, CoresFit, OneCorePerAccount
<1> QED
  BY <1>1, CoreInit, CoreStep, PTL DEF SharedQueuesSpec
-----------------------------------------------------------------------------
(* A set of signatures has each signer once. *)
SignedOnce(sigs) ==
  /\ IsFiniteSet(sigs) /\ IsFiniteSet(SignersOf(sigs))
  /\ Cardinality(SignersOf(sigs)) = Cardinality(sigs)

SignaturesInv ==
  /\ signatures = [c \in MsCollectors |-> signatures[c]]
  /\ built = [c \in MsCollectors |-> built[c]]
  /\ \A c \in MsCollectors :
       /\ SignedOnce(signatures[c])
       /\ built[c] # {} => SignedOnce(built[c]) /\ Cardinality(built[c]) >= MsThreshold
  /\ stored # MsNone => SignedOnce(stored)

LEMMA NoneSigned == SignedOnce({})
<1>1. SignersOf({}) = {}
  BY DEF SignersOf
<1> QED
  BY <1>1, FS_EmptySet DEF SignedOnce

LEMMA OneMore ==
  ASSUME NEW sigs, SignedOnce(sigs), NEW sig, NewSigner(sigs, sig[1])
  PROVE  SignedOnce(sigs \cup {sig})
<1>1. SignersOf(sigs \cup {sig}) = SignersOf(sigs) \cup {sig[1]}
  BY DEF SignersOf
<1>2. sig[1] \notin SignersOf(sigs) /\ sig \notin sigs
  BY DEF NewSigner, SignersOf
<1> QED
  BY <1>1, <1>2, FS_AddElement DEF SignedOnce

LEMMA SignaturesStep == SignaturesInv /\ [MultisigNext]_msVars => SignaturesInv'
<1> SUFFICES ASSUME SignaturesInv, [MultisigNext]_msVars PROVE SignaturesInv'
  OBVIOUS
<1> USE DEF SignaturesInv
<1>1. ASSUME NEW c \in MsCollectors, NEW new, SignedOnce(new),
             signatures' = [signatures EXCEPT ![c] = new], UNCHANGED <<stored, built>>
      PROVE  SignaturesInv'
  BY <1>1
<1>2. ASSUME NEW c \in MsCollectors, NEW sig \in MsSignatures, AddSignature(c, sig)
      PROVE  SignaturesInv'
  BY <1>1, <1>2, OneMore DEF AddSignature
<1>3. ASSUME NEW c \in MsCollectors, ResetCollection(c) PROVE SignaturesInv'
  BY <1>1, <1>3, NoneSigned DEF ResetCollection
<1>4. ASSUME NEW c \in MsCollectors, FromJSON(c) PROVE SignaturesInv'
  BY <1>1, <1>4 DEF FromJSON
<1>5. ASSUME NEW c \in MsCollectors, ToJSON(c) PROVE SignaturesInv'
  BY <1>5 DEF ToJSON
<1>6. ASSUME NEW c \in MsCollectors, BuildTransaction(c) PROVE SignaturesInv'
  <2>1. \A d \in MsCollectors : built'[d] = IF d = c THEN signatures[c] ELSE built[d]
    BY <1>6 DEF BuildTransaction
  <2>2. Cardinality(signatures[c]) >= MsThreshold
    BY <1>6 DEF BuildTransaction, IsReady
  <2>3. built' = [d \in MsCollectors |-> built'[d]] /\ UNCHANGED <<signatures, stored>>
    BY <1>6 DEF BuildTransaction
  <2> QED
    BY <2>1, <2>2, <2>3
<1>7. CASE MsTick \/ UNCHANGED msVars
  BY <1>7 DEF MsTick, msVars
<1> QED
  BY <1>2, <1>3, <1>4, <1>5, <1>6, <1>7 DEF MultisigNext

(* What build() returns carries the signatures of as many different        *)
(* signers as the threshold asks for, through copies, stores and resets    *)
(* (addSignature() and build() of multisig.ts).                            *)
THEOREM EnoughSignersSign == MultisigSpec => []BuiltBySigners
<1>1. MultisigInit => SignaturesInv
  BY NoneSigned DEF MultisigInit, SignaturesInv
<1>2. SignaturesInv => BuiltBySigners
  BY DEF SignaturesInv, BuiltBySigners, SignedOnce
<1> QED
  BY <1>1, <1>2, SignaturesStep, PTL DEF MultisigSpec
-----------------------------------------------------------------------------
(* The promise of an ended fetch has no waiters, and the one that is kept  *)
(* was started and not rejected.                                           *)
SpecInv == ContractSpecTypeOK /\ SpecCanBeReplaced

LEMMA SpecStep == SpecInv /\ [ContractSpecNext]_csVars => SpecInv'
<1> SUFFICES ASSUME SpecInv, [ContractSpecNext]_csVars PROVE SpecInv'
  OBVIOUS
<1> USE ContractSpecAssumption DEF SpecInv, ContractSpecTypeOK, SpecCanBeReplaced, Unset
<1>1. ASSUME NEW c \in Callers, UseSpec(c) PROVE SpecInv'
  BY <1>1 DEF UseSpec, Settled
<1>2. ASSUME NEW c \in Callers, NEW f \in Fetches, StartFetch(f),
             waitsFor' = [waitsFor EXCEPT ![c] = f], specAge' \in {Unset, specAge},
             UNCHANGED <<deployed, wasm, specVersion>>
      PROVE  SpecInv'
  <2>1. ContractSpecTypeOK'
    BY <1>2 DEF StartFetch
  <2>2. specPromise' = f /\ fetch'[f] = "running" /\ f # 0
    BY <1>2 DEF StartFetch
  <2>3. ASSUME NEW d \in Callers, waitsFor'[d] # 0
        PROVE  fetch'[waitsFor'[d]] \in {"running", "answered"}
    <3>1. CASE d = c
      BY <1>2, <2>2, <3>1
    <3>2. CASE d # c
      BY <1>2, <2>3, <3>2 DEF StartFetch
    <3> QED
      BY <3>1, <3>2
  <2> QED
    BY <2>1, <2>2, <2>3
<1>3. ASSUME NEW c \in Callers, NEW f \in Fetches, FetchSpec(c, f) \/ RefreshSpec(c, f)
      PROVE  SpecInv'
  BY <1>2, <1>3 DEF FetchSpec, RefreshSpec
<1>4. ASSUME NEW f \in Fetches, NodeAnswers(f) PROVE SpecInv'
  BY <1>4 DEF NodeAnswers
<1>5. ASSUME NEW f \in Fetches, FetchResolves(f) PROVE SpecInv'
  BY <1>5 DEF FetchResolves, NobodyWaitsFor
<1>6. ASSUME NEW f \in Fetches, FetchRejects(f) PROVE SpecInv'
  BY <1>6 DEF FetchRejects, NobodyWaitsFor
<1>7. CASE Upgrade \/ SpecTick \/ UNCHANGED csVars
  BY <1>7 DEF Upgrade, SpecTick, csVars
<1> QED
  BY <1>1, <1>3, <1>4, <1>5, <1>6, <1>7 DEF ContractSpecNext

(* A rejected fetch of the spec is never the one that is kept, a resolved  *)
(* one has the time it expires by, and nobody waits for one that has ended *)
(* (getSpec(), refreshSpec() and loadSpec() of SoroWillClient.ts).         *)
THEOREM SpecIsReplaced == ContractSpecSpec => []SpecCanBeReplaced
<1>1. ContractSpecInit => SpecInv
  BY ContractSpecAssumption
     DEF ContractSpecInit, SpecInv, ContractSpecTypeOK, SpecCanBeReplaced, Unset
<1>2. SpecInv => SpecCanBeReplaced
  BY DEF SpecInv
<1> QED
  BY <1>1, <1>2, SpecStep, PTL DEF ContractSpecSpec
-----------------------------------------------------------------------------
(* No will that was read was triggered after the last time; an offer that  *)
(* was taken up stays one of a will past its grace period.                 *)
WillInv ==
  /\ now \in Nat /\ lastTriggered \in Nat /\ lastTriggered <= now
  /\ triggerTime \in Nat \cup {None} /\ (triggerTime # None => triggerTime <= lastTriggered)
  /\ held # None =>
       /\ held.triggerTime \in Nat \cup {None}
       /\ held.triggerTime # None => held.triggerTime <= lastTriggered
  /\ offer \in Nat \cup {None}
  /\ release = "asked" /\ offer # None => offer + Grace < now
  /\ OffersAreAccepted

LEMMA ReadsAreOld ==
  ASSUME WillInv, NEW w \in Reads
  PROVE  /\ w.triggerTime \in Nat \cup {None}
         /\ w.triggerTime # None => w.triggerTime <= lastTriggered
BY DEF WillInv, Reads, TheWill

(* What a release is refused over is a later trigger than the one offered. *)
LEMMA GraceChecked == ASSUME WillInv, CheckGrace PROVE WillInv'
<1>1. PICK w \in Reads : release' = IF GraceActive(w) THEN "grace" ELSE "checked"
  BY DEF CheckGrace
<1>2. release = "asked" /\ UNCHANGED <<now, ledgerVars, held, offer>>
  BY DEF CheckGrace
<1>3. ASSUME release' = "grace", offer # None PROVE lastTriggered > offer
  <2>1. w.triggerTime \in Nat /\ now < w.triggerTime + Grace /\ w.triggerTime <= lastTriggered
    BY <1>1, <1>3, ReadsAreOld DEF GraceActive
  <2>2. offer \in Nat /\ offer + Grace < now
    BY <1>2, <1>3 DEF WillInv
  <2> QED
    BY <2>1, <2>2, WillRulesAssumption DEF WillInv
<1> QED
  BY <1>1, <1>2, <1>3 DEF WillInv, OffersAreAccepted, ledgerVars, timeVars

LEMMA ReleaseAsked == ASSUME WillInv, AskRelease PROVE WillInv'
<1>1. /\ release' = "asked" /\ UNCHANGED <<now, ledgerVars, held>>
      /\ offer' = IF held # None /\ CanRelease(held) THEN held.triggerTime ELSE None
  BY DEF AskRelease
<1>2. offer' \in Nat \cup {None} /\ (offer' # None => offer' + Grace < now)
  BY <1>1 DEF WillInv, CanRelease, GraceExpired
<1> QED
  BY <1>1, <1>2 DEF WillInv, OffersAreAccepted, ledgerVars, timeVars

LEMMA WillStep == WillInv /\ [WillRulesNext]_wrVars => WillInv'
<1> SUFFICES ASSUME WillInv, [WillRulesNext]_wrVars PROVE WillInv'
  OBVIOUS
<1> USE DEF WillInv, OffersAreAccepted, callVars
<1>1. ASSUME NEW list \in Lists, CreateWill(list) \/ UpdateBeneficiaries(list) PROVE WillInv'
  BY <1>1 DEF CreateWill, UpdateBeneficiaries, timeVars
<1>2. CASE CheckIn \/ EmergencyCheckIn
  BY <1>2 DEF CheckIn, EmergencyCheckIn
<1>3. CASE TriggerWill
  <2>1. triggerTime' = now /\ lastTriggered' = now /\ UNCHANGED <<now, callVars>>
    BY <1>3 DEF TriggerWill
  <2> QED
    BY <2>1
<1>4. CASE AskRelease
  BY <1>4, ReleaseAsked
<1>5. CASE CheckGrace
  BY <1>5, GraceChecked
<1>6. CASE FundingRefused \/ ReleaseInheritance
  BY <1>6 DEF FundingRefused, ReleaseInheritance, ledgerVars, timeVars
<1>7. CASE CancelWill \/ AccountsChange
  BY <1>7 DEF CancelWill, AccountsChange, ledgerVars, timeVars
<1>8. CASE GetWill
  <2>1. held' \in Reads /\ UNCHANGED <<now, ledgerVars, release, offer>>
    BY <1>8 DEF GetWill
  <2> QED
    BY <2>1, ReadsAreOld DEF ledgerVars, timeVars
<1>9. CASE TimePasses \/ UNCHANGED wrVars
  BY <1>9, WillRulesAssumption DEF TimePasses, ledgerVars, timeVars, wrVars
<1> QED
  BY <1>1, <1>2, <1>3, <1>4, <1>5, <1>6, <1>7, <1>8, <1>9 DEF WillRulesNext

(* A release that was offered is refused over the grace period only if the *)
(* will has been triggered again since it was read for the offer, for      *)
(* every pair of periods, every delay before and inside the call and every *)
(* age of the reads (getNextActionableState() and releaseInheritance()).   *)
THEOREM ReleaseStaysOpen == WillRulesSpec => []OffersAreAccepted
<1>1. WillRulesInit => WillInv
  BY DEF WillRulesInit, WillInv, OffersAreAccepted
<1>2. WillInv => OffersAreAccepted
  BY DEF WillInv
<1> QED
  BY <1>1, <1>2, WillStep, PTL DEF WillRulesSpec
-----------------------------------------------------------------------------
(* An original that is being confirmed is on the ledger, as is what a call *)
(* has reported; the ledger applies one envelope of the sequence.          *)
FeeInv ==
  /\ step \in [Bumps -> Steps]
  /\ outcome \in [Bumps -> Envelopes \cup {NoEnvelope}]
  /\ ReportedIsApplied
  /\ \A b \in Bumps : step[b] \in {"confirm", "landed"} => applied # NoEnvelope /\ succeeded
  /\ \A b \in Bumps : step[b] = "confirm" => applied = Original

(* A call goes on without a report, or reports what is on the ledger.      *)
LEMMA CallGoesOn ==
  ASSUME FeeInv, NEW b \in Bumps, NEW s \in Steps \ {"confirm", "landed"}, BumpGoto(b, s),
         UNCHANGED <<outcome, applied, succeeded>>
  PROVE  FeeInv'
BY DEF FeeInv, BumpGoto, ReportedIsApplied

LEMMA CallReports ==
  ASSUME FeeInv, NEW b \in Bumps, NEW e \in Envelopes, Landed(b, e), applied = e, succeeded,
         UNCHANGED <<applied, succeeded>>
  PROVE  FeeInv'
BY FeeBumpAssumption DEF FeeInv, BumpGoto, ReportedIsApplied, Landed, Steps

LEMMA CallFails ==
  ASSUME FeeInv, NEW b \in Bumps, BumpFails(b), UNCHANGED <<applied, succeeded>>
  PROVE  FeeInv'
BY CallGoesOn DEF BumpFails, Steps

LEMMA CallBids ==
  ASSUME FeeInv, NEW b \in Bumps, NEW fee, Build(b, fee), UNCHANGED <<applied, succeeded>>
  PROVE  FeeInv'
<1>1. "send" \in Steps \ {"confirm", "landed"}
  BY DEF Steps
<1> QED
  BY <1>1, CallFails, CallGoesOn DEF Build

LEMMA CallBegins ==
  ASSUME FeeInv, NEW b \in Bumps, BeginBump(b), UNCHANGED <<applied, succeeded>>
  PROVE  FeeInv'
<1>1. "refresh" \in Steps \ {"confirm", "landed"}
  BY DEF Steps
<1>2. \/ BumpFails(b)
      \/ BumpGoto(b, "refresh") /\ UNCHANGED outcome
      \/ Build(b, IF option[b] = "nothing" THEN InnerFee ELSE estimate[b])
  BY DEF BeginBump
<1> QED
  BY <1>1, <1>2, CallFails, CallGoesOn, CallBids

LEMMA FeeStep == FeeInv /\ [FeeBumpNext]_fbVars => FeeInv'
<1> SUFFICES ASSUME FeeInv, [FeeBumpNext]_fbVars PROVE FeeInv'
  OBVIOUS
<1>1. ASSUME UNCHANGED <<step, outcome, applied, succeeded>> PROVE FeeInv'
  BY <1>1 DEF FeeInv, ReportedIsApplied
<1>2. ASSUME NEW b \in Bumps, PrepareFee(b) \/ EstimateAges(b) PROVE FeeInv'
  BY <1>1, <1>2 DEF PrepareFee, EstimateAges, netVars
<1>3. ASSUME NEW b \in Bumps, Submit(b) PROVE FeeInv'
  BY <1>3, CallBegins DEF Submit, netVars
<1>4. ASSUME NEW b \in Bumps, Refresh(b) PROVE FeeInv'
  BY <1>4, CallBids, CallFails DEF Refresh, netVars
<1>5. ASSUME NEW b \in Bumps, BumpAccepted(b) PROVE FeeInv'
  BY <1>5, CallGoesOn DEF BumpAccepted, Steps
<1>6. ASSUME NEW b \in Bumps, BumpRefused(b) \/ BumpNotSent(b) PROVE FeeInv'
  BY <1>6, CallFails DEF BumpRefused, BumpNotSent, netVars
<1>7. ASSUME NEW b \in Bumps, BumpLanded(b) PROVE FeeInv'
  BY <1>7, CallReports DEF BumpLanded, netVars, Envelopes
<1>8. ASSUME NEW b \in Bumps, BumpNotLanded(b) \/ PollLost(b) PROVE FeeInv'
  BY <1>8, CallFails DEF BumpNotLanded, PollLost, netVars
<1>9. ASSUME NEW b \in Bumps, StartAuto(b) \/ SendOriginal(b) \/ TimerFires(b)
      PROVE  FeeInv'
  BY <1>9, CallGoesOn DEF StartAuto, SendOriginal, TimerFires, netVars, Steps
<1>10. ASSUME NEW b \in Bumps, OriginalRefused(b) \/ RecheckLost(b) PROVE FeeInv'
  BY <1>10, CallFails DEF OriginalRefused, RecheckLost, netVars
<1>11. ASSUME NEW b \in Bumps, PollOriginal(b) PROVE FeeInv'
  <2>1. CASE applied = Original /\ succeeded /\ BumpGoto(b, "confirm")
    BY <1>11, <2>1, FeeBumpAssumption
       DEF PollOriginal, FeeInv, ReportedIsApplied, BumpGoto, netVars, Steps, Envelopes
  <2>2. CASE BumpGoto(b, "timer")
    BY <1>11, <2>2, CallGoesOn DEF PollOriginal, netVars, Steps
  <2> QED
    BY <1>11, <2>1, <2>2 DEF PollOriginal
<1>12. ASSUME NEW b \in Bumps, Confirm(b) PROVE FeeInv'
  <2>1. applied = Original /\ succeeded /\ Original \in Envelopes
    BY <1>12 DEF Confirm, AutoStep, FeeInv, Envelopes
  <2> QED
    BY <1>12, <2>1, CallReports, CallFails DEF Confirm, netVars
<1>13. ASSUME NEW b \in Bumps, Recheck(b) PROVE FeeInv'
  BY <1>13, CallReports, CallFails, CallBegins DEF Recheck, netVars, Envelopes
<1>14. ASSUME NEW e \in Envelopes, LedgerApplies(e) \/ LedgerDrops(e) PROVE FeeInv'
  BY <1>14, FeeBumpAssumption DEF LedgerApplies, LedgerDrops, FeeInv, ReportedIsApplied
<1>15. CASE MarketMoves \/ AppTracks \/ AppResets \/ UNCHANGED fbVars
  BY <1>1, <1>15 DEF MarketMoves, AppTracks, AppResets, fbVars, netVars
<1> QED
  BY <1>2, <1>3, <1>4, <1>5, <1>6, <1>7, <1>8, <1>9, <1>10, <1>11, <1>12, <1>13, <1>14, <1>15
     DEF FeeBumpNext

(* A call that reports success reports the envelope that the ledger has    *)
(* applied, whichever of the original and the bumps came first             *)
(* (submitFeeBump() and autoFeeBumpOnTimeout() of feeBump.ts).             *)
THEOREM ReportsAreTrue == FeeBumpSpec => []ReportedIsApplied
<1>1. FeeBumpInit => FeeInv
  BY DEF FeeBumpInit, FeeInv, ReportedIsApplied, Steps
<1>2. FeeInv => ReportedIsApplied
  BY DEF FeeInv
<1> QED
  BY <1>1, <1>2, FeeStep, PTL DEF FeeBumpSpec
-----------------------------------------------------------------------------
BqTransactions == Nat \X Nat

(* What the operations ahead of one that was sent have come to.            *)
LetsOn(s) == s # "skipped" /\ ~(policy = "stop" /\ s = "failed")

(* Nothing of an operation is sent before it is the current one, and the   *)
(* queue is not halted, nor has it been, while one is invoked.             *)
BatchInv ==
  /\ results \in Seq(Statuses)
  /\ attempts \in Nat
  /\ sent \subseteq BqTransactions /\ onLedger \subseteq sent
  /\ halted \in BOOLEAN
  /\ stage \in {"invoking", "sent"} => ~halted
  /\ ~halted => \A j \in DOMAIN results : LetsOn(results[j])
  /\ \A tx \in sent :
       /\ tx[1] \in 1..Current
       /\ tx[1] = Current => stage \in {"invoking", "sent"}
       /\ tx[1] \in DOMAIN results => results[tx[1]] # "skipped"
       /\ \A j \in 1..(tx[1] - 1) : LetsOn(results[j])
  /\ \A j \in DOMAIN results :
       results[j] = "success" => \E tx \in onLedger : tx[1] = j

LEMMA Reported ==
  ASSUME BatchInv, NEW st \in Statuses, Report(st), UNCHANGED <<policy, sent, onLedger>>,
         halted' \in BOOLEAN,
         ~halted' => ~halted /\ LetsOn(st),
         st = "skipped" => stage = "next",
         st = "success" => \E tx \in onLedger : tx[1] = Current
  PROVE  BatchInv'
<1> USE DEF BatchInv
<1>1. /\ results' \in Seq(Statuses) /\ Len(results') = Len(results) + 1
      /\ \A j \in DOMAIN results : results'[j] = results[j]
      /\ results'[Current] = st
      /\ DOMAIN results' = DOMAIN results \cup {Current}
      /\ Current' = Current + 1 /\ Current \in Nat /\ DOMAIN results = 1..(Current - 1)
  BY DEF Report, Current
<1>2. attempts' = 0 /\ stage' = "next"
  BY DEF Report
<1>4. ~halted' => \A j \in DOMAIN results' : LetsOn(results[j])'
  BY <1>1 DEF LetsOn, Report
<1>5. \A j \in DOMAIN results' : results'[j] = "success" => \E tx \in onLedger' : tx[1] = j
  BY <1>1
<1>6. ASSUME NEW tx \in sent'
      PROVE  /\ tx[1] \in 1..Current'
             /\ tx[1] = Current' => stage' \in {"invoking", "sent"}
             /\ tx[1] \in DOMAIN results' => results'[tx[1]] # "skipped"
             /\ \A j \in 1..(tx[1] - 1) : LetsOn(results[j])'
  <2>1. tx \in sent /\ tx[1] \in Nat /\ tx[1] \in 1..Current
    BY <1>6, <1>1
  <2>2. tx[1] \in DOMAIN results' => results'[tx[1]] # "skipped"
    BY <2>1, <1>1
  <2>3. ASSUME NEW j \in 1..(tx[1] - 1) PROVE LetsOn(results[j])'
    <3>1. j \in DOMAIN results /\ LetsOn(results[j])
      BY <2>1, <1>1
    <3> QED
      BY <3>1, <1>1 DEF LetsOn, Report
  <2> QED
    BY <2>1, <2>2, <2>3, <1>1
<1> QED
  BY <1>1, <1>2, <1>4, <1>5, <1>6

(* The attempt at hand is given up, and another begins or the failure is   *)
(* reported.                                                               *)
LEMMA AttemptEnds ==
  ASSUME BatchInv, stage \in {"invoking", "sent"}, NEW d \in BOOLEAN, Retry \/ GiveUp(d),
         UNCHANGED <<policy, aborted, sent, onLedger>>
  PROVE  BatchInv'
<1>1. CASE Retry
  BY <1>1 DEF Retry, BatchInv, LetsOn, Current
<1>2. CASE GiveUp(d)
  <2>1. halted' \in BOOLEAN /\ (~halted' => ~halted /\ LetsOn("failed"))
    BY <1>2 DEF GiveUp, ReportFailure, LetsOn, BatchInv
  <2> QED
    BY <1>2, <2>1, Reported DEF GiveUp, ReportFailure, Statuses
<1> QED
  BY <1>1, <1>2

LEMMA BatchStep == BatchInv /\ [BatchNext]_bqVars => BatchInv'
<1> SUFFICES ASSUME BatchInv, [BatchNext]_bqVars PROVE BatchInv'
  OBVIOUS
<1>1. CASE Skip
  <2>1. halted' = TRUE /\ stage = "next" /\ Report("skipped")
    BY <1>1 DEF Skip
  <2> QED
    BY <1>1, <2>1, Reported DEF Skip, Statuses
<1>2. CASE StartInvoke
  BY <1>2 DEF StartInvoke, BatchInv, LetsOn, Current
<1>3. CASE Sends
  <2>1. /\ sent' = sent \cup {<<Current, attempts>>} /\ stage' = "sent" /\ ~halted
        /\ UNCHANGED <<policy, attempts, results, halted, aborted, onLedger>>
    BY <1>3 DEF Sends, BatchInv
  <2>2. Current \in Nat \ {0} /\ Current' = Current /\ DOMAIN results = 1..(Current - 1)
    BY <2>1 DEF Current, BatchInv
  <2>3. \A s : LetsOn(s)' <=> LetsOn(s)
    BY <2>1 DEF LetsOn
  <2>4. <<Current, attempts>> \in BqTransactions /\ <<Current, attempts>>[1] = Current
    BY <2>2 DEF BqTransactions, BatchInv
  <2>5. \A j \in 1..(Current - 1) : LetsOn(results[j])
    BY <2>1, <2>2 DEF BatchInv
  <2>6. ASSUME NEW tx \in sent'
        PROVE  /\ tx[1] \in 1..Current
               /\ tx[1] \in DOMAIN results => results[tx[1]] # "skipped"
               /\ \A j \in 1..(tx[1] - 1) : LetsOn(results[j])
    <3>1. CASE tx \in sent
      BY <3>1 DEF BatchInv
    <3>2. CASE tx = <<Current, attempts>>
      BY <3>2, <2>2, <2>4, <2>5
    <3> QED
      BY <3>1, <3>2, <2>1
  <2> QED
    BY <2>1, <2>2, <2>3, <2>4, <2>6 DEF BatchInv
<1>4. CASE Succeeds
  <2>1. Report("success") /\ \E tx \in onLedger : tx[1] = Current
    BY <1>4 DEF Succeeds
  <2>2. ~halted /\ halted' = halted /\ LetsOn("success")
    BY <1>4 DEF Succeeds, BatchInv, LetsOn
  <2> QED
    BY <1>4, <2>1, <2>2, Reported DEF Succeeds, Statuses, BatchInv
<1>5. CASE FailsSent
  BY <1>5, AttemptEnds DEF FailsSent
<1>6. ASSUME NEW d \in BOOLEAN, FailsUnsent(d) PROVE BatchInv'
  BY <1>6, AttemptEnds DEF FailsUnsent
<1>7. CASE Cleanup
  BY <1>7 DEF Cleanup, BatchInv, LetsOn, Current
<1>8. CASE SignalFires \/ UNCHANGED bqVars
  BY <1>8 DEF SignalFires, bqVars, BatchInv, LetsOn, Current
<1>9. ASSUME NEW tx \in Transactions, Lands(tx) PROVE BatchInv'
  BY <1>9 DEF Lands, BatchInv, LetsOn, Current
<1> QED
  BY <1>1, <1>2, <1>3, <1>4, <1>5, <1>6, <1>7, <1>8, <1>9 DEF BatchNext

(* What is reported of a queue is true of the ledger: a success has landed, *)
(* a skipped operation was never sent, and none is sent before the outcome *)
(* of those ahead of it, whatever fails, is retried or is aborted, for     *)
(* queues of any length (batchSequential()).                               *)
THEOREM QueueReportsTheTruth == BatchSpec => []OutcomesAreTrue
<1>1. BatchInit => BatchInv
  <2> SUFFICES ASSUME BatchInit PROVE BatchInv
    OBVIOUS
  <2>1. results \in Seq(Statuses) /\ DOMAIN results = {}
    BY DEF BatchInit
  <2>2. stage = "next" /\ attempts = 0 /\ sent = {} /\ onLedger = {} /\ halted \in BOOLEAN
    BY DEF BatchInit
  <2> QED
    BY <2>1, <2>2 DEF BatchInv
<1>2. BatchInv => OutcomesAreTrue
  <2> SUFFICES ASSUME BatchInv, NEW i \in Ops
               PROVE  /\ Status(i) = "success" => TransactionsOf(i, onLedger) # {}
                      /\ Status(i) = "skipped" => TransactionsOf(i, sent) = {}
                      /\ \A j \in 1..(i - 1) :
                           Status(j) \in {"open", "skipped"}
                             \/ (policy = "stop" /\ Status(j) = "failed")
                           => TransactionsOf(i, sent) = {}
    BY DEF OutcomesAreTrue
  <2> USE BatchQueueAssumption DEF BatchInv, Status, TransactionsOf, Ops
  <2>1. i \in Nat /\ Len(results) \in Nat /\ DOMAIN results = 1..Len(results)
    OBVIOUS
  <2>2. Status(i) = "success" => TransactionsOf(i, onLedger) # {}
    BY <2>1
  <2>3. Status(i) = "skipped" => TransactionsOf(i, sent) = {}
    BY <2>1
  <2>4. ASSUME NEW j \in 1..(i - 1), NEW tx \in sent, tx[1] = i
        PROVE  Status(j) \notin {"open", "skipped"} /\ ~(policy = "stop" /\ Status(j) = "failed")
    <3>1. j \in 1..Len(results) /\ Status(j) = results[j] /\ LetsOn(results[j])
      BY <2>1, <2>4 DEF Current
    <3>2. results[j] \in Statuses
      BY <3>1
    <3> QED
      BY <3>1, <3>2 DEF LetsOn, Statuses
  <2> QED
    BY <2>2, <2>3, <2>4
<1> QED
  BY <1>1, <1>2, BatchStep, PTL DEF BatchSpec
-----------------------------------------------------------------------------
(* What the listener has got: all that is wanted up to event n; nothing    *)
(* after event n; nothing with a gap before it; each after those before.   *)
Have(n) == \A e \in Wanted : e <= n => \E i \in DOMAIN delivered : delivered[i] = e
Fresh(n) == \A i \in DOMAIN delivered : delivered[i] <= n
NoGap ==
  \A i \in DOMAIN delivered :
    \A e \in Wanted : e < delivered[i] => \E j \in 1..(i - 1) : delivered[j] = e
InOrder == \A i \in DOMAIN delivered : \A j \in 1..(i - 1) : delivered[j] < delivered[i]

Calm == throws = 0 /\ bare = 0

(* The batch at hand ends with event n.                                    *)
Ends(n) ==
  /\ batch \in Seq(Nat) /\ Len(batch) <= n
  /\ \A i \in DOMAIN batch : batch[i] = n - Len(batch) + i

(* The page at hand ends with event n, at or after the cursor to go on     *)
(* from: what is before the page has been delivered, and, if the node has  *)
(* always said where to go on, nothing else.                               *)
PageTo(n) ==
  /\ Ends(n)
  /\ nextCursor <= n
  /\ Have(n - Len(batch))
  /\ Calm => nextCursor = n /\ Fresh(n - Len(batch))

(* The three lives of a subscription: before the promise has settled, on   *)
(* the stream of the socket, and polling.  A closed one has no batch.      *)
NothingYet ==
  /\ handle = "pending" /\ polling = "off" /\ ~streaming
  /\ streamed = 0 /\ cursor = 0 /\ batch = <<>> /\ delivered = <<>>

OnStream ==
  /\ handle = "websocket" /\ polling = "off"
  /\ InOrder
  /\ throws = 0 => NoGap
  /\ streaming /\ ~closed => /\ Ends(streamed)
                             /\ Fresh(streamed - Len(batch))
                             /\ throws = 0 => Have(streamed - Len(batch))
  /\ ~(streaming /\ ~closed) => batch = <<>>

OnPolls ==
  /\ handle # "websocket" /\ ~streaming
  /\ NoGap
  /\ Calm => InOrder
  /\ stopped => batch = <<>>
  /\ ~stopped => Have(cursor)
  /\ ~stopped /\ polling = "delivering" => \E n \in Nat : PageTo(n)
  /\ ~stopped /\ polling # "delivering" => batch = <<>> /\ (Calm => Fresh(cursor))

EventInv ==
  /\ emitted \in Nat /\ streamed \in Nat /\ cursor \in 0..emitted /\ nextCursor \in 0..emitted
  /\ throws \in Nat /\ bare \in Nat
  /\ delivered \in Seq(Wanted)
  /\ settled \in BOOLEAN
  /\ IF ~settled THEN NothingYet ELSE OnStream \/ OnPolls

LEMMA NoneDelivered ==
  ASSUME delivered = <<>>
  PROVE  Have(0) /\ Fresh(0) /\ NoGap /\ InOrder
<1>1. DOMAIN delivered = {}
  OBVIOUS
<1>2. \A e \in Wanted : ~(e <= 0)
  BY EventSubscriptionAssumption
<1> QED
  BY <1>1, <1>2 DEF Have, Fresh, NoGap, InOrder

(* Only the listener's calls change what is delivered.                     *)
LEMMA StillDelivered ==
  ASSUME UNCHANGED delivered
  PROVE  /\ \A n : (Have(n)' <=> Have(n)) /\ (Fresh(n)' <=> Fresh(n))
         /\ (NoGap' <=> NoGap) /\ (InOrder' <=> InOrder)
BY DEF Have, Fresh, NoGap, InOrder

(* The listener is called with event d + 1, if it is wanted.               *)
LEMMA OneMoreDelivered ==
  ASSUME delivered \in Seq(Wanted), NEW d \in Nat,
         delivered' = IF d + 1 \in Wanted THEN Append(delivered, d + 1) ELSE delivered
  PROVE  /\ delivered' \in Seq(Wanted)
         /\ \A n : Have(n) => Have(n)'
         /\ Have(d) => Have(d + 1)'
         /\ Fresh(d) => Fresh(d + 1)'
         /\ NoGap /\ Have(d) => NoGap'
         /\ InOrder /\ Fresh(d) => InOrder'
<1> DEFINE k == Len(delivered)
<1>1. \A e \in Wanted : e \in Nat /\ (e <= d + 1 <=> e <= d \/ e = d + 1)
  BY EventSubscriptionAssumption
<1>2. \A i \in DOMAIN delivered : delivered[i] \in Nat
  BY <1>1
<1>3. CASE d + 1 \notin Wanted
  BY <1>1, <1>2, <1>3 DEF Have, Fresh, NoGap, InOrder
<1>4. CASE d + 1 \in Wanted
  <2>1. /\ delivered' \in Seq(Wanted) /\ DOMAIN delivered' = DOMAIN delivered \cup {k + 1}
        /\ DOMAIN delivered = 1..k /\ k \in Nat
        /\ delivered'[k + 1] = d + 1
        /\ \A i \in DOMAIN delivered : delivered'[i] = delivered[i]
    BY <1>4
  <2> HIDE DEF k
  <2>2. \A n : Have(n) => Have(n)'
    BY <2>1 DEF Have
  <2>3. Have(d) => Have(d + 1)'
    BY <1>1, <2>1 DEF Have
  <2>4. Fresh(d) => Fresh(d + 1)'
    BY <1>2, <2>1 DEF Fresh
  <2>5. ASSUME NoGap, Have(d) PROVE NoGap'
    <3> SUFFICES ASSUME NEW i \in DOMAIN delivered', NEW e \in Wanted, e < delivered'[i]
                 PROVE  \E j \in 1..(i - 1) : delivered'[j] = e
      BY DEF NoGap
    <3>1. CASE i \in DOMAIN delivered
      <4>1. PICK j \in 1..(i - 1) : delivered[j] = e
        BY <2>1, <2>5, <3>1 DEF NoGap
      <4> QED
        BY <2>1, <3>1, <4>1
    <3>2. CASE i = k + 1
      <4>1. e <= d
        BY <1>1, <2>1, <3>2
      <4>2. PICK j \in DOMAIN delivered : delivered[j] = e
        BY <2>5, <4>1 DEF Have
      <4> QED
        BY <2>1, <3>2, <4>2
    <3> QED
      BY <2>1, <3>1, <3>2
  <2>6. ASSUME InOrder, Fresh(d) PROVE InOrder'
    <3> SUFFICES ASSUME NEW i \in DOMAIN delivered', NEW j \in 1..(i - 1)
                 PROVE  delivered'[j] < delivered'[i]
      BY DEF InOrder
    <3>1. j \in DOMAIN delivered
      BY <2>1
    <3>2. CASE i \in DOMAIN delivered
      BY <2>1, <2>6, <3>1, <3>2 DEF InOrder
    <3>3. CASE i = k + 1
      BY <1>2, <2>1, <2>6, <3>1, <3>3 DEF Fresh
    <3> QED
      BY <2>1, <3>2, <3>3
  <2> QED
    BY <2>1, <2>2, <2>3, <2>4, <2>5, <2>6
<1> QED
  BY <1>3, <1>4

(* A new batch: the k events after the n-th.                               *)
LEMMA NewBatch ==
  ASSUME NEW n \in Nat, NEW k \in Nat, batch' = [i \in 1..k |-> n + i]
  PROVE  Ends(n + k)' /\ Len(batch') = k /\ n + k - Len(batch') = n
<1>1. batch' \in Seq(Nat) /\ Len(batch') = k /\ DOMAIN batch' = 1..k
  OBVIOUS
<1>2. \A i \in DOMAIN batch' : batch'[i] = n + k - Len(batch') + i
  BY <1>1
<1> QED
  BY <1>1, <1>2 DEF Ends

(* A batch that is not empty goes on with the event after those before it. *)
LEMMA NextOfBatch ==
  ASSUME NEW n \in Nat, Ends(n), batch # <<>>
  PROVE  \E d \in Nat : /\ d = n - Len(batch) /\ d + 1 <= n /\ Head(batch) = d + 1
                        /\ batch' = Tail(batch) => Ends(n)' /\ n - Len(batch') = d + 1
<1>1. batch \in Seq(Nat) /\ Len(batch) \in 1..n
  BY DEF Ends
<1>2. PICK d \in Nat : d = n - Len(batch)
  BY <1>1
<1>3. Head(batch) = d + 1 /\ d + 1 <= n
  BY <1>1, <1>2 DEF Ends
<1>4. ASSUME batch' = Tail(batch) PROVE Ends(n)' /\ n - Len(batch') = d + 1
  <2>1. /\ Tail(batch) \in Seq(Nat) /\ Len(Tail(batch)) = Len(batch) - 1
        /\ \A i \in DOMAIN Tail(batch) : Tail(batch)[i] = batch[i + 1] /\ i + 1 \in DOMAIN batch
    BY <1>1
  <2>2. n - Len(batch') = d + 1 /\ Len(batch') <= n
    BY <1>1, <1>2, <1>4, <2>1
  <2>3. \A i \in DOMAIN batch' : batch'[i] = n - Len(batch') + i
    BY <1>1, <1>4, <2>1 DEF Ends
  <2> QED
    BY <1>4, <2>1, <2>2, <2>3 DEF Ends
<1> QED
  BY <1>2, <1>3, <1>4

LEMMA EventStep == EventInv /\ [SubscriptionNext]_subVars => EventInv'
<1> SUFFICES ASSUME EventInv, [SubscriptionNext]_subVars PROVE EventInv'
  OBVIOUS
<1>1. ASSUME UNCHANGED <<handle, streaming, streamed, settled, closed, pollVars, batch,
                         delivered, mishaps>>, emitted' \in {emitted, emitted + 1}
      PROVE  EventInv'
  <2>1. (OnStream <=> OnStream') /\ (OnPolls <=> OnPolls') /\ (NothingYet <=> NothingYet')
    BY <1>1, StillDelivered
       DEF OnStream, OnPolls, NothingYet, Ends, PageTo, Calm, pollVars, mishaps
  <2> QED
    BY <1>1, <2>1 DEF EventInv, pollVars, mishaps
<1>2. ASSUME NothingYet, ~settled, settled', UNCHANGED <<emitted, handle, streaming, streamed,
                stopped, cursor, nextCursor, batch, delivered, bare>>,
             throws' \in Nat, polling' \in {"off", "fetching"}
      PROVE  EventInv'
  <2>1. Have(cursor)' /\ Fresh(cursor)' /\ NoGap' /\ InOrder'
    BY <1>2, NoneDelivered, StillDelivered DEF NothingYet
  <2>2. OnPolls'
    BY <1>2, <2>1 DEF NothingYet, OnPolls
  <2> QED
    BY <1>2, <2>2 DEF EventInv
<1>3. CASE EventEmitted
  BY <1>1, <1>3 DEF EventEmitted, EventInv, socketVars
<1>4. CASE SocketOpens
  <2>1. NothingYet
    BY <1>4 DEF SocketOpens, EventInv
  <2>2. Have(0)' /\ Fresh(0)' /\ NoGap' /\ InOrder'
    BY <1>4, <2>1, NoneDelivered, StillDelivered DEF SocketOpens, NothingYet
  <2>3. Ends(0)' /\ Len(batch') = 0 /\ streamed' = 0
    BY <1>4, <2>1 DEF SocketOpens, NothingYet, Ends
  <2>4. OnStream'
    BY <1>4, <2>1, <2>2, <2>3 DEF SocketOpens, NothingYet, OnStream, pollVars
  <2> QED
    BY <1>4, <2>4 DEF SocketOpens, EventInv, pollVars, mishaps
<1>5. CASE SocketOpensLate
  BY <1>1, <1>5 DEF SocketOpensLate, EventInv
<1>6. CASE ConnectTimeout \/ SocketFails \/ SocketClosesEarly
  <2>1. NothingYet /\ FallBack /\ ~settled
    BY <1>6 DEF ConnectTimeout, SocketFails, SocketClosesEarly, EventInv
  <2> QED
    BY <1>2, <2>1 DEF FallBack, EventInv, mishaps
<1>7. CASE TimeoutThrows
  <2>1. NothingYet /\ ~settled
    BY <1>7 DEF TimeoutThrows, EventInv
  <2> QED
    BY <1>2, <1>7, <2>1 DEF TimeoutThrows, NothingYet, EventInv, pollVars
<1>8. CASE SocketDrops
  <2>1. UNCHANGED <<delivered, batch, handle, polling, throws>> /\ Turn /\ ~streaming' /\ settled
    BY <1>8 DEF SocketDrops, pollVars, mishaps
  <2>2. OnStream => OnStream'
    BY <2>1, StillDelivered DEF OnStream, Turn
  <2>3. OnPolls => OnPolls'
    BY <1>8, <2>1, StillDelivered DEF SocketDrops, OnPolls, PageTo, Ends, Calm, pollVars, mishaps
  <2> QED
    BY <1>8, <2>1, <2>2, <2>3 DEF SocketDrops, EventInv, pollVars, mishaps
<1>9. ASSUME NEW n \in 1..MaxEvents, SocketMessage(n) PROVE EventInv'
  <2>1. OnStream /\ settled
    BY <1>9 DEF SocketMessage, EventInv, NothingYet, OnPolls
  <2>2. Len(batch) = 0 /\ streamed \in Nat /\ streaming /\ ~closed
    BY <1>9 DEF SocketMessage, Turn, EventInv
  <2>3. Fresh(streamed) /\ (throws = 0 => Have(streamed))
    BY <2>1, <2>2 DEF OnStream
  <2>4. n \in Nat /\ n - streamed \in Nat /\ n = streamed + (n - streamed)
    BY <1>9, <2>2 DEF SocketMessage, EventInv
  <2>5. Ends(n)' /\ n - Len(batch') = streamed
    BY <1>9, <2>2, <2>4, NewBatch DEF SocketMessage
  <2>6. OnStream'
    BY <1>9, <2>1, <2>3, <2>5, StillDelivered DEF SocketMessage, OnStream, pollVars, mishaps
  <2> QED
    BY <1>9, <2>1, <2>4, <2>6 DEF SocketMessage, EventInv, pollVars, mishaps
<1>10. ASSUME polling # "off", batch' = <<>>, UNCHANGED <<streaming, streamed, settled, stopped,
                 delivered, emitted, throws>>,
              handle' \in {handle, "polling", "rejected"}, polling' # "delivering",
              cursor' \in 0..emitted, nextCursor' \in 0..emitted,
              bare' \in Nat, bare' = 0 => bare = 0,
              ~stopped => Have(cursor') /\ (bare' = 0 /\ throws = 0 => Fresh(cursor'))
       PROVE  EventInv'
  <2>1. OnPolls /\ settled
    BY <1>10 DEF EventInv, NothingYet, OnStream
  <2>2. OnPolls'
    BY <1>10, <2>1, StillDelivered DEF OnPolls, Calm
  <2> QED
    BY <1>10, <2>1, <2>2 DEF EventInv
<1>11. ASSUME NEW given \in BOOLEAN, PollAnswered(given) PROVE EventInv'
  <2>1. /\ OnPolls /\ settled /\ batch = <<>>
        /\ ~stopped => Have(cursor) /\ (Calm => Fresh(cursor))
    BY <1>11 DEF PollAnswered, Turn, EventInv, NothingYet, OnStream, OnPolls
  <2>2. PICK k \in Nat : k = IF emitted - cursor < PageSize THEN emitted - cursor ELSE PageSize
    <3>1. emitted \in Nat /\ cursor \in 0..emitted /\ PageSize \in Nat
      BY EventSubscriptionAssumption DEF EventInv
    <3>2. emitted - cursor \in Nat
      BY <3>1
    <3> QED
      BY <3>1, <3>2
  <2>3. /\ k \in Nat /\ Page = [i \in 1..k |-> cursor + i] /\ Len(Page) = k
        /\ cursor + k \in 0..emitted /\ cursor \in 0..emitted /\ cursor \in Nat /\ cursor + k \in Nat
    BY <2>2, EventSubscriptionAssumption DEF Page, EventInv
  <2>4. /\ nextCursor' = IF given THEN cursor + k ELSE cursor
        /\ bare' = IF given THEN bare ELSE bare + 1
        /\ UNCHANGED <<streaming, streamed, settled, closed, stopped, delivered, emitted, throws, cursor>>
        /\ polling = "fetching" /\ bare \in Nat
    BY <1>11, <2>3 DEF PollAnswered, socketVars, EventInv
  <2>5. bare' \in Nat /\ (bare' = 0 => given /\ bare = 0) /\ nextCursor' \in 0..emitted
    BY <2>3, <2>4
  <2>6. CASE Page = <<>> \/ stopped
    <3>1. batch' = <<>> /\ handle' \in {handle, "polling"} /\ polling' # "delivering"
      BY <1>11, <2>1, <2>6 DEF PollAnswered, PollEnds, PollOver
    <3> QED
      BY <1>10, <2>1, <2>3, <2>4, <2>5, <3>1 DEF Calm
  <2>7. CASE ~(Page = <<>> \/ stopped)
    <3>1. batch' = [i \in 1..k |-> cursor + i] /\ polling' = "delivering" /\ handle' = handle
      BY <1>11, <2>3, <2>7 DEF PollAnswered
    <3>2. PICK c \in Nat : c = cursor
      BY <2>3
    <3>3. Ends(c + k)' /\ c + k - Len(batch') = c /\ c + k \in Nat
      BY <2>3, <3>1, <3>2, NewBatch
    <3>4. nextCursor' <= c + k
      BY <2>3, <2>4, <3>2
    <3>5. Have(c)' /\ (Calm' => nextCursor' = c + k /\ Fresh(c)')
      BY <2>1, <2>4, <2>5, <2>7, <3>2, StillDelivered DEF Calm
    <3>6. PageTo(c + k)'
      BY <3>3, <3>4, <3>5 DEF PageTo
    <3>7. NoGap' /\ (Calm' => InOrder') /\ Have(cursor)'
      BY <2>1, <2>4, <2>5, <2>7, <3>2, <3>5, StillDelivered DEF OnPolls, Calm
    <3>8. \E n \in Nat : PageTo(n)'
      BY <3>3, <3>6
    <3>9. OnPolls'
      BY <2>1, <2>4, <2>7, <3>1, <3>7, <3>8 DEF OnPolls
    <3> QED
      BY <2>1, <2>3, <2>4, <2>5, <3>9 DEF EventInv
  <2> QED
    BY <2>6, <2>7
<1>12. CASE PollFails
  <2>1. ~stopped => Have(cursor) /\ (Calm => Fresh(cursor))
    BY <1>12 DEF PollFails, EventInv, NothingYet, OnStream, OnPolls
  <2> QED
    BY <1>10, <1>12, <2>1
       DEF PollFails, PollRejects, PollOver, Turn, socketVars, mishaps, Calm, EventInv
<1>13. CASE PollAgain
  <2>1. ~stopped => Have(cursor) /\ (Calm => Fresh(cursor))
    BY <1>13 DEF PollAgain, EventInv, NothingYet, OnStream, OnPolls
  <2> QED
    BY <1>10, <1>13, <2>1 DEF PollAgain, Turn, socketVars, mishaps, Calm, EventInv
<1>14. CASE PageDone
  <2>1. ASSUME ~stopped PROVE Have(nextCursor) /\ (Calm => Fresh(nextCursor))
    <3>1. PICK n \in Nat : PageTo(n)
      BY <1>14, <2>1 DEF PageDone, EventInv, NothingYet, OnStream, OnPolls
    <3>2. Len(batch) = 0 /\ nextCursor \in Nat
      BY <1>14 DEF PageDone, Turn, EventInv
    <3>3. Have(n) /\ nextCursor <= n /\ (Calm => nextCursor = n /\ Fresh(n))
      BY <3>1, <3>2 DEF PageTo
    <3>4. \A e \in Wanted : e <= nextCursor => e <= n
      BY <3>2, <3>3, EventSubscriptionAssumption
    <3> QED
      BY <3>3, <3>4 DEF Have
  <2> QED
    BY <1>10, <1>14, <2>1
       DEF PageDone, PollEnds, PollOver, Turn, socketVars, mishaps, Calm, EventInv
(* An event is handed to the listener: where the subscription stands then. *)
<1>15. ASSUME batch # <<>>, EventInv, UNCHANGED streamed,
              delivered' = IF Head(batch) \in Wanted THEN Append(delivered, Head(batch)) ELSE delivered
       PROVE  /\ settled /\ delivered' \in Seq(Wanted)
              /\ IF handle = "websocket"
                 THEN /\ OnStream /\ InOrder' /\ (throws = 0 => NoGap')
                      /\ streaming /\ ~closed
                      /\ Fresh(streamed)'
                      /\ batch' = Tail(batch) =>
                           /\ Ends(streamed)'
                           /\ Fresh(streamed - Len(batch))'
                           /\ throws = 0 => Have(streamed - Len(batch))'
                 ELSE /\ OnPolls /\ NoGap' /\ (Calm => InOrder')
                      /\ \A n : Have(n) => Have(n)'
                      /\ ~stopped /\ polling = "delivering"
                      /\ batch' = Tail(batch) /\ UNCHANGED <<nextCursor, mishaps>> =>
                           \E n \in Nat : PageTo(n)'
  <2>1. /\ settled
        /\ IF handle = "websocket" THEN OnStream /\ streaming /\ ~closed
           ELSE OnPolls /\ ~stopped /\ polling = "delivering"
    BY <1>15 DEF EventInv, NothingYet, OnStream, OnPolls
  <2>2. CASE handle = "websocket"
    <3>1. PICK n \in Nat : n = streamed
      BY DEF EventInv
    <3>2. Ends(n) /\ InOrder /\ (throws = 0 => NoGap)
      BY <2>1, <2>2, <3>1 DEF OnStream
    <3>3. PICK d \in Nat : /\ d = n - Len(batch) /\ d + 1 <= n /\ Head(batch) = d + 1
                           /\ batch' = Tail(batch) => Ends(n)' /\ n - Len(batch') = d + 1
      BY <1>15, <3>2, NextOfBatch
    <3>4. Fresh(d) /\ (throws = 0 => Have(d))
      BY <2>1, <2>2, <3>1, <3>3 DEF OnStream
    <3>5. /\ delivered' \in Seq(Wanted)
          /\ Have(d) => Have(d + 1)'
          /\ Fresh(d) => Fresh(d + 1)'
          /\ NoGap /\ Have(d) => NoGap'
          /\ InOrder /\ Fresh(d) => InOrder'
      BY <1>15, <3>3, OneMoreDelivered DEF EventInv
    <3>6. \A i \in DOMAIN delivered' : delivered'[i] \in Nat
      <4>1. \A e \in Wanted : e \in Nat
        BY EventSubscriptionAssumption
      <4> QED
        BY <3>5, <4>1
    <3>7. Fresh(n)'
      BY <3>3, <3>4, <3>5, <3>6 DEF Fresh
    <3>8. Fresh(streamed)' /\ (Ends(n)' => Ends(streamed)')
      BY <1>15, <3>1, <3>7 DEF Fresh, Ends
    <3>9. ASSUME batch' = Tail(batch)
          PROVE  Fresh(streamed - Len(batch))' /\ (throws = 0 => Have(streamed - Len(batch))')
      BY <1>15, <3>1, <3>3, <3>4, <3>5, <3>9 DEF Fresh, Have
    <3> QED
      BY <2>1, <2>2, <3>2, <3>3, <3>4, <3>5, <3>8, <3>9
  <2>3. CASE handle # "websocket"
    <3>1. PICK n \in Nat : PageTo(n)
      BY <2>1, <2>3 DEF OnPolls
    <3>2. PICK d \in Nat : /\ d = n - Len(batch) /\ d + 1 <= n /\ Head(batch) = d + 1
                           /\ batch' = Tail(batch) => Ends(n)' /\ n - Len(batch') = d + 1
      BY <1>15, <3>1, NextOfBatch DEF PageTo
    <3>3. /\ Have(d) /\ (Calm => nextCursor = n /\ Fresh(d)) /\ nextCursor <= n
          /\ NoGap /\ (Calm => InOrder)
      BY <2>1, <2>3, <3>1, <3>2 DEF OnPolls, PageTo
    <3>4. /\ delivered' \in Seq(Wanted)
          /\ \A m : Have(m) => Have(m)'
          /\ Have(d) => Have(d + 1)'
          /\ Fresh(d) => Fresh(d + 1)'
          /\ NoGap /\ Have(d) => NoGap'
          /\ InOrder /\ Fresh(d) => InOrder'
      BY <1>15, <3>2, OneMoreDelivered DEF EventInv
    <3>5. batch' = Tail(batch) /\ UNCHANGED <<nextCursor, mishaps>> => PageTo(n)'
      BY <3>2, <3>3, <3>4 DEF PageTo, Calm, mishaps
    <3> QED
      BY <2>1, <2>3, <3>3, <3>4, <3>5
  <2> QED
    BY <2>2, <2>3
<1>16. ASSUME Unsubscribe, settled, EventInv,
              UNCHANGED <<handle, streamed, settled, cursor, nextCursor, emitted, mishaps>>,
              delivered' \in Seq(Wanted),
              IF handle = "websocket" THEN OnStream /\ InOrder' /\ (throws = 0 => NoGap')
              ELSE OnPolls /\ NoGap' /\ (Calm => InOrder')
       PROVE  EventInv'
  <2>1. OnStream' \/ OnPolls'
    BY <1>16 DEF Unsubscribe, OnStream, OnPolls, Calm, mishaps
  <2> QED
    BY <1>16, <2>1 DEF EventInv, mishaps
<1>17. CASE CallListener
  <2>1. /\ batch # <<>>
        /\ delivered' = IF Head(batch) \in Wanted THEN Append(delivered, Head(batch)) ELSE delivered
        /\ UNCHANGED <<emitted, handle, streamed, settled, cursor, nextCursor, mishaps, throws>>
        /\ Calm' = Calm
    BY <1>17 DEF CallListener, Calm, mishaps
  <2>2. CASE Unsubscribe
    BY <1>15, <1>16, <2>1, <2>2
  <2>3. CASE batch' = Tail(batch) /\ UNCHANGED <<closed, socket, streaming, stopped, polling>>
    <3>1. CASE handle = "websocket"
      <4>1. OnStream'
        BY <1>15, <2>1, <2>3, <3>1 DEF OnStream
      <4> QED
        BY <1>15, <2>1, <4>1 DEF EventInv, mishaps
    <3>2. CASE handle # "websocket"
      <4>1. Have(cursor)'
        BY <1>15, <2>1, <3>2 DEF OnPolls, Have
      <4>2. OnPolls'
        BY <1>15, <2>1, <2>3, <3>2, <4>1 DEF OnPolls
      <4> QED
        BY <1>15, <2>1, <4>2 DEF EventInv, mishaps
    <3> QED
      BY <3>1, <3>2
  <2> QED
    BY <1>17, <2>2, <2>3 DEF CallListener
<1>18. CASE OnErrorThrows
  <2>1. /\ batch # <<>>
        /\ delivered' = IF Head(batch) \in Wanted THEN Append(delivered, Head(batch)) ELSE delivered
        /\ batch' = <<>> /\ Len(batch') = 0
        /\ throws' = throws + 1 /\ throws' \in Nat /\ throws' # 0
        /\ UNCHANGED <<emitted, streaming, closed, streamed, settled, stopped, cursor, nextCursor, bare>>
    BY <1>18 DEF OnErrorThrows, socketVars, EventInv
  <2>2. CASE handle = "websocket"
    <3>1. OnStream /\ InOrder' /\ Fresh(streamed)' /\ streamed \in Nat
      BY <1>15, <2>1, <2>2 DEF EventInv
    <3>2. UNCHANGED <<polling, handle>>
      BY <1>18, <3>1 DEF OnErrorThrows, OnStream
    <3>3. Ends(streamed)'
      BY <2>1, <3>1 DEF Ends
    <3>4. OnStream'
      BY <2>1, <2>2, <3>1, <3>2, <3>3 DEF OnStream
    <3> QED
      BY <1>15, <2>1, <3>4 DEF EventInv
  <2>3. CASE handle # "websocket"
    <3>1. OnPolls /\ NoGap' /\ polling = "delivering" /\ ~stopped
      BY <1>15, <2>1, <2>3
    <3>4. Have(cursor)'
      BY <1>15, <2>1, <2>3, <3>1 DEF OnPolls, Have
    <3>2. handle' # "websocket" /\ polling' = "timer"
      BY <1>18, <2>3, <3>1 DEF OnErrorThrows, PollRejects, PollOver
    <3>3. OnPolls'
      BY <2>1, <3>1, <3>2, <3>4 DEF OnPolls, Calm
    <3> QED
      BY <1>15, <2>1, <3>3 DEF EventInv
  <2> QED
    BY <2>2, <2>3
<1>19. CASE CallerUnsubscribes
  <2>1. Unsubscribe /\ handle # "pending" /\ UNCHANGED delivered
        /\ UNCHANGED <<handle, streamed, settled, cursor, nextCursor, emitted, mishaps>>
    BY <1>19 DEF CallerUnsubscribes
  <2>2. settled /\ (OnStream \/ OnPolls)
    BY <2>1 DEF EventInv, NothingYet
  <2>3. IF handle = "websocket" THEN OnStream /\ InOrder' /\ (throws = 0 => NoGap')
        ELSE OnPolls /\ NoGap' /\ (Calm => InOrder')
    BY <2>1, <2>2, StillDelivered DEF OnStream, OnPolls
  <2> QED
    BY <1>16, <2>1, <2>2, <2>3 DEF EventInv
<1>20. CASE UNCHANGED subVars
  BY <1>1, <1>20 DEF subVars, socketVars
<1> QED
  BY <1>3, <1>4, <1>5, <1>6, <1>7, <1>8, <1>9, <1>11, <1>12, <1>13, <1>14, <1>17, <1>18, <1>19,
     <1>20 DEF SubscriptionNext

(* Through timeouts, failed polls, a throwing listener and the change of   *)
(* transport the listener gets wanted events only, in order and without a  *)
(* gap, for any number of events, any page and any types asked for.  Each  *)
(* comes once if every page came with nextCursor and onError never threw;  *)
(* without that what is polled may come again but leaves nothing out, and  *)
(* what the socket sends never comes again (subscribeToEvents() and        *)
(* startPollingSubscription()).                                            *)
THEOREM EventsComeOnce == SubscriptionSpec => []EachEventOnce
<1>1. SubscriptionInit => EventInv
  <2> SUFFICES ASSUME SubscriptionInit PROVE EventInv
    OBVIOUS
  <2>1. /\ batch = <<>> /\ delivered = <<>> /\ handle = "pending" /\ ~streaming /\ streamed = 0
        /\ cursor = 0 /\ emitted = 0 /\ nextCursor = 0 /\ throws = 0 /\ bare = 0
    BY DEF SubscriptionInit
  <2>2. Have(0) /\ Fresh(0) /\ NoGap /\ InOrder
    BY <2>1, NoneDelivered
  <2>3. delivered \in Seq(Wanted) /\ settled \in BOOLEAN
    BY <2>1 DEF SubscriptionInit
  <2>4. CASE socket = "none"
    <3>1. settled /\ polling = "fetching"
      BY <2>4 DEF SubscriptionInit
    <3>2. OnPolls
      BY <2>1, <2>2, <3>1 DEF OnPolls
    <3> QED
      BY <2>1, <2>3, <3>1, <3>2 DEF EventInv
  <2>5. CASE socket # "none"
    <3>1. ~settled /\ polling = "off"
      BY <2>5 DEF SubscriptionInit
    <3> QED
      BY <2>1, <2>3, <3>1 DEF EventInv, NothingYet
  <2> QED
    BY <2>4, <2>5
<1>2. EventInv => EachEventOnce
  <2> SUFFICES ASSUME EventInv PROVE EachEventOnce
    OBVIOUS
  <2>1. \A i \in DOMAIN delivered : delivered[i] \in Wanted
    BY DEF EventInv
  <2>2. (handle # "websocket" \/ throws = 0 => NoGap) /\ (handle = "websocket" \/ Calm => InOrder)
    BY NoneDelivered DEF EventInv, NothingYet, OnStream, OnPolls
  <2> QED
    BY <2>1, <2>2 DEF EachEventOnce, NoGap, InOrder, Calm
<1> QED
  BY <1>1, <1>2, EventStep, PTL DEF SubscriptionSpec
-----------------------------------------------------------------------------
(* Batches beside apps, and the number a batch has read.                   *)
(*                                                                         *)
(* Two links that have not ended are one behind the other, and one that    *)
(* has started is behind none: so a single link has started.  What a node  *)
(* still holds is then of that link, of an app, or of a link that has      *)
(* ended without a verdict, and only what a node holds can be applied.     *)
BcStages == {"idle", "network", "before", "account", "unsigned", "sign", "again",
             "send", "poll", "after", "done"}
BcOutcomes == {BcNone, "refused", "failed", "unknown", "succeeded", "recursion"}
Begun == {"sign", "again", "send", "poll"}
Over == {"after", "done"}
NoVerdict == {"unknown", "recursion"}

BatchCallsTypeOK ==
  /\ bcStage \in [BcActors -> BcStages]
  /\ bcAhead \in [BcActors -> SUBSET BcCalls]
  /\ bcNumber \in [BcActors -> Nat]
  /\ bcLoadedAt \in [BcActors -> Nat]
  /\ bcOutcome \in [BcActors -> BcOutcomes]
  /\ bcPool \subseteq BcActors
  /\ bcApplied \in Seq(BcActors)

OneBehindTheOther == \A a, b \in Links : a # b => a \in bcAhead[b] \/ b \in bcAhead[a]
BegunIsFirst == \A a \in BcCalls : bcStage[a] \in Begun => bcAhead[a] = {}

EndedOpen(a) == bcStage[a] \in Over /\ bcOutcome[a] \in NoVerdict
PoolIsOpen == \A a \in bcPool \cap BcCalls : bcStage[a] = "poll" \/ EndedOpen(a)
AppliedWasSent ==
  \A n \in DOMAIN bcApplied : bcApplied[n] \in BcCalls =>
    /\ bcApplied[n] \notin bcPool
    /\ bcStage[bcApplied[n]] \in {"poll", "after", "done"}

BcInv ==
  /\ BatchCallsTypeOK /\ OneBehindTheOther /\ BegunIsFirst
  /\ PoolIsOpen /\ AppliedWasSent /\ NumberLostOnlyToOutsiders

(* What a step of one actor does to the others, and to itself once its     *)
(* call is over or its link has begun.                                     *)
StepOf(a) ==
  /\ BatchCallsTypeOK'
  /\ bcApplied' = bcApplied
  /\ \A b \in BcActors \ {a} :
       /\ bcStage'[b] = bcStage[b]
       /\ bcOutcome'[b] = bcOutcome[b]
       /\ bcLoadedAt'[b] = bcLoadedAt[b]
  /\ bcStage[a] \in Over => bcStage'[a] \in Over /\ bcOutcome'[a] = bcOutcome[a]
  /\ bcStage'[a] \in Begun =>
       \/ bcStage[a] \in Begun /\ bcLoadedAt'[a] = bcLoadedAt[a]
       \/ bcLoadedAt'[a] = Len(bcApplied)
       \/ a \in BcApps

LEMMA LinksAreCalls == Links \subseteq BcCalls
BY DEF Links

(* However a submission ends, only its own stage and outcome change, its  *)
(* link is gone from the chain, and what it is told may be "recursion".    *)
LEMMA HowASubmissionEnds ==
  ASSUME BatchCallsTypeOK, NEW a \in BcActors, NEW ended \in BcOutcomes,
         SubmissionEnds(a, ended), bcApplied' = bcApplied, bcPool' \subseteq BcActors,
         bcStage[a] \notin Over
  PROVE /\ StepOf(a)
        /\ bcStage'[a] \in Over
        /\ a \in BcCalls => bcOutcome'[a] \in {ended, "recursion"}
        /\ \A b \in BcActors : b # a => bcAhead'[b] \in {bcAhead[b], bcAhead[b] \ {a}}
<1> USE BatchCallsAssumption DEF BatchCallsTypeOK, BcActors, BcStages, BcOutcomes
<1>1. CASE a \in BcApps
  <2>1. /\ ToStage(a, "done") /\ Told(a, ended)
        /\ UNCHANGED <<bcAhead, bcNumber, bcLoadedAt>>
    BY <1>1 DEF SubmissionEnds
  <2>2. BatchCallsTypeOK'
    BY <2>1 DEF ToStage, Told
  <2> QED  BY <1>1, <2>1, <2>2 DEF ToStage, Told, StepOf, Over, Begun
<1>2. CASE a \in BcCalls
  <2>1. PICK next \in Over, told \in {ended, "recursion"} :
          ToStage(a, next) /\ Told(a, told) /\ LinkEnds(a) /\ UNCHANGED <<bcNumber, bcLoadedAt>>
    BY <1>2 DEF SubmissionEnds, Over
  <2>2. BatchCallsTypeOK'
    BY <2>1 DEF ToStage, Told, LinkEnds, Over
  <2> QED  BY <1>2, <2>1, <2>2 DEF ToStage, Told, LinkEnds, StepOf, Over, Begun
<1> QED  BY <1>1, <1>2

(* A step of an actor takes no number from a link that has begun. *)
LEMMA StepsTakeNoNumber ==
  ASSUME BcInv, NEW c \in BcActors, StepOf(c)
  PROVE NumberLostOnlyToOutsiders'
<1> USE DEF BcActors
<1> SUFFICES ASSUME NEW a \in BcCalls, bcStage'[a] \in Begun,
                    NEW n \in bcLoadedAt'[a] + 1 .. Len(bcApplied)
             PROVE \/ bcApplied[n] \in {a} \cup BcApps
                   \/ EndedOpen(bcApplied[n])'
  BY DEF NumberLostOnlyToOutsiders, Begun, EndedOpen, Over, NoVerdict, StepOf
<1>1. bcLoadedAt'[a] \in Nat /\ Len(bcApplied) \in Nat
  BY DEF StepOf, BatchCallsTypeOK, BcInv
<1>2. bcLoadedAt'[a] # Len(bcApplied)
  BY <1>1
<1>3. bcStage[a] \in Begun /\ bcLoadedAt'[a] = bcLoadedAt[a]
  BY <1>2, BatchCallsAssumption DEF StepOf
<1>4. \/ bcApplied[n] \in {a} \cup BcApps
      \/ EndedOpen(bcApplied[n])
  BY <1>3 DEF BcInv, NumberLostOnlyToOutsiders, Begun, EndedOpen, Over, NoVerdict
<1>5. bcApplied[n] \in BcActors
  BY <1>1 DEF BcInv, BatchCallsTypeOK
<1> QED
  BY <1>4, <1>5 DEF StepOf, EndedOpen

(* In the terms of the chain and the pool, what a step of one actor may do *)
(* to keep the rest of the invariant.                                      *)
LEMMA StepsKeepTheInvariant ==
  ASSUME BcInv, NEW c \in BcActors, StepOf(c),
         bcPool' \in {bcPool, bcPool \cup {c}},
         c \in bcPool' /\ c \in BcCalls => bcStage'[c] = "poll" \/ EndedOpen(c)',
         c \in bcPool' /\ c \in BcCalls => c \in bcPool \/ bcStage[c] = "send",
         bcStage[c] \in {"poll"} \cup Over => bcStage'[c] \in {"poll"} \cup Over,
         OneBehindTheOther', BegunIsFirst'
  PROVE BcInv'
<1> USE DEF BcActors
<1>1. PoolIsOpen'
  BY DEF PoolIsOpen, EndedOpen, StepOf, BcInv
<1>2. AppliedWasSent'
  <2> SUFFICES ASSUME NEW n \in DOMAIN bcApplied, bcApplied[n] \in BcCalls
               PROVE /\ bcApplied[n] \notin bcPool'
                     /\ bcStage'[bcApplied[n]] \in {"poll", "after", "done"}
    BY DEF AppliedWasSent, StepOf
  <2>1. bcApplied[n] \notin bcPool /\ bcStage[bcApplied[n]] \in {"poll", "after", "done"}
    BY DEF AppliedWasSent, BcInv
  <2> QED  BY <2>1 DEF StepOf, Over
<1> QED
  BY <1>1, <1>2, StepsTakeNoNumber DEF BcInv, StepOf

(* A submission that ends before it was sent, or without a verdict. *)
LEMMA EndsKeepTheInvariant ==
  ASSUME BcInv, NEW c \in BcActors, NEW ended \in BcOutcomes,
         SubmissionEnds(c, ended), bcApplied' = bcApplied,
         bcPool' \in {bcPool, bcPool \cup {c}}, bcStage[c] \notin Over,
         c \in bcPool' /\ c \in BcCalls =>
           ended = "unknown" /\ (c \in bcPool \/ bcStage[c] = "send")
  PROVE BcInv'
<1> USE BatchCallsAssumption DEF BcActors
<1>1. /\ StepOf(c)
      /\ bcStage'[c] \in Over
      /\ c \in BcCalls => bcOutcome'[c] \in {ended, "recursion"}
      /\ \A b \in BcActors : b # c => bcAhead'[b] \in {bcAhead[b], bcAhead[b] \ {c}}
  BY HowASubmissionEnds DEF BcInv, BatchCallsTypeOK
<1>2. OneBehindTheOther'
  BY <1>1 DEF BcInv, OneBehindTheOther, Links, StepOf, Over
<1>3. BegunIsFirst'
  BY <1>1 DEF BcInv, BegunIsFirst, Begun, StepOf, Over
<1>4. c \in bcPool' /\ c \in BcCalls => EndedOpen(c)'
  BY <1>1 DEF EndedOpen, NoVerdict
<1> QED
  BY <1>1, <1>2, <1>3, <1>4, StepsKeepTheInvariant

LEMMA NumbersLoaded ==
  ASSUME BatchCallsTypeOK, NEW a \in BcActors, Loaded(a)
  PROVE /\ bcNumber' \in [BcActors -> Nat] /\ bcLoadedAt' \in [BcActors -> Nat]
        /\ bcLoadedAt'[a] = Len(bcApplied)
        /\ \A b \in BcActors \ {a} : bcLoadedAt'[b] = bcLoadedAt[b]
<1>1. Len(bcApplied) \in Nat
  BY DEF BatchCallsTypeOK
<1>2. PICK lag \in 0..1 : lag <= Len(bcApplied)
        /\ bcNumber' = [bcNumber EXCEPT ![a] = Len(bcApplied) - lag + 1]
  BY DEF Loaded
<1>3. Len(bcApplied) - lag + 1 \in Nat
  BY <1>1, <1>2
<1> QED
  BY <1>1, <1>2, <1>3 DEF Loaded, BatchCallsTypeOK

LEMMA BcInvIsInductive == BcInv /\ [BatchCallsNext]_bcVars => BcInv'
<1> SUFFICES ASSUME BcInv, [BatchCallsNext]_bcVars PROVE BcInv'
  OBVIOUS
<1> USE BatchCallsAssumption DEF BcActors, bcLedger
<1>1. ASSUME NEW a \in BcActors, BatchCall(a) PROVE BcInv'
  <2>1. StepOf(a)
    BY <1>1 DEF BcInv, BatchCallsTypeOK, BcStages, BcOutcomes, StepOf, Over, Begun, BatchCall, Refused, ToStage, Told
  <2>2. OneBehindTheOther'
    BY <1>1 DEF BcInv, BatchCallsTypeOK, OneBehindTheOther, Links, BatchCall, Refused, ToStage, Told
  <2>3. BegunIsFirst'
    BY <1>1 DEF BcInv, BatchCallsTypeOK, BegunIsFirst, Begun, BatchCall, Refused, ToStage, Told
  <2>4. bcPool' = bcPool /\ bcStage[a] \notin {"poll"} \cup Over
    BY <1>1 DEF BatchCall, Refused, Over
  <2>5. a \in bcPool /\ a \in BcCalls => EndedOpen(a)'
    BY <1>1 DEF BcInv, BatchCallsTypeOK, PoolIsOpen, EndedOpen, Over, NoVerdict, BatchCall, Refused, ToStage, Told
  <2> QED
    BY <2>1, <2>2, <2>3, <2>4, <2>5, StepsKeepTheInvariant
<1>2. ASSUME NEW a \in BcActors, AppCall(a) PROVE BcInv'
  <2>1. StepOf(a)
    BY <1>2 DEF BcInv, BatchCallsTypeOK, BcStages, BcOutcomes, StepOf, Over, Begun, AppCall, ToStage
  <2>2. OneBehindTheOther'
    BY <1>2 DEF BcInv, BatchCallsTypeOK, OneBehindTheOther, Links, AppCall, ToStage
  <2>3. BegunIsFirst'
    BY <1>2 DEF BcInv, BatchCallsTypeOK, BegunIsFirst, Begun, AppCall, ToStage
  <2>4. /\ bcPool' = bcPool
        /\ bcStage[a] \in {"poll"} \cup Over => bcStage'[a] \in {"poll"} \cup Over
    BY <1>2 DEF BcInv, BatchCallsTypeOK, Over, AppCall, ToStage
  <2>5. a \in bcPool /\ a \in BcCalls => EndedOpen(a)'
    BY <1>2 DEF BcInv, BatchCallsTypeOK, PoolIsOpen, EndedOpen, Over, NoVerdict, AppCall, ToStage
  <2> QED
    BY <2>1, <2>2, <2>3, <2>4, <2>5, StepsKeepTheInvariant
<1>3. ASSUME NEW a \in BcActors, WalletNetwork(a) PROVE BcInv'
  <2>1. StepOf(a)
    BY <1>3 DEF BcInv, BatchCallsTypeOK, BcStages, BcOutcomes, StepOf, Over, Begun, WalletNetwork, Refused, ToStage, Told
  <2>2. OneBehindTheOther'
    BY <1>3 DEF BcInv, BatchCallsTypeOK, OneBehindTheOther, Links, WalletNetwork, Refused, ToStage, Told
  <2>3. BegunIsFirst'
    BY <1>3 DEF BcInv, BatchCallsTypeOK, BegunIsFirst, Begun, WalletNetwork, Refused, ToStage, Told
  <2>4. /\ bcPool' = bcPool
        /\ bcStage[a] \in {"poll"} \cup Over => bcStage'[a] \in {"poll"} \cup Over
    BY <1>3 DEF BcInv, BatchCallsTypeOK, Over, WalletNetwork, Refused, ToStage, Told
  <2>5. a \in bcPool /\ a \in BcCalls => EndedOpen(a)'
    BY <1>3 DEF BcInv, BatchCallsTypeOK, PoolIsOpen, EndedOpen, Over, NoVerdict, WalletNetwork, Refused, ToStage, Told
  <2> QED
    BY <2>1, <2>2, <2>3, <2>4, <2>5, StepsKeepTheInvariant
<1>4. ASSUME NEW a \in BcActors, BeforeHooksEnd(a) PROVE BcInv'
  <2>1. StepOf(a)
    BY <1>4, LinksAreCalls DEF BcInv, BatchCallsTypeOK, BcStages, BcOutcomes, StepOf, Over, Begun, BeforeHooksEnd, Refused, LinkStarts, ToStage, Told
  <2>2. OneBehindTheOther'
    BY <1>4 DEF BcInv, BatchCallsTypeOK, OneBehindTheOther, Links, BeforeHooksEnd, Refused, LinkStarts, ToStage, Told
  <2>3. BegunIsFirst'
    BY <1>4 DEF BcInv, BatchCallsTypeOK, BegunIsFirst, Begun, BeforeHooksEnd, Refused, LinkStarts, ToStage, Told
  <2>4. /\ bcPool' = bcPool
        /\ bcStage[a] \in {"poll"} \cup Over => bcStage'[a] \in {"poll"} \cup Over
    BY <1>4 DEF BcInv, BatchCallsTypeOK, Over, BeforeHooksEnd, Refused, LinkStarts, ToStage, Told
  <2>5. a \in bcPool /\ a \in BcCalls => EndedOpen(a)'
    BY <1>4 DEF BcInv, BatchCallsTypeOK, PoolIsOpen, EndedOpen, Over, NoVerdict, BeforeHooksEnd, Refused, LinkStarts, ToStage, Told
  <2> QED
    BY <2>1, <2>2, <2>3, <2>4, <2>5, StepsKeepTheInvariant
<1>5. ASSUME NEW a \in BcActors, AfterHooksEnd(a) PROVE BcInv'
  <2>1. StepOf(a)
    BY <1>5 DEF BcInv, BatchCallsTypeOK, BcStages, BcOutcomes, StepOf, Over, Begun, AfterHooksEnd, ToStage
  <2>2. OneBehindTheOther'
    BY <1>5 DEF BcInv, BatchCallsTypeOK, OneBehindTheOther, Links, AfterHooksEnd, ToStage
  <2>3. BegunIsFirst'
    BY <1>5 DEF BcInv, BatchCallsTypeOK, BegunIsFirst, Begun, AfterHooksEnd, ToStage
  <2>4. /\ bcPool' = bcPool
        /\ bcStage[a] \in {"poll"} \cup Over => bcStage'[a] \in {"poll"} \cup Over
    BY <1>5 DEF BcInv, BatchCallsTypeOK, Over, AfterHooksEnd, ToStage
  <2>5. a \in bcPool /\ a \in BcCalls => EndedOpen(a)'
    BY <1>5 DEF BcInv, BatchCallsTypeOK, PoolIsOpen, EndedOpen, Over, NoVerdict, AfterHooksEnd, ToStage
  <2> QED
    BY <2>1, <2>2, <2>3, <2>4, <2>5, StepsKeepTheInvariant
<1>6. ASSUME NEW a \in BcActors, LoadNumber(a) PROVE BcInv'
  <2>1. CASE SubmissionEnds(a, "failed")
    BY <1>6, <2>1, EndsKeepTheInvariant
       DEF LoadNumber, Over, BcOutcomes, BcInv, PoolIsOpen, EndedOpen
  <2>2. CASE ~SubmissionEnds(a, "failed")
    <3>0. /\ bcNumber' \in [BcActors -> Nat] /\ bcLoadedAt' \in [BcActors -> Nat]
          /\ bcLoadedAt'[a] = Len(bcApplied)
          /\ \A b \in BcActors \ {a} : bcLoadedAt'[b] = bcLoadedAt[b]
      BY <1>6, <2>2, NumbersLoaded DEF LoadNumber, BcInv
    <3>1. StepOf(a)
      BY <1>6, <2>2, <3>0 DEF BcInv, BatchCallsTypeOK, BcStages, StepOf, Over, Begun, LoadNumber, Loaded, ToStage
    <3>2. OneBehindTheOther'
      BY <1>6, <2>2 DEF BcInv, BatchCallsTypeOK, OneBehindTheOther, Links, LoadNumber, Loaded, ToStage
    <3>3. BegunIsFirst'
      BY <1>6, <2>2 DEF BcInv, BatchCallsTypeOK, BegunIsFirst, Begun, LoadNumber, Loaded, ToStage, ItsTurn
    <3>4. bcPool' = bcPool /\ bcStage[a] \notin {"poll"} \cup Over
      BY <1>6 DEF LoadNumber, Over
    <3>5. a \in bcPool => a \notin BcCalls
      BY <3>4 DEF BcInv, PoolIsOpen, EndedOpen
    <3> QED
      BY <3>1, <3>2, <3>3, <3>4, <3>5, StepsKeepTheInvariant
  <2> QED  BY <2>1, <2>2
<1>7. ASSUME NEW a \in BcActors, BuildForApp(a) PROVE BcInv'
  <2>1. CASE SubmissionEnds(a, "failed")
    BY <1>7, <2>1, EndsKeepTheInvariant DEF BuildForApp, Over, BcOutcomes
  <2>2. CASE ~SubmissionEnds(a, "failed")
    <3>0. /\ bcNumber' \in [BcActors -> Nat] /\ bcLoadedAt' \in [BcActors -> Nat]
          /\ bcLoadedAt'[a] = Len(bcApplied)
          /\ \A b \in BcActors \ {a} : bcLoadedAt'[b] = bcLoadedAt[b]
      BY <1>7, <2>2, NumbersLoaded DEF BuildForApp, BcInv
    <3>1. StepOf(a)
      BY <1>7, <2>2, <3>0 DEF BcInv, BatchCallsTypeOK, BcStages, StepOf, Over, Begun, BuildForApp, Loaded, ToStage
    <3>2. OneBehindTheOther'
      BY <1>7, <2>2 DEF BcInv, BatchCallsTypeOK, OneBehindTheOther, Links, BuildForApp, Loaded, ToStage
    <3>3. BegunIsFirst'
      BY <1>7, <2>2 DEF BcInv, BatchCallsTypeOK, BegunIsFirst, Begun, BuildForApp, Loaded, ToStage
    <3>4. bcPool' = bcPool /\ bcStage[a] \notin {"poll"} \cup Over
      BY <1>7 DEF BuildForApp, Over
    <3>5. a \in bcPool => a \notin BcCalls
      BY <3>4 DEF BcInv, PoolIsOpen, EndedOpen
    <3> QED
      BY <3>1, <3>2, <3>3, <3>4, <3>5, StepsKeepTheInvariant
  <2> QED  BY <2>1, <2>2
<1>8. ASSUME NEW a \in BcActors, SignBatch(a) PROVE BcInv'
  <2>1. CASE SubmissionEnds(a, "failed")
    BY <1>8, <2>1, EndsKeepTheInvariant
       DEF SignBatch, Over, BcOutcomes, BcInv, PoolIsOpen, EndedOpen
  <2>2. CASE ~SubmissionEnds(a, "failed")
    <3>1. StepOf(a)
      BY <1>8, <2>2 DEF BcInv, BatchCallsTypeOK, BcStages, StepOf, Over, Begun, SignBatch, ToStage
    <3>2. OneBehindTheOther'
      BY <1>8, <2>2 DEF BcInv, BatchCallsTypeOK, OneBehindTheOther, Links, SignBatch, ToStage
    <3>3. BegunIsFirst'
      BY <1>8, <2>2 DEF BcInv, BatchCallsTypeOK, BegunIsFirst, Begun, SignBatch, ToStage
    <3>4. bcPool' = bcPool /\ bcStage[a] \notin {"poll"} \cup Over
      BY <1>8 DEF SignBatch, Over
    <3>5. a \in bcPool => a \notin BcCalls
      BY <3>4 DEF BcInv, PoolIsOpen, EndedOpen
    <3> QED
      BY <3>1, <3>2, <3>3, <3>4, <3>5, StepsKeepTheInvariant
  <2> QED  BY <2>1, <2>2
<1>9. ASSUME NEW a \in BcActors, CheckAgain(a) PROVE BcInv'
  <2>1. CASE SubmissionEnds(a, "failed")
    BY <1>9, <2>1, EndsKeepTheInvariant
       DEF CheckAgain, Over, BcOutcomes, BcInv, PoolIsOpen, EndedOpen
  <2>2. CASE ~SubmissionEnds(a, "failed")
    <3>1. StepOf(a)
      BY <1>9, <2>2 DEF BcInv, BatchCallsTypeOK, BcStages, StepOf, Over, Begun, CheckAgain, ToStage
    <3>2. OneBehindTheOther'
      BY <1>9, <2>2 DEF BcInv, BatchCallsTypeOK, OneBehindTheOther, Links, CheckAgain, ToStage
    <3>3. BegunIsFirst'
      BY <1>9, <2>2 DEF BcInv, BatchCallsTypeOK, BegunIsFirst, Begun, CheckAgain, ToStage
    <3>4. bcPool' = bcPool /\ bcStage[a] \notin {"poll"} \cup Over
      BY <1>9 DEF CheckAgain, Over
    <3>5. a \in bcPool => a \notin BcCalls
      BY <3>4 DEF BcInv, PoolIsOpen, EndedOpen
    <3> QED
      BY <3>1, <3>2, <3>3, <3>4, <3>5, StepsKeepTheInvariant
  <2> QED  BY <2>1, <2>2
<1>10. ASSUME NEW a \in BcActors, SendSigned(a) PROVE BcInv'
  <2>1. CASE SubmissionEnds(a, "unknown") /\ bcPool' = bcPool \cup {a}
    BY <1>10, <2>1, EndsKeepTheInvariant DEF SendSigned, Over, BcOutcomes
  <2>2. CASE SubmissionEnds(a, "failed") /\ bcPool' = bcPool
    BY <1>10, <2>2, EndsKeepTheInvariant
       DEF SendSigned, Over, BcOutcomes, BcInv, PoolIsOpen, EndedOpen
  <2>3. CASE ToStage(a, "poll") /\ bcPool' = bcPool \cup {a}
               /\ UNCHANGED <<bcAhead, bcNumber, bcLoadedAt, bcHooking, bcOutcome>>
    <3>1. StepOf(a)
      BY <1>10, <2>3 DEF BcInv, BatchCallsTypeOK, BcStages, StepOf, Over, Begun, SendSigned, ToStage
    <3>2. OneBehindTheOther'
      BY <1>10, <2>3 DEF BcInv, BatchCallsTypeOK, OneBehindTheOther, Links, SendSigned, ToStage
    <3>3. BegunIsFirst'
      BY <1>10, <2>3 DEF BcInv, BatchCallsTypeOK, BegunIsFirst, Begun, SendSigned, ToStage
    <3>4. bcStage[a] = "send" /\ bcStage'[a] = "poll"
      BY <1>10, <2>3 DEF BcInv, BatchCallsTypeOK, SendSigned, ToStage
    <3> QED
      BY <2>3, <3>1, <3>2, <3>3, <3>4, StepsKeepTheInvariant
  <2> QED  BY <1>10, <2>1, <2>2, <2>3 DEF SendSigned
<1>11. ASSUME NEW a \in BcActors, PollSigned(a) PROVE BcInv'
  <2>1. CASE SubmissionEnds(a, "unknown")
    BY <1>11, <2>1, EndsKeepTheInvariant DEF PollSigned, Over, BcOutcomes
  <2>2. ASSUME NEW n \in DOMAIN bcApplied, bcApplied[n] = a,
               NEW ended \in {"succeeded", "failed"}, SubmissionEnds(a, ended)
        PROVE BcInv'
    <3>1. a \in BcCalls => a \notin bcPool
      BY <2>2 DEF BcInv, AppliedWasSent
    <3> QED
      BY <1>11, <2>2, <3>1, EndsKeepTheInvariant DEF PollSigned, Over, BcOutcomes
  <2> QED  BY <1>11, <2>1, <2>2 DEF PollSigned
<1>12. ASSUME NEW a \in BcActors, BcApplies(a) PROVE BcInv'
  <2> USE DEF BcApplies
  <2>1. BatchCallsTypeOK' /\ OneBehindTheOther' /\ BegunIsFirst' /\ PoolIsOpen'
    BY <1>12 DEF BcInv, BatchCallsTypeOK, OneBehindTheOther, Links, BegunIsFirst, PoolIsOpen, EndedOpen
  <2>2. /\ Len(bcApplied) \in Nat /\ Len(bcApplied') = Len(bcApplied) + 1
        /\ DOMAIN bcApplied = 1..Len(bcApplied) /\ DOMAIN bcApplied' = 1..(Len(bcApplied) + 1)
        /\ \A n \in 1..Len(bcApplied) : bcApplied'[n] = bcApplied[n]
        /\ bcApplied'[Len(bcApplied) + 1] = a
    BY <1>12 DEF BcInv, BatchCallsTypeOK
  <2>3. AppliedWasSent'
    <3>1. a \in BcCalls => bcStage[a] \in {"poll", "after", "done"}
      BY <1>12 DEF BcInv, PoolIsOpen, EndedOpen, Over
    <3> SUFFICES ASSUME NEW n \in 1..(Len(bcApplied) + 1), bcApplied'[n] \in BcCalls
                 PROVE /\ bcApplied'[n] \notin bcPool \ {a}
                       /\ bcStage[bcApplied'[n]] \in {"poll", "after", "done"}
      BY <1>12, <2>2 DEF AppliedWasSent
    <3>2. CASE n = Len(bcApplied) + 1
      BY <2>2, <3>1, <3>2
    <3>3. CASE n \in 1..Len(bcApplied)
      BY <2>2, <3>3 DEF BcInv, AppliedWasSent
    <3> QED  BY <2>2, <3>2, <3>3
  <2>4. NumberLostOnlyToOutsiders'
    <3> SUFFICES ASSUME NEW b \in BcCalls, bcStage[b] \in Begun,
                        NEW n \in bcLoadedAt[b] + 1 .. Len(bcApplied) + 1
                 PROVE \/ bcApplied'[n] \in {b} \cup BcApps
                       \/ EndedOpen(bcApplied'[n])
      BY <1>12, <2>2 DEF NumberLostOnlyToOutsiders, Begun, EndedOpen, Over, NoVerdict
    <3>1. bcLoadedAt[b] \in Nat
      BY DEF BcInv, BatchCallsTypeOK
    <3>2. CASE n = Len(bcApplied) + 1
      <4>1. a \in BcCalls /\ bcStage[a] = "poll" => a = b
        BY DEF BcInv, OneBehindTheOther, BegunIsFirst, Links, Begun
      <4>2. a \in BcApps \/ a = b \/ EndedOpen(a)
        BY <1>12, <4>1 DEF BcInv, PoolIsOpen
      <4> QED  BY <2>2, <3>2, <4>2
    <3>3. CASE n \in bcLoadedAt[b] + 1 .. Len(bcApplied)
      <4>1. bcApplied'[n] = bcApplied[n]
        BY <2>2, <3>1, <3>3
      <4> QED
        BY <3>3, <4>1 DEF BcInv, NumberLostOnlyToOutsiders, Begun, EndedOpen, Over, NoVerdict
    <3> QED  BY <2>2, <3>1, <3>2, <3>3
  <2> QED  BY <2>1, <2>3, <2>4 DEF BcInv
<1>13. ASSUME NEW a \in BcActors, BcDrops(a) PROVE BcInv'
  BY <1>13 DEF BcInv, BatchCallsTypeOK, OneBehindTheOther, Links, BegunIsFirst, PoolIsOpen,
       EndedOpen, AppliedWasSent, NumberLostOnlyToOutsiders, BcDrops
<1>14. CASE WalletSwitches \/ UNCHANGED bcVars
  BY <1>14 DEF BcInv, BatchCallsTypeOK, OneBehindTheOther, Links, BegunIsFirst, PoolIsOpen,
       EndedOpen, AppliedWasSent, NumberLostOnlyToOutsiders, WalletSwitches, bcVars
<1> QED
  BY <1>1, <1>2, <1>3, <1>4, <1>5, <1>6, <1>7, <1>8, <1>9, <1>10, <1>11, <1>12, <1>13, <1>14
     DEF BatchCallsNext

LEMMA BcInvHoldsFirst == BatchCallsInit => BcInv
<1> SUFFICES ASSUME BatchCallsInit PROVE BcInv
  OBVIOUS
<1> USE DEF BatchCallsInit, BcActors
<1>1. BatchCallsTypeOK
  BY DEF BatchCallsTypeOK, BcStages, BcOutcomes
<1>2. OneBehindTheOther /\ BegunIsFirst /\ PoolIsOpen
  BY DEF OneBehindTheOther, Links, BegunIsFirst, Begun, PoolIsOpen
<1>3. AppliedWasSent /\ NumberLostOnlyToOutsiders
  BY DEF AppliedWasSent, NumberLostOnlyToOutsiders
<1> QED  BY <1>1, <1>2, <1>3 DEF BcInv

(* A batch loses the number it has read to an app, or to a link that has   *)
(* ended without a verdict, and to no other batch (serializeWrite()).      *)
THEOREM BatchesKeepTheirNumber == BatchCallsSpec => []NumberLostOnlyToOutsiders
<1>1. BcInv => NumberLostOnlyToOutsiders
  BY DEF BcInv
<1> QED
  BY <1>1, BcInvIsInductive, BcInvHoldsFirst, PTL DEF BatchCallsSpec
=============================================================================
