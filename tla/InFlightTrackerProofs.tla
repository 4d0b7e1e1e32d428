----------------------- MODULE InFlightTrackerProofs -----------------------
(***************************************************************************)
(* The books of the tracker agree, and no key passes on behind its owner's *)
(* back, for every set of calls, keys and wallets, every assignment of     *)
(* methods to the calls and every limit, as long as no operation calls the *)
(* tracker again before it has returned its promise.  With such calls the  *)
(* slots go wrong (IdleWalletsAreFree), and the second part says what is   *)
(* true all the same, to every depth of nesting.                           *)
(***************************************************************************)
EXTENDS InFlightTracker, FiniteSetTheorems, SequenceTheorems, WellFoundedInduction, TLAPS

(* The operation that is being called has found its key free, or freed it, *)
(* and room in the map and in its wallet.                                  *)
RoomFor(c) ==
  /\ status[c] = "calling"
  /\ owner[KeyOf[c]] = None
  /\ Cardinality(InMap) < MaxInFlight
  /\ WalletOf(c) # NoWallet => count[WalletOf(c)] < MaxPerWallet

OneAtATime == stack = <<>> \/ \E c \in Calls : stack = <<c>> /\ RoomFor(c)

(* A slot is given back by a call that has had an entry and has none now. *)
ReleasedIsOut ==
  \A c \in released : status[c] \in {"running", "settled"} /\ c \notin Tracked

TrackerInv ==
  /\ TypeOK
  /\ EntriesRun
  /\ SlotsMatchEntries
  /\ WithinLimits
  /\ ReplacedIsAborted
  /\ OneAtATime
  /\ ReleasedIsOut

-----------------------------------------------------------------------------
LEMMA LeastExists ==
  ASSUME NEW T \in SUBSET Nat, T # {}
  PROVE  \E x \in T : \A y \in T : x <= y
<1>1. PICK x \in T : \A y \in T : ~(<<y, x>> \in OpToRel(<, Nat))
  BY NatLessThanWellFounded, WFMin, Zenon
<1>2. \A y \in T : ~(y < x)
  BY <1>1 DEF OpToRel
<1> QED
  BY <1>2

LEMMA FiniteParts ==
  ASSUME TypeOK
  PROVE  /\ Tracked \subseteq Calls /\ IsFiniteSet(Tracked)
         /\ InMap \subseteq Keys /\ IsFiniteSet(InMap) /\ Cardinality(InMap) \in Nat
<1>1. Tracked \subseteq Calls /\ InMap \subseteq Keys
  BY DEF Tracked, InMap
<1> QED
  BY <1>1, TrackerAssumption, FS_Subset, FS_CardinalityType

LEMMA WalletType ==
  ASSUME NEW c \in Calls
  PROVE  WalletOf(c) \in Wallets \cup {NoWallet}
BY TrackerAssumption DEF WalletOf

(* What it means for entries to leave, whoever lets them go. *)
LEMMA Releasing ==
  ASSUME TrackerInv, NEW cs \in SUBSET Tracked, Release(cs)
  PROVE  /\ owner' \in [Keys -> Calls \cup {None}]
         /\ \A k \in Keys : owner'[k] = IF owner[k] \in cs THEN None ELSE owner[k]
         /\ Tracked' = Tracked \ cs
         /\ count' \in [Wallets -> Nat]
         /\ \A w \in Wallets : count'[w] <= count[w]
         /\ released' \subseteq Calls
         /\ SlotsMatchEntries'
         /\ WithinLimits'
<1> USE DEF TrackerInv
<1>1. None \notin cs /\ cs \subseteq Calls /\ IsFiniteSet(cs)
  BY FiniteParts, TrackerAssumption, FS_Subset
<1>2. /\ owner' \in [Keys -> Calls \cup {None}]
      /\ \A k \in Keys : owner'[k] = IF owner[k] \in cs THEN None ELSE owner[k]
  BY DEF Release, TypeOK
<1>3. Tracked' = Tracked \ cs
  <2>1. ASSUME NEW c \in Calls
        PROVE  c \in Tracked' <=> c \in Tracked /\ c \notin cs
    BY <1>1, <1>2, TrackerAssumption DEF Tracked
  <2> QED
    BY <2>1 DEF Tracked
<1>4. InMap' \subseteq InMap
  BY <1>2 DEF InMap
<1>5. Cardinality(InMap') <= MaxInFlight
  <2>1. Cardinality(InMap') <= Cardinality(InMap) /\ Cardinality(InMap') \in Nat
    BY <1>4, FiniteParts, FS_Subset, FS_CardinalityType
  <2> QED
    BY <2>1, FiniteParts, TrackerAssumption DEF WithinLimits
<1>6. ASSUME NEW w \in Wallets
      PROVE  /\ count'[w] = Cardinality({c \in Tracked' : WalletOf(c) = w})
             /\ count'[w] \in Nat /\ count'[w] <= count[w]
  <2> DEFINE before == {c \in Tracked : WalletOf(c) = w}
             after == {c \in Tracked' : WalletOf(c) = w}
  <2>1. IsFiniteSet(before) /\ Cardinality(before) \in Nat /\ count[w] = Cardinality(before)
    BY FiniteParts, FS_Subset, FS_CardinalityType DEF SlotsMatchEntries
  <2>2. Charged(cs, w) = before \cap cs
    BY <1>1 DEF Charged, ReleasedIsOut
  <2>3. after = before \ cs
    BY <1>3
  <2>4. /\ Cardinality(after) = Cardinality(before) - Cardinality(before \cap cs)
        /\ Cardinality(after) \in Nat /\ Cardinality(after) <= Cardinality(before)
    <3>1. IsFiniteSet(after) /\ after \subseteq before
      BY <2>1, <2>3, FS_Difference
    <3> QED
      BY <3>1, <2>1, <2>3, FS_Difference, FS_Subset, FS_CardinalityType
  <2>5. count'[w] = count[w] - Cardinality(Charged(cs, w))
    BY DEF Release
  <2> QED
    BY <2>1, <2>2, <2>4, <2>5
<1>7. count' \in [Wallets -> Nat]
  BY <1>6 DEF Release
<1>8. SlotsMatchEntries'
  BY <1>6 DEF SlotsMatchEntries, WalletOf
<1>9. WithinLimits'
  <2>1. ASSUME NEW w \in Wallets PROVE count'[w] <= MaxPerWallet
    <3>1. count[w] \in Nat /\ count[w] <= MaxPerWallet /\ MaxPerWallet \in Nat
      BY TrackerAssumption DEF WithinLimits, TypeOK
    <3>2. count'[w] \in Nat /\ count'[w] <= count[w]
      BY <1>6, <2>1, Zenon
    <3> QED
      BY <3>1, <3>2
  <2> QED
    BY <1>5, <2>1 DEF WithinLimits
<1>10. released' \subseteq Calls
  BY <1>1 DEF Release, TypeOK
<1> QED
  BY <1>2, <1>3, <1>6, <1>7, <1>8, <1>9, <1>10

(* Entries leave and their operations are told, while no operation starts  *)
(* or ends.                                                                *)
LEMMA Dropping ==
  ASSUME TrackerInv, NEW cs \in SUBSET Tracked, Drop(cs),
         \A d \in Calls : status'[d] = "running" <=> status[d] = "running",
         \A d \in Calls : status[d] = "settled" => status'[d] = "settled"
  PROVE  EntriesRun' /\ ReplacedIsAborted' /\ ReleasedIsOut' /\ aborted' \subseteq Calls
<1> USE DEF TrackerInv
<1>1. /\ \A k \in Keys : owner'[k] = IF owner[k] \in cs THEN None ELSE owner[k]
      /\ Tracked' = Tracked \ cs
      /\ aborted' = aborted \cup cs /\ released' = released \cup cs
  BY Releasing DEF Drop, Release
<1>2. EntriesRun'
  BY <1>1 DEF EntriesRun, InMap, TypeOK
<1>3. ReplacedIsAborted'
  <2>1. ASSUME NEW c \in Calls, status'[c] = "running", owner'[KeyOf[c]] # c
        PROVE  c \in aborted'
    <3>1. KeyOf[c] \in Keys /\ status[c] = "running"
      BY <2>1, TrackerAssumption
    <3>2. CASE owner[KeyOf[c]] = c
      BY <3>1, <3>2, <2>1, <1>1
    <3>3. CASE owner[KeyOf[c]] # c
      BY <3>1, <3>3, <1>1 DEF ReplacedIsAborted
    <3> QED
      BY <3>2, <3>3
  <2> QED
    BY <2>1 DEF ReplacedIsAborted
<1>4. ReleasedIsOut'
  <2>1. ASSUME NEW c \in released'
        PROVE  status'[c] \in {"running", "settled"} /\ c \notin Tracked'
    <3>1. CASE c \in released
      BY <3>1, <1>1 DEF ReleasedIsOut, TypeOK
    <3>2. CASE c \in cs
      <4>1. c \in Calls /\ status[c] = "running"
        BY <3>2, TrackerAssumption DEF Tracked, EntriesRun, InMap
      <4> QED
        BY <4>1, <3>2, <1>1
    <3> QED
      BY <3>1, <3>2, <1>1
  <2> QED
    BY <2>1 DEF ReleasedIsOut
<1> QED
  BY <1>1, <1>2, <1>3, <1>4, FiniteParts DEF TypeOK

(* clear() drops every entry. *)
LEMMA ClearDrops ==
  ASSUME TrackerInv, Clear
  PROVE  Drop(Tracked)
<1> USE DEF TrackerInv
<1>1. owner' = [k \in Keys |-> IF owner[k] \in Tracked THEN None ELSE owner[k]]
  <2>1. ASSUME NEW k \in Keys PROVE (IF owner[k] \in Tracked THEN None ELSE owner[k]) = None
    BY DEF Tracked, TypeOK
  <2> QED
    BY <2>1, Zenon DEF Clear
<1>2. count' = [w \in Wallets |-> count[w] - Cardinality(Charged(Tracked, w))]
  <2>1. ASSUME NEW w \in Wallets
        PROVE  count[w] - Cardinality(Charged(Tracked, w)) = 0
    <3>1. Charged(Tracked, w) = {c \in Tracked : WalletOf(c) = w}
      BY DEF Charged, ReleasedIsOut
    <3> QED
      BY <3>1 DEF SlotsMatchEntries, TypeOK
  <2> QED
    BY <2>1 DEF Clear
<1> QED
  BY <1>1, <1>2 DEF Drop, Release, Clear

-----------------------------------------------------------------------------
(* The map has room for one more, or one entry fewer than before. *)
LEMMA MapMakesRoom ==
  ASSUME TypeOK, NEW cs, cs = Stale \cup Oldest,
         \A k \in Keys : owner'[k] = IF owner[k] \in cs THEN None ELSE owner[k]
  PROVE  \/ Cardinality(InMap') < MaxInFlight
         \/ Cardinality(InMap') <= Cardinality(InMap) - 1
<1> DEFINE left == {k \in InMap : owner[k] \notin expired}
<1>1. /\ left \subseteq InMap /\ IsFiniteSet(left)
      /\ Cardinality(left) \in Nat /\ Cardinality(left) <= Cardinality(InMap)
  BY FiniteParts, FS_Subset, FS_CardinalityType
<1>2. Cardinality(InMap) \in Nat /\ MaxInFlight \in Nat \ {0}
  BY FiniteParts, TrackerAssumption
<1>3. \A k \in InMap : owner[k] \in Tracked
  BY DEF InMap, Tracked, TypeOK
<1>4. InMap' \subseteq left
  BY <1>3 DEF InMap, Stale
<1>5. Cardinality(InMap') <= Cardinality(left) /\ Cardinality(InMap') \in Nat
  BY <1>1, <1>4, FS_Subset, FS_CardinalityType
<1>6. CASE Cardinality(left) < MaxInFlight
  BY <1>1, <1>2, <1>5, <1>6
<1>7. CASE ~(Cardinality(left) < MaxInFlight)
  <2>1. left # {}
    <3>1. Cardinality({}) = 0
      BY FS_EmptySet
    <3> QED
      BY <3>1, <1>2, <1>7
  <2> DEFINE ranks == {place[k] : k \in left}
  <2>2. ranks \in SUBSET Nat /\ ranks # {}
    <3>1. \A k \in left : place[k] \in Nat
      BY DEF InMap, TypeOK
    <3> QED
      BY <2>1, <3>1
  <2>3. PICK p \in ranks : \A q \in ranks : p <= q
    BY <2>2, LeastExists
  <2>4. PICK k \in left : place[k] = p
    BY <2>3
  <2>5. \A m \in left : place[k] <= place[m]
    BY <2>3, <2>4
  <2>6. owner[k] \in Oldest
    BY <2>4, <2>5, <1>7 DEF Oldest
  <2>7. InMap' \subseteq left \ {k}
    BY <2>6, <1>4, <2>4 DEF InMap
  <2>8. Cardinality(left \ {k}) = Cardinality(left) - 1 /\ IsFiniteSet(left \ {k})
    BY <1>1, <2>4, FS_RemoveElement
  <2>9. Cardinality(InMap') <= Cardinality(left \ {k})
    BY <2>7, <2>8, FS_Subset
  <2> QED
    BY <2>8, <2>9, <1>1, <1>2, <1>5
<1> QED
  BY <1>6, <1>7

(* The operation is called: the oldest entry makes room if nothing else has. *)
LEMMA RoomInMap ==
  ASSUME TrackerInv, NEW cs \in SUBSET Tracked, cs = Stale \cup Oldest, Release(cs)
  PROVE  Cardinality(InMap') < MaxInFlight
<1> USE DEF TrackerInv
<1>1. \A k \in Keys : owner'[k] = IF owner[k] \in cs THEN None ELSE owner[k]
  BY Releasing
<1>2. \/ Cardinality(InMap') < MaxInFlight
      \/ Cardinality(InMap') <= Cardinality(InMap) - 1
  BY <1>1, MapMakesRoom
<1>3. InMap' \subseteq InMap
  BY <1>1 DEF InMap
<1>4. /\ Cardinality(InMap) \in Nat /\ Cardinality(InMap) <= MaxInFlight
      /\ Cardinality(InMap') \in Nat /\ MaxInFlight \in Nat
  BY <1>3, FiniteParts, FS_Subset, FS_CardinalityType, TrackerAssumption DEF WithinLimits
<1> QED
  BY <1>2, <1>4

LEMMA RoomInWallet ==
  ASSUME TrackerInv, NEW cs \in SUBSET Tracked, Stale \subseteq cs, Release(cs),
         NEW c \in Calls, ~WalletFull(c), WalletOf(c) # NoWallet
  PROVE  count'[WalletOf(c)] < MaxPerWallet
<1> USE DEF TrackerInv
<1> DEFINE w == WalletOf(c)
<1>1. w \in Wallets
  BY WalletType
<1>2. Charged(Stale, w) \subseteq Charged(cs, w) /\ IsFiniteSet(Charged(cs, w))
  <2>1. IsFiniteSet(cs) /\ Charged(cs, w) \subseteq cs
    BY FiniteParts, FS_Subset DEF Charged
  <2> QED
    BY <2>1, FS_Subset DEF Charged
<1>3. /\ Cardinality(Charged(Stale, w)) <= Cardinality(Charged(cs, w))
      /\ Cardinality(Charged(Stale, w)) \in Nat /\ Cardinality(Charged(cs, w)) \in Nat
  BY <1>2, FS_Subset, FS_CardinalityType
<1>4. count[w] - Cardinality(Charged(Stale, w)) < MaxPerWallet
  BY <1>1, <1>3, TrackerAssumption DEF WalletFull, TypeOK
<1>5. count'[w] = count[w] - Cardinality(Charged(cs, w)) /\ count[w] \in Nat
  BY <1>1 DEF Release, TypeOK
<1> QED
  BY <1>3, <1>4, <1>5, TrackerAssumption

LEMMA OldestTracked == ASSUME TypeOK PROVE Stale \cup Oldest \subseteq Tracked
<1>1. \A k \in InMap : owner[k] \in Tracked
  BY DEF InMap, Tracked, TypeOK
<1>2. Oldest \subseteq {owner[k] : k \in InMap}
  BY DEF Oldest
<1> QED
  BY <1>1, <1>2 DEF Stale

-----------------------------------------------------------------------------
LEMMA InitBooks == Init => TrackerInv
<1> SUFFICES ASSUME Init PROVE TrackerInv
  OBVIOUS
<1>1. TypeOK /\ stack = <<>>
  BY TrackerAssumption DEF Init, TypeOK, Statuses
<1>2. Tracked = {} /\ InMap = {}
  BY TrackerAssumption DEF Init, Tracked, InMap
<1>3. SlotsMatchEntries
  <2>1. \A w \in Wallets : {c \in Tracked : WalletOf(c) = w} = {}
    BY <1>2
  <2> QED
    BY <2>1, FS_EmptySet DEF SlotsMatchEntries, Init
<1>4. WithinLimits
  BY <1>2, FS_EmptySet, TrackerAssumption DEF WithinLimits, Init
<1>5. EntriesRun /\ ReplacedIsAborted /\ ReleasedIsOut
  BY <1>2 DEF Init, EntriesRun, ReplacedIsAborted, ReleasedIsOut
<1> QED
  BY <1>1, <1>3, <1>4, <1>5 DEF TrackerInv, OneAtATime

(* A call may be made only when no other one is being called. *)
LEMMA CallableIsAlone ==
  ASSUME TrackerInv, MaxNesting = 1, NEW c \in Calls, Callable(c)
  PROVE  stack = <<>>
BY DEF TrackerInv, OneAtATime, Callable

(* Nothing but the status of a new call changes. *)
LEMMA NotStarted ==
  ASSUME TrackerInv, NEW c \in Calls, status[c] = "new", NEW s \in {"joined", "refused"},
         status' = [status EXCEPT ![c] = s],
         UNCHANGED <<owner, place, places, count, released, stack, expired, aborted>>
  PROVE  TrackerInv'
<1> USE DEF TrackerInv
<1>1. \A d \in Calls : status'[d] = IF d = c THEN s ELSE status[d]
  BY DEF TypeOK
<1>2. TypeOK' /\ Tracked' = Tracked /\ InMap' = InMap
  BY DEF TypeOK, Statuses, Tracked, InMap
<1>3. EntriesRun'
  BY <1>1, <1>2 DEF EntriesRun, InMap, TypeOK
<1>4. SlotsMatchEntries'
  BY <1>2 DEF SlotsMatchEntries, WalletOf
<1>5. WithinLimits'
  BY <1>2 DEF WithinLimits
<1>6. ReplacedIsAborted'
  BY <1>1 DEF ReplacedIsAborted
<1>7. OneAtATime'
  BY <1>1, <1>2 DEF OneAtATime, RoomFor, WalletOf
<1>8. ReleasedIsOut'
  BY <1>1, <1>2 DEF ReleasedIsOut, TypeOK
<1> QED
  BY <1>2, <1>3, <1>4, <1>5, <1>6, <1>7, <1>8

LEMMA DuplicateBooks ==
  ASSUME TrackerInv, NEW c \in Calls, Duplicate(c)
  PROVE  TrackerInv'
<1>1. CASE MethodOf[c] = "exclusive"
  BY <1>1, NotStarted DEF Duplicate, Callable
<1>2. CASE MethodOf[c] # "exclusive"
  BY <1>2, NotStarted DEF Duplicate, Callable
<1> QED
  BY <1>1, <1>2

LEMMA NotPendingBooks ==
  ASSUME TrackerInv, NEW c \in Calls, NotPending(c)
  PROVE  TrackerInv'
BY NotStarted DEF NotPending, Callable

(* Entries are dropped while nothing is being called. *)
LEMMA DroppedBooks ==
  ASSUME TrackerInv, NEW cs \in SUBSET Tracked, Drop(cs), stack = <<>>,
         UNCHANGED <<place, places, status, stack, expired>>
  PROVE  TrackerInv'
<1>1. Release(cs)
  BY DEF Drop
<1>2. EntriesRun' /\ ReplacedIsAborted' /\ ReleasedIsOut' /\ aborted' \subseteq Calls
  BY Dropping
<1>3. /\ owner' \in [Keys -> Calls \cup {None}] /\ count' \in [Wallets -> Nat]
      /\ released' \subseteq Calls /\ SlotsMatchEntries' /\ WithinLimits'
  BY <1>1, Releasing
<1>4. TypeOK'
  BY <1>2, <1>3 DEF TypeOK, TrackerInv
<1> QED
  BY <1>2, <1>3, <1>4 DEF TrackerInv, OneAtATime

LEMMA QueryBooks ==
  ASSUME TrackerInv, NEW k \in Keys, Query(k) \/ Abort(k)
  PROVE  TrackerInv'
<1>1. owner[k] \in Tracked
  BY TrackerAssumption DEF Query, Abort, Tracked, TrackerInv, TypeOK
<1>2. {owner[k]} \in SUBSET Tracked
  BY <1>1
<1> QED
  BY <1>2, DroppedBooks DEF Query, Abort

LEMMA ClearBooks ==
  ASSUME TrackerInv, Clear
  PROVE  TrackerInv'
BY ClearDrops, DroppedBooks DEF Clear

LEMMA ExpireBooks ==
  ASSUME TrackerInv, NEW k \in Keys, Expire(k)
  PROVE  TrackerInv'
<1> USE DEF TrackerInv
<1>1. UNCHANGED <<owner, place, places, count, released, status, stack, aborted>>
  BY DEF Expire
<1>2. TypeOK' /\ Tracked' = Tracked /\ InMap' = InMap
  BY <1>1 DEF TypeOK, Tracked, InMap, Expire
<1>3. EntriesRun' /\ ReplacedIsAborted'
  BY <1>1, <1>2 DEF EntriesRun, ReplacedIsAborted
<1>4. SlotsMatchEntries' /\ WithinLimits'
  BY <1>1, <1>2 DEF SlotsMatchEntries, WithinLimits, WalletOf
<1>5. OneAtATime' /\ ReleasedIsOut'
  BY <1>1, <1>2 DEF OneAtATime, RoomFor, WalletOf, ReleasedIsOut, Expire
<1> QED
  BY <1>2, <1>3, <1>4, <1>5

LEMMA LimitBooks ==
  ASSUME TrackerInv, MaxNesting = 1, NEW c \in Calls, LimitReached(c)
  PROVE  TrackerInv'
<1>1. status[c] = "new" /\ stack = <<>> /\ Stale \in SUBSET Tracked /\ Drop(Stale)
  BY CallableIsAlone DEF LimitReached, MayStart, Callable, Stale
<1>2. \A d \in Calls : status'[d] = IF d = c THEN "refused" ELSE status[d]
  BY DEF LimitReached, TrackerInv, TypeOK
<1>3. Release(Stale)
  BY <1>1 DEF Drop
<1>4. EntriesRun' /\ ReplacedIsAborted' /\ ReleasedIsOut' /\ aborted' \subseteq Calls
  <2>1. \A d \in Calls : status'[d] = "running" <=> status[d] = "running"
    BY <1>1, <1>2
  <2>2. \A d \in Calls : status[d] = "settled" => status'[d] = "settled"
    BY <1>1, <1>2
  <2> QED
    BY <1>1, <2>1, <2>2, Dropping
<1>5. /\ owner' \in [Keys -> Calls \cup {None}] /\ count' \in [Wallets -> Nat]
      /\ released' \subseteq Calls /\ SlotsMatchEntries' /\ WithinLimits'
  BY <1>1, <1>3, Releasing
<1>6. TypeOK'
  BY <1>4, <1>5 DEF TypeOK, TrackerInv, LimitReached, Statuses
<1> QED
  BY <1>1, <1>4, <1>5, <1>6 DEF TrackerInv, OneAtATime, LimitReached

LEMMA StartBooks ==
  ASSUME TrackerInv, MaxNesting = 1, NEW c \in Calls, Start(c)
  PROVE  TrackerInv'
<1> DEFINE cs == Stale \cup Oldest
<1>1. status[c] = "new" /\ stack = <<>> /\ cs \in SUBSET Tracked /\ Drop(cs)
  BY CallableIsAlone, OldestTracked DEF Start, MayStart, Callable, TrackerInv
<1>2. \A d \in Calls : status'[d] = IF d = c THEN "calling" ELSE status[d]
  BY DEF Start, TrackerInv, TypeOK
<1>3. Release(cs)
  BY <1>1 DEF Drop
<1>4. EntriesRun' /\ ReplacedIsAborted' /\ ReleasedIsOut' /\ aborted' \subseteq Calls
  <2>1. \A d \in Calls : status'[d] = "running" <=> status[d] = "running"
    BY <1>1, <1>2
  <2>2. \A d \in Calls : status[d] = "settled" => status'[d] = "settled"
    BY <1>1, <1>2
  <2> QED
    BY <1>1, <2>1, <2>2, Dropping
<1>5. /\ owner' \in [Keys -> Calls \cup {None}] /\ count' \in [Wallets -> Nat]
      /\ \A k \in Keys : owner'[k] = IF owner[k] \in cs THEN None ELSE owner[k]
      /\ released' \subseteq Calls /\ SlotsMatchEntries' /\ WithinLimits'
  BY <1>1, <1>3, Releasing
<1>6. stack' = <<c>>
  BY <1>1 DEF Start
<1>7. TypeOK'
  BY <1>4, <1>5, <1>6 DEF TypeOK, TrackerInv, Start, Statuses
<1>8. RoomFor(c)'
  <2>1. status'[c] = "calling"
    BY <1>2
  <2>2. owner'[KeyOf[c]] = None
    <3>1. KeyOf[c] \in Keys
      BY TrackerAssumption
    <3>2. owner[KeyOf[c]] = None \/ owner[KeyOf[c]] \in Stale
      BY <3>1 DEF Start, MayStart, Occupied, Stale, Tracked, TrackerInv, TypeOK
    <3> QED
      BY <3>1, <3>2, <1>5
  <2>3. Cardinality(InMap') < MaxInFlight
    BY <1>1, <1>3, RoomInMap
  <2>4. WalletOf(c) # NoWallet => count'[WalletOf(c)] < MaxPerWallet
    BY <1>1, <1>3, RoomInWallet DEF Start
  <2> QED
    BY <2>1, <2>2, <2>3, <2>4 DEF RoomFor, WalletOf
<1>9. OneAtATime'
  BY <1>6, <1>8 DEF OneAtATime
<1> QED
  BY <1>4, <1>5, <1>7, <1>9 DEF TrackerInv

(* The call that is called is the only one, and the stack is empty then. *)
LEMMA Returning ==
  ASSUME TrackerInv, NEW c \in Calls, Top(c), Pop
  PROVE  RoomFor(c) /\ stack' = <<>>
<1>1. PICK d \in Calls : stack = <<d>> /\ RoomFor(d)
  BY DEF TrackerInv, OneAtATime, Top
<1>2. c = d /\ stack' = SubSeq(<<d>>, 1, 0)
  BY <1>1 DEF Top, Pop
<1> QED
  BY <1>1, <1>2

LEMMA ThrowsBooks ==
  ASSUME TrackerInv, NEW c \in Calls, Throws(c)
  PROVE  TrackerInv'
<1> USE DEF TrackerInv
<1>1. RoomFor(c) /\ stack' = <<>>
  BY Returning DEF Throws
<1>2. \A d \in Calls : status'[d] = IF d = c THEN "settled" ELSE status[d]
  BY DEF Throws, TypeOK
<1>3. UNCHANGED <<owner, place, places, count, released, expired, aborted>>
  BY DEF Throws
<1>4. TypeOK' /\ Tracked' = Tracked /\ InMap' = InMap
  BY <1>1, <1>3 DEF TypeOK, Statuses, Tracked, InMap, Throws
<1>5. EntriesRun'
  BY <1>1, <1>2, <1>3, <1>4 DEF EntriesRun, InMap, TypeOK, RoomFor
<1>6. SlotsMatchEntries' /\ WithinLimits'
  BY <1>3, <1>4 DEF SlotsMatchEntries, WithinLimits, WalletOf
<1>7. ReplacedIsAborted' /\ ReleasedIsOut'
  BY <1>2, <1>3, <1>4 DEF ReplacedIsAborted, ReleasedIsOut, TypeOK
<1> QED
  BY <1>1, <1>4, <1>5, <1>6, <1>7 DEF OneAtATime

LEMMA AdmitBooks ==
  ASSUME TrackerInv, NEW c \in Calls, Admit(c)
  PROVE  TrackerInv'
<1> USE DEF TrackerInv
<1> DEFINE k == KeyOf[c]
<1>1. RoomFor(c) /\ stack' = <<>>
  BY Returning DEF Admit
<1>2. \A d \in Calls : status'[d] = IF d = c THEN "running" ELSE status[d]
  BY DEF Admit, TypeOK
<1>3. k \in Keys /\ owner[k] = None
  BY <1>1, TrackerAssumption DEF RoomFor
<1>4. \A l \in Keys : owner'[l] = IF l = k THEN c ELSE owner[l]
  BY <1>3 DEF Admit, TypeOK
<1>5. c \notin Tracked /\ c \notin released /\ c # None
  BY <1>1, TrackerAssumption DEF RoomFor, Tracked, EntriesRun, InMap, ReleasedIsOut
<1>6. Tracked' = Tracked \cup {c} /\ InMap' = InMap \cup {k} /\ k \notin InMap
  <2>1. Tracked' = Tracked \cup {c}
    <3>1. ASSUME NEW d \in Calls PROVE d \in Tracked' <=> d \in Tracked \/ d = c
      BY <1>3, <1>4, TrackerAssumption DEF Tracked
    <3> QED
      BY <3>1 DEF Tracked
  <2>2. InMap' = InMap \cup {k} /\ k \notin InMap
    BY <1>3, <1>4, <1>5 DEF InMap
  <2> QED
    BY <2>1, <2>2
<1>7. UNCHANGED <<released, expired, aborted>>
  BY DEF Admit
<1>8. TypeOK'
  <2>1. place' \in [Keys -> Nat] /\ places' \in Nat
    <3>1. place' = [place EXCEPT ![k] = places + 1] /\ places' = places + 1
      BY <1>3 DEF Admit
    <3>2. place \in [Keys -> Nat] /\ places \in Nat
      BY DEF TypeOK
    <3>3. places + 1 \in Nat
      BY <3>2
    <3> HIDE DEF TrackerInv, k
    <3>4. [place EXCEPT ![k] = places + 1] \in [Keys -> Nat]
      BY <3>2, <3>3, Zenon
    <3> QED
      BY <3>1, <3>2, <3>3, <3>4
  <2>2. owner' \in [Keys -> Calls \cup {None}] /\ status' \in [Calls -> Statuses]
    BY DEF Admit, TypeOK, Statuses
  <2>3. count' \in [Wallets -> Nat]
    BY DEF Admit, TypeOK
  <2> QED
    BY <2>1, <2>2, <2>3, <1>1, <1>7 DEF TypeOK
<1>9. EntriesRun'
  BY <1>2, <1>3, <1>4, <1>6 DEF EntriesRun, InMap, TypeOK
<1>10. ASSUME NEW w \in Wallets
       PROVE  /\ count'[w] = Cardinality({d \in Tracked' : WalletOf(d) = w})
              /\ count'[w] <= MaxPerWallet
  <2> DEFINE before == {d \in Tracked : WalletOf(d) = w}
             after == {d \in Tracked' : WalletOf(d) = w}
  <2>1. IsFiniteSet(before) /\ count[w] = Cardinality(before)
    BY FiniteParts, FS_Subset DEF SlotsMatchEntries
  <2>2. count[w] \in Nat /\ count[w] <= MaxPerWallet /\ MaxPerWallet \in Nat
    BY TrackerAssumption DEF WithinLimits, TypeOK
  <2>3. count'[w] = IF w = WalletOf(c) THEN count[w] + 1 ELSE count[w]
    BY DEF Admit
  <2>4. CASE w = WalletOf(c)
    <3>1. after = before \cup {c} /\ c \notin before
      BY <2>4, <1>5, <1>6
    <3>2. Cardinality(after) = Cardinality(before) + 1
      BY <3>1, <2>1, FS_AddElement
    <3>3. count[w] < MaxPerWallet
      BY <2>4, <1>1, TrackerAssumption DEF RoomFor
    <3> QED
      BY <3>2, <3>3, <2>1, <2>2, <2>3, <2>4
  <2>5. CASE w # WalletOf(c)
    <3>1. after = before
      BY <2>5, <1>6
    <3> QED
      BY <3>1, <2>1, <2>2, <2>3, <2>5
  <2> QED
    BY <2>4, <2>5
<1>11. SlotsMatchEntries'
  BY <1>10 DEF SlotsMatchEntries, WalletOf
<1>12. WithinLimits'
  <2>1. Cardinality(InMap') = Cardinality(InMap) + 1 /\ Cardinality(InMap) \in Nat
    BY <1>6, FiniteParts, FS_AddElement
  <2>2. Cardinality(InMap') <= MaxInFlight
    BY <2>1, <1>1, TrackerAssumption DEF RoomFor
  <2> QED
    BY <2>2, <1>10 DEF WithinLimits
<1>13. ReplacedIsAborted'
  <2>1. ASSUME NEW d \in Calls, status'[d] = "running", owner'[KeyOf[d]] # d
        PROVE  d \in aborted'
    <3>1. KeyOf[d] \in Keys /\ d # c
      BY <2>1, <1>3, <1>4, TrackerAssumption
    <3>2. owner[KeyOf[d]] # d
      BY <3>1, <2>1, <1>3, <1>4, TrackerAssumption
    <3> QED
      BY <3>1, <3>2, <2>1, <1>2, <1>7 DEF ReplacedIsAborted
  <2> QED
    BY <2>1 DEF ReplacedIsAborted
<1>14. ReleasedIsOut'
  BY <1>2, <1>5, <1>6, <1>7 DEF ReleasedIsOut, TypeOK
<1> QED
  BY <1>1, <1>8, <1>9, <1>11, <1>12, <1>13, <1>14 DEF OneAtATime

LEMMA SettleBooks ==
  ASSUME TrackerInv, NEW c \in Calls, Settle(c)
  PROVE  TrackerInv'
<1> USE DEF TrackerInv
<1> DEFINE cs == {c} \cap Tracked
<1>1. cs \in SUBSET Tracked /\ Release(cs) /\ stack = <<>> /\ status[c] = "running"
  BY DEF Settle
<1>2. \A d \in Calls : status'[d] = IF d = c THEN "settled" ELSE status[d]
  BY DEF Settle, TypeOK
<1>3. /\ owner' \in [Keys -> Calls \cup {None}] /\ count' \in [Wallets -> Nat]
      /\ released' \subseteq Calls /\ SlotsMatchEntries' /\ WithinLimits'
      /\ \A k \in Keys : owner'[k] = IF owner[k] \in cs THEN None ELSE owner[k]
      /\ Tracked' = Tracked \ cs
  BY <1>1, Releasing
<1>4. released' = released \cup cs /\ UNCHANGED <<place, places, stack, expired, aborted>>
  BY DEF Settle, Release
<1>5. TypeOK'
  BY <1>3, <1>4 DEF TypeOK, Settle, Statuses
<1>6. EntriesRun'
  <2>1. ASSUME NEW k \in Keys, owner'[k] # None
        PROVE  status'[owner'[k]] = "running" /\ KeyOf[owner'[k]] = k
    <3>1. owner'[k] = owner[k] /\ owner[k] \in Tracked /\ owner[k] \notin cs
      BY <2>1, <1>3 DEF Tracked, TypeOK
    <3>2. owner[k] # c /\ owner[k] \in Calls
      BY <3>1 DEF Tracked
    <3> QED
      BY <3>1, <3>2, <2>1, <1>2 DEF EntriesRun, InMap
  <2> QED
    BY <2>1 DEF EntriesRun, InMap
<1>7. ReplacedIsAborted'
  <2>1. ASSUME NEW d \in Calls, status'[d] = "running", owner'[KeyOf[d]] # d
        PROVE  d \in aborted'
    <3>1. d # c /\ status[d] = "running" /\ KeyOf[d] \in Keys
      BY <2>1, <1>2, TrackerAssumption
    <3>2. owner[KeyOf[d]] # d
      BY <3>1, <2>1, <1>3
    <3> QED
      BY <3>1, <3>2, <1>4 DEF ReplacedIsAborted
  <2> QED
    BY <2>1 DEF ReplacedIsAborted
<1>8. ReleasedIsOut'
  BY <1>1, <1>2, <1>3, <1>4 DEF ReleasedIsOut, TypeOK
<1> QED
  BY <1>1, <1>3, <1>4, <1>5, <1>6, <1>7, <1>8 DEF OneAtATime

LEMMA TrackerStep ==
  ASSUME TrackerInv, MaxNesting = 1, [Next]_vars
  PROVE  TrackerInv'
<1>1. ASSUME NEW c \in Calls, Track(c) PROVE TrackerInv'
  BY <1>1, DuplicateBooks, NotPendingBooks, LimitBooks, StartBooks DEF Track
<1>2. ASSUME NEW c \in Calls, Throws(c) \/ Admit(c) \/ Settle(c) PROVE TrackerInv'
  BY <1>2, ThrowsBooks, AdmitBooks, SettleBooks
<1>3. ASSUME NEW k \in Keys, Query(k) \/ Abort(k) \/ Expire(k) PROVE TrackerInv'
  BY <1>3, QueryBooks, ExpireBooks
<1>4. CASE UNCHANGED vars
  <2>1. Tracked' = Tracked /\ InMap' = InMap
    BY <1>4 DEF vars, Tracked, InMap
  <2> QED
    BY <1>4, <2>1 DEF vars, TrackerInv, TypeOK, EntriesRun, SlotsMatchEntries, WithinLimits,
       ReplacedIsAborted, OneAtATime, RoomFor, ReleasedIsOut, WalletOf
<1> QED
  BY <1>1, <1>2, <1>3, <1>4, ClearBooks DEF Next

LEMMA TrackerInvariant ==
  ASSUME MaxNesting = 1
  PROVE  Spec => []TrackerInv
<1>1. TrackerInv /\ [Next]_vars => TrackerInv'
  BY TrackerStep
<1> QED
  BY <1>1, InitBooks, PTL DEF Spec

(* The slots of every wallet are its entries, the map and the wallets stay *)
(* within their limits, and every entry is of an operation that runs: for  *)
(* any number of calls of track(), trackExclusive(), trackIfPending() and  *)
(* trackByKey(), settling, expiry, eviction, abort() and clear().          *)
THEOREM BooksAreKept ==
  ASSUME MaxNesting = 1
  PROVE  Spec => []BooksAgree
<1>1. TrackerInv => BooksAgree
  BY DEF TrackerInv, BooksAgree
<1> QED
  BY <1>1, TrackerInvariant, PTL

(* An operation that runs and has lost its key has been told to stop.      *)
THEOREM OwnersAreTold ==
  ASSUME MaxNesting = 1
  PROVE  Spec => []ReplacedIsAborted
<1>1. TrackerInv => ReplacedIsAborted
  BY DEF TrackerInv
<1> QED
  BY <1>1, TrackerInvariant, PTL

-----------------------------------------------------------------------------
(* Operations that call the tracker.  What follows holds to every depth.   *)

Depths == 1..Len(stack)

(* The calls of a wallet that are between their checks and their entry. *)
CallingFor(w) == {i \in Depths : WalletOf(stack[i]) = w}

(* No entry goes without its slot: the wallet has at least as many slots   *)
(* taken as entries in the map.                                            *)
SlotsCover ==
  \A w \in Wallets : Cardinality({c \in Tracked : WalletOf(c) = w}) <= count[w]

(* A limit is overrun by the operations that called the tracker while they *)
(* were called, and by no more.                                            *)
LimitsStretch ==
  /\ Cardinality(InMap) <= MaxInFlight + MaxNesting - 1
  /\ \A w \in Wallets : count[w] <= MaxPerWallet + MaxNesting - 1

(* The calls on the stack are different ones, and have no entry yet. *)
StackCalls ==
  /\ Len(stack) <= MaxNesting
  /\ \A i \in Depths : status[stack[i]] = "calling"
  /\ \A h, i \in Depths : stack[h] = stack[i] => h = i

(* Who is called has been promised a place before. *)
PlacesPromised ==
  /\ Cardinality(InMap) + Len(stack) <= MaxInFlight + MaxNesting - 1
  /\ \A w \in Wallets :
       count[w] + Cardinality(CallingFor(w)) <= MaxPerWallet + MaxNesting - 1

NestedInv ==
  /\ TypeOK
  /\ EntriesRun
  /\ SlotsCover
  /\ StackCalls
  /\ PlacesPromised
  /\ ReleasedIsOut

LEMMA StackParts ==
  ASSUME TypeOK, NEW w \in Wallets
  PROVE  /\ Len(stack) \in Nat /\ Depths \subseteq Nat
         /\ \A i \in Depths : stack[i] \in Calls
         /\ IsFiniteSet(CallingFor(w)) /\ Cardinality(CallingFor(w)) \in Nat
         /\ Cardinality(CallingFor(w)) <= Len(stack)
<1>1. stack \in Seq(Calls) /\ Len(stack) \in Nat
  BY DEF TypeOK
<1>2. \A i \in Depths : stack[i] \in Calls
  BY <1>1 DEF Depths
<1>3. IsFiniteSet(Depths) /\ Cardinality(Depths) = Len(stack)
  <2>1. IsFiniteSet(1..Len(stack))
    BY <1>1, FS_Interval
  <2>2. Cardinality(1..Len(stack)) = Len(stack)
    BY <1>1, FS_Interval
  <2> QED
    BY <2>1, <2>2 DEF Depths
<1> QED
  BY <1>1, <1>2, <1>3, FS_Subset, FS_CardinalityType DEF CallingFor, Depths

(* What it means for entries to leave, slots that are not theirs or not. *)
LEMMA Leaving ==
  ASSUME NestedInv, NEW cs \in SUBSET Tracked, Release(cs)
  PROVE  /\ owner' \in [Keys -> Calls \cup {None}]
         /\ \A k \in Keys : owner'[k] = IF owner[k] \in cs THEN None ELSE owner[k]
         /\ Tracked' = Tracked \ cs
         /\ InMap' \subseteq InMap
         /\ Cardinality(InMap') \in Nat /\ Cardinality(InMap') <= Cardinality(InMap)
         /\ count' \in [Wallets -> Nat]
         /\ \A w \in Wallets : /\ count'[w] <= count[w]
                               /\ count'[w] = count[w] - Cardinality(Charged(cs, w))
         /\ released' = released \cup cs /\ released' \subseteq Calls
         /\ SlotsCover'
<1> USE DEF NestedInv
<1>1. None \notin cs /\ cs \subseteq Calls /\ IsFiniteSet(cs)
  BY FiniteParts, TrackerAssumption, FS_Subset
<1>2. /\ owner' \in [Keys -> Calls \cup {None}]
      /\ \A k \in Keys : owner'[k] = IF owner[k] \in cs THEN None ELSE owner[k]
  BY DEF Release, TypeOK
<1>3. Tracked' = Tracked \ cs
  <2>1. ASSUME NEW c \in Calls
        PROVE  c \in Tracked' <=> c \in Tracked /\ c \notin cs
    BY <1>1, <1>2, TrackerAssumption DEF Tracked
  <2> QED
    BY <2>1 DEF Tracked
<1>4. InMap' \subseteq InMap
  BY <1>2 DEF InMap
<1>5. Cardinality(InMap') <= Cardinality(InMap) /\ Cardinality(InMap') \in Nat
  BY <1>4, FiniteParts, FS_Subset, FS_CardinalityType
<1>6. ASSUME NEW w \in Wallets
      PROVE  /\ Cardinality({c \in Tracked' : WalletOf(c) = w}) <= count'[w]
             /\ count'[w] \in Nat /\ count'[w] <= count[w]
             /\ count'[w] = count[w] - Cardinality(Charged(cs, w))
  <2> DEFINE before == {c \in Tracked : WalletOf(c) = w}
             after == {c \in Tracked' : WalletOf(c) = w}
  <2>1. /\ IsFiniteSet(before) /\ Cardinality(before) \in Nat
        /\ Cardinality(before) <= count[w] /\ count[w] \in Nat
    BY FiniteParts, FS_Subset, FS_CardinalityType DEF SlotsCover, TypeOK
  <2>2. Charged(cs, w) = before \cap cs
    BY <1>1 DEF Charged, ReleasedIsOut
  <2>3. after = before \ cs
    BY <1>3
  <2>4. /\ Cardinality(after) = Cardinality(before) - Cardinality(before \cap cs)
        /\ Cardinality(after) \in Nat
        /\ Cardinality(before \cap cs) \in Nat
    <3>1. IsFiniteSet(after) /\ IsFiniteSet(before \cap cs)
      BY <2>1, <2>3, FS_Subset
    <3> QED
      BY <3>1, <2>1, <2>3, FS_Difference, FS_CardinalityType
  <2>5. count'[w] = count[w] - Cardinality(Charged(cs, w))
    BY DEF Release
  <2> QED
    BY <2>1, <2>2, <2>4, <2>5
<1>7. count' \in [Wallets -> Nat]
  BY <1>6 DEF Release
<1>8. SlotsCover'
  BY <1>6 DEF SlotsCover, WalletOf
<1>9. released' = released \cup cs /\ released' \subseteq Calls
  BY <1>1 DEF Release, TypeOK
<1> QED
  BY <1>2, <1>3, <1>4, <1>5, <1>6, <1>7, <1>8, <1>9

(* Entries that leave, and entries that stay, have operations that run on. *)
LEMMA EntriesLeave ==
  ASSUME NestedInv, NEW cs \in SUBSET Tracked, Release(cs),
         \A d \in Tracked \ cs : status'[d] = "running",
         \A d \in Calls : status[d] \in {"running", "settled"}
                            => status'[d] \in {"running", "settled"}
  PROVE  EntriesRun' /\ ReleasedIsOut'
<1> USE DEF NestedInv
<1>1. /\ \A k \in Keys : owner'[k] = IF owner[k] \in cs THEN None ELSE owner[k]
      /\ Tracked' = Tracked \ cs /\ released' = released \cup cs
  BY Leaving
<1>2. EntriesRun'
  <2>1. ASSUME NEW k \in Keys, owner'[k] # None
        PROVE  status'[owner'[k]] = "running" /\ KeyOf[owner'[k]] = k
    <3>1. owner'[k] = owner[k] /\ owner[k] \in Tracked \ cs
      BY <2>1, <1>1 DEF Tracked, TypeOK
    <3> QED
      BY <3>1, <2>1 DEF EntriesRun, InMap
  <2> QED
    BY <2>1 DEF EntriesRun, InMap
<1>3. ASSUME NEW c \in released'
      PROVE  status'[c] \in {"running", "settled"} /\ c \notin Tracked'
  <2>1. CASE c \in released
    BY <2>1, <1>1 DEF ReleasedIsOut, TypeOK
  <2>2. CASE c \in cs
    <3>1. c \in Calls /\ status[c] = "running"
      BY <2>2, TrackerAssumption DEF Tracked, EntriesRun, InMap
    <3> QED
      BY <3>1, <2>2, <1>1
  <2> QED
    BY <2>1, <2>2, <1>1
<1> QED
  BY <1>2, <1>3 DEF ReleasedIsOut

(* Entries leave, and no operation is called or returns. *)
LEMMA Fewer ==
  ASSUME NestedInv, NEW cs \in SUBSET Tracked, Release(cs),
         status' \in [Calls -> Statuses],
         \A d \in Tracked \ cs : status'[d] = "running",
         \A d \in Calls : status[d] \in {"running", "settled"}
                            => status'[d] \in {"running", "settled"},
         \A d \in Calls : status[d] = "calling" => status'[d] = "calling",
         expired' \subseteq Calls, aborted' \subseteq Calls,
         UNCHANGED <<place, places, stack>>
  PROVE  NestedInv'
<1> USE DEF NestedInv
<1>1. EntriesRun' /\ ReleasedIsOut'
  BY EntriesLeave
<1>2. /\ owner' \in [Keys -> Calls \cup {None}]
      /\ Cardinality(InMap') \in Nat /\ Cardinality(InMap') <= Cardinality(InMap)
      /\ count' \in [Wallets -> Nat]
      /\ \A w \in Wallets : count'[w] <= count[w]
      /\ released' \subseteq Calls
      /\ SlotsCover'
  BY Leaving
<1>3. TypeOK'
  BY <1>2 DEF TypeOK
<1>4. StackCalls'
  <2>1. \A i \in Depths : stack[i] \in Calls
    BY DEF TypeOK, Depths
  <2> QED
    BY <2>1 DEF StackCalls, Depths
<1>5. PlacesPromised'
  <2>1. Cardinality(InMap') + Len(stack') <= MaxInFlight + MaxNesting - 1
    BY <1>2, FiniteParts, TrackerAssumption DEF PlacesPromised, TypeOK
  <2>2. ASSUME NEW w \in Wallets
        PROVE  count'[w] + Cardinality(CallingFor(w)') <= MaxPerWallet + MaxNesting - 1
    <3>1. CallingFor(w)' = CallingFor(w)
      BY DEF CallingFor, Depths, WalletOf
    <3>2. Cardinality(CallingFor(w)) \in Nat /\ count[w] \in Nat /\ count'[w] \in Nat
      BY <1>2, StackParts DEF TypeOK
    <3> QED
      BY <3>1, <3>2, <1>2, TrackerAssumption DEF PlacesPromised
  <2> QED
    BY <2>1, <2>2 DEF PlacesPromised
<1> QED
  BY <1>1, <1>2, <1>3, <1>4, <1>5

(* Nobody leaves. *)
LEMMA NobodyLeaves ==
  ASSUME TypeOK, UNCHANGED <<owner, count, released>>
  PROVE  Release({})
<1>1. \A w \in Wallets : Charged({}, w) = {}
  BY DEF Charged
<1>2. \A w \in Wallets : count[w] - Cardinality(Charged({}, w)) = count[w]
  <2>1. Cardinality({}) = 0
    BY FS_EmptySet
  <2>2. \A w \in Wallets : count[w] - 0 = count[w]
    BY DEF TypeOK
  <2> QED
    BY <1>1, <2>1, <2>2
<1>3. count' = [w \in Wallets |-> count[w] - Cardinality(Charged({}, w))]
  BY <1>2 DEF TypeOK
<1>4. owner' = [k \in Keys |-> IF owner[k] \in {} THEN None ELSE owner[k]]
  BY DEF TypeOK
<1> QED
  BY <1>3, <1>4 DEF Release

(* A call joins, is refused, settles, is aborted or expires. *)
LEMMA NestedQuiet ==
  ASSUME NestedInv,
         \/ \E c \in Calls : Duplicate(c) \/ NotPending(c) \/ LimitReached(c) \/ Settle(c)
         \/ \E k \in Keys : Query(k) \/ Abort(k) \/ Expire(k)
  PROVE  NestedInv'
<1> USE DEF NestedInv
<1>1. \A d \in Tracked : d \in Calls /\ status[d] = "running"
  BY TrackerAssumption DEF Tracked, EntriesRun, InMap
<1>2. ASSUME NEW c \in Calls, status[c] = "new", NEW s \in {"joined", "refused"},
             status' = [status EXCEPT ![c] = s], NEW cs \in SUBSET Tracked, Release(cs),
             aborted' \subseteq Calls, UNCHANGED <<place, places, stack, expired>>
      PROVE  NestedInv'
  <2>1. \A d \in Calls : status'[d] = IF d = c THEN s ELSE status[d]
    BY <1>2 DEF TypeOK
  <2>2. status' \in [Calls -> Statuses]
    BY <1>2 DEF TypeOK, Statuses
  <2>3. \A d \in Tracked \ cs : status'[d] = "running"
    BY <1>1, <1>2, <2>1
  <2>4. \A d \in Calls : /\ status[d] \in {"running", "settled"}
                               => status'[d] \in {"running", "settled"}
                         /\ status[d] = "calling" => status'[d] = "calling"
    BY <1>2, <2>1
  <2>5. expired' \subseteq Calls
    BY <1>2 DEF TypeOK
  <2> QED
    BY <1>2, <2>2, <2>3, <2>4, <2>5, Fewer
<1>3. ASSUME NEW c \in Calls, Duplicate(c) PROVE NestedInv'
  <2>1. /\ status[c] = "new" /\ Release({}) /\ aborted' \subseteq Calls
        /\ UNCHANGED <<place, places, stack, expired>>
    BY <1>3, NobodyLeaves DEF Duplicate, Callable, TypeOK
  <2>2. \E s \in {"joined", "refused"} : status' = [status EXCEPT ![c] = s]
    BY <1>3 DEF Duplicate
  <2> QED
    BY <2>1, <2>2, <1>2
<1>4. ASSUME NEW c \in Calls, NotPending(c) PROVE NestedInv'
  <2>1. /\ status[c] = "new" /\ Release({}) /\ aborted' \subseteq Calls
        /\ status' = [status EXCEPT ![c] = "refused"]
        /\ UNCHANGED <<place, places, stack, expired>>
    BY <1>4, NobodyLeaves DEF NotPending, Callable, TypeOK
  <2> QED
    BY <2>1, <1>2
<1>5. ASSUME NEW c \in Calls, LimitReached(c) PROVE NestedInv'
  <2>1. /\ status[c] = "new" /\ Stale \in SUBSET Tracked /\ Release(Stale)
        /\ aborted' \subseteq Calls
        /\ status' = [status EXCEPT ![c] = "refused"]
        /\ UNCHANGED <<place, places, stack, expired>>
    BY <1>1, <1>5 DEF LimitReached, MayStart, Callable, Drop, Stale, TypeOK
  <2> QED
    BY <2>1, <1>2
<1>6. ASSUME NEW c \in Calls, Settle(c) PROVE NestedInv'
  <2> DEFINE cs == {c} \cap Tracked
  <2>1. /\ status[c] = "running" /\ cs \in SUBSET Tracked /\ Release(cs)
        /\ UNCHANGED <<place, places, stack, expired, aborted>>
    BY <1>6 DEF Settle
  <2>2. /\ status' \in [Calls -> Statuses]
        /\ \A d \in Calls : status'[d] = IF d = c THEN "settled" ELSE status[d]
    BY <1>6 DEF Settle, TypeOK, Statuses
  <2>3. \A d \in Tracked \ cs : status'[d] = "running"
    BY <1>1, <2>2
  <2>4. \A d \in Calls : /\ status[d] \in {"running", "settled"}
                               => status'[d] \in {"running", "settled"}
                         /\ status[d] = "calling" => status'[d] = "calling"
    BY <2>1, <2>2
  <2>5. expired' \subseteq Calls /\ aborted' \subseteq Calls
    BY <2>1 DEF TypeOK
  <2> HIDE DEF cs
  <2> QED
    BY <2>1, <2>2, <2>3, <2>4, <2>5, Fewer
<1>7. ASSUME NEW cs \in SUBSET Tracked, Release(cs), expired' \subseteq Calls,
             aborted' \subseteq Calls, UNCHANGED <<place, places, status, stack>>
      PROVE  NestedInv'
  <2>1. status' \in [Calls -> Statuses]
    BY <1>7 DEF TypeOK
  <2> QED
    BY <1>1, <1>7, <2>1, Fewer
<1>8. ASSUME NEW k \in Keys, Query(k) \/ Abort(k) PROVE NestedInv'
  <2>1. owner[k] \in Tracked
    BY <1>8, TrackerAssumption DEF Query, Abort, Tracked, TypeOK
  <2>2. /\ {owner[k]} \in SUBSET Tracked /\ Release({owner[k]})
        /\ expired' \subseteq Calls /\ aborted' \subseteq Calls
        /\ UNCHANGED <<place, places, status, stack>>
    BY <1>1, <1>8, <2>1 DEF Query, Abort, Drop, TypeOK
  <2> QED
    BY <2>2, <1>7
<1>9. ASSUME NEW k \in Keys, Expire(k) PROVE NestedInv'
  <2>1. /\ Release({}) /\ expired' \subseteq Calls /\ aborted' \subseteq Calls
        /\ UNCHANGED <<place, places, status, stack>>
    BY <1>9, NobodyLeaves DEF Expire, TypeOK
  <2> QED
    BY <2>1, <1>7
<1> QED
  BY <1>3, <1>4, <1>5, <1>6, <1>8, <1>9

LEMMA NestedClear ==
  ASSUME NestedInv, Clear
  PROVE  NestedInv'
<1> USE DEF NestedInv
<1>1. Tracked' = {} /\ InMap' = {}
  BY TrackerAssumption DEF Clear, Tracked, InMap
<1>2. Tracked \subseteq Calls /\ \A d \in Tracked : status[d] = "running"
  BY TrackerAssumption DEF Tracked, EntriesRun, InMap
<1>3. TypeOK'
  BY <1>2 DEF TypeOK, Clear
<1>4. EntriesRun' /\ ReleasedIsOut'
  BY <1>1, <1>2 DEF EntriesRun, ReleasedIsOut, Clear
<1>5. SlotsCover'
  <2>1. \A w \in Wallets : {c \in Tracked' : WalletOf(c) = w} = {}
    BY <1>1
  <2>2. Cardinality({}) = 0
    BY FS_EmptySet
  <2>3. \A w \in Wallets : count'[w] = 0
    BY DEF Clear
  <2> QED
    BY <2>1, <2>2, <2>3 DEF SlotsCover, WalletOf
<1>6. StackCalls'
  BY DEF StackCalls, Depths, Clear
<1>7. PlacesPromised'
  <2>1. Len(stack') = 0 /\ Depths' = {}
    BY DEF Clear, Depths
  <2>2. \A w \in Wallets : CallingFor(w)' = {}
    BY <2>1 DEF CallingFor
  <2>3. Cardinality({}) = 0
    BY FS_EmptySet
  <2>4. MaxInFlight \in Nat \ {0} /\ MaxPerWallet \in Nat \ {0} /\ MaxNesting \in Nat \ {0}
    BY TrackerAssumption
  <2>5. Cardinality(InMap') + Len(stack') <= MaxInFlight + MaxNesting - 1
    BY <1>1, <2>1, <2>3, <2>4
  <2>6. ASSUME NEW w \in Wallets
        PROVE  count'[w] + Cardinality(CallingFor(w)') <= MaxPerWallet + MaxNesting - 1
    <3>1. count'[w] = 0
      BY DEF Clear
    <3> QED
      BY <3>1, <2>2, <2>3, <2>4
  <2> QED
    BY <2>5, <2>6 DEF PlacesPromised
<1> QED
  BY <1>3, <1>4, <1>5, <1>6, <1>7

(* An operation is called, alone or by one that is being called: an entry  *)
(* has left if the map was full, and the stack is one deeper.              *)
LEMMA NestedStart ==
  ASSUME NestedInv, NEW c \in Calls, Start(c)
  PROVE  NestedInv'
<1> USE DEF NestedInv
<1> DEFINE cs == Stale \cup Oldest
           n == Len(stack)
<1>1. /\ status[c] = "new" /\ n < MaxNesting /\ ~WalletFull(c)
      /\ cs \in SUBSET Tracked /\ Release(cs)
      /\ aborted' = aborted \cup cs /\ UNCHANGED <<place, places, expired>>
  BY OldestTracked DEF Start, MayStart, Callable, Drop
<1>2. \A d \in Calls : status'[d] = IF d = c THEN "calling" ELSE status[d]
  BY DEF Start, TypeOK
<1>3. /\ stack' = Append(stack, c) /\ stack \in Seq(Calls) /\ n \in Nat
  BY DEF Start, TypeOK
<1>4. /\ stack' \in Seq(Calls) /\ Len(stack') = n + 1
      /\ \A i \in 1..n : stack'[i] = stack[i]
      /\ stack'[n + 1] = c
  BY <1>3
<1>5. /\ owner' \in [Keys -> Calls \cup {None}]
      /\ \A k \in Keys : owner'[k] = IF owner[k] \in cs THEN None ELSE owner[k]
      /\ Cardinality(InMap') \in Nat /\ Cardinality(InMap') <= Cardinality(InMap)
      /\ count' \in [Wallets -> Nat]
      /\ \A w \in Wallets : /\ count'[w] <= count[w]
                            /\ count'[w] = count[w] - Cardinality(Charged(cs, w))
      /\ released' \subseteq Calls
      /\ SlotsCover'
  BY <1>1, Leaving
<1>6. EntriesRun' /\ ReleasedIsOut'
  <2>1. \A d \in Tracked : d \in Calls /\ status[d] = "running"
    BY TrackerAssumption DEF Tracked, EntriesRun, InMap
  <2>2. \A d \in Tracked \ cs : status'[d] = "running"
    BY <1>1, <1>2, <2>1
  <2>3. \A d \in Calls : status[d] \in {"running", "settled"}
                           => status'[d] \in {"running", "settled"}
    BY <1>1, <1>2
  <2> QED
    BY <1>1, <2>2, <2>3, EntriesLeave
<1>7. TypeOK'
  <2>1. aborted' \subseteq Calls
    BY <1>1, FiniteParts DEF TypeOK
  <2> QED
    BY <2>1, <1>1, <1>4, <1>5 DEF TypeOK, Start, Statuses
<1>8. StackCalls'
  <2>1. Depths = 1..n /\ Depths' = 1..(n + 1) /\ \A i \in 1..n : stack[i] \in Calls
    BY <1>3, <1>4 DEF Depths
  <2>2. \A i \in 1..n : status[stack[i]] = "calling" /\ stack[i] # c
    BY <1>1, <2>1 DEF StackCalls
  <2>3. \A i \in 1..(n + 1) : i \in 1..n \/ i = n + 1
    BY <1>3
  <2>4. \A i \in 1..(n + 1) : status'[stack'[i]] = "calling"
    BY <1>2, <1>4, <2>1, <2>2, <2>3
  <2>5. \A h, i \in 1..(n + 1) : stack'[h] = stack'[i] => h = i
    BY <1>4, <2>1, <2>2, <2>3 DEF StackCalls
  <2>6. Len(stack') <= MaxNesting
    BY <1>1, <1>3, <1>4, TrackerAssumption
  <2> QED
    BY <2>1, <2>4, <2>5, <2>6 DEF StackCalls
<1>9. Cardinality(InMap') + Len(stack') <= MaxInFlight + MaxNesting - 1
  <2>1. \/ Cardinality(InMap') < MaxInFlight
        \/ Cardinality(InMap') <= Cardinality(InMap) - 1
    BY <1>1, <1>5, MapMakesRoom
  <2>2. Cardinality(InMap) \in Nat /\ MaxInFlight \in Nat /\ MaxNesting \in Nat
    BY FiniteParts, TrackerAssumption
  <2>3. Cardinality(InMap) + n <= MaxInFlight + MaxNesting - 1
    BY DEF PlacesPromised
  <2> HIDE DEF NestedInv, n
  <2> QED
    BY <2>1, <2>2, <2>3, <1>1, <1>3, <1>4, <1>5
<1>10. ASSUME NEW w \in Wallets
       PROVE  count'[w] + Cardinality(CallingFor(w)') <= MaxPerWallet + MaxNesting - 1
  <2>1. /\ IsFiniteSet(CallingFor(w)) /\ Cardinality(CallingFor(w)) \in Nat
        /\ Cardinality(CallingFor(w)) <= n
    BY StackParts
  <2>2. CallingFor(w)' = {i \in 1..(n + 1) : WalletOf(stack'[i]) = w}
    BY <1>4 DEF CallingFor, Depths, WalletOf
  <2>3. CallingFor(w) = {i \in 1..n : WalletOf(stack[i]) = w}
    BY DEF CallingFor, Depths
  <2>4. count[w] \in Nat /\ count'[w] \in Nat /\ MaxPerWallet \in Nat /\ MaxNesting \in Nat
    BY <1>5, TrackerAssumption DEF TypeOK
  <2>5. CASE WalletOf(c) = w
    <3>1. CallingFor(w)' = CallingFor(w) \cup {n + 1} /\ n + 1 \notin CallingFor(w)
      BY <2>2, <2>3, <2>5, <1>3, <1>4
    <3>2. Cardinality(CallingFor(w)') = Cardinality(CallingFor(w)) + 1
      BY <3>1, <2>1, FS_AddElement
    <3>3. count'[w] < MaxPerWallet
      <4>1. IsFiniteSet(cs) /\ Charged(cs, w) \subseteq cs /\ Charged(Stale, w) \subseteq Charged(cs, w)
        BY <1>1, FiniteParts, FS_Subset DEF Charged
      <4>2. /\ Cardinality(Charged(Stale, w)) <= Cardinality(Charged(cs, w))
            /\ Cardinality(Charged(Stale, w)) \in Nat /\ Cardinality(Charged(cs, w)) \in Nat
        BY <4>1, FS_Subset, FS_CardinalityType
      <4>3. count[w] - Cardinality(Charged(Stale, w)) < MaxPerWallet
        BY <4>2, <2>4, <2>5, <1>1, TrackerAssumption DEF WalletFull
      <4>4. count'[w] = count[w] - Cardinality(Charged(cs, w))
        BY <1>5
      <4> HIDE DEF NestedInv, cs
      <4> QED
        BY <4>2, <4>3, <4>4, <2>4
    <3> HIDE DEF NestedInv, n
    <3> QED
      BY <3>2, <3>3, <2>1, <2>4, <1>1, <1>3
  <2>6. CASE WalletOf(c) # w
    <3>1. CallingFor(w)' = CallingFor(w)
      BY <2>2, <2>3, <2>6, <1>3, <1>4
    <3>2. count[w] + Cardinality(CallingFor(w)) <= MaxPerWallet + MaxNesting - 1
      BY DEF PlacesPromised
    <3>3. count'[w] <= count[w]
      BY <1>5
    <3> HIDE DEF NestedInv
    <3> QED
      BY <3>1, <3>2, <3>3, <2>1, <2>4
  <2> QED
    BY <2>5, <2>6
<1>11. PlacesPromised'
  BY <1>9, <1>10 DEF PlacesPromised
<1> QED
  BY <1>5, <1>6, <1>7, <1>8, <1>11

(* The operation on top of the stack returns: the stack is one shorter.    *)
LEMMA Popping ==
  ASSUME NestedInv, NEW c \in Calls, Top(c), Pop
  PROVE  /\ status[c] = "calling" /\ c \notin Tracked /\ c \notin released /\ c # None
         /\ stack' \in Seq(Calls) /\ Len(stack) \in Nat \ {0} /\ Len(stack') = Len(stack) - 1
         /\ \A i \in 1..(Len(stack) - 1) : /\ stack'[i] = stack[i] /\ stack[i] \in Calls
                                           /\ stack[i] # c /\ status[stack[i]] = "calling"
         /\ \A w \in Wallets :
              Cardinality(CallingFor(w)') =
                Cardinality(CallingFor(w)) - IF WalletOf(c) = w THEN 1 ELSE 0
<1> USE DEF NestedInv
<1> DEFINE n == Len(stack)
<1>1. /\ stack \in Seq(Calls) /\ n \in Nat \ {0} /\ c = stack[n]
      /\ Depths = 1..n /\ n \in Depths
  <2>1. stack \in Seq(Calls) /\ stack # <<>> /\ c = stack[n]
    BY DEF TypeOK, Top
  <2>2. n \in Nat /\ n # 0
    BY <2>1, EmptySeq
  <2> QED
    BY <2>1, <2>2 DEF Depths
<1>2. status[c] = "calling"
  BY <1>1 DEF StackCalls
<1>3. c \notin Tracked /\ c \notin released /\ c # None
  BY <1>2, TrackerAssumption DEF Tracked, EntriesRun, InMap, ReleasedIsOut
<1>4. /\ stack' \in Seq(Calls) /\ Len(stack') = n - 1
      /\ \A i \in 1..(n - 1) : stack'[i] = stack[i]
  <2>1. stack' = SubSeq(stack, 1, n - 1)
    BY DEF Pop
  <2> HIDE DEF NestedInv
  <2>2. n - 1 \in Int /\ 1 \in Int /\ \A i \in 1..(n - 1) : i \in 1..n
    BY <1>1
  <2>3. \A i \in 1..(n - 1) : stack[i] \in Calls
    BY <1>1, <2>2
  <2> HIDE DEF NestedInv, n
  <2>4. /\ SubSeq(stack, 1, n - 1) \in Seq(Calls)
        /\ Len(SubSeq(stack, 1, n - 1)) = IF 1 <= n - 1 THEN n - 1 - 1 + 1 ELSE 0
        /\ \A i \in 1..(n - 1 - 1 + 1) : SubSeq(stack, 1, n - 1)[i] = stack[1 + i - 1]
    <3> DEFINE m == n - 1
    <3> SUFFICES /\ SubSeq(stack, 1, m) \in Seq(Calls)
                 /\ Len(SubSeq(stack, 1, m)) = IF 1 <= m THEN m - 1 + 1 ELSE 0
                 /\ \A i \in 1..(m - 1 + 1) : SubSeq(stack, 1, m)[i] = stack[1 + i - 1]
      OBVIOUS
    <3>1. m \in Int /\ \A i \in 1..m : stack[i] \in Calls
      BY <2>2, <2>3
    <3> HIDE DEF m
    <3> QED
      BY <2>2, <3>1, SubSeqProperties
  <2>5. \A i \in 1..(n - 1) : i \in 1..(n - 1 - 1 + 1) /\ 1 + i - 1 = i
    BY <1>1
  <2>6. (IF 1 <= n - 1 THEN n - 1 - 1 + 1 ELSE 0) = n - 1
    BY <1>1
  <2> QED
    BY <2>1, <2>4, <2>5, <2>6, Zenon
<1>5. \A i \in 1..(n - 1) : i \in Depths /\ i # n
  BY <1>1
<1>6. \A i \in 1..(n - 1) : stack[i] \in Calls /\ stack[i] # c /\ status[stack[i]] = "calling"
  BY <1>1, <1>5 DEF StackCalls
<1>7. ASSUME NEW w \in Wallets
      PROVE  Cardinality(CallingFor(w)') =
               Cardinality(CallingFor(w)) - IF WalletOf(c) = w THEN 1 ELSE 0
  <2>1. IsFiniteSet(CallingFor(w)) /\ Cardinality(CallingFor(w)) \in Nat
    BY StackParts
  <2>2. CallingFor(w)' = {i \in 1..(n - 1) : WalletOf(stack'[i]) = w}
    BY <1>4 DEF CallingFor, Depths, WalletOf
  <2>3. CallingFor(w) = {i \in 1..n : WalletOf(stack[i]) = w}
    BY <1>1 DEF CallingFor
  <2>4. CallingFor(w)' = CallingFor(w) \ {n}
    <3>1. \A i : i \in 1..(n - 1) <=> i \in 1..n /\ i # n
      BY <1>1
    <3> HIDE DEF NestedInv, n
    <3> QED
      BY <3>1, <1>4, <2>2, <2>3
  <2>5. CASE WalletOf(c) = w
    <3>1. n \in CallingFor(w)
      BY <2>3, <2>5, <1>1
    <3> QED
      BY <3>1, <2>1, <2>4, <2>5, FS_RemoveElement
  <2>6. CASE WalletOf(c) # w
    <3>1. CallingFor(w)' = CallingFor(w)
      BY <2>3, <2>4, <2>6, <1>1
    <3> QED
      BY <3>1, <2>1, <2>6
  <2> QED
    BY <2>5, <2>6
<1> QED
  BY <1>1, <1>2, <1>3, <1>4, <1>6, <1>7

(* The calls that stay on the stack are as they were. *)
LEMMA ShorterStack ==
  ASSUME NestedInv, NEW c \in Calls, Top(c), Pop,
         \A d \in Calls : d # c => status'[d] = status[d]
  PROVE  StackCalls'
<1> DEFINE n == Len(stack)
<1>1. /\ n \in Nat \ {0} /\ Len(stack') = n - 1
      /\ \A i \in 1..(n - 1) : /\ stack'[i] = stack[i] /\ stack[i] \in Calls
                               /\ stack[i] # c /\ status[stack[i]] = "calling"
  BY Popping
<1>2. Depths = 1..n /\ Depths' = 1..(n - 1)
  BY <1>1 DEF Depths
<1>3. \A i \in 1..(n - 1) : i \in 1..n
  BY <1>1
<1>4. \A i \in 1..(n - 1) : status'[stack'[i]] = "calling"
  BY <1>1
<1>5. \A h, i \in 1..(n - 1) : stack'[h] = stack'[i] => h = i
  BY <1>1, <1>2, <1>3 DEF NestedInv, StackCalls
<1>6. Len(stack') <= MaxNesting
  BY <1>1, TrackerAssumption DEF NestedInv, StackCalls
<1> QED
  BY <1>2, <1>4, <1>5, <1>6 DEF StackCalls

LEMMA NestedThrows ==
  ASSUME NestedInv, NEW c \in Calls, Throws(c)
  PROVE  NestedInv'
<1> USE DEF NestedInv
<1>1. Top(c) /\ Pop /\ UNCHANGED <<owner, place, places, count, released, expired, aborted>>
  BY DEF Throws
<1>2. \A d \in Calls : status'[d] = IF d = c THEN "settled" ELSE status[d]
  BY DEF Throws, TypeOK
<1>3. /\ status[c] = "calling" /\ c \notin Tracked /\ stack' \in Seq(Calls)
      /\ Len(stack) \in Nat \ {0} /\ Len(stack') = Len(stack) - 1
      /\ \A w \in Wallets :
           Cardinality(CallingFor(w)') =
             Cardinality(CallingFor(w)) - IF WalletOf(c) = w THEN 1 ELSE 0
  BY <1>1, Popping
<1>4. TypeOK' /\ Tracked' = Tracked /\ InMap' = InMap
  BY <1>1, <1>3 DEF TypeOK, Statuses, Tracked, InMap, Throws
<1>5. EntriesRun'
  BY <1>1, <1>2, <1>3, <1>4 DEF EntriesRun, InMap, TypeOK
<1>6. SlotsCover'
  BY <1>1, <1>4 DEF SlotsCover, WalletOf
<1>7. StackCalls'
  BY <1>1, <1>2, ShorterStack
<1>8. PlacesPromised'
  <2>1. Cardinality(InMap') + Len(stack') <= MaxInFlight + MaxNesting - 1
    <3>1. Cardinality(InMap) \in Nat /\ MaxInFlight \in Nat /\ MaxNesting \in Nat
      BY FiniteParts, TrackerAssumption
    <3>2. Cardinality(InMap) + Len(stack) <= MaxInFlight + MaxNesting - 1
      BY DEF PlacesPromised
    <3> HIDE DEF NestedInv
    <3> QED
      BY <3>1, <3>2, <1>3, <1>4
  <2>2. ASSUME NEW w \in Wallets
        PROVE  count'[w] + Cardinality(CallingFor(w)') <= MaxPerWallet + MaxNesting - 1
    <3>1. /\ Cardinality(CallingFor(w)) \in Nat /\ count'[w] = count[w] /\ count[w] \in Nat
          /\ MaxPerWallet \in Nat /\ MaxNesting \in Nat
      BY <1>1, StackParts, TrackerAssumption DEF TypeOK
    <3>2. count[w] + Cardinality(CallingFor(w)) <= MaxPerWallet + MaxNesting - 1
      BY DEF PlacesPromised
    <3> HIDE DEF NestedInv
    <3> QED
      BY <3>1, <3>2, <1>3
  <2> QED
    BY <2>1, <2>2 DEF PlacesPromised
<1>9. ReleasedIsOut'
  BY <1>1, <1>2, <1>4 DEF ReleasedIsOut, TypeOK
<1> QED
  BY <1>4, <1>5, <1>6, <1>7, <1>8, <1>9

(* The operation has returned its promise, and takes the key, whoever has  *)
(* it now: the entry found there goes without giving its slot back.        *)
LEMMA NestedAdmit ==
  ASSUME NestedInv, NEW c \in Calls, Admit(c)
  PROVE  NestedInv'
<1> USE DEF NestedInv
<1> DEFINE k == KeyOf[c]
<1>1. Top(c) /\ Pop /\ UNCHANGED <<released, expired, aborted>> /\ k \in Keys
  BY TrackerAssumption DEF Admit
<1>2. \A d \in Calls : status'[d] = IF d = c THEN "running" ELSE status[d]
  BY DEF Admit, TypeOK
<1>3. /\ status[c] = "calling" /\ c \notin Tracked /\ c \notin released /\ c # None
      /\ stack' \in Seq(Calls)
      /\ Len(stack) \in Nat \ {0} /\ Len(stack') = Len(stack) - 1
      /\ \A w \in Wallets :
           Cardinality(CallingFor(w)') =
             Cardinality(CallingFor(w)) - IF WalletOf(c) = w THEN 1 ELSE 0
  BY <1>1, Popping
<1>4. \A l \in Keys : owner'[l] = IF l = k THEN c ELSE owner[l]
  BY <1>1 DEF Admit, TypeOK
<1>5. Tracked' \subseteq Tracked \cup {c} /\ InMap' = InMap \cup {k}
  <2>1. ASSUME NEW d \in Calls, d \in Tracked' PROVE d \in Tracked \/ d = c
    BY <2>1, <1>4 DEF Tracked
  <2> QED
    BY <2>1, <1>1, <1>3, <1>4 DEF Tracked, InMap
<1>6. TypeOK'
  <2>1. place' \in [Keys -> Nat] /\ places' \in Nat
    <3>1. place \in [Keys -> Nat] /\ places \in Nat /\ places + 1 \in Nat
      BY DEF TypeOK
    <3>2. \/ place' = [place EXCEPT ![k] = places + 1] /\ places' = places + 1
          \/ place' = place /\ places' = places
      BY DEF Admit
    <3> HIDE DEF NestedInv, k
    <3>3. [place EXCEPT ![k] = places + 1] \in [Keys -> Nat]
      BY <3>1, Zenon
    <3> QED
      BY <3>1, <3>2, <3>3, Zenon
  <2>2. owner' \in [Keys -> Calls \cup {None}] /\ status' \in [Calls -> Statuses]
    BY DEF Admit, TypeOK, Statuses
  <2>3. count' \in [Wallets -> Nat]
    BY DEF Admit, TypeOK
  <2> QED
    BY <2>1, <2>2, <2>3, <1>1, <1>3 DEF TypeOK
<1>7. EntriesRun'
  BY <1>1, <1>2, <1>3, <1>4, <1>5 DEF EntriesRun, InMap, TypeOK
<1>8. SlotsCover'
  <2>1. ASSUME NEW w \in Wallets
        PROVE  Cardinality({d \in Tracked' : WalletOf(d) = w}) <= count'[w]
    <3> DEFINE before == {d \in Tracked : WalletOf(d) = w}
               after == {d \in Tracked' : WalletOf(d) = w}
    <3>1. /\ IsFiniteSet(before) /\ Cardinality(before) \in Nat
          /\ Cardinality(before) <= count[w] /\ count[w] \in Nat
      BY FiniteParts, FS_Subset, FS_CardinalityType DEF SlotsCover, TypeOK
    <3>2. count'[w] = IF w = WalletOf(c) THEN count[w] + 1 ELSE count[w]
      BY DEF Admit
    <3>3. CASE w = WalletOf(c)
      <4>1. after \subseteq before \cup {c} /\ c \notin before
        BY <3>3, <1>3, <1>5
      <4>2. /\ Cardinality(before \cup {c}) = Cardinality(before) + 1
            /\ IsFiniteSet(before \cup {c})
        BY <4>1, <3>1, FS_AddElement
      <4>3. Cardinality(after) <= Cardinality(before \cup {c}) /\ Cardinality(after) \in Nat
        BY <4>1, <4>2, FS_Subset, FS_CardinalityType
      <4> QED
        BY <4>2, <4>3, <3>1, <3>2, <3>3
    <3>4. CASE w # WalletOf(c)
      <4>1. after \subseteq before
        BY <3>4, <1>5
      <4>2. Cardinality(after) <= Cardinality(before) /\ Cardinality(after) \in Nat
        BY <4>1, <3>1, FS_Subset, FS_CardinalityType
      <4> QED
        BY <4>2, <3>1, <3>2, <3>4
    <3> QED
      BY <3>3, <3>4
  <2> QED
    BY <2>1 DEF SlotsCover, WalletOf
<1>9. StackCalls'
  BY <1>1, <1>2, ShorterStack
<1>10. PlacesPromised'
  <2>1. Cardinality(InMap') + Len(stack') <= MaxInFlight + MaxNesting - 1
    <3>1. /\ Cardinality(InMap) \in Nat /\ MaxInFlight \in Nat /\ MaxNesting \in Nat
          /\ IsFiniteSet(InMap)
      BY FiniteParts, TrackerAssumption
    <3>2. Cardinality(InMap) + Len(stack) <= MaxInFlight + MaxNesting - 1
      BY DEF PlacesPromised
    <3>3. Cardinality(InMap') \in {Cardinality(InMap), Cardinality(InMap) + 1}
      BY <1>5, <3>1, FS_AddElement
    <3> HIDE DEF NestedInv
    <3> QED
      BY <3>1, <3>2, <3>3, <1>3
  <2>2. ASSUME NEW w \in Wallets
        PROVE  count'[w] + Cardinality(CallingFor(w)') <= MaxPerWallet + MaxNesting - 1
    <3>1. /\ Cardinality(CallingFor(w)) \in Nat /\ count[w] \in Nat
          /\ MaxPerWallet \in Nat /\ MaxNesting \in Nat
      BY StackParts, TrackerAssumption DEF TypeOK
    <3>2. count'[w] = IF w = WalletOf(c) THEN count[w] + 1 ELSE count[w]
      BY DEF Admit
    <3>3. count[w] + Cardinality(CallingFor(w)) <= MaxPerWallet + MaxNesting - 1
      BY DEF PlacesPromised
    <3> HIDE DEF NestedInv
    <3> QED
      BY <3>1, <3>2, <3>3, <1>3
  <2> QED
    BY <2>1, <2>2 DEF PlacesPromised
<1>11. ReleasedIsOut'
  BY <1>1, <1>2, <1>3, <1>5 DEF ReleasedIsOut, TypeOK
<1> QED
  BY <1>6, <1>7, <1>8, <1>9, <1>10, <1>11

LEMMA NestedInit == Init => NestedInv
<1> SUFFICES ASSUME Init PROVE NestedInv
  OBVIOUS
<1>1. TrackerInv /\ stack = <<>> /\ Len(stack) = 0
  BY InitBooks DEF Init
<1>2. SlotsCover
  BY <1>1, FiniteParts DEF SlotsCover, SlotsMatchEntries, TrackerInv, TypeOK
<1>3. Depths = {} /\ \A w \in Wallets : CallingFor(w) = {}
  BY <1>1 DEF Depths, CallingFor
<1>4. Cardinality({}) = 0
  BY FS_EmptySet
<1>5. MaxInFlight \in Nat /\ MaxPerWallet \in Nat /\ MaxNesting \in Nat \ {0}
  BY TrackerAssumption
<1>6. StackCalls
  BY <1>1, <1>3, <1>5 DEF StackCalls
<1>7. Cardinality(InMap) \in Nat /\ Cardinality(InMap) <= MaxInFlight
  BY <1>1, FiniteParts DEF TrackerInv, WithinLimits
<1>8. \A w \in Wallets : count[w] = 0
  BY DEF Init
<1>9. PlacesPromised
  <2>1. \A w \in Wallets : count[w] + Cardinality(CallingFor(w)) = 0
    BY <1>3, <1>4, <1>8
  <2>2. Cardinality(InMap) + Len(stack) <= MaxInFlight + MaxNesting - 1
    BY <1>1, <1>5, <1>7
  <2> QED
    BY <1>5, <2>1, <2>2 DEF PlacesPromised
<1> QED
  BY <1>1, <1>2, <1>6, <1>9 DEF NestedInv, TrackerInv

LEMMA NestedStep ==
  ASSUME NestedInv, [Next]_vars
  PROVE  NestedInv'
<1>1. ASSUME NEW c \in Calls, Track(c) PROVE NestedInv'
  BY <1>1, NestedQuiet, NestedStart DEF Track
<1>2. ASSUME NEW c \in Calls, Throws(c) \/ Admit(c) \/ Settle(c) PROVE NestedInv'
  BY <1>2, NestedThrows, NestedAdmit, NestedQuiet
<1>3. ASSUME NEW k \in Keys, Query(k) \/ Abort(k) \/ Expire(k) PROVE NestedInv'
  BY <1>3, NestedQuiet
<1>4. CASE UNCHANGED vars
  <2>1. Tracked' = Tracked /\ InMap' = InMap /\ \A w : CallingFor(w)' = CallingFor(w)
    BY <1>4 DEF vars, Tracked, InMap, CallingFor, Depths, WalletOf
  <2> QED
    BY <1>4, <2>1 DEF vars, NestedInv, TypeOK, EntriesRun, SlotsCover, StackCalls, Depths,
       PlacesPromised, ReleasedIsOut, WalletOf
<1> QED
  BY <1>1, <1>2, <1>3, <1>4, NestedClear DEF Next

(* Whatever operations do to the tracker while they are being called, and  *)
(* to whatever depth: every entry is of an operation that runs, for the    *)
(* key it is found under; no entry goes without its slot; and a limit is   *)
(* overrun by at most the calls that were nested.  What nesting breaks is  *)
(* only that slots come back (IdleWalletsAreFree).                         *)
THEOREM NestingIsContained == Spec => [](EntriesRun /\ SlotsCover /\ LimitsStretch)
<1>1. NestedInv => LimitsStretch
  <2> SUFFICES ASSUME NestedInv PROVE LimitsStretch
    OBVIOUS
  <2>1. /\ Cardinality(InMap) \in Nat /\ Len(stack) \in Nat
        /\ MaxInFlight \in Nat /\ MaxPerWallet \in Nat /\ MaxNesting \in Nat
    BY FiniteParts, TrackerAssumption DEF NestedInv, TypeOK
  <2>2. Cardinality(InMap) + Len(stack) <= MaxInFlight + MaxNesting - 1
    BY DEF NestedInv, PlacesPromised
  <2>3. ASSUME NEW w \in Wallets PROVE count[w] <= MaxPerWallet + MaxNesting - 1
    <3>1. Cardinality(CallingFor(w)) \in Nat /\ count[w] \in Nat
      BY StackParts DEF NestedInv, TypeOK
    <3>2. count[w] + Cardinality(CallingFor(w)) <= MaxPerWallet + MaxNesting - 1
      BY DEF NestedInv, PlacesPromised
    <3> QED
      BY <3>1, <3>2, <2>1
  <2> QED
    BY <2>1, <2>2, <2>3 DEF LimitsStretch
<1>2. NestedInv => EntriesRun /\ SlotsCover
  BY DEF NestedInv
<1>3. NestedInv /\ [Next]_vars => NestedInv'
  BY NestedStep
<1> QED
  BY <1>1, <1>2, <1>3, NestedInit, PTL DEF Spec
=============================================================================
