------------------------- MODULE RequestQueueProofs -------------------------
(***************************************************************************)
(* Proofs about RequestQueue, for every finite set of requests and every   *)
(* value of the limits.                                                    *)
(***************************************************************************)
EXTENDS RequestQueue, FiniteSetTheorems, TLAPS

(* What each request's stage says of its promise and its ticket. *)
StagesFit ==
  /\ \A r \in Requests : stage[r] # "done" => promise[r] = "pending"
  /\ \A r \in Requests : ticket[r] <= tickets

Limits == ConcurrencyBound /\ WindowBound /\ NoLostWakeup

QueueInv == StagesFit /\ FifoWithinPriority

(* The requests that an assignment of stages keeps executing or waiting. *)
BusyIn(st) == {r \in Requests : st[r] \in {"running", "backoff"}}
WaitingIn(st) == {r \in Requests : st[r] = "waiting"}

(* Sets of requests are finite, so their sizes are numbers. *)
LEMMA RequestSets ==
  ASSUME RequestQueueAssumption, NEW S \in SUBSET Requests
  PROVE  IsFiniteSet(S) /\ Cardinality(S) \in Nat
  BY FS_Subset, FS_CardinalityType DEF RequestQueueAssumption

(* The set that drain() starts. *)
Starts(S, waiting, busy, st) ==
  /\ S \subseteq waiting
  /\ \A r \in S, s \in waiting \ S : Outranks(r, s)
  /\ Fits(Cardinality(S), busy)
  /\ S = waiting \/ ~Fits(Cardinality(S) + 1, busy)
  /\ stage' = [r \in Requests |-> IF r \in S THEN "running" ELSE st[r]]
  /\ age' = [r \in Requests |-> IF r \in S THEN 0 ELSE age[r]]
  /\ active' = busy + Cardinality(S)
  /\ Arm(S # waiting /\ active' < MaxConcurrent)

(* drain() keeps the types of what it changes. *)
LEMMA DrainType ==
  ASSUME RequestQueueAssumption, TypeOK, NEW st \in [Requests -> Stages],
         NEW waiting \in SUBSET Requests, NEW busy \in Nat, Drain(waiting, busy, st)
  PROVE  /\ stage' \in [Requests -> Stages]
         /\ age' \in [Requests -> 0..Window]
         /\ active' \in Nat
         /\ armed' \in BOOLEAN
         /\ wake' \in 0..Window
<1>1. PICK S \in SUBSET waiting : Starts(S, waiting, busy, st)
  BY DEF Drain, Starts
<1>2. Cardinality(S) \in Nat
  BY RequestSets
<1>3. stage' \in [Requests -> Stages]
  BY <1>1 DEF Starts, Stages
<1>4. age' \in [Requests -> 0..Window]
  BY <1>1 DEF Starts, TypeOK, RequestQueueAssumption
<1>5. active' \in Nat
  BY <1>1, <1>2 DEF Starts
<1>6. armed' \in BOOLEAN /\ wake' \in 0..Window
  BY <1>1 DEF Starts, Arm
<1> QED
  BY <1>3, <1>4, <1>5, <1>6

(* drain() starts no more than fits, and leaves someone to drain again.    *)
LEMMA DrainLimits ==
  ASSUME RequestQueueAssumption, TypeOK, WindowBound,
         NEW st \in [Requests -> Stages], NEW busy \in Nat,
         busy = Cardinality(BusyIn(st)), busy <= MaxConcurrent,
         Drain(WaitingIn(st), busy, st)
  PROVE  Limits'
<1> DEFINE waiting == WaitingIn(st)
<1>1. PICK S \in SUBSET waiting : Starts(S, waiting, busy, st)
  BY DEF Drain, Starts
<1> HIDE DEF waiting
<1>2. waiting \in SUBSET Requests /\ S \in SUBSET Requests /\ Recent \in SUBSET Requests
  BY DEF waiting, WaitingIn, Recent
<1>3. /\ IsFiniteSet(S) /\ Cardinality(S) \in Nat
      /\ IsFiniteSet(Recent) /\ Cardinality(Recent) \in Nat
      /\ IsFiniteSet(BusyIn(st))
  BY <1>2, RequestSets DEF BusyIn
<1>4. ConcurrencyBound'
  <2>1. Busy' = BusyIn(st) \cup S
    BY <1>1, <1>2 DEF Busy, BusyIn, Starts
  <2>2. BusyIn(st) \cap S = {}
    BY DEF BusyIn, WaitingIn, waiting
  <2>3. Cardinality(BusyIn(st) \cup S) = busy + Cardinality(S)
    <3>1. Cardinality(BusyIn(st) \cup S)
             = Cardinality(BusyIn(st)) + Cardinality(S) - Cardinality(BusyIn(st) \cap S)
      BY <1>3, FS_Union
    <3>2. Cardinality(BusyIn(st) \cap S) = 0
      BY <2>2, FS_EmptySet
    <3> QED
      BY <1>3, <3>1, <3>2
  <2> QED
    BY <1>1, <2>1, <2>3 DEF ConcurrencyBound, Starts, Fits
<1>5. Recent' = Recent \cup S
  BY <1>1, <1>2 DEF Recent, Starts, RequestQueueAssumption, TypeOK
<1>6. WindowBound'
  <2>1. Cardinality(Recent \cup S) <= Cardinality(Recent) + Cardinality(S)
    <3>1. Recent \cap S \in SUBSET Requests
      BY <1>2
    <3>2. Cardinality(Recent \cap S) \in Nat
      BY <3>1, RequestSets
    <3>3. Cardinality(Recent \cup S)
             = Cardinality(Recent) + Cardinality(S) - Cardinality(Recent \cap S)
      BY <1>3, FS_Union
    <3> QED
      BY <1>3, <3>2, <3>3
  <2>2. Cardinality(Recent \cup S) \in Nat
    BY <1>2, RequestSets
  <2> QED
    BY <1>1, <1>3, <1>5, <2>1, <2>2 DEF WindowBound, Starts, Fits, RequestQueueAssumption
<1>7. NoLostWakeup'
  <2>1. Waiting' = waiting \ S
    BY <1>1, <1>2 DEF Waiting, Starts, waiting, WaitingIn
  <2>2. CASE S = waiting
    BY <2>1, <2>2 DEF NoLostWakeup
  <2>3. CASE S # waiting /\ active' = MaxConcurrent
    BY <2>3 DEF NoLostWakeup
  <2>4. CASE S # waiting /\ active' # MaxConcurrent
    <3>1. active' < MaxConcurrent
      BY <1>1, <1>3, <2>4 DEF Starts, Fits, RequestQueueAssumption
    <3>2. Cardinality(Recent) + Cardinality(S) + 1 > RequestsPerSecond
      BY <1>1, <1>3, <2>4, <3>1 DEF Starts, Fits, RequestQueueAssumption
    <3>3. Recent' # {}
      <4>1. CASE S = {}
        BY <1>3, <1>5, <3>2, <4>1, FS_EmptySet DEF RequestQueueAssumption
      <4>2. CASE S # {}
        BY <1>5, <4>2
      <4> QED
        BY <4>1, <4>2
    <3> QED
      BY <1>1, <2>4, <3>1, <3>3 DEF Starts, Arm, NoLostWakeup
  <2> QED
    BY <2>2, <2>3, <2>4
<1> QED
  BY <1>4, <1>6, <1>7 DEF Limits

(* drain() starts those that outrank the rest, and nothing else moves. *)
LEMMA DrainOrder ==
  ASSUME RequestQueueAssumption, NEW st \in [Requests -> Stages], NEW busy \in Nat,
         Drain(WaitingIn(st), busy, st)
  PROVE  \A r \in Requests :
           \/ stage'[r] = st[r]
           \/ /\ st[r] = "waiting" /\ stage'[r] = "running"
              /\ \A s \in Waiting' : Outranks(r, s)
<1>1. PICK S \in SUBSET WaitingIn(st) : Starts(S, WaitingIn(st), busy, st)
  BY DEF Drain, Starts
<1>2. Waiting' = WaitingIn(st) \ S
  BY <1>1 DEF Waiting, Starts, WaitingIn
<1> QED
  BY <1>1, <1>2 DEF Starts, WaitingIn
-----------------------------------------------------------------------------
IInv == TypeOK /\ Limits /\ QueueInv

(* What the actions that do not drain leave alone. *)
LEMMA SameBusy ==
  ASSUME IInv, UNCHANGED <<active, age>>, Busy' = Busy,
         Waiting' # {} => Waiting # {} /\ UNCHANGED armed
  PROVE  Limits'
  BY DEF IInv, Limits, ConcurrencyBound, WindowBound, NoLostWakeup, Recent

(* A new request enters with the highest ticket. *)
LEMMA EnqueueStep ==
  ASSUME RequestQueueAssumption, IInv, NEW r \in Requests, Enqueue(r)
  PROVE  IInv'
<1> DEFINE st == [stage EXCEPT ![r] = "waiting"]
<1>1. st \in [Requests -> Stages]
  BY DEF IInv, TypeOK, Stages
<1>2. /\ Waiting \cup {r} = WaitingIn(st)
      /\ Busy = BusyIn(st)
  BY DEF Waiting, WaitingIn, Busy, BusyIn, IInv, TypeOK, Enqueue
<1>3. Drain(WaitingIn(st), active, st)
  BY <1>2 DEF Enqueue
<1>4. WaitingIn(st) \in SUBSET Requests /\ active \in Nat
  BY DEF WaitingIn, IInv, TypeOK
<1>5. Limits'
  BY <1>1, <1>2, <1>3, <1>4, DrainLimits DEF IInv, Limits, ConcurrencyBound
<1>6. TypeOK'
  <2>1. /\ stage' \in [Requests -> Stages] /\ age' \in [Requests -> 0..Window]
        /\ active' \in Nat /\ armed' \in BOOLEAN /\ wake' \in 0..Window
    BY <1>1, <1>3, <1>4, DrainType DEF IInv
  <2>2. tickets' \in Nat /\ ticket' \in [Requests -> Nat]
    BY DEF Enqueue, IInv, TypeOK
  <2> QED
    BY <2>1, <2>2 DEF Enqueue, IInv, TypeOK
<1>7. \A s \in Requests :
        \/ stage'[s] = st[s]
        \/ /\ st[s] = "waiting" /\ stage'[s] = "running"
           /\ \A t \in Waiting' : Outranks(s, t)
  BY <1>1, <1>3, <1>4, DrainOrder
<1>8. StagesFit'
  BY <1>7 DEF Enqueue, StagesFit, IInv, QueueInv, TypeOK
<1>9. FifoWithinPriority'
  <2>1. ASSUME NEW a \in Waiting', NEW b \in Requests, Priority[a] = Priority[b],
               b \in Busy' \/ promise'[b] = "resolved"
        PROVE  ticket'[b] < ticket'[a]
    <3>1. a \in Requests /\ stage'[a] = "waiting" /\ st[a] = "waiting"
      BY <1>7 DEF Waiting
    <3>2. CASE st[b] = "waiting" /\ stage'[b] = "running"
      BY <1>7, <2>1, <3>2 DEF Outranks, RequestQueueAssumption
    <3>3. CASE stage'[b] = st[b]
      <4>1. b # r /\ (b \in Busy \/ promise[b] = "resolved")
        BY <2>1, <3>3 DEF Busy, Enqueue, IInv, QueueInv, StagesFit, TypeOK
      <4>2. ticket'[b] = ticket[b] /\ ticket[b] <= tickets
        BY <4>1 DEF Enqueue, IInv, QueueInv, StagesFit, TypeOK
      <4>3. CASE a = r
        BY <4>2, <4>3 DEF Enqueue, IInv, TypeOK
      <4>4. CASE a # r
        BY <2>1, <3>1, <4>1, <4>2, <4>4 DEF Enqueue, IInv, QueueInv, FifoWithinPriority,
                                           Waiting, TypeOK
      <4> QED
        BY <4>3, <4>4
    <3> QED
      BY <1>7, <3>2, <3>3
  <2> QED
    BY <2>1 DEF FifoWithinPriority
<1> QED
  BY <1>5, <1>6, <1>8, <1>9 DEF IInv, QueueInv

(* The end of an execution frees one slot and drains. *)
LEMMA FinishStep ==
  ASSUME RequestQueueAssumption, IInv, NEW r \in Requests,
         NEW outcome \in {"resolved", "rejected"}, Finish(r, outcome),
         orphans' \in SUBSET Requests
  PROVE  IInv'
<1> DEFINE st == [stage EXCEPT ![r] = "done"]
<1>1. st \in [Requests -> Stages]
  BY DEF IInv, TypeOK, Stages
<1>2. /\ Waiting = WaitingIn(st)
      /\ BusyIn(st) = Busy \ {r} /\ r \in Busy
  BY DEF Waiting, WaitingIn, Busy, BusyIn, IInv, TypeOK, Finish
<1>3. Drain(WaitingIn(st), active - 1, st)
  BY <1>2 DEF Finish
<1>4. /\ WaitingIn(st) \in SUBSET Requests
      /\ active - 1 \in Nat /\ active - 1 <= MaxConcurrent
      /\ active - 1 = Cardinality(BusyIn(st))
  <2>1. Busy \in SUBSET Requests /\ IsFiniteSet(Busy)
    BY RequestSets DEF Busy
  <2>2. Cardinality(Busy \ {r}) = Cardinality(Busy) - 1 /\ Cardinality(Busy \ {r}) \in Nat
    <3>1. Busy \ {r} \in SUBSET Requests
      BY <2>1
    <3> QED
      BY <1>2, <2>1, <3>1, FS_RemoveElement, RequestSets
  <2>3. active - 1 = Cardinality(BusyIn(st)) /\ active - 1 \in Nat
    BY <1>2, <2>2 DEF IInv, Limits, ConcurrencyBound
  <2>4. active - 1 <= MaxConcurrent
    BY <2>3 DEF IInv, Limits, ConcurrencyBound, TypeOK, RequestQueueAssumption
  <2> QED
    BY <2>3, <2>4 DEF WaitingIn
<1>5. Limits'
  BY <1>1, <1>3, <1>4, DrainLimits DEF IInv, Limits
<1>6. TypeOK'
  <2>1. /\ stage' \in [Requests -> Stages] /\ age' \in [Requests -> 0..Window]
        /\ active' \in Nat /\ armed' \in BOOLEAN /\ wake' \in 0..Window
    BY <1>1, <1>3, <1>4, DrainType DEF IInv
  <2> QED
    BY <2>1 DEF Finish, IInv, TypeOK, Promises
<1>7. \A s \in Requests :
        \/ stage'[s] = st[s]
        \/ /\ st[s] = "waiting" /\ stage'[s] = "running"
           /\ \A t \in Waiting' : Outranks(s, t)
  BY <1>1, <1>3, <1>4, DrainOrder
<1>8. StagesFit'
  BY <1>7 DEF Finish, StagesFit, IInv, QueueInv, TypeOK
<1>9. FifoWithinPriority'
  <2>1. ASSUME NEW a \in Waiting', NEW b \in Requests, Priority[a] = Priority[b],
               b \in Busy' \/ promise'[b] = "resolved"
        PROVE  ticket'[b] < ticket'[a]
    <3>1. a \in Requests /\ stage'[a] = "waiting" /\ st[a] = "waiting" /\ a # r
      BY <1>7 DEF Waiting, IInv, TypeOK
    <3>2. CASE st[b] = "waiting" /\ stage'[b] = "running"
      BY <1>7, <2>1, <3>2 DEF Outranks, RequestQueueAssumption
    <3>3. CASE stage'[b] = st[b]
      <4>1. b \in Busy \/ promise[b] = "resolved"
        BY <2>1, <3>3 DEF Busy, Finish, IInv, TypeOK
      <4> QED
        BY <2>1, <3>1, <4>1 DEF Finish, IInv, QueueInv, FifoWithinPriority, Waiting, TypeOK
    <3> QED
      BY <1>7, <3>2, <3>3
  <2> QED
    BY <2>1 DEF FifoWithinPriority
<1> QED
  BY <1>5, <1>6, <1>8, <1>9 DEF IInv, QueueInv

(* The timer's callback drains and does nothing else. *)
LEMMA WakeStep ==
  ASSUME RequestQueueAssumption, IInv, Wake
  PROVE  IInv'
<1>1. stage \in [Requests -> Stages] /\ active \in Nat /\ active <= MaxConcurrent
  BY DEF IInv, Limits, ConcurrencyBound, TypeOK
<1>2. Waiting = WaitingIn(stage) /\ Busy = BusyIn(stage)
  BY DEF Waiting, WaitingIn, Busy, BusyIn
<1>3. Drain(WaitingIn(stage), active, stage)
  BY <1>2 DEF Wake
<1>4. WaitingIn(stage) \in SUBSET Requests
  BY DEF WaitingIn
<1>5. Limits'
  BY <1>1, <1>2, <1>3, DrainLimits DEF IInv, Limits, ConcurrencyBound
<1>6. TypeOK'
  <2>1. /\ stage' \in [Requests -> Stages] /\ age' \in [Requests -> 0..Window]
        /\ active' \in Nat /\ armed' \in BOOLEAN /\ wake' \in 0..Window
    BY <1>1, <1>3, <1>4, DrainType DEF IInv
  <2> QED
    BY <2>1 DEF Wake, IInv, TypeOK
<1>7. \A s \in Requests :
        \/ stage'[s] = stage[s]
        \/ /\ stage[s] = "waiting" /\ stage'[s] = "running"
           /\ \A t \in Waiting' : Outranks(s, t)
  BY <1>1, <1>3, DrainOrder
<1>8. StagesFit'
  BY <1>7 DEF Wake, StagesFit, IInv, QueueInv
<1>9. FifoWithinPriority'
  <2>1. ASSUME NEW a \in Waiting', NEW b \in Requests, Priority[a] = Priority[b],
               b \in Busy' \/ promise'[b] = "resolved"
        PROVE  ticket'[b] < ticket'[a]
    <3>1. a \in Waiting
      BY <1>7 DEF Waiting
    <3>2. CASE stage[b] = "waiting" /\ stage'[b] = "running"
      BY <1>7, <2>1, <3>2 DEF Outranks, RequestQueueAssumption
    <3>3. CASE stage'[b] = stage[b]
      BY <2>1, <3>1, <3>3 DEF Wake, Busy, IInv, QueueInv, FifoWithinPriority
    <3> QED
      BY <1>7, <3>2, <3>3
  <2> QED
    BY <2>1 DEF FifoWithinPriority
<1> QED
  BY <1>5, <1>6, <1>8, <1>9 DEF IInv, QueueInv

(* Every step preserves the invariant. *)
LEMMA QueueStep ==
  ASSUME RequestQueueAssumption, IInv, [Next]_vars
  PROVE  IInv'
<1> USE DEF IInv, QueueInv, StagesFit, FifoWithinPriority
<1>1. ASSUME NEW r \in Requests, EnqueueRefused(r)
      PROVE  IInv'
  <2>1. Waiting' = Waiting /\ Busy' = Busy
    BY <1>1 DEF EnqueueRefused, Waiting, Busy, TypeOK
  <2>2. Limits'
    BY <1>1, <2>1, SameBusy DEF EnqueueRefused
  <2>3. TypeOK'
    BY <1>1 DEF EnqueueRefused, TypeOK, Stages, Promises
  <2> QED
    BY <1>1, <2>1, <2>2, <2>3 DEF EnqueueRefused, TypeOK
<1>2. ASSUME NEW r \in Requests, Abort(r)
      PROVE  IInv'
  <2>1. Waiting' \subseteq Waiting /\ Busy' = Busy
    BY <1>2 DEF Abort, Waiting, Busy, TypeOK
  <2>2. Limits'
    BY <1>2, <2>1, SameBusy DEF Abort
  <2>3. TypeOK'
    BY <1>2 DEF Abort, TypeOK, Stages, Promises, RequestQueueAssumption
  <2> QED
    BY <1>2, <2>1, <2>2, <2>3 DEF Abort, TypeOK
<1>3. ASSUME NEW r \in Requests, Execution(r)
      PROVE  IInv'
  <2>1. CASE Answer(r)
    BY <1>3, <2>1, FinishStep DEF Answer, TypeOK
  <2>2. CASE Timeout(r)
    BY <1>3, <2>2, FinishStep DEF Timeout, TypeOK
  <2>3. CASE RateLimited(r)
    <3>1. Waiting' = Waiting /\ Busy' = Busy
      BY <2>3 DEF RateLimited, Waiting, Busy, TypeOK
    <3>2. Limits'
      BY <2>3, <3>1, SameBusy DEF RateLimited
    <3>3. TypeOK'
      BY <2>3 DEF RateLimited, TypeOK, Stages, RequestQueueAssumption
    <3> QED
      BY <2>3, <3>1, <3>2, <3>3 DEF RateLimited, TypeOK
  <2> QED
    BY <1>3, <2>1, <2>2, <2>3 DEF Execution
<1>4. ASSUME NEW r \in Requests, OrphanEnds(r)
      PROVE  IInv'
  BY <1>4 DEF OrphanEnds, TypeOK, Limits, ConcurrencyBound, WindowBound, NoLostWakeup,
              Waiting, Busy, Recent
<1>5. ASSUME NEW r \in Requests, Retry(r)
      PROVE  IInv'
  <2>1. Waiting' = Waiting /\ Busy' = Busy
    BY <1>5 DEF Retry, Waiting, Busy, TypeOK
  <2>2. Limits'
    BY <1>5, <2>1, SameBusy DEF Retry
  <2>3. TypeOK'
    BY <1>5 DEF Retry, TypeOK, Stages
  <2> QED
    BY <1>5, <2>1, <2>2, <2>3 DEF Retry, TypeOK
<1>6. CASE RejectAll
  <2>1. Waiting' = {} /\ Busy' = Busy
    BY <1>6 DEF RejectAll, Waiting, Busy, TypeOK
  <2>2. Limits'
    BY <1>6, <2>1, SameBusy DEF RejectAll
  <2>3. TypeOK'
    <3>1. stage' \in [Requests -> Stages] /\ promise' \in [Requests -> Promises]
      BY <1>6 DEF RejectAll, TypeOK, Stages, Promises
    <3>2. armed' = FALSE /\ wake' = 0 /\ tornAt' \in {tickets + 1, tornAt}
      BY <1>6 DEF RejectAll
    <3>3. tornAt' \in Nat
      BY <3>2 DEF TypeOK
    <3>4. armed' \in BOOLEAN
      BY <3>2, Zenon
    <3>5. wake' \in 0..Window
      BY <3>2 DEF RequestQueueAssumption
    <3> QED
      BY <1>6, <3>1, <3>3, <3>4, <3>5 DEF RejectAll, TypeOK
  <2> QED
    BY <1>6, <2>1, <2>2, <2>3 DEF RejectAll, TypeOK, Waiting
<1>7. CASE Tick
  <2>1. TypeOK'
    BY <1>7 DEF Tick, TypeOK, RequestQueueAssumption
  <2>2. Recent' \in SUBSET Recent
    BY <1>7 DEF Tick, Recent, TypeOK, RequestQueueAssumption
  <2>3. Limits'
    <3>1. Cardinality(Recent') <= Cardinality(Recent)
      <4>1. Recent \in SUBSET Requests
        BY DEF Recent
      <4> QED
        BY <2>2, <4>1, RequestSets, FS_Subset
    <3>2. Cardinality(Recent) \in Nat /\ Cardinality(Recent') \in Nat
      <4>1. Recent \in SUBSET Requests /\ Recent' \in SUBSET Requests
        BY <2>2 DEF Recent
      <4> QED
        BY <4>1, RequestSets
    <3> QED
      BY <1>7, <3>1, <3>2 DEF Tick, Limits, ConcurrencyBound, WindowBound, NoLostWakeup,
                              Busy, Waiting, RequestQueueAssumption
  <2> QED
    BY <1>7, <2>1, <2>3 DEF Tick, Waiting, Busy
<1>8. CASE UNCHANGED vars
  BY <1>8 DEF vars, TypeOK, Limits, ConcurrencyBound, WindowBound, NoLostWakeup,
              Waiting, Busy, Recent
<1> QED
  BY <1>1, <1>2, <1>3, <1>4, <1>5, <1>6, <1>7, <1>8, EnqueueStep, WakeStep DEF Next

(* The invariant holds from the start. *)
LEMMA QueueCorrect == Spec => []IInv
<1>1. Init => IInv
  <2> SUFFICES ASSUME Init
               PROVE  IInv
    OBVIOUS
  <2>1. TypeOK
    <3>1. stage \in [Requests -> Stages] /\ promise \in [Requests -> Promises]
      BY DEF Init, Stages, Promises
    <3>2. /\ age \in [Requests -> 0..Window] /\ wake \in 0..Window
          /\ attempt \in [Requests -> 0..MaxRetries]
      BY RequestQueueAssumption DEF Init
    <3> QED
      BY <3>1, <3>2 DEF Init, TypeOK
  <2>2. Busy = {} /\ Waiting = {} /\ Recent = {}
    BY RequestQueueAssumption DEF Init, Busy, Waiting, Recent
  <2>3. Limits
    BY <2>2, FS_EmptySet, RequestQueueAssumption
    DEF Init, Limits, ConcurrencyBound, WindowBound, NoLostWakeup
  <2>4. QueueInv
    BY <2>2 DEF Init, QueueInv, StagesFit, FifoWithinPriority
  <2> QED
    BY <2>1, <2>3, <2>4 DEF IInv
<1>2. IInv /\ [Next]_vars => IInv'
  BY QueueStep, RequestQueueAssumption
<1> QED
  BY <1>1, <1>2, PTL DEF Spec

(* The variables of the queue keep their types. *)
THEOREM QueueTypes == Spec => []TypeOK
  BY QueueCorrect, PTL DEF IInv

(* Never more executions than maxConcurrent, and core.active counts them. *)
THEOREM ConcurrencyHolds == Spec => []ConcurrencyBound
  BY QueueCorrect, PTL DEF IInv, Limits

(* Never more starts than requestsPerSecond in any rolling second. *)
THEOREM RateHolds == Spec => []WindowBound
  BY QueueCorrect, PTL DEF IInv, Limits

(* A waiting request always has an execution or the timer to wake it. *)
THEOREM WakeupHolds == Spec => []NoLostWakeup
  BY QueueCorrect, PTL DEF IInv, Limits

(* Requests of one priority start in the order of their arrival. *)
THEOREM FifoHolds == Spec => []FifoWithinPriority
  BY QueueCorrect, PTL DEF IInv, QueueInv

(* A request is settled once: a queued or executing one is still pending. *)
THEOREM SettledOnce == Spec => []NeverRunsSettled
<1>1. IInv => NeverRunsSettled
  BY DEF IInv, QueueInv, StagesFit, NeverRunsSettled, Waiting, Busy
<1> QED
  BY <1>1, QueueCorrect, PTL
=============================================================================
