----------------------- MODULE RpcEndpointPoolProofs -----------------------
(***************************************************************************)
(* The circuit breaker of RpcEndpointPool is open exactly while the        *)
(* failures are at the threshold, and no call leaves an endpoint that      *)
(* works, for every set of calls, every number of endpoints and every      *)
(* option.                                                                 *)
(***************************************************************************)
EXTENDS RpcEndpointPool, TLAPS

(* What the breaker reads and writes: the count never passes the threshold *)
(* and every request is of an endpoint of the pool.                        *)
BreakerTypes ==
  /\ size \in Nat /\ size <= MaxSize
  /\ failures \in [Slots -> 0..Threshold]
  /\ quar \in [Slots -> Nat \cup {None}]
  /\ index \in [Calls -> Slots]

BreakerInv == BreakerTypes /\ BreakerFollowsFailures

LEMMA InitBreaker == Init => BreakerInv
BY PoolAssumption DEF Init, BreakerInv, BreakerTypes, BreakerFollowsFailures, Slots

(* selectEndpointIndex() closes breakers whose time is over.               *)
LEMMA LiftBreaker ==
  ASSUME BreakerInv, NEW i, Lift(i)
  PROVE  /\ failures' \in [Slots -> 0..Threshold]
         /\ quar' \in [Slots -> Nat \cup {None}]
         /\ BreakerFollowsFailures'
<1> USE DEF BreakerInv, BreakerTypes
<1> DEFINE over == {j \in Examined(i) : quar[j] = 0}
<1>1. /\ quar' = [j \in Slots |-> IF j \in over THEN None ELSE quar[j]]
      /\ failures' = [j \in Slots |-> IF j \in over THEN 0 ELSE failures[j]]
  BY DEF Lift
<1> HIDE DEF over
<1>2. failures' \in [Slots -> 0..Threshold] /\ quar' \in [Slots -> Nat \cup {None}]
  BY <1>1, PoolAssumption
<1>3. BreakerFollowsFailures'
  <2>1. ASSUME NEW j \in Slots
        PROVE  quar'[j] # None <=> failures'[j] >= Threshold
    BY <1>1, PoolAssumption DEF BreakerFollowsFailures
  <2> QED
    BY <2>1 DEF BreakerFollowsFailures, Slots
<1> QED
  BY <1>2, <1>3

(* The answer to a request closes the breaker of its endpoint ...          *)
LEMMA SuccessBreaker ==
  ASSUME BreakerInv, NEW c \in Calls, Succeeds(c)
  PROVE  BreakerInv'
<1> USE DEF BreakerInv, BreakerTypes
<1> DEFINE i == index[c]
<1>1. i \in Slots
  OBVIOUS
<1>2. failures' = [failures EXCEPT ![i] = 0] /\ quar' = [quar EXCEPT ![i] = None]
      /\ UNCHANGED <<size, index>>
  BY DEF Succeeds
<1>3. BreakerTypes'
  BY <1>2, PoolAssumption DEF Slots
<1>4. ASSUME NEW j \in Slots
      PROVE  quar'[j] # None <=> failures'[j] >= Threshold
  BY <1>2, PoolAssumption DEF BreakerFollowsFailures
<1> QED
  BY <1>3, <1>4 DEF BreakerFollowsFailures, Slots

(* ... or counts a failure of it, also when it is open already.            *)
LEMMA FailureBreaker ==
  ASSUME BreakerInv, NEW c \in Calls, NEW e \in Errors, Fails(c, e)
  PROVE  BreakerInv'
<1> USE DEF BreakerInv, BreakerTypes
<1> DEFINE i == index[c]
           g == Lesser(failures[i] + 1, Threshold)
<1>1. i \in Slots /\ failures[i] \in 0..Threshold
  OBVIOUS
<1>2. g \in 0..Threshold /\ (failures[i] >= Threshold => g >= Threshold)
  BY <1>1, PoolAssumption DEF Lesser
<1>3. /\ failures' = [failures EXCEPT ![i] = g]
      /\ quar' = [quar EXCEPT ![i] = IF g >= Threshold /\ @ = None THEN CircuitCooldown ELSE @]
      /\ UNCHANGED <<size, index>>
  BY DEF Fails, Record
<1> HIDE DEF g
<1>4. BreakerTypes'
  BY <1>1, <1>2, <1>3, PoolAssumption DEF Slots
<1>5. ASSUME NEW j \in Slots
      PROVE  quar'[j] # None <=> failures'[j] >= Threshold
  <2>1. quar[j] # None <=> failures[j] >= Threshold
    BY DEF BreakerFollowsFailures
  <2>2. CASE j = i
    <3>1. failures'[j] = g
      BY <1>3, <2>2
    <3>2. quar'[j] = IF g >= Threshold /\ quar[j] = None THEN CircuitCooldown ELSE quar[j]
      BY <1>3, <2>2
    <3>3. CircuitCooldown # None
      BY PoolAssumption
    <3>4. quar[j] # None => g >= Threshold
      BY <2>1, <2>2, <1>2
    <3> QED
      BY <3>1, <3>2, <3>3, <3>4
  <2>3. CASE j # i
    BY <1>3, <2>1, <2>3
  <2> QED
    BY <2>2, <2>3
<1> QED
  BY <1>4, <1>5 DEF BreakerFollowsFailures, Slots

(* Time runs on open breakers only.                                        *)
LEMMA TickBreaker ==
  ASSUME BreakerInv, Tick
  PROVE  BreakerInv'
<1> USE DEF BreakerInv, BreakerTypes
<1>1. /\ quar' = [i \in Slots |-> IF Quarantined(i) THEN quar[i] - 1 ELSE quar[i]]
      /\ UNCHANGED <<size, failures, index>>
  BY DEF Tick, callVars
<1>2. ASSUME NEW j \in Slots
      PROVE  quar'[j] \in Nat \cup {None} /\ (quar'[j] = None <=> quar[j] = None)
  BY <1>1, PoolAssumption DEF Quarantined
<1>3. BreakerTypes'
  BY <1>1, <1>2 DEF Slots
<1> QED
  BY <1>1, <1>2, <1>3 DEF BreakerFollowsFailures, Slots

LEMMA BreakerStep == BreakerInv /\ [Next]_vars => BreakerInv'
<1> SUFFICES ASSUME BreakerInv, [Next]_vars PROVE BreakerInv'
  OBVIOUS
<1>1. ASSUME UNCHANGED endpointVars, UNCHANGED index, size' \in Nat, size' <= MaxSize
      PROVE  BreakerInv'
  BY <1>1 DEF BreakerInv, BreakerTypes, BreakerFollowsFailures, endpointVars, Slots
<1>2. size \in Nat /\ size <= MaxSize
  BY DEF BreakerInv, BreakerTypes
<1>3. ASSUME NEW c \in Calls, Begin(c) PROVE BreakerInv'
  BY <1>1, <1>2, <1>3 DEF Begin
<1>4. ASSUME NEW c \in Calls, Skip(c) PROVE BreakerInv'
  BY <1>4, LiftBreaker DEF Skip, BreakerInv, BreakerTypes, Slots
<1>5. ASSUME NEW c \in Calls, Request(c) PROVE BreakerInv'
  <2>1. PICK i \in Endpoints : Lift(i) /\ index' = [index EXCEPT ![c] = i]
    BY <1>5 DEF Request
  <2>2. i \in Slots
    BY <1>2, PoolAssumption DEF Endpoints, Slots
  <2>3. index' \in [Calls -> Slots]
    BY <2>1, <2>2 DEF BreakerInv, BreakerTypes
  <2>4. size' = size
    BY <1>5 DEF Request
  <2> QED
    BY <2>1, <2>3, <2>4, LiftBreaker DEF BreakerInv, BreakerTypes, Slots
<1>6. ASSUME NEW c \in Calls, Exhausted(c) \/ TimesOut(c) PROVE BreakerInv'
  BY <1>1, <1>2, <1>6 DEF Exhausted, TimesOut
<1>7. ASSUME NEW c \in Calls, Succeeds(c) PROVE BreakerInv'
  BY <1>7, SuccessBreaker
<1>8. ASSUME NEW c \in Calls, NEW e \in Errors, Fails(c, e) PROVE BreakerInv'
  BY <1>8, FailureBreaker
<1>9. CASE GetActiveServer \/ Rotate
  BY <1>1, <1>2, <1>9 DEF GetActiveServer, Rotate, callVars
<1>10. CASE Add
  BY <1>1, <1>2, <1>10, PoolAssumption DEF Add, callVars
<1>11. CASE Tick
  BY <1>11, TickBreaker
<1>12. CASE UNCHANGED vars
  BY <1>1, <1>2, <1>12 DEF vars, callVars
<1> QED
  BY <1>3, <1>4, <1>5, <1>6, <1>7, <1>8, <1>9, <1>10, <1>11, <1>12 DEF Next, Loop, Answer

(* An endpoint is in quarantine exactly while its failures in a row are at *)
(* the threshold: whatever answers of concurrent calls arrive while it is  *)
(* open, and however selection, time, rotate() and add() come between      *)
(* (recordEndpointFailure(), recordEndpointSuccess() and                   *)
(* isEndpointQuarantined() of rpc.ts).                                     *)
THEOREM BreakerIsExact == Spec => []BreakerFollowsFailures
<1>1. BreakerInv => BreakerFollowsFailures
  BY DEF BreakerInv
<1> QED
  BY <1>1, InitBreaker, BreakerStep, PTL DEF Spec
-----------------------------------------------------------------------------
(* A failure of an endpoint makes it back off: its delay is never 0.       *)
DelayInv == BreakerInv /\ delay \in [Slots -> Nat \ {0}] /\ backoff \in [Slots -> Nat]

LEMMA DelaysArePositive ==
  /\ FirstDelay \in Nat \ {0}
  /\ \A d \in Nat \ {0} : Doubled(d, BackoffMax) \in Nat \ {0}
BY PoolAssumption DEF FirstDelay, Doubled, Lesser

LEMMA InitDelay == Init => DelayInv
BY InitBreaker, DelaysArePositive DEF Init, DelayInv

LEMMA DelayStep == DelayInv /\ [Next]_vars => DelayInv'
<1> SUFFICES ASSUME DelayInv, [Next]_vars PROVE DelayInv'
  OBVIOUS
<1>1. BreakerInv' /\ Slots' = Slots
  BY BreakerStep DEF DelayInv, Slots
<1>2. /\ delay \in [Slots -> Nat \ {0}] /\ backoff \in [Slots -> Nat]
      /\ index \in [Calls -> Slots] /\ quar \in [Slots -> Nat \cup {None}]
  BY DEF DelayInv, BreakerInv, BreakerTypes
<1>3. ASSUME UNCHANGED <<backoff, delay>> PROVE DelayInv'
  BY <1>1, <1>3 DEF DelayInv
<1>4. ASSUME NEW c \in Calls, Begin(c) \/ Loop(c) \/ TimesOut(c) PROVE DelayInv'
  BY <1>3, <1>4 DEF Begin, Loop, Skip, Request, Exhausted, TimesOut, endpointVars
<1>5. ASSUME NEW c \in Calls, Succeeds(c) PROVE DelayInv'
  BY <1>1, <1>2, <1>5, DelaysArePositive DEF Succeeds, DelayInv
<1>6. ASSUME NEW c \in Calls, NEW e \in Errors, Fails(c, e) PROVE DelayInv'
  <2>1. /\ backoff' = [backoff EXCEPT ![index[c]] = delay[index[c]]]
        /\ delay' = [delay EXCEPT ![index[c]] = Doubled(@, BackoffMax)]
    BY <1>6 DEF Fails, Record
  <2>2. delay[index[c]] \in Nat \ {0} /\ Doubled(delay[index[c]], BackoffMax) \in Nat \ {0}
    BY <1>2, DelaysArePositive
  <2> QED
    BY <1>1, <1>2, <2>1, <2>2 DEF DelayInv
<1>7. CASE GetActiveServer \/ Rotate \/ Add
  BY <1>3, <1>7 DEF GetActiveServer, Rotate, Add, endpointVars
<1>8. CASE Tick
  <2>1. backoff' = [i \in Slots |-> IF backoff[i] > 0 THEN backoff[i] - 1 ELSE 0] /\ delay' = delay
    BY <1>8 DEF Tick
  <2>2. backoff' \in [Slots -> Nat]
    BY <1>2, <2>1
  <2> QED
    BY <1>1, <1>2, <2>1, <2>2 DEF DelayInv
<1>9. CASE UNCHANGED vars
  BY <1>3, <1>9 DEF vars, endpointVars
<1> QED
  BY <1>4, <1>5, <1>6, <1>7, <1>8, <1>9 DEF Next, Answer

(* Calls that fail together on one endpoint do not push the pool past one  *)
(* that works: what a step leaves is backing off or in quarantine, unless  *)
(* the application rotates or the primary is tried again (withFailover()   *)
(* of rpc.ts: "Only advance if no concurrent call has already failed       *)
(* over").                                                                 *)
THEOREM OnlyFailingAreLeft == Spec => LeavesOnlyFailing
<1> DEFINE Left ==
      \/ active' = active
      \/ active' = 0 /\ since' = None
      \/ Rotate
      \/ backoff'[active] > 0
      \/ quar'[active] # None
<1>1. ASSUME DelayInv, Next PROVE Left
  <2>1. /\ delay \in [Slots -> Nat \ {0}] /\ backoff \in [Slots -> Nat]
        /\ index \in [Calls -> Slots] /\ size \in Nat /\ size <= MaxSize
    BY <1>1 DEF DelayInv, BreakerInv, BreakerTypes
  <2>2. ASSUME NEW c \in Calls, Begin(c) PROVE Left
    BY <2>2 DEF Begin, Repromote
  <2>3. ASSUME NEW c \in Calls, Skip(c) PROVE Left
    <3>1. PICK i \in Endpoints :
            /\ Quarantined(i) /\ Lift(i)
            /\ active' = IF active = i THEN (i + 1) % size ELSE active
      BY <2>3 DEF Skip
    <3>2. i \in Slots
      BY <2>1, <3>1, PoolAssumption DEF Endpoints, Slots
    <3>3. quar'[i] = quar[i] /\ quar[i] # None
      BY <3>1, <3>2 DEF Lift, Quarantined
    <3> QED
      BY <3>1, <3>3
  <2>4. ASSUME NEW c \in Calls, NEW e \in Errors, Fails(c, e) PROVE Left
    <3>1. active' = active \/ Advance(index[c])
      BY <2>4 DEF Fails
    <3>2. backoff'[index[c]] = delay[index[c]] /\ delay[index[c]] \in Nat \ {0}
      BY <2>1, <2>4 DEF Fails, Record
    <3>3. backoff'[index[c]] > 0
      BY <3>2
    <3> QED
      BY <3>1, <3>3 DEF Advance
  <2>5. ASSUME NEW c \in Calls, Request(c) \/ Exhausted(c) \/ Succeeds(c) \/ TimesOut(c) PROVE Left
    BY <2>5 DEF Request, Exhausted, Succeeds, TimesOut
  <2>6. CASE GetActiveServer
    BY <2>6 DEF GetActiveServer, Repromote
  <2>7. CASE Add \/ Tick
    BY <2>7 DEF Add, Tick
  <2> QED
    BY <1>1, <2>2, <2>3, <2>4, <2>5, <2>6, <2>7 DEF Next, Loop, Answer
<1>2. DelayInv /\ [Next]_vars => [Left]_vars
  BY <1>1
<1>3. LeavesOnlyFailing <=> [][Left]_vars
  BY PTL DEF LeavesOnlyFailing
<1> QED
  BY InitDelay, DelayStep, <1>2, <1>3, PTL DEF Spec
=============================================================================
