-------------------------- MODULE RpcEndpointPool --------------------------
(***************************************************************************)
(* RpcEndpointPool: calls of withFailover() share the choice of the active *)
(* endpoint, a backoff and a circuit breaker per endpoint, and a latency   *)
(* history.  A call runs without interruption from the end of one request  *)
(* to the start of the next; `turn` is the call that does.                 *)
(*                                                                         *)
(* The endpoints are external: a request succeeds, or fails with an error  *)
(* that is or is not a timeout and is or is not a connection error.        *)
(***************************************************************************)
EXTENDS Naturals, FiniteSets

CONSTANTS
  Calls,              (* Callers of withFailover(), one call after another.  *)
  None,               (* Absent: no call, no sample, null.                   *)
  InitialSize,        (* Number of configured URLs.                          *)
  MaxSize,            (* Bound: endpoints, those given to add() included.    *)
  Latencies,          (* Average latencies that are told apart.              *)
  TimeoutMaxAttempts, (* Parameter timeoutMaxAttempts.                       *)
  FailoverCooldown,   (* Parameter failoverCooldownMs, in ticks.             *)
  BackoffBase,        (* Parameter endpointBackoffBaseMs, in ticks.          *)
  BackoffMax,         (* Parameter endpointBackoffMaxMs, in ticks.           *)
  Threshold,          (* circuitBreaker.threshold.                           *)
  CircuitCooldown,    (* circuitBreaker.cooldownMs, in ticks.                *)
  Events              (* Bound: which events are explored.                   *)

ASSUME PoolAssumption ==
  /\ None \notin Calls \cup Nat
  /\ InitialSize \in Nat \ {0}
  /\ MaxSize \in Nat /\ InitialSize <= MaxSize
  /\ Latencies \subseteq Nat /\ Latencies # {}
  /\ TimeoutMaxAttempts \in Nat \ {0}
  /\ FailoverCooldown \in Nat
  /\ BackoffBase \in Nat \ {0}
  /\ BackoffMax \in Nat \ {0}
  /\ Threshold \in Nat \ {0}
  /\ CircuitCooldown \in Nat \ {0}

VARIABLES
  size,      (* servers.length.                                              *)
  active,    (* activeIndex.                                                 *)
  since,     (* Ticks since lastFailoverAt, up to the cooldown, or None.     *)
  backoff,   (* Ticks until backoffUntil of each endpoint.                   *)
  delay,     (* Backoff that its next failure gives an endpoint:             *)
             (* base * 2^consecutiveFailures, up to BackoffMax.              *)
  failures,  (* failureCount of each circuit, up to Threshold.               *)
  quar,      (* Ticks of quarantine left, 0 when they are over, or None.     *)
  latency,   (* Average latency of each endpoint, None without samples.      *)
  pc,        (* Where each call is.                                          *)
  attempt,   (* `attempt` of the loop of withFailover().                     *)
  index,     (* `index` of that loop.                                        *)
  tries,     (* `attempt` of runWithTimeoutRetry().                          *)
  asked,     (* The call has made a request.                                 *)
  turn       (* The call that runs now.                                      *)

endpointVars == <<backoff, delay, failures, quar, latency>>
callVars == <<pc, attempt, index, tries, asked>>
vars == <<size, active, since, endpointVars, callVars, turn>>

Slots == 0..(MaxSize - 1)
Endpoints == 0..(size - 1)
Errors == [timeout : BOOLEAN, connection : BOOLEAN]

Lesser(a, b) == IF a < b THEN a ELSE b

(* The delays of failures in a row: each is twice the last, up to the most. *)
FirstDelay == Lesser(BackoffBase, BackoffMax)
Doubled(d, most) == Lesser(2 * d, most)

Init ==
  /\ size = InitialSize
  /\ active = 0
  /\ since = None
  /\ backoff = [i \in Slots |-> 0]
  /\ delay = [i \in Slots |-> FirstDelay]
  /\ failures = [i \in Slots |-> 0]
  /\ quar = [i \in Slots |-> None]
  /\ latency = [i \in Slots |-> None]
  /\ pc = [c \in Calls |-> "idle"]
  /\ attempt = [c \in Calls |-> 0]
  /\ index = [c \in Calls |-> 0]
  /\ tries = [c \in Calls |-> 0]
  /\ asked = [c \in Calls |-> FALSE]
  /\ turn = None
-----------------------------------------------------------------------------
(* selectEndpointIndex().                                                  *)

BackingOff(i) == backoff[i] > 0
Quarantined(i) == quar[i] # None /\ quar[i] > 0
Available(i) == ~BackingOff(i) /\ ~Quarantined(i)

Candidates == {i \in Endpoints : Available(i)}
Sampled == {i \in Candidates : latency[i] # None}

(* The active endpoint when it is available; otherwise the available one   *)
(* with the lowest average latency, where one without samples counts as    *)
(* infinitely slow and does not beat the initial bound; otherwise the      *)
(* active endpoint after all.                                              *)
Selects(i) ==
  IF Available(active) \/ Sampled = {} THEN i = active
  ELSE i \in Sampled /\ \A j \in Sampled : latency[i] <= latency[j]

(* isEndpointQuarantined() lifts a quarantine that is over when it is      *)
(* asked, which the selection of i does for these endpoints.               *)
Examined(i) ==
  {i} \cup IF Available(active) THEN {active} ELSE {j \in Endpoints : ~BackingOff(j)}

Lift(i) ==
  LET over == {j \in Examined(i) : quar[j] = 0} IN
    /\ quar' = [j \in Slots |-> IF j \in over THEN None ELSE quar[j]]
    /\ failures' = [j \in Slots |-> IF j \in over THEN 0 ELSE failures[j]]
-----------------------------------------------------------------------------
(* withFailover().                                                         *)

(* maybeRepromotePrimaryEndpoint(). *)
Repromote ==
  IF active # 0 /\ since # None /\ since >= FailoverCooldown
  THEN active' = 0 /\ since' = None
  ELSE UNCHANGED <<active, since>>

Begin(c) ==
  /\ turn = None
  /\ pc[c] = "idle"
  /\ Repromote
  /\ pc' = [pc EXCEPT ![c] = "loop"]
  /\ attempt' = [attempt EXCEPT ![c] = 0]
  /\ asked' = [asked EXCEPT ![c] = FALSE]
  /\ turn' = c
  /\ UNCHANGED <<size, endpointVars, index, tries>>

InLoop(c) == turn = c /\ pc[c] = "loop" /\ attempt[c] < size

(* Mutant: no attempt is counted for a quarantined endpoint. *)
SkipUncounted(c) ==
  /\ InLoop(c)
  /\ \E i \in Endpoints :
       /\ Selects(i)
       /\ Quarantined(i)
       /\ Lift(i)
       /\ active' = IF active = i THEN (i + 1) % size ELSE active
  /\ UNCHANGED <<size, since, backoff, delay, latency, callVars, turn>>

(* A quarantined endpoint is passed over, at the price of an attempt. *)
Skip(c) ==
  /\ InLoop(c)
  /\ \E i \in Endpoints :
       /\ Selects(i)
       /\ Quarantined(i)
       /\ Lift(i)
       /\ active' = IF active = i THEN (i + 1) % size ELSE active
  /\ attempt' = [attempt EXCEPT ![c] = @ + 1]
  /\ UNCHANGED <<size, since, backoff, delay, latency, pc, index, tries, asked, turn>>

Request(c) ==
  /\ InLoop(c)
  /\ \E i \in Endpoints :
       /\ Selects(i)
       /\ ~Quarantined(i)
       /\ Lift(i)
       /\ index' = [index EXCEPT ![c] = i]
  /\ tries' = [tries EXCEPT ![c] = 0]
  /\ asked' = [asked EXCEPT ![c] = TRUE]
  /\ pc' = [pc EXCEPT ![c] = "request"]
  /\ turn' = None
  /\ UNCHANGED <<size, active, since, backoff, delay, latency, attempt>>

(* The loop is over without an answer: the call rejects. *)
Exhausted(c) ==
  /\ turn = c
  /\ pc[c] = "loop"
  /\ attempt[c] >= size
  /\ pc' = [pc EXCEPT ![c] = "idle"]
  /\ turn' = None
  /\ UNCHANGED <<size, active, since, endpointVars, attempt, index, tries, asked>>

Answered(c) == turn = None /\ pc[c] = "request"

(* Mutant: the quarantine of the endpoint is forgotten. *)
SucceedsInQuarantine(c) ==
  /\ Answered(c)
  /\ \E l \in Latencies : latency' = [latency EXCEPT ![index[c]] = l]
  /\ failures' = [failures EXCEPT ![index[c]] = 0]
  /\ delay' = [delay EXCEPT ![index[c]] = FirstDelay]
  /\ backoff' = [backoff EXCEPT ![index[c]] = 0]
  /\ pc' = [pc EXCEPT ![c] = "idle"]
  /\ UNCHANGED <<size, active, since, quar, attempt, index, tries, asked, turn>>

Succeeds(c) ==
  /\ Answered(c)
  /\ \E l \in Latencies : latency' = [latency EXCEPT ![index[c]] = l]
  /\ failures' = [failures EXCEPT ![index[c]] = 0]
  /\ quar' = [quar EXCEPT ![index[c]] = None]
  /\ delay' = [delay EXCEPT ![index[c]] = FirstDelay]
  /\ backoff' = [backoff EXCEPT ![index[c]] = 0]
  /\ pc' = [pc EXCEPT ![c] = "idle"]
  /\ UNCHANGED <<size, active, since, attempt, index, tries, asked, turn>>

LastTry(c) == tries[c] >= TimeoutMaxAttempts - 1

(* A timeout is retried on the same endpoint, after a pause. *)
TimesOut(c) ==
  /\ Answered(c)
  /\ ~LastTry(c)
  /\ tries' = [tries EXCEPT ![c] = @ + 1]
  /\ UNCHANGED <<size, active, since, endpointVars, pc, attempt, index, asked, turn>>

(* recordEndpointFailure() and recordEndpointBackoff(). *)
Record(i) ==
  LET g == Lesser(failures[i] + 1, Threshold) IN
    /\ backoff' = [backoff EXCEPT ![i] = delay[i]]
    /\ delay' = [delay EXCEPT ![i] = Doubled(@, BackoffMax)]
    /\ failures' = [failures EXCEPT ![i] = g]
    /\ quar' = [quar EXCEPT ![i] = IF g >= Threshold /\ @ = None THEN CircuitCooldown ELSE @]

(* Mutant: the active endpoint is left whichever endpoint failed. *)
AdvanceAlways(i) == since' = 0 /\ active' = (active + 1) % size

(* Only when no other call has already moved on from endpoint i. *)
Advance(i) ==
  IF active = i
  THEN since' = 0 /\ active' = (i + 1) % size
  ELSE UNCHANGED <<active, since>>

(* The request fails for good: the next endpoint is tried at once, unless  *)
(* the error is not one of the connection or the attempts are used up.     *)
Fails(c, e) ==
  /\ Answered(c)
  /\ e.timeout => LastTry(c)
  /\ Record(index[c])
  /\ UNCHANGED <<size, latency, index, tries, asked>>
  /\ IF e.connection /\ attempt[c] # size - 1
     THEN /\ Advance(index[c])
          /\ attempt' = [attempt EXCEPT ![c] = @ + 1]
          /\ pc' = [pc EXCEPT ![c] = "loop"]
          /\ turn' = c
     ELSE /\ pc' = [pc EXCEPT ![c] = "idle"]
          /\ UNCHANGED <<active, since, attempt, turn>>
-----------------------------------------------------------------------------
(* getActiveServer(), rotate(), add() and time.                            *)

GetActiveServer ==
  /\ turn = None
  /\ Repromote
  /\ UNCHANGED <<size, endpointVars, callVars, turn>>

Rotate ==
  /\ turn = None
  /\ since' = 0
  /\ active' = (active + 1) % size
  /\ UNCHANGED <<size, endpointVars, callVars, turn>>

Add ==
  /\ turn = None
  /\ size < MaxSize
  /\ size' = size + 1
  /\ UNCHANGED <<active, since, endpointVars, callVars, turn>>

Tick ==
  /\ turn = None
  /\ backoff' = [i \in Slots |-> IF backoff[i] > 0 THEN backoff[i] - 1 ELSE 0]
  /\ quar' = [i \in Slots |-> IF Quarantined(i) THEN quar[i] - 1 ELSE quar[i]]
  /\ since' = IF since = None THEN None ELSE Lesser(since + 1, FailoverCooldown)
  /\ UNCHANGED <<size, active, delay, failures, latency, callVars, turn>>
-----------------------------------------------------------------------------
Loop(c) == Skip(c) \/ Request(c) \/ Exhausted(c)

Answer(c) == Succeeds(c) \/ TimesOut(c) \/ \E e \in Errors : Fails(c, e)

Next ==
  \/ \E c \in Calls : Begin(c) \/ Loop(c) \/ Answer(c)
  \/ GetActiveServer
  \/ "rotate" \in Events /\ Rotate
  \/ "add" \in Events /\ Add
  \/ Tick

Spec == Init /\ [][Next]_vars

(* A call that runs goes on until it waits.  withTimeout() makes every     *)
(* request end, also one that never answers: it has a timer of its own, so *)
(* other calls can delay its end but, however often, not prevent it.       *)
FairSpec == Spec /\ \A c \in Calls : WF_vars(Loop(c)) /\ SF_vars(Answer(c))
-----------------------------------------------------------------------------
(* Types: every variable has the shape its comment says. *)
TypeOK ==
  /\ size \in InitialSize..MaxSize
  /\ active \in Endpoints
  /\ since \in 0..FailoverCooldown \cup {None}
  /\ backoff \in [Slots -> 0..BackoffMax]
  /\ delay \in [Slots -> 1..BackoffMax]
  /\ failures \in [Slots -> 0..Threshold]
  /\ quar \in [Slots -> 0..CircuitCooldown \cup {None}]
  /\ latency \in [Slots -> Latencies \cup {None}]
  /\ pc \in [Calls -> {"idle", "loop", "request"}]
  /\ attempt \in [Calls -> 0..MaxSize]
  /\ index \in [Calls -> Slots]
  /\ tries \in [Calls -> 0..(TimeoutMaxAttempts - 1)]
  /\ asked \in [Calls -> BOOLEAN]
  /\ turn \in Calls \cup {None}

(* The breaker is open exactly while the failures in a row are at the      *)
(* threshold, through successes and failures of requests that were already *)
(* on their way when it opened.                                            *)
BreakerFollowsFailures == \A i \in Slots : quar[i] # None <=> failures[i] >= Threshold

(* "Only advance if no concurrent call has already failed over": calls     *)
(* that fail together on one endpoint do not push the pool past one that   *)
(* works.  What is left, other than by rotate() or for the primary, is     *)
(* backing off or quarantined.                                             *)
LeavesOnlyFailing ==
  [][\/ active' = active
     \/ active' = 0 /\ since' = None
     \/ Rotate
     \/ backoff'[active] > 0
     \/ quar'[active] # None]_vars

(* Every call of withFailover() ends, whatever the endpoints do and        *)
(* however the calls interleave.                                           *)
EveryCallEnds == \A c \in Calls : pc[c] # "idle" ~> pc[c] = "idle"
-----------------------------------------------------------------------------
(* What the documentation says and the code does not do.                   *)

(* selectEndpointIndex(): "Endpoints that are backing off or quarantined   *)
(* are skipped.  Falls back to the active endpoint if every candidate is   *)
(* unavailable", and "unsampled endpoints are deprioritised ... but still  *)
(* tried".                                                                 *)
FallsBackOnlyWhenNoneIsLeft ==
  [][\A c \in Calls : Request(c) => Available(index'[c]) \/ Candidates = {}]_vars

(* maybeRepromotePrimaryEndpoint(): the primary is not "abandoned          *)
(* permanently": while a backup is active the cooldown runs.               *)
CooldownRunsOnBackup == active # 0 => since # None

(* recordEndpointBackoff(): "Records a retryable failure for an endpoint". *)
OnlyRetryableFailuresCount ==
  [][\A c \in Calls, e \in Errors : ~e.connection /\ Fails(c, e) => UNCHANGED <<backoff, delay>>]_vars

(* The loop passes a quarantined endpoint over "without consuming a real   *)
(* attempt": a call does not end before it has asked any endpoint.         *)
SkipsAreFree == [][\A c \in Calls : Exhausted(c) => asked[c]]_vars
=============================================================================
