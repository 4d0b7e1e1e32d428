---------------------------- MODULE RequestQueue ----------------------------
(***************************************************************************)
(* One QueueCore of RequestQueue: requests wait by priority, at most       *)
(* MaxConcurrent execute at a time, at most RequestsPerSecond start in a   *)
(* rolling window of one second, a wake-up timer restarts the queue when   *)
(* the window is what holds it up, and rate-limit answers are retried.     *)
(*                                                                         *)
(* enqueue, the abort listeners, rejectAll, the timer's callback and the   *)
(* end of an execution each run to completion on the event loop: each is   *)
(* one action, the call of drain() it makes included.                      *)
(***************************************************************************)
EXTENDS Naturals, FiniteSets

CONSTANTS
  Requests,           (* Calls of enqueue().                                 *)
  Priority,           (* Priority of each of them.                           *)
  WithSignal,         (* Those that pass an AbortSignal.                     *)
  Timed,              (* Those that pass timeoutMs.                          *)
  MaxConcurrent,      (* Option maxConcurrent.                               *)
  RequestsPerSecond,  (* Option requestsPerSecond.                           *)
  MaxQueueSize,       (* Option maxQueueSize.                                *)
  MaxRetries,         (* Option maxRateLimitRetries.                         *)
  Window              (* Ticks of the clock in a second.                     *)

ASSUME RequestQueueAssumption ==
  /\ IsFiniteSet(Requests)
  /\ Priority \in [Requests -> Nat]
  /\ WithSignal \subseteq Requests
  /\ Timed \subseteq Requests
  /\ MaxConcurrent \in Nat \ {0}
  /\ RequestsPerSecond \in Nat \ {0}
  /\ MaxQueueSize \in Nat \ {0}
  /\ MaxRetries \in Nat
  /\ Window \in Nat \ {0}

VARIABLES
  stage,    (* Where each request is; "waiting" is core.pending.             *)
  promise,  (* The promise enqueue() returned.                               *)
  ticket,   (* Place of each request in the order of arrival.                *)
  tickets,  (* Number of requests that entered the queue.                    *)
  active,   (* core.active.                                                  *)
  age,      (* Ticks since each request started, Window when out of it.      *)
  armed,    (* core.wakeTimer is set.                                        *)
  wake,     (* Ticks until it is due.                                        *)
  attempt,  (* Rate-limit retries made for each request.                     *)
  orphans,  (* Requests that timed out while their run() goes on.            *)
  aborted,  (* Requests whose signal fired.                                  *)
  tornAt    (* The ticket after the first rejectAll(), 0 before it.          *)

vars == <<stage, promise, ticket, tickets, active, age, armed, wake, attempt,
          orphans, aborted, tornAt>>

Stages == {"new", "waiting", "running", "backoff", "done"}
Promises == {"pending", "resolved", "rejected"}

Waiting == {r \in Requests : stage[r] = "waiting"}
(* Requests that execute() works on, those that back off included. *)
Busy == {r \in Requests : stage[r] \in {"running", "backoff"}}

(* core.starts after drain() shifted out what left the window. *)
Recent == {r \in Requests : age[r] < Window}

Init ==
  /\ stage = [r \in Requests |-> "new"]
  /\ promise = [r \in Requests |-> "pending"]
  /\ ticket = [r \in Requests |-> 0]
  /\ tickets = 0
  /\ active = 0
  /\ age = [r \in Requests |-> Window]
  /\ armed = FALSE
  /\ wake = 0
  /\ attempt = [r \in Requests |-> 0]
  /\ orphans = {}
  /\ aborted = {}
  /\ tornAt = 0
-----------------------------------------------------------------------------
(* drain().                                                                *)

(* Mutant: the last of the requests with the highest priority is taken. *)
OutranksLast(r, s) ==
  \/ Priority[r] > Priority[s]
  \/ Priority[r] = Priority[s] /\ ticket'[r] > ticket'[s]

(* dequeue() takes the first of the requests with the highest priority. *)
Outranks(r, s) ==
  \/ Priority[r] > Priority[s]
  \/ Priority[r] = Priority[s] /\ ticket'[r] < ticket'[s]

(* Mutant: the window is compared before a start and not after it. *)
FitsOffByOne(n, busy) ==
  /\ busy + n <= MaxConcurrent
  /\ Cardinality(Recent) + n <= RequestsPerSecond + 1

(* n more requests fit under both limits. *)
Fits(n, busy) ==
  /\ busy + n <= MaxConcurrent
  /\ Cardinality(Recent) + n <= RequestsPerSecond

(* Mutant: no timer is set while a request executes. *)
ArmWhenIdle(blocked) ==
  /\ armed' = (blocked /\ active' = 0)
  /\ wake' = 0

(* The timer is set when the window alone holds the queue up, for the time *)
(* at which the oldest start leaves it.                                    *)
Arm(blocked) ==
  /\ armed' = (blocked /\ Recent' # {})
  /\ wake' \in 0..Window
  /\ IF armed'
     THEN /\ \E r \in Recent' : wake' = Window - age'[r]
          /\ \A r \in Recent' : wake' <= Window - age'[r]
     ELSE wake' = 0

(* The loop of drain() starts waiting requests, the highest first, until   *)
(* none is left or a limit is reached.  `busy` is core.active and `st` the *)
(* stages before it.                                                       *)
Drain(waiting, busy, st) ==
  \E S \in SUBSET waiting :
    /\ \A r \in S, s \in waiting \ S : Outranks(r, s)
    /\ Fits(Cardinality(S), busy)
    /\ S = waiting \/ ~Fits(Cardinality(S) + 1, busy)
    /\ stage' = [r \in Requests |-> IF r \in S THEN "running" ELSE st[r]]
    /\ age' = [r \in Requests |-> IF r \in S THEN 0 ELSE age[r]]
    /\ active' = busy + Cardinality(S)
    /\ Arm(S # waiting /\ active' < MaxConcurrent)
-----------------------------------------------------------------------------
(* enqueue() and what removes a request that has not started.              *)

(* A fired signal and a full queue reject at once. *)
EnqueueRefused(r) ==
  /\ stage[r] = "new"
  /\ r \in aborted \/ Cardinality(Waiting) >= MaxQueueSize
  /\ stage' = [stage EXCEPT ![r] = "done"]
  /\ promise' = [promise EXCEPT ![r] = "rejected"]
  /\ UNCHANGED <<ticket, tickets, active, age, armed, wake, attempt, orphans, aborted, tornAt>>

Enqueue(r) ==
  /\ stage[r] = "new"
  /\ r \notin aborted
  /\ Cardinality(Waiting) < MaxQueueSize
  /\ tickets' = tickets + 1
  /\ ticket' = [ticket EXCEPT ![r] = tickets + 1]
  /\ Drain(Waiting \cup {r}, active, [stage EXCEPT ![r] = "waiting"])
  /\ UNCHANGED <<promise, attempt, orphans, aborted, tornAt>>

(* Mutant: the listener rejects the promise and leaves the request queued. *)
AbortInPlace(r) ==
  /\ r \in WithSignal \ aborted
  /\ aborted' = aborted \cup {r}
  /\ promise' = IF r \in Waiting THEN [promise EXCEPT ![r] = "rejected"] ELSE promise
  /\ UNCHANGED <<stage, ticket, tickets, active, age, armed, wake, attempt, orphans, tornAt>>

(* The listener exists while the request waits: it takes it off the queue. *)
Abort(r) ==
  /\ r \in WithSignal \ aborted
  /\ aborted' = aborted \cup {r}
  /\ IF r \in Waiting
     THEN /\ stage' = [stage EXCEPT ![r] = "done"]
          /\ promise' = [promise EXCEPT ![r] = "rejected"]
     ELSE UNCHANGED <<stage, promise>>
  /\ UNCHANGED <<ticket, tickets, active, age, armed, wake, attempt, orphans, tornAt>>

(* rejectAll() empties core.pending and clears the timer. *)
RejectAll ==
  /\ stage' = [r \in Requests |-> IF r \in Waiting THEN "done" ELSE stage[r]]
  /\ promise' = [r \in Requests |-> IF r \in Waiting THEN "rejected" ELSE promise[r]]
  /\ armed' = FALSE
  /\ wake' = 0
  /\ tornAt' = IF tornAt = 0 THEN tickets + 1 ELSE tornAt
  /\ UNCHANGED <<ticket, tickets, active, age, attempt, orphans, aborted>>
-----------------------------------------------------------------------------
(* execute().                                                              *)

(* Mutant: the slot is given back and nothing is drained. *)
FinishWithoutDrain(r, outcome) ==
  /\ stage[r] = "running"
  /\ promise' = [promise EXCEPT ![r] = outcome]
  /\ stage' = [stage EXCEPT ![r] = "done"]
  /\ active' = active - 1
  /\ UNCHANGED <<ticket, tickets, age, armed, wake, attempt, aborted, tornAt>>

(* The finally of execute() gives the slot back and drains. *)
Finish(r, outcome) ==
  /\ stage[r] = "running"
  /\ promise' = [promise EXCEPT ![r] = outcome]
  /\ UNCHANGED <<ticket, tickets>>
  /\ Drain(Waiting, active - 1, [stage EXCEPT ![r] = "done"])
  /\ UNCHANGED <<attempt, aborted, tornAt>>

(* run() settles; a rate-limit error does so only after the last retry. *)
Answer(r) ==
  /\ \E outcome \in {"resolved", "rejected"} : Finish(r, outcome)
  /\ UNCHANGED orphans

(* The timer of the attempt wins the race; run() is not stopped. *)
Timeout(r) ==
  /\ r \in Timed
  /\ Finish(r, "rejected")
  /\ orphans' = orphans \cup {r}

OrphanEnds(r) ==
  /\ r \in orphans
  /\ orphans' = orphans \ {r}
  /\ UNCHANGED <<stage, promise, ticket, tickets, active, age, armed, wake, attempt, aborted, tornAt>>

(* A rate-limit error before the last retry: the request backs off and     *)
(* keeps its slot.                                                         *)
RateLimited(r) ==
  /\ stage[r] = "running"
  /\ attempt[r] < MaxRetries
  /\ attempt' = [attempt EXCEPT ![r] = @ + 1]
  /\ stage' = [stage EXCEPT ![r] = "backoff"]
  /\ UNCHANGED <<promise, ticket, tickets, active, age, armed, wake, orphans, aborted, tornAt>>

(* The backoff is over: run() is called again. *)
Retry(r) ==
  /\ stage[r] = "backoff"
  /\ stage' = [stage EXCEPT ![r] = "running"]
  /\ UNCHANGED <<promise, ticket, tickets, active, age, armed, wake, attempt, orphans, aborted, tornAt>>
-----------------------------------------------------------------------------
(* Time.                                                                   *)

(* The wake-up timer fires, at its time or later. *)
Wake ==
  /\ armed
  /\ wake = 0
  /\ UNCHANGED <<ticket, tickets>>
  /\ Drain(Waiting, active, stage)
  /\ UNCHANGED <<promise, attempt, orphans, aborted, tornAt>>

Tick ==
  /\ age' = [r \in Requests |-> IF age[r] < Window THEN age[r] + 1 ELSE Window]
  /\ wake' = IF wake > 0 THEN wake - 1 ELSE 0
  /\ UNCHANGED <<stage, promise, ticket, tickets, active, armed, attempt, orphans, aborted, tornAt>>
-----------------------------------------------------------------------------
Execution(r) == Answer(r) \/ Timeout(r) \/ RateLimited(r)

Next ==
  \/ \E r \in Requests : \/ EnqueueRefused(r) \/ Enqueue(r) \/ Abort(r)
                         \/ Execution(r) \/ OrphanEnds(r) \/ Retry(r)
  \/ RejectAll
  \/ Wake
  \/ Tick

Spec == Init /\ [][Next]_vars

(* Timers fire, and an attempt with a timeout ends. *)
Fairness ==
  /\ WF_vars(Tick)
  /\ WF_vars(Wake)
  /\ \A r \in Requests : WF_vars(Retry(r))
  /\ \A r \in Timed : WF_vars(Execution(r))

FairSpec == Spec /\ Fairness
-----------------------------------------------------------------------------
(* Types: every variable has the shape its comment says. *)
TypeOK ==
  /\ stage \in [Requests -> Stages]
  /\ promise \in [Requests -> Promises]
  /\ ticket \in [Requests -> Nat]
  /\ tickets \in Nat
  /\ active \in Nat
  /\ age \in [Requests -> 0..Window]
  /\ armed \in BOOLEAN
  /\ wake \in 0..Window
  /\ attempt \in [Requests -> 0..MaxRetries]
  /\ orphans \subseteq Requests
  /\ aborted \subseteq Requests
  /\ tornAt \in Nat

(* core.active counts the executions exactly, and they keep within         *)
(* maxConcurrent through timeouts, backoffs, aborts and rejectAll().       *)
ConcurrencyBound ==
  /\ active = Cardinality(Busy)
  /\ active <= MaxConcurrent

(* "Maximum number of RPC requests started in any rolling one-second       *)
(* window": no interval of a second holds more starts, however the starts  *)
(* are spread over enqueues, completions and wake-ups (drain).             *)
WindowBound == Cardinality(Recent) <= RequestsPerSecond

(* A queue that holds requests always has someone left who will drain it:  *)
(* an execution in every slot, or the timer.                               *)
NoLostWakeup == Waiting # {} => active = MaxConcurrent \/ armed

(* A request that has been answered is neither queued nor executed: an     *)
(* abort, a rejectAll() and an execution never settle the same request.    *)
NeverRunsSettled == \A r \in Waiting \cup Busy : promise[r] = "pending"

(* "requests are executed in strict FIFO order when they have the same     *)
(* priority": none waits behind a later arrival that has started.          *)
FifoWithinPriority ==
  \A r \in Waiting, s \in Requests :
    /\ Priority[r] = Priority[s]
    /\ s \in Busy \/ promise[s] = "resolved"
    => ticket[s] < ticket[r]

(* Every request that entered the queue is answered, whatever waits ahead  *)
(* of it, when each attempt has a timeout.                                 *)
EveryRequestSettles == \A r \in Requests : stage[r] # "new" ~> promise[r] # "pending"
-----------------------------------------------------------------------------
(* What the documentation says and the code does not do.                   *)

(* maxConcurrent: "Maximum number of RPC requests in flight at once". *)
InFlightBound ==
  Cardinality({r \in Requests : stage[r] = "running"} \cup orphans) <= MaxConcurrent

(* requestsPerSecond "enforces rate limiting at the RPC server level": a   *)
(* retry is a request to the server too.                                   *)
RetryWithinRate ==
  [][\A r \in Requests : Retry(r) => Cardinality(Recent) < RequestsPerSecond]_vars

(* rejectAll(): "any requests enqueued after unmount/teardown do not run   *)
(* to completion".                                                         *)
NothingAfterTeardown ==
  \A r \in Requests : tornAt # 0 /\ ticket[r] >= tornAt => promise[r] # "resolved"
=============================================================================
