---------------------------- MODULE CachedReads ----------------------------
(***************************************************************************)
(* The read methods of SoroWillClient (getWill, getWills, getWillsByOwner, *)
(* getWillsByBeneficiary): a look at the read cache, a simulation shared   *)
(* by concurrent callers, and the fill of the cache; against it the ledger *)
(* that changes, the events that invalidate, the client's own writes and   *)
(* destroy().                                                              *)
(*                                                                         *)
(* Two maps share a simulation: inFlightReads, keyed by method, arguments  *)
(* and request options, and the in-flight tracker, keyed by method and     *)
(* arguments alone.  The cache is the one of module ReadCache without      *)
(* persistence; the ledger and its nodes are external.                     *)
(***************************************************************************)
EXTENDS Naturals, FiniteSets, FiniteSetsExt

CONSTANTS
  Calls,        (* Calls of the read methods.                              *)
  Queries,      (* Cache keys: a method with its arguments.                *)
  Options,      (* Request options that are part of the key of a read.     *)
  Wills,        (* Wills of the contract.                                  *)
  None,         (* No call, no entry.                                      *)
  QueryOf,      (* The query of each call.                                 *)
  OptionsOf,    (* The request options of each call.                       *)
  Covers,       (* The wills a query asks for.                             *)
  Lists,        (* Queries that return the wills that exist.               *)
  WithSignal,   (* Calls with options.signal: never shared.                *)
  MaxAttempts,  (* Option retry.maxAttempts.                               *)
  Created,      (* Wills that exist at the start.                          *)
  Events,       (* Bound: which events of the environment are explored.    *)
  MaxChanges    (* Bound: changes of the ledger explored.                  *)

ASSUME CachedReadsAssumption ==
  /\ None \notin Calls
  /\ QueryOf \in [Calls -> Queries]
  /\ OptionsOf \in [Calls -> Options]
  /\ Covers \in [Queries -> SUBSET Wills]
  /\ Lists \subseteq Queries
  /\ WithSignal \subseteq Calls
  /\ MaxAttempts \in Nat \ {0}
  /\ Created \subseteq Wills
  /\ Events \subseteq {"create", "batch", "expire", "age", "network", "destroy"}
  /\ MaxChanges \in Nat

VARIABLES
  version,    (* External: version of each will, 0 while it does not exist. *)
  ledgers,    (* External: the versions the ledger has had so far.          *)
  announced,  (* Version of each will that an invalidation has followed.    *)
  cache,      (* ReadCache.entries.                                         *)
  call,       (* Where each call is.                                        *)
  source,     (* The call whose simulation each call waits for.             *)
  read,       (* Where _readOnce() of each call is.                         *)
  attempt,    (* Attempts withRetry() has made for it.                      *)
  seen,       (* What its simulation returned, None before.                 *)
  outdated,   (* Simulations whose answer was behind what was announced, or *)
              (* was overtaken by an announcement on its way.               *)
  inFlightReads, (* The call that leads each shared read.                   *)
  entry,      (* The tracker's entry of each query: the call that reads.    *)
  destroyed   (* destroy() was called.                                      *)

ledgerVars == <<version, ledgers, announced, destroyed>>
callVars == <<call, source>>
readVars == <<read, attempt, seen, outdated>>
shareVars == <<inFlightReads, entry>>
vars == <<ledgerVars, cache, callVars, readVars, shareVars>>

CallStates == {"idle", "waiting", "ok", "failed"}
ReadStates == {"none", "simulate", "answer", "pause"}
Running == {"simulate", "answer", "pause"}
Keys == Queries \X Options
KeyOf(c) == <<QueryOf[c], OptionsOf[c]>>
Versions == [Wills -> 0..(MaxChanges + 1)]
Changes == MapThenSumSet(LAMBDA w : version[w], Wills) - Cardinality(Created)

(* What a node with this ledger returns for q: the versions of its wills. *)
Answer(q, ledger) == [w \in Covers[q] |-> ledger[w]]

(* A single will that does not exist is an error of the contract. *)
Exists(q, ledger) == q \in Lists \/ \A w \in Covers[q] : ledger[w] # 0

(* The will ids an entry is indexed under: the requested ones, or those of *)
(* the wills a list returned.                                              *)
IndexOf(q, data) ==
  IF q \in Lists THEN {w \in Covers[q] : data[w] # 0} ELSE Covers[q]

Init ==
  /\ version = [w \in Wills |-> IF w \in Created THEN 1 ELSE 0]
  /\ ledgers = {version}
  /\ announced = version
  /\ cache = [q \in Queries |-> None]
  /\ call = [c \in Calls |-> "idle"]
  /\ source = [c \in Calls |-> None]
  /\ read = [c \in Calls |-> "none"]
  /\ attempt = [c \in Calls |-> 0]
  /\ seen = [c \in Calls |-> None]
  /\ outdated = {}
  /\ inFlightReads = [k \in Keys |-> None]
  /\ entry = [q \in Queries |-> None]
  /\ destroyed = FALSE
-----------------------------------------------------------------------------
(* The calls.                                                              *)

(* The value is in the cache. *)
Hit(c) ==
  /\ call[c] = "idle"
  /\ cache[QueryOf[c]] # None
  /\ call' = [call EXCEPT ![c] = "ok"]
  /\ UNCHANGED <<ledgerVars, cache, source, readVars, shareVars>>

Miss(c) == call[c] = "idle" /\ cache[QueryOf[c]] = None

(* The call waits for the simulation of s. *)
Await(c, s) ==
  /\ call' = [call EXCEPT ![c] = "waiting"]
  /\ source' = [source EXCEPT ![c] = s]

(* _readOnce() of c starts: the contract spec, its turn, the simulation. *)
Begin(c) ==
  /\ Await(c, c)
  /\ read' = [read EXCEPT ![c] = "simulate"]
  /\ attempt' = [attempt EXCEPT ![c] = 1]
  /\ UNCHANGED <<seen, outdated>>

(* A read with a signal is never shared. *)
ReadAlone(c) ==
  /\ Miss(c)
  /\ c \in WithSignal
  /\ Begin(c)
  /\ UNCHANGED <<ledgerVars, cache, shareVars>>

(* inFlightReads has the same read with the same options. *)
JoinRead(c) ==
  /\ Miss(c)
  /\ c \notin WithSignal
  /\ inFlightReads[KeyOf(c)] # None
  /\ Await(c, source[inFlightReads[KeyOf(c)]])
  /\ UNCHANGED <<ledgerVars, cache, readVars, shareVars>>

(* The tracker has the same read with other options. *)
JoinTracked(c) ==
  /\ Miss(c)
  /\ c \notin WithSignal
  /\ inFlightReads[KeyOf(c)] = None
  /\ entry[QueryOf[c]] # None
  /\ Await(c, entry[QueryOf[c]])
  /\ inFlightReads' = [inFlightReads EXCEPT ![KeyOf(c)] = c]
  /\ UNCHANGED <<ledgerVars, cache, readVars, entry>>

(* A new shared read. *)
StartRead(c) ==
  /\ Miss(c)
  /\ c \notin WithSignal
  /\ inFlightReads[KeyOf(c)] = None
  /\ entry[QueryOf[c]] = None
  /\ Begin(c)
  /\ inFlightReads' = [inFlightReads EXCEPT ![KeyOf(c)] = c]
  /\ entry' = [entry EXCEPT ![QueryOf[c]] = c]
  /\ UNCHANGED <<ledgerVars, cache>>
-----------------------------------------------------------------------------
(* _readOnce().                                                            *)

(* The finally clauses of both maps: each removes only what is its own. *)
Unshare(c) ==
  /\ entry' = [q \in Queries |-> IF entry[q] = c THEN None ELSE entry[q]]
  /\ inFlightReads' = [k \in Keys |->
       IF inFlightReads[k] # None /\ source[inFlightReads[k]] = c
       THEN None ELSE inFlightReads[k]]

(* The calls that share the simulation of c. *)
WaitingFor(c) == {d \in Calls : call[d] = "waiting" /\ source[d] = c}

(* The simulation of c is over, for every call that waits for it. *)
Settle(c, outcome) ==
  /\ read' = [read EXCEPT ![c] = "none"]
  /\ attempt' = [attempt EXCEPT ![c] = 0]
  /\ seen' = [seen EXCEPT ![c] = None]
  /\ outdated' = outdated \ {c}
  /\ call' = [d \in Calls |-> IF d \in WaitingFor(c) THEN outcome ELSE call[d]]
  /\ source' = [d \in Calls |-> IF d \in WaitingFor(c) THEN None ELSE source[d]]
  /\ Unshare(c)
  /\ UNCHANGED ledgerVars

(* What the callers of c store in the cache and return. *)
Result(c) == [data |-> seen[c], late |-> c \in outdated]

(* The simulation ends well: every caller that waits for it fills the cache. *)
Succeed(c) ==
  /\ read[c] = "answer"
  /\ Settle(c, "ok")
  /\ cache' = [cache EXCEPT ![QueryOf[c]] = Result(c)]

Fail(c) == Settle(c, "failed") /\ UNCHANGED cache

ReadGoto(c, from, to) ==
  /\ read[c] = from
  /\ read' = [read EXCEPT ![c] = to]

(* The data is older than what was announced of a will it is indexed under. *)
Behind(q, data) == \E w \in IndexOf(q, data) : data[w] < announced[w]

(* A node executes the simulation on the ledger it has.  withFailover()    *)
(* asks any of the endpoints, and the events come from another source: the *)
(* node may lag behind the ledger and behind what was announced.           *)
Simulate(c) ==
  /\ ReadGoto(c, "simulate", "answer")
  /\ \E ledger \in ledgers :
       LET data == Answer(QueryOf[c], ledger) IN
       /\ Exists(QueryOf[c], ledger)
       /\ seen' = [seen EXCEPT ![c] = data]
       /\ outdated' = IF Behind(QueryOf[c], data) THEN outdated \cup {c} ELSE outdated
  /\ UNCHANGED <<ledgerVars, cache, callVars, attempt, shareVars>>

(* withRetry(): a failed request is made again after a pause. *)
AttemptFails(c) ==
  /\ read[c] \in {"simulate", "answer"}
  /\ attempt[c] < MaxAttempts
  /\ read' = [read EXCEPT ![c] = "pause"]
  /\ seen' = [seen EXCEPT ![c] = None]
  /\ outdated' = outdated \ {c}
  /\ UNCHANGED <<ledgerVars, cache, callVars, attempt, shareVars>>

NextAttempt(c) ==
  /\ ReadGoto(c, "pause", "simulate")
  /\ attempt' = [attempt EXCEPT ![c] = @ + 1]
  /\ UNCHANGED <<ledgerVars, cache, callVars, seen, outdated, shareVars>>

(* The spec cannot be fetched, the attempts are used up, the request timed *)
(* out, the simulation reports an error, or destroy() rejects the request. *)
ReadFails(c) == read[c] \in {"simulate", "answer"} /\ Fail(c)

(* options.signal fires: the queue rejects the request. *)
Abort(c) ==
  /\ c \in WithSignal
  /\ read[c] \in Running \ {"pause"}
  /\ Fail(c)
-----------------------------------------------------------------------------
(* Changes of the ledger and what the client hears of them.                *)

(* Mutant: only the entry of the will itself is looked up. *)
InvalidateOneWill(S) ==
  cache' = [q \in Queries |->
    IF cache[q] # None /\ q \notin Lists /\ IndexOf(q, cache[q].data) \cap S # {}
    THEN None ELSE cache[q]]

(* invalidateByWillId() of each will of S. *)
Invalidate(S) ==
  cache' = [q \in Queries |->
    IF cache[q] # None /\ IndexOf(q, cache[q].data) \cap S # {}
    THEN None ELSE cache[q]]

(* The invalidation of the wills of S, and the reads it comes too late for. *)
Announce(S) ==
  /\ Invalidate(S)
  /\ announced' = [w \in Wills |-> IF w \in S THEN version[w] ELSE announced[w]]
  /\ outdated' = outdated \cup
       {c \in Calls : read[c] = "answer" /\ Covers[QueryOf[c]] \cap S # {}}
  /\ UNCHANGED <<callVars, read, attempt, seen, shareVars>>

(* A transaction changes will w: another client's or this one's.  Of this  *)
(* client's write methods only batchSequential() invalidates, at its end.  *)
Write(w) ==
  /\ version[w] # 0 /\ Changes < MaxChanges
  /\ version' = [version EXCEPT ![w] = @ + 1]
  /\ ledgers' = ledgers \cup {version'}
  /\ UNCHANGED <<announced, destroyed, cache, callVars, readVars, shareVars>>

Create(w) ==
  /\ "create" \in Events
  /\ version[w] = 0 /\ Changes < MaxChanges
  /\ version' = [version EXCEPT ![w] = 1]
  /\ ledgers' = ledgers \cup {version'}
  /\ UNCHANGED <<announced, destroyed, cache, callVars, readVars, shareVars>>

(* The event source delivers an event of will w. *)
EventArrives(w) ==
  /\ ~destroyed
  /\ announced[w] # version[w]
  /\ Announce({w})
  /\ UNCHANGED <<version, ledgers, destroyed>>

(* The queue of batchSequential() has ended: it wrote the wills of S, and   *)
(* what was cached of them is dropped, events or none.                      *)
BatchEnds(S) ==
  /\ "batch" \in Events
  /\ S # {} /\ \A w \in S : announced[w] # version[w]
  /\ Announce(S)
  /\ UNCHANGED <<version, ledgers, destroyed>>

(* An entry passes its TTL, or is evicted at capacity. *)
Expire(q) ==
  /\ "expire" \in Events
  /\ cache[q] # None
  /\ cache' = [cache EXCEPT ![q] = None]
  /\ UNCHANGED <<ledgerVars, callVars, readVars, shareVars>>

(* Mutant: the other map forgets the read as well. *)
EntryAgesInBoth(q) ==
  /\ "age" \in Events
  /\ entry[q] # None
  /\ entry' = [entry EXCEPT ![q] = None]
  /\ inFlightReads' = [k \in Keys |-> IF k[1] = q THEN None ELSE inFlightReads[k]]
  /\ UNCHANGED <<ledgerVars, cache, callVars, readVars>>

(* The tracker's entry passes its TTL or is evicted; the read goes on. *)
EntryAges(q) ==
  /\ "age" \in Events
  /\ entry[q] # None
  /\ entry' = [entry EXCEPT ![q] = None]
  /\ UNCHANGED <<ledgerVars, cache, callVars, readVars, inFlightReads>>

(* The wallet reports another network: the cache is cleared. *)
NetworkChanges ==
  /\ "network" \in Events
  /\ cache' = [q \in Queries |-> None]
  /\ UNCHANGED <<ledgerVars, callVars, readVars, shareVars>>

(* destroy(): no events any more, both maps are emptied; the reads go on. *)
Destroy ==
  /\ "destroy" \in Events
  /\ ~destroyed
  /\ destroyed' = TRUE
  /\ inFlightReads' = [k \in Keys |-> None]
  /\ entry' = [q \in Queries |-> None]
  /\ UNCHANGED <<version, ledgers, announced, cache, callVars, readVars>>
-----------------------------------------------------------------------------
CallStep(c) == Hit(c) \/ ReadAlone(c) \/ JoinRead(c) \/ JoinTracked(c) \/ StartRead(c)

ReadStep(c) ==
  \/ Simulate(c) \/ Succeed(c)
  \/ AttemptFails(c) \/ NextAttempt(c) \/ ReadFails(c)

ReadsNext ==
  \/ \E c \in Calls : CallStep(c) \/ ReadStep(c) \/ Abort(c)
  \/ \E w \in Wills : Write(w) \/ Create(w) \/ EventArrives(w)
  \/ \E q \in Queries : Expire(q)
  \/ \E S \in SUBSET Wills : BatchEnds(S)
  \/ NetworkChanges \/ Destroy

Next == ReadsNext \/ \E q \in Queries : EntryAges(q)

Spec == Init /\ [][Next]_vars
-----------------------------------------------------------------------------
Results == {None} \cup [data : UNION {[Covers[q] -> 0..(MaxChanges + 1)] : q \in Queries},
                        late : BOOLEAN]

(* Types: every variable has the shape its comment says. *)
TypeOK ==
  /\ version \in Versions /\ announced \in Versions
  /\ ledgers \subseteq Versions /\ version \in ledgers
  /\ \A q \in Queries : cache[q] \in Results
  /\ call \in [Calls -> CallStates]
  /\ source \in [Calls -> Calls \cup {None}]
  /\ read \in [Calls -> ReadStates]
  /\ attempt \in [Calls -> 0..MaxAttempts]
  /\ outdated \subseteq Calls
  /\ inFlightReads \in [Keys -> Calls \cup {None}]
  /\ entry \in [Queries -> Calls \cup {None}]

(* "cached will reads will be invalidated automatically when matching will *)
(* events arrive" (README, Event source): no entry is older than what was  *)
(* announced of the wills it is indexed under, unless its answer was so    *)
(* when it was stored: because a node that lagged behind the announcement  *)
(* gave it, or because it was given before the announcement and arrived    *)
(* after it (NothingStaleIsStored).  What is in the cache when the         *)
(* announcement comes never survives it, lists included.                   *)
CacheFollowsEvents ==
  \A q \in Queries : cache[q] # None /\ ~cache[q].late =>
    \A w \in IndexOf(q, cache[q].data) : cache[q].data[w] >= announced[w]

(* Nobody waits for a read that nobody makes, and what is shared is the    *)
(* read asked for.                                                         *)
NobodyForgotten ==
  \A c \in Calls : call[c] = "waiting" =>
    /\ read[source[c]] \in Running
    /\ QueryOf[source[c]] = QueryOf[c]
    /\ source[c] \in WithSignal => source[c] = c

(* A second simulation of the same key runs only after destroy(), or when  *)
(* it has a signal: as long as the read goes on, the tracker's expiry and  *)
(* eviction do not start another.                                          *)
OneSimulation ==
  \A c, d \in Calls \ WithSignal :
    /\ c # d /\ KeyOf(c) = KeyOf(d)
    /\ read[c] \in Running /\ read[d] \in Running
    => destroyed

(* Concurrent callers share one simulation (#504, #619) and each is        *)
(* answered by it, whatever the others, expiry and destroy() do.           *)
ReadsAreShared == NobodyForgotten /\ OneSimulation
-----------------------------------------------------------------------------
(* What the documentation says and the code does not do.                   *)

(* A created will belongs to lists that are cached without it. *)
ListsFollowEvents ==
  \A q \in Queries : cache[q] # None /\ ~cache[q].late =>
    \A w \in Covers[q] : cache[q].data[w] >= announced[w]

(* An invalidation is never followed by something older in the cache. *)
NothingStaleIsStored ==
  \A q \in Queries : cache[q] # None =>
    \A w \in IndexOf(q, cache[q].data) : cache[q].data[w] >= announced[w]
=============================================================================
