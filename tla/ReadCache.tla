----------------------------- MODULE ReadCache -----------------------------
(***************************************************************************)
(* ReadCache: cached reads in a map kept in LRU order, an index from will  *)
(* ids to the keys that mention them, and an optional persistence adapter  *)
(* whose mutations go through a lock, one at a time.  A new cache hydrates *)
(* from the adapter while it is already in use.                            *)
(*                                                                         *)
(* get, set, clear and the parts of the asynchronous methods between two   *)
(* awaits run to completion on the event loop: each is one action, the     *)
(* eviction it ends with included.  The adapter answers in its own time    *)
(* and may fail.  Values are versions: the n-th call of set() stores n.    *)
(***************************************************************************)
EXTENDS Naturals, Sequences, FiniteSets, SequencesExt, Filters

CONSTANTS
  CacheKeys,   (* Results of createReadCacheKey.                             *)
  WillIds,     (* Will ids that entries refer to.                            *)
  Networks,    (* Network passphrases.                                       *)
  None,        (* No entry, no document.                                     *)
  MaxEntries,  (* Option maxEntries.                                         *)
  Rollback,    (* Option rollbackOnPersistenceFailure.                       *)
  ZeroTtls,    (* Whether option ttlMs may be 0, for each new cache.         *)
  Document,    (* The adapter keeps all entries in one document              *)
               (* (LocalStorageCachePersistenceAdapter).                     *)
  Stored,      (* What an earlier session left in the adapter: versions 1..n *)
               (* for n entries.                                             *)
  MaxSets,     (* Bound: versions written, those of Stored included.         *)
  MaxLock,     (* Bound: mutations waiting for the lock.                     *)
  Asked,       (* Bound: the keys that callers ask for.                      *)
  Events       (* Bound: which calls and failures are explored.              *)

Entries == [ver : Nat, ids : SUBSET WillIds, net : Networks, ok : BOOLEAN]
Stores == [CacheKeys -> Entries \cup {None}]

ASSUME ReadCacheAssumption ==
  /\ IsFiniteSet(CacheKeys)
  /\ None \notin Entries
  /\ MaxEntries \in Nat \ {0}
  /\ Rollback \in BOOLEAN
  /\ ZeroTtls \subseteq BOOLEAN
  /\ Document \in BOOLEAN
  /\ Stored \in Stores
  /\ MaxSets \in Nat
  /\ MaxLock \in Nat
  /\ \A k \in CacheKeys : Stored[k] # None =>
       Stored[k].ver \in 1..Cardinality({j \in CacheKeys : Stored[j] # None})

ASSUME AskedAssumption == Asked \subseteq CacheKeys

VARIABLES
  mem,      (* The entry of each key in `entries`.                           *)
  order,    (* Iteration order of `entries`, least recently used first.      *)
  index,    (* willIdToKeys.                                                 *)
  touched,  (* touchedKeys.                                                  *)
  cleared,  (* clearedBeforeHydration.                                       *)
  network,  (* networkPassphrase.                                            *)
  zeroTtl,  (* ttlMs is 0.                                                   *)
  hyd,      (* Where hydrate() is; readyPromise settles with it.             *)
  rest,     (* Persisted entries the loop of hydrate() has still to visit.   *)
  hydNow,   (* `now` of hydrate().                                           *)
  written,  (* writtenDuringHydration.                                       *)
  lock,     (* Mutations that wait for the persistence lock, head first.     *)
  doc,      (* The document the head has read, None before it starts.        *)
  loose,    (* Deletions of expired entries, which do not take the lock.     *)
  store,    (* External: what the adapter holds.                             *)
  clock,    (* Versions written so far.                                      *)
  horizon,  (* Versions up to this one have reached their expiresAt.         *)
  gone,     (* For each key, the newest version whose deletion the adapter   *)
            (* has confirmed.                                                *)
  faulty,   (* The adapter has failed in this session.                       *)
  seen,     (* History: the newest version of each key that the memory has   *)
            (* held in this session, forgotten when the key is rolled back.  *)
  overdue   (* History: hydration has loaded entries, and evictIfNeeded()    *)
            (* has not run since.                                            *)

memVars == <<mem, order, index, touched, cleared, network, zeroTtl>>
history == <<seen, overdue>>
hydVars == <<hyd, rest, hydNow, written, history>>
adapterVars == <<lock, doc, loose, store, gone, faulty>>
timeVars == <<clock, horizon>>
vars == <<memVars, hydVars, adapterVars, timeVars>>

Nothing == [k \in CacheKeys |-> None]
HydStates == {"reading", "deleting", "resuming", "ready", "failed"}

Expired(e) == e.ver <= horizon

(* A new cache over what the adapter holds: the constructor calls hydrate()*)
(* and the client scopes the cache to its network.                         *)
Fresh ==
  /\ mem' = Nothing /\ order' = <<>>
  /\ index' = [w \in WillIds |-> {}]
  /\ touched' = {} /\ cleared' = FALSE
  /\ network' \in Networks /\ zeroTtl' \in ZeroTtls
  /\ hyd' = "reading" /\ rest' = Nothing /\ hydNow' = 0 /\ written' = <<>>
  /\ lock' = <<>> /\ doc' = None /\ loose' = {} /\ faulty' = FALSE
  /\ seen' = [k \in CacheKeys |-> 0] /\ overdue' = FALSE

Init ==
  /\ mem = Nothing /\ order = <<>>
  /\ index = [w \in WillIds |-> {}]
  /\ touched = {} /\ cleared = FALSE
  /\ network \in Networks /\ zeroTtl \in ZeroTtls
  /\ hyd = "reading" /\ rest = Nothing /\ hydNow = 0 /\ written = <<>>
  /\ lock = <<>> /\ doc = None /\ loose = {} /\ faulty = FALSE
  /\ seen = [k \in CacheKeys |-> 0] /\ overdue = FALSE
  /\ store = Stored
  /\ clock = Cardinality({k \in CacheKeys : Stored[k] # None})
  /\ horizon \in IF "expire" \in Events THEN 0..clock ELSE {0}
  /\ gone = [k \in CacheKeys |-> 0]
-----------------------------------------------------------------------------
(* Mutations of the adapter.                                               *)

(* `upto` is the newest version that exists when the deletion is asked for *)
(* by an invalidation or an eviction.                                      *)
WriteOp(k, e) == [kind |-> "write", key |-> k, entry |-> e, upto |-> 0, by |-> "set"]
DeleteOp(k, by) ==
  [kind |-> "delete", key |-> k, entry |-> None, upto |-> IF by = "set" THEN 0 ELSE clock', by |-> by]
ClearOp == [kind |-> "clear", key |-> None, entry |-> None, upto |-> clock', by |-> "cache"]

(* What a mutation makes of the content s. *)
Effect(op, s) ==
  CASE op.kind = "write" -> [s EXCEPT ![op.key] = op.entry]
    [] op.kind = "delete" -> [s EXCEPT ![op.key] = None]
    [] op.kind = "clear" -> Nothing

Deletes(ks) == [i \in 1..Len(ks) |-> DeleteOp(ks[i], "cache")]

Without(o, k) == Kept(o, CacheKeys \ {k})

ToEnd(o, k) == Append(Without(o, k), k)

(* The keys evictIfNeeded() drops from entries m in order o: expired ones  *)
(* first, then the least recently used.                                    *)
Stale(o, m) == Kept(o, {k \in ToSet(o) : Expired(m[k])})
Lively(o, m) == Kept(o, {k \in ToSet(o) : ~Expired(m[k])})

(* Mutant: one entry too many is kept. *)
VictimsOffByOne(o, m) ==
  IF Len(o) <= MaxEntries + 1 THEN <<>> ELSE Stale(o, m)

Victims(o, m) ==
  IF Len(o) <= MaxEntries THEN <<>>
  ELSE Stale(o, m) \o
       SubSeq(Lively(o, m), 1, Len(Lively(o, m)) - MaxEntries)

(* The history remembers the versions that are in memory after the step.   *)
Sees ==
  seen' = [k \in CacheKeys |->
             IF mem'[k] # None /\ seen[k] < mem'[k].ver THEN mem'[k].ver ELSE seen[k]]

(* Mutant: what is evicted stays in the adapter. *)
SettleInMemory(m, o, ts, ops) ==
  LET victims == ToSet(Victims(o, m)) IN
    /\ order' = Kept(o, CacheKeys \ victims)
    /\ mem' = [k \in CacheKeys |-> IF k \in victims THEN None ELSE m[k]]
    /\ touched' = touched \cup ts \cup victims
    /\ lock' = lock \o ops
    /\ Sees /\ overdue' = FALSE

(* Ends a method that has made the entries m in order o, with `ops` put on *)
(* the lock and the keys `ts` touched, by evictIfNeeded().                 *)
Settle(m, o, ts, ops) ==
  LET victims == ToSet(Victims(o, m)) IN
    /\ order' = Kept(o, CacheKeys \ victims)
    /\ mem' = [k \in CacheKeys |-> IF k \in victims THEN None ELSE m[k]]
    /\ touched' = touched \cup ts \cup victims
    /\ lock' = lock \o ops \o Deletes(Victims(o, m))
    /\ Sees /\ overdue' = FALSE

(* Mutant: a will id that has a set already is passed over. *)
IndexedOnce(ix, k, ids) ==
  [w \in WillIds |-> IF w \in ids /\ ix[w] = {} THEN {k} ELSE ix[w]]

(* The index with key k under each of its will ids. *)
Indexed(ix, k, ids) == [w \in WillIds |-> IF w \in ids THEN ix[w] \cup {k} ELSE ix[w]]
-----------------------------------------------------------------------------
(* Calls.                                                                  *)

(* get() of an entry in time makes it the most recently used. *)
GetHit(k) ==
  /\ mem[k] # None
  /\ ~Expired(mem[k])
  /\ order' = ToEnd(order, k)
  /\ UNCHANGED <<mem, index, touched, cleared, network, zeroTtl, hydVars, adapterVars, timeVars>>

(* get() of an expired entry: invalidateExpired() drops it, and deletes it *)
(* from the adapter without the lock.  A document is read at the call.     *)
GetExpired(k) ==
  /\ mem[k] # None
  /\ Expired(mem[k])
  /\ touched' = touched \cup {k}
  /\ mem' = [mem EXCEPT ![k] = None]
  /\ order' = Without(order, k)
  /\ loose' = loose \cup {[key |-> k, doc |-> IF Document THEN store ELSE None]}
  /\ UNCHANGED <<index, cleared, network, zeroTtl, hydVars, lock, doc, store, gone, faulty, timeVars>>

Set(k, ids) ==
  LET entry == [ver |-> clock + 1, ids |-> ids, net |-> network, ok |-> TRUE] IN
    /\ ~zeroTtl
    /\ clock < MaxSets
    /\ Len(lock) < MaxLock
    /\ clock' = clock + 1
    /\ index' = Indexed(index, k, ids)
    /\ Settle([mem EXCEPT ![k] = entry], ToEnd(order, k), {k}, <<WriteOp(k, entry)>>)
    /\ UNCHANGED <<cleared, network, zeroTtl, hyd, rest, hydNow, written, doc, loose, store,
                   gone, faulty, horizon>>

(* set() with a ttlMs of 0 stores nothing and deletes what is persisted. *)
SetUncached(k) ==
  /\ zeroTtl
  /\ Len(lock) < MaxLock
  /\ UNCHANGED clock
  /\ touched' = touched \cup {k}
  /\ lock' = Append(lock, DeleteOp(k, "set"))
  /\ UNCHANGED <<mem, order, index, cleared, network, zeroTtl, hydVars, doc, loose, store, gone, faulty, horizon>>

(* delete() of each key of ks, one after the other, up to its await. *)
DeleteKeys(ks) ==
  /\ Len(lock) < MaxLock
  /\ UNCHANGED clock
  /\ touched' = touched \cup ks
  /\ index' = [w \in WillIds |->
       index[w] \ {k \in ks : mem[k] # None /\ w \in mem[k].ids}]
  /\ mem' = [k \in CacheKeys |-> IF k \in ks THEN None ELSE mem[k]]
  /\ order' = Kept(order, CacheKeys \ ks)
  /\ \E s \in SetToSeqs(ks) : lock' = lock \o Deletes(s)
  /\ UNCHANGED <<cleared, network, zeroTtl, hydVars, doc, loose, store, gone, faulty, horizon>>

(* The three invalidations wait for ready() first and reject with it. *)
Invalidate(k) == hyd = "ready" /\ DeleteKeys({k})

InvalidateByWillId(w) == hyd = "ready" /\ index[w] # {} /\ DeleteKeys(index[w])

Empty ==
  /\ Len(lock) < MaxLock
  /\ UNCHANGED clock
  /\ mem' = Nothing
  /\ order' = <<>>
  /\ index' = [w \in WillIds |-> {}]
  /\ lock' = Append(lock, ClearOp)
  /\ UNCHANGED <<touched, zeroTtl, hydVars, doc, loose, store, gone, faulty, horizon>>

(* Mutant: invalidateAll() does not wait for hydration. *)
InvalidateAllAtOnce ==
  /\ Empty
  /\ UNCHANGED <<cleared, network>>

InvalidateAll ==
  /\ hyd = "ready"
  /\ Empty
  /\ UNCHANGED <<cleared, network>>

Clear ==
  /\ Empty
  /\ cleared' = TRUE
  /\ UNCHANGED network

(* setNetwork(): another network than before clears the cache. *)
SetNetwork(n) ==
  /\ n # network
  /\ Empty
  /\ cleared' = TRUE
  /\ network' = n
-----------------------------------------------------------------------------
(* hydrate().                                                              *)

Persisted(r) == {k \in CacheKeys : r[k] # None}

(* Mutant: touched keys are loaded too. *)
LoadableAll(ks) == ks

(* What the loop loads of the keys it passes: those not touched. *)
Loadable(ks) == ks \ touched

(* An entry the loop deletes from the adapter: expired, or not readable.   *)
Discarded(k, r, now) == k \notin touched /\ (r[k].ver <= now \/ ~r[k].ok)

(* Entries set while hydration was on its way go behind the loaded ones,   *)
(* when they are still the same.                                           *)
Behind(o, m, ws) ==
  LET same == {ws[i].key : i \in {j \in 1..Len(ws) : m[ws[j].key] = ws[j].entry}}
  IN  Kept(o, CacheKeys \ same) \o Kept(o, same)

(* The loop of hydrate() over the entries r, in the adapter's order, up to *)
(* its next await or its end.  A touched key is passed over.               *)
Loop(r, now, ws) ==
  \E passed \in SUBSET Persisted(r) :
    LET loaded == Loadable(passed)
        m == [k \in CacheKeys |-> IF k \in loaded THEN r[k] ELSE mem[k]]
    IN
    /\ \A k \in passed : ~Discarded(k, r, now)
    /\ index' = [w \in WillIds |-> index[w] \cup {k \in loaded : w \in r[k].ids}]
    /\ hydNow' = now
    /\ written' = ws
    /\ \E s \in SetToSeqs(loaded) :
         \/ /\ passed = Persisted(r)
            /\ hyd' = "ready"
            /\ rest' = Nothing
            /\ Settle(m, Behind(order \o s, m, ws), {}, <<>>)
         \/ \E b \in Persisted(r) \ passed :
              /\ Discarded(b, r, now)
              /\ hyd' = "deleting"
              /\ rest' = [k \in CacheKeys |-> IF k \in passed \cup {b} THEN None ELSE r[k]]
              /\ mem' = m
              /\ order' = order \o s
              /\ lock' = Append(lock, DeleteOp(b, "hydrate"))
              /\ Sees /\ overdue' = TRUE
              /\ UNCHANGED touched

(* readAll() answers.  A clear() made before keeps the cache empty. *)
HydrateRead ==
  /\ hyd = "reading"
  /\ UNCHANGED clock
  /\ IF cleared
     THEN /\ hyd' = "ready"
          /\ UNCHANGED <<mem, order, index, touched, rest, hydNow, written, lock, history>>
     ELSE Loop(store, horizon, [i \in 1..Len(order) |-> [key |-> order[i], entry |-> mem[order[i]]]])
  /\ UNCHANGED <<cleared, network, zeroTtl, doc, loose, store, gone, faulty, horizon>>

HydrateReadFails ==
  /\ hyd = "reading"
  /\ hyd' = "failed"
  /\ faulty' = TRUE
  /\ UNCHANGED <<memVars, rest, hydNow, written, history, lock, doc, loose, store, gone, timeVars>>

HydrateResume ==
  /\ hyd = "resuming"
  /\ UNCHANGED clock
  /\ Loop(rest, hydNow, written)
  /\ UNCHANGED <<cleared, network, zeroTtl, doc, loose, store, gone, faulty, horizon>>
-----------------------------------------------------------------------------
(* The adapter and the lock.                                               *)

(* The head of the lock is called; a document is read at the call. *)
Start ==
  /\ lock # <<>>
  /\ doc = None
  /\ doc' = IF Document THEN store ELSE Nothing
  /\ UNCHANGED <<memVars, hydVars, lock, loose, store, gone, faulty, timeVars>>

(* The adapter carries the head out, and the lock passes on. *)
End ==
  LET op == Head(lock) IN
    /\ doc # None
    /\ store' = Effect(op, IF Document THEN doc ELSE store)
    /\ gone' = [k \in CacheKeys |->
         IF (op.kind = "clear" \/ (op.kind = "delete" /\ op.key = k)) /\ gone[k] < op.upto
         THEN op.upto ELSE gone[k]]
    /\ hyd' = IF op.by = "hydrate" THEN "resuming" ELSE hyd
    /\ lock' = Tail(lock)
    /\ doc' = None
    /\ UNCHANGED <<memVars, rest, hydNow, written, history, loose, faulty, timeVars>>

(* Mutant: a failed mutation keeps the lock, and those behind it are lost. *)
EndFailedLocked ==
  /\ doc # None
  /\ lock' = <<>>
  /\ doc' = None
  /\ faulty' = TRUE
  /\ UNCHANGED <<memVars, hydVars, loose, store, gone, timeVars>>

(* The adapter fails.  The lock passes on all the same; a failed write may *)
(* roll the entry back; hydrate() does not catch it and rejects.           *)
EndFailed ==
  LET op == Head(lock)
      undo == op.kind = "write" /\ Rollback
  IN
    /\ doc # None
    /\ mem' = IF undo THEN [mem EXCEPT ![op.key] = None] ELSE mem
    /\ order' = IF undo THEN Without(order, op.key) ELSE order
    /\ touched' = IF undo THEN touched \ {op.key} ELSE touched
    /\ seen' = IF undo THEN [seen EXCEPT ![op.key] = 0] ELSE seen
    /\ hyd' = IF op.by = "hydrate" THEN "failed" ELSE hyd
    /\ lock' = Tail(lock)
    /\ doc' = None
    /\ faulty' = TRUE
    /\ UNCHANGED <<index, cleared, network, zeroTtl, rest, hydNow, written, overdue, loose, store,
                   gone, timeVars>>

(* A deletion that did not take the lock is carried out, or fails. *)
LooseEnd(l) ==
  /\ loose' = loose \ {l}
  /\ store' = [(IF Document THEN l.doc ELSE store) EXCEPT ![l.key] = None]
  /\ UNCHANGED <<memVars, hydVars, lock, doc, gone, faulty, timeVars>>

LooseFails(l) ==
  /\ loose' = loose \ {l}
  /\ faulty' = TRUE
  /\ UNCHANGED <<memVars, hydVars, lock, doc, store, gone, timeVars>>

(* Time passes: entries reach their expiresAt in the order they were set. *)
Expire ==
  /\ horizon' \in (horizon + 1)..clock
  /\ UNCHANGED <<memVars, hydVars, adapterVars, clock>>

(* The process ends at any point, and a new one opens the same adapter. *)
Restart ==
  /\ Fresh
  /\ UNCHANGED <<store, gone, timeVars>>
-----------------------------------------------------------------------------
Call ==
  \/ \E k \in Asked :
       \/ GetHit(k)
       \/ GetExpired(k)
       \/ \E ids \in SUBSET WillIds : Set(k, ids)
       \/ SetUncached(k)
       \/ "invalidate" \in Events /\ Invalidate(k)
  \/ "byWill" \in Events /\ \E w \in WillIds : InvalidateByWillId(w)
  \/ "all" \in Events /\ InvalidateAll
  \/ "clear" \in Events /\ Clear
  \/ "network" \in Events /\ \E n \in Networks : SetNetwork(n)

AdapterAnswers ==
  \/ HydrateRead
  \/ HydrateResume
  \/ Start
  \/ End
  \/ \E l \in loose : LooseEnd(l)

AdapterFails ==
  \/ HydrateReadFails
  \/ EndFailed
  \/ \E l \in loose : LooseFails(l)

Adapter == AdapterAnswers \/ ("fail" \in Events /\ AdapterFails)

Next ==
  \/ Call
  \/ Adapter
  \/ "expire" \in Events /\ Expire
  \/ "restart" \in Events /\ Restart

Spec == Init /\ [][Next]_vars

(* HydrateRead and HydrateResume, which can always be taken where hydrate() *)
(* waits for nothing but its turn.                                         *)
Hydrates == hyd \in {"reading", "resuming"} /\ hyd' \in {"deleting", "ready"}

(* The adapter answers every call, with success or failure. *)
Fairness ==
  /\ WF_hyd(Hydrates)
  /\ WF_vars(Start)
  /\ WF_vars(End \/ EndFailed)
-----------------------------------------------------------------------------
Ops == [kind : {"write", "delete", "clear"}, key : CacheKeys \cup {None},
        entry : Entries \cup {None}, upto : Nat, by : {"set", "cache", "hydrate"}]

(* Types: every variable has the shape its comment says, and `order` lists *)
(* the keys of the entries, each once.                                     *)
TypeOK ==
  /\ mem \in Stores
  /\ order \in Seq(CacheKeys)
  /\ IsInjective(order) /\ ToSet(order) = Persisted(mem)
  /\ index \in [WillIds -> SUBSET CacheKeys]
  /\ touched \subseteq CacheKeys
  /\ cleared \in BOOLEAN /\ zeroTtl \in BOOLEAN /\ network \in Networks
  /\ hyd \in HydStates
  /\ rest \in Stores
  /\ hydNow \in Nat
  /\ \A i \in 1..Len(written) : written[i].key \in CacheKeys /\ written[i].entry \in Entries
  /\ \A i \in 1..Len(lock) : lock[i] \in Ops
  /\ doc \in Stores \cup {None}
  /\ \A l \in loose : l.key \in CacheKeys /\ l.doc \in Stores \cup {None}
  /\ store \in Stores
  /\ clock \in Nat /\ horizon \in 0..clock
  /\ gone \in [CacheKeys -> Nat]
  /\ faulty \in BOOLEAN
  /\ seen \in [CacheKeys -> Nat] /\ overdue \in BOOLEAN

(* The index misses no entry: invalidateByWillId() reaches every cached    *)
(* result that mentions the will, whichever of set, hydration, eviction,   *)
(* expiry, rollback and re-set under other ids happened before.            *)
IndexComplete ==
  \A k \in CacheKeys, w \in WillIds :
    mem[k] # None /\ w \in mem[k].ids => k \in index[w]

(* "Maximum number of entries to keep" (#609): the map exceeds its capacity *)
(* only with what hydrate() has loaded, and from an await of its loop to    *)
(* its end or the next set(), whichever comes first.  A hydration that has  *)
(* failed has no end: then until the next set().                           *)
CapacityBound == ~overdue => Cardinality(Persisted(mem)) <= MaxEntries

(* Within a session no key is served in an older version than it was served *)
(* in before, whatever evictions, invalidations and expiries came between:  *)
(* hydration, which works on a snapshot, loads nothing that was set or      *)
(* removed meanwhile.  A rollback forgets: "so memory and persistence stay *)
(* in sync".                                                               *)
NeverOlder == \A k \in CacheKeys : mem[k] # None => seen[k] <= mem[k].ver

(* Once the adapter has confirmed an invalidation or an eviction, what it  *)
(* removed is not served again, by this process or by the next one.        *)
InvalidationSurvives == \A k \in CacheKeys : mem[k] # None => gone[k] < mem[k].ver

Quiet == hyd = "ready" /\ lock = <<>> /\ loose = {}

(* Where the adapter does not fail and nothing expires, the adapter holds  *)
(* exactly the entries of the memory once the lock is free: no order of    *)
(* sets, evictions, invalidations, hydration and crashes leaves one behind *)
(* (withPersistenceLock(), evictIfNeeded() and deletePersisted()).         *)
StoreFollowsMemory == Quiet /\ ~faulty /\ horizon = 0 => store = mem

(* ready() settles, and with it the reads of the client that wait for it,  *)
(* unless processes end before it for ever: "A failed mutation must        *)
(* release the lock".                                                      *)
HydrationEnds == <>(hyd \in {"ready", "failed"}) \/ []<><<Restart>>_vars
-----------------------------------------------------------------------------
(* What the documentation says and the code does not do.                   *)

(* clearedBeforeHydration: "Hydration must not repopulate the cache once   *)
(* it resolves".                                                           *)
ClearedStaysEmpty ==
  [][HydrateResume /\ cleared => \A k \in CacheKeys : mem'[k] # None => mem[k] # None]_vars

(* "Serialize all mutations, since adapters may store every key in one     *)
(* read-modify-write document": so no mutation loses another one's effect. *)
NoLostWrite ==
  Quiet => \A k \in CacheKeys : mem[k] # None /\ ~Expired(mem[k]) => store[k] = mem[k]

(* rollbackOnPersistenceFailure: "so memory and persistence stay in sync". *)
RollbackKeepsSync == Quiet => \A k \in CacheKeys : mem[k] = None <=> store[k] = None

(* willIdToKeys: "eviction can clean up associated references instead of   *)
(* leaking them".                                                          *)
IndexExact == \A w \in WillIds : index[w] \subseteq Persisted(mem)

(* When an adapter operation fails, "the cache continues to function       *)
(* in-memory; only durability is affected": get() waits for ready().       *)
FailureOnlyCostsDurability == [][EndFailed => hyd' # "failed"]_vars

(* "Maximum number of entries to keep in the cache", of a cache whose       *)
(* ready() has settled.                                                    *)
CapacityOnceSettled ==
  hyd \in {"ready", "failed"} => Cardinality(Persisted(mem)) <= MaxEntries

(* networkPassphrase is the "network passphrase the cached entries belong  *)
(* to"; entries of another network are meaningless.                        *)
EntriesOfNetwork == \A k \in CacheKeys : mem[k] # None => mem[k].net = network
=============================================================================
