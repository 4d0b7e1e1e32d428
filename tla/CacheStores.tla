----------------------------- MODULE CacheStores -----------------------------
(***************************************************************************)
(* The persistence adapters of cache.ts: memory, localStorage, IndexedDB.  *)
(* Two caches that share an adapter change it through                      *)
(* withPersistenceLock(); localStorage holds all entries as one document,  *)
(* which a change reads, awaits and writes as a whole.  The deletion of an *)
(* expired entry takes no lock.                                            *)
(*                                                                         *)
(* Module ReadCache is one cache over an adapter that answers or fails;    *)
(* here is what stands behind the answer.  External: the browser's stores. *)
(***************************************************************************)
EXTENDS Naturals, Sequences

CONSTANTS
  StOps,    (* Changes the caches make.                                    *)
  StKeys,   (* Keys of entries.                                            *)
  StKinds,  (* Adapters: "memory", "local", "indexed".                     *)
  StNone    (* No entry.                                                   *)

ASSUME CacheStoresAssumption ==
  StKinds \subseteq {"memory", "local", "indexed"} /\ StNone \notin StOps

VARIABLES
  stKind,    (* The adapter.                                               *)
  stStore,   (* External: what it holds: the change that wrote each entry. *)
  stSerial,  (* What the changes make of it one after another.             *)
  stDb,      (* db of the IndexedDB adapter is there.                      *)
  stLock,    (* persistenceLocks: the changes that wait, in order.         *)
  stLoose,   (* Changes made without the lock.                             *)
  stOp,      (* What each change is, and where.                            *)
  stRead,    (* The document each change has read.                         *)
  stRaced    (* History: since the last clear, a document was stored while  *)
             (* another change had read, one of the two without the lock.  *)

stVars == <<stKind, stStore, stSerial, stDb, stLock, stLoose, stOp, stRead, stRaced>>

StVerbs == {"write", "delete", "clear"}
StDocuments == [StKeys -> StOps \cup {StNone}]
StEmpty == [k \in StKeys |-> StNone]

CacheStoresInit ==
  /\ stKind \in StKinds
  /\ stStore = StEmpty /\ stSerial = StEmpty
  /\ stDb = FALSE
  /\ stLock = <<>>
  /\ stOp = [o \in StOps |-> [verb |-> "none", key |-> StNone, phase |-> "idle"]]
  /\ stRead = [o \in StOps |-> StEmpty]
  /\ stLoose = {}
  /\ stRaced = FALSE

StAt(o, phase) == stOp[o].phase = phase
StGoto(o, phase) == stOp' = [stOp EXCEPT ![o].phase = phase]

(* What a change makes of a document. *)
StEffect(o, document) ==
  CASE stOp[o].verb = "write" -> [document EXCEPT ![stOp[o].key] = o]
    [] stOp[o].verb = "delete" -> [document EXCEPT ![stOp[o].key] = StNone]
    [] stOp[o].verb = "clear" -> StEmpty

(* Mutant: a change does not wait for the one before it. *)
StTurnAtOnce(o) == o \in stLoose \/ \E i \in DOMAIN stLock : stLock[i] = o

(* The changes before it have settled, with success or failure; one        *)
(* without the lock waits for nothing.                                     *)
StTurn(o) == o \in stLoose \/ (stLock # <<>> /\ Head(stLock) = o)

(* The promise of a change settles; the head passes the lock on. *)
StSettle(o, outcome) ==
  /\ StGoto(o, outcome)
  /\ stLock' = IF o \in stLoose THEN stLock ELSE Tail(stLock)

(* Another change is between its read and its write, and the lock does     *)
(* not keep them apart.                                                    *)
Races(o) == \E p \in StOps \ {o} : StAt(p, "read") /\ {o, p} \cap stLoose # {}

(* The change takes effect in what the adapter holds by now, or read.      *)
StCarryOut(o, document) ==
  /\ stStore' = StEffect(o, document)
  /\ stSerial' = StEffect(o, stSerial)
  /\ stRaced' = (Races(o) \/ (stRaced /\ stOp[o].verb # "clear"))
  /\ StSettle(o, "done")
-----------------------------------------------------------------------------
(* withPersistenceLock(): a cache makes a change. *)
StCall(o, verb, key) ==
  /\ StAt(o, "idle")
  /\ stOp' = [stOp EXCEPT ![o] = [verb |-> verb, key |-> key, phase |-> "waiting"]]
  /\ stLock' = Append(stLock, o)
  /\ UNCHANGED <<stKind, stStore, stSerial, stDb, stLoose, stRead, stRaced>>

(* invalidateExpired(): a cache finds that an entry has expired and has it *)
(* deleted, past the lock.                                                 *)
StExpired(o, key) ==
  /\ StAt(o, "idle")
  /\ stOp' = [stOp EXCEPT ![o] = [verb |-> "delete", key |-> key, phase |-> "waiting"]]
  /\ stLoose' = stLoose \cup {o}
  /\ UNCHANGED <<stKind, stStore, stSerial, stDb, stLock, stRead, stRaced>>

(* The memory, and localStorage's removeItem(), in one step. *)
StAtOnce(o) ==
  /\ StTurn(o) /\ StAt(o, "waiting")
  /\ stKind = "memory" \/ (stKind = "local" /\ stOp[o].verb = "clear")
  /\ StCarryOut(o, stStore)
  /\ UNCHANGED <<stKind, stDb, stLoose, stRead>>

(* localStorage: the document is read, and awaited. *)
LocalRead(o) ==
  /\ StTurn(o) /\ StAt(o, "waiting")
  /\ stKind = "local" /\ stOp[o].verb # "clear"
  /\ stRead' = [stRead EXCEPT ![o] = stStore]
  /\ StGoto(o, "read")
  /\ UNCHANGED <<stKind, stStore, stSerial, stDb, stLock, stLoose, stRaced>>

(* setItem() of the changed document. *)
LocalWritten(o) ==
  /\ StAt(o, "read")
  /\ StCarryOut(o, stRead[o])
  /\ UNCHANGED <<stKind, stDb, stLoose, stRead>>

(* The quota is exceeded, or there is no localStorage: nobody is told.     *)
LocalRefused(o) ==
  /\ StAt(o, "read") \/ (stKind = "local" /\ StTurn(o) /\ StAt(o, "waiting"))
  /\ StSettle(o, "swallowed")
  /\ UNCHANGED <<stKind, stStore, stSerial, stDb, stLoose, stRead, stRaced>>

(* ensureDb(): the database at hand, or opened first. *)
IndexedStart(o) ==
  /\ StTurn(o) /\ StAt(o, "waiting") /\ stKind = "indexed"
  /\ StGoto(o, IF stDb THEN "transaction" ELSE "opening")
  /\ UNCHANGED <<stKind, stStore, stSerial, stDb, stLock, stLoose, stRead, stRaced>>

IndexedOpens(o) ==
  /\ StAt(o, "opening")
  /\ stDb' = TRUE
  /\ StGoto(o, "transaction")
  /\ UNCHANGED <<stKind, stStore, stSerial, stLock, stLoose, stRead, stRaced>>

(* There is no database: nobody is told. *)
IndexedUnavailable(o) ==
  /\ StAt(o, "opening")
  /\ StSettle(o, "swallowed")
  /\ UNCHANGED <<stKind, stStore, stSerial, stDb, stLoose, stRead, stRaced>>

(* The transaction changes one entry of the store, whatever it holds.      *)
IndexedCommits(o) ==
  /\ StAt(o, "transaction")
  /\ StCarryOut(o, stStore)
  /\ UNCHANGED <<stKind, stDb, stLoose, stRead>>

(* The promise that write() returns without awaiting it rejects; of an     *)
(* expired entry's deletion nobody is told.                                *)
IndexedFails(o) ==
  /\ StAt(o, "transaction")
  /\ StSettle(o, IF o \in stLoose THEN "swallowed" ELSE "failed")
  /\ UNCHANGED <<stKind, stStore, stSerial, stDb, stLoose, stRead, stRaced>>

CacheStoresNext ==
  \E o \in StOps :
    \/ \E verb \in StVerbs, key \in StKeys : StCall(o, verb, key)
    \/ \E key \in StKeys : StExpired(o, key)
    \/ StAtOnce(o)
    \/ LocalRead(o) \/ LocalWritten(o) \/ LocalRefused(o)
    \/ IndexedStart(o) \/ IndexedOpens(o) \/ IndexedUnavailable(o)
    \/ IndexedCommits(o) \/ IndexedFails(o)

CacheStoresSpec == CacheStoresInit /\ [][CacheStoresNext]_stVars
-----------------------------------------------------------------------------
(* The adapter holds what the changes that were carried out make of it one *)
(* after another, and none is lost to another cache or to a failed change  *)
(* before it: in memory and in IndexedDB whatever expires meanwhile, and   *)
(* in localStorage until the deletion of an expired entry, which takes no  *)
(* lock, overlaps with another change, and again after the next clear.     *)
StoreIsSerial == stStore = stSerial \/ (stKind = "local" /\ stRaced)
-----------------------------------------------------------------------------
(* What the documentation says and the code does not do.                   *)

(* "onPersistenceFailure: invoked when a persistence adapter operation     *)
(* fails": a failure of the browser's store is told to the cache.          *)
FailuresAreTold == \A o \in StOps : ~StAt(o, "swallowed")

(* "Serialize all mutations, since adapters may store every key in one     *)
(* read-modify-write document" (persistenceLocks).                         *)
AllMutationsSerial == stStore = stSerial
=============================================================================
