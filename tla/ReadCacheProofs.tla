-------------------------- MODULE ReadCacheProofs --------------------------
(***************************************************************************)
(* ReadCache, for every set of keys and will ids, every capacity, adapter  *)
(* and order of calls: its will-id index is complete, it is within its     *)
(* capacity, no key goes back to an older version, what is confirmed as    *)
(* deleted is not served again, and the adapter ends up with what the      *)
(* memory holds.                                                           *)
(***************************************************************************)
EXTENDS ReadCache, FilterProofs

(* The invariant: IndexComplete, and that mem and index are functions on   *)
(* the keys and on the will ids.  It asks nothing of what the adapter      *)
(* holds: hydration indexes whatever it loads.                             *)
Maps ==
  /\ mem = [k \in CacheKeys |-> mem[k]]
  /\ index = [w \in WillIds |-> index[w]]

IndexInv == Maps /\ IndexComplete

LEMMA InitIndex == Init => IndexInv
  BY DEF Init, IndexInv, Maps, IndexComplete, Nothing

(* A step that only removes entries and keeps the index of the others.     *)
LEMMA Removal ==
  ASSUME IndexInv,
         NEW gonners,
         mem' = [k \in CacheKeys |-> IF k \in gonners THEN None ELSE mem[k]],
         Maps',
         \A w \in WillIds : index[w] \ gonners \subseteq index'[w]
  PROVE  IndexInv'
<1>1. ASSUME NEW k \in CacheKeys, NEW w \in WillIds, mem'[k] # None, w \in mem'[k].ids
      PROVE  k \in index'[w]
  <2>1. k \notin gonners /\ mem'[k] = mem[k]
    BY <1>1
  <2>2. k \in index[w]
    BY <1>1, <2>1 DEF IndexInv, IndexComplete
  <2> QED BY <2>1, <2>2
<1> QED BY <1>1 DEF IndexInv, IndexComplete

(* Replacing the entry of one key and adding it to the index of its ids,   *)
(* then evicting some keys.                                                *)
LEMMA SetIndex ==
  ASSUME IndexInv, NEW k \in CacheKeys, NEW ids \in SUBSET WillIds, Set(k, ids)
  PROVE  IndexInv'
<1> DEFINE entry == [ver |-> clock + 1, ids |-> ids, net |-> network, ok |-> TRUE]
           m == [mem EXCEPT ![k] = entry]
           v == ToSet(Victims(ToEnd(order, k), m))
<1>1. mem' = [j \in CacheKeys |-> IF j \in v THEN None ELSE m[j]]
  BY DEF Set, Settle
<1>2. index' = [w \in WillIds |-> IF w \in ids THEN index[w] \cup {k} ELSE index[w]]
  BY DEF Set, Indexed
<1> HIDE DEF v
<1>3. Maps'
  BY <1>1, <1>2 DEF Maps
<1>4. ASSUME NEW j \in CacheKeys, NEW w \in WillIds, mem'[j] # None, w \in mem'[j].ids
      PROVE  j \in index'[w]
  <2>1. mem'[j] = m[j]
    BY <1>1, <1>4
  <2>2. CASE j = k
    <3>1. m[k] = entry
      BY DEF IndexInv, Maps
    <3>2. w \in ids
      BY <1>4, <2>1, <2>2, <3>1
    <3> QED BY <1>2, <2>2, <3>2
  <2>3. CASE j # k
    <3>1. m[j] = mem[j]
      BY <2>3 DEF IndexInv, Maps
    <3>2. j \in index[w]
      BY <1>4, <2>1, <3>1 DEF IndexInv, IndexComplete
    <3> QED BY <1>2, <3>2
  <2> QED BY <2>2, <2>3
<1> QED BY <1>3, <1>4 DEF IndexInv, IndexComplete

(* A run of the loop of hydrate(): what it loads is indexed in the same    *)
(* step, also when it stops at an await.                                   *)
LEMMA LoopIndex ==
  ASSUME IndexInv, NEW r, NEW now, NEW ws, Loop(r, now, ws)
  PROVE  IndexInv'
<1>1. PICK passed \in SUBSET Persisted(r) :
        LET loaded == Loadable(passed)
            m == [k \in CacheKeys |-> IF k \in loaded THEN r[k] ELSE mem[k]]
        IN
        /\ index' = [w \in WillIds |-> index[w] \cup {k \in loaded : w \in r[k].ids}]
        /\ \E gonners : mem' = [k \in CacheKeys |-> IF k \in gonners THEN None ELSE m[k]]
  <2>1. PICK passed \in SUBSET Persisted(r) :
          LET loaded == Loadable(passed)
              m == [k \in CacheKeys |-> IF k \in loaded THEN r[k] ELSE mem[k]]
          IN
          /\ index' = [w \in WillIds |-> index[w] \cup {k \in loaded : w \in r[k].ids}]
          /\ \E s \in SetToSeqs(loaded) :
               \/ Settle(m, Behind(order \o s, m, ws), {}, <<>>)
               \/ mem' = m
    BY DEF Loop
  <2> DEFINE loaded == Loadable(passed)
             m == [k \in CacheKeys |-> IF k \in loaded THEN r[k] ELSE mem[k]]
  <2>2. PICK s \in SetToSeqs(loaded) :
          \/ Settle(m, Behind(order \o s, m, ws), {}, <<>>)
          \/ mem' = m
    BY <2>1
  <2>3. CASE Settle(m, Behind(order \o s, m, ws), {}, <<>>)
    <3> DEFINE v == ToSet(Victims(Behind(order \o s, m, ws), m))
    <3>1. mem' = [k \in CacheKeys |-> IF k \in v THEN None ELSE m[k]]
      BY <2>3 DEF Settle
    <3> HIDE DEF v
    <3> QED BY <2>1, <3>1
  <2>4. CASE mem' = m
    <3> DEFINE none == {}
    <3>1. mem' = [k \in CacheKeys |-> IF k \in none THEN None ELSE m[k]]
      BY <2>4
    <3> HIDE DEF none
    <3> QED BY <2>1, <3>1
  <2> QED BY <2>2, <2>3, <2>4
<1> DEFINE loaded == Loadable(passed)
           m == [k \in CacheKeys |-> IF k \in loaded THEN r[k] ELSE mem[k]]
<1>2. PICK gonners : mem' = [k \in CacheKeys |-> IF k \in gonners THEN None ELSE m[k]]
  BY <1>1
<1>3. index' = [w \in WillIds |-> index[w] \cup {k \in loaded : w \in r[k].ids}]
  BY <1>1
<1>4. Maps'
  BY <1>2, <1>3 DEF Maps
<1>5. ASSUME NEW k \in CacheKeys, NEW w \in WillIds, mem'[k] # None, w \in mem'[k].ids
      PROVE  k \in index'[w]
  <2>1. mem'[k] = m[k]
    BY <1>2, <1>5
  <2>2. CASE k \in loaded
    <3>1. m[k] = r[k]
      BY <2>2
    <3> QED BY <1>3, <1>5, <2>1, <2>2, <3>1
  <2>3. CASE k \notin loaded
    <3>1. m[k] = mem[k]
      BY <2>3
    <3>2. k \in index[w]
      BY <1>5, <2>1, <3>1 DEF IndexInv, IndexComplete
    <3> QED BY <1>3, <3>2
  <2> QED BY <2>2, <2>3
<1> QED BY <1>4, <1>5 DEF IndexInv, IndexComplete

(* delete() takes a key out of the index of its own entry only. *)
LEMMA DeleteIndex ==
  ASSUME IndexInv, NEW ks, DeleteKeys(ks)
  PROVE  IndexInv'
<1>1. mem' = [k \in CacheKeys |-> IF k \in ks THEN None ELSE mem[k]]
  BY DEF DeleteKeys
<1>2. index' = [w \in WillIds |-> index[w] \ {k \in ks : mem[k] # None /\ w \in mem[k].ids}]
  BY DEF DeleteKeys
<1>3. Maps'
  BY <1>1, <1>2 DEF Maps
<1>4. \A w \in WillIds : index[w] \ ks \subseteq index'[w]
  BY <1>2
<1> QED BY <1>1, <1>3, <1>4, Removal

LEMMA EmptyIndex ==
  ASSUME Nothing = mem', index' = [w \in WillIds |-> {}]
  PROVE  IndexInv'
BY DEF IndexInv, Maps, IndexComplete, Nothing

(* A step that leaves entries and index alone. *)
LEMMA SameIndex ==
  ASSUME IndexInv, UNCHANGED <<mem, index>>
  PROVE  IndexInv'
BY DEF IndexInv, Maps, IndexComplete

(* Dropping one entry and leaving the index as it is. *)
LEMMA DropIndex ==
  ASSUME IndexInv, NEW k, mem' = [mem EXCEPT ![k] = None], UNCHANGED index
  PROVE  IndexInv'
<1>1. mem' = [j \in CacheKeys |-> IF j \in {k} THEN None ELSE mem[j]]
  BY DEF IndexInv, Maps
<1>2. Maps'
  BY <1>1 DEF IndexInv, Maps
<1>3. \A w \in WillIds : index[w] \ {k} \subseteq index'[w]
  OBVIOUS
<1> QED BY <1>1, <1>2, <1>3, Removal

LEMMA CallIndex == ASSUME IndexInv, Call PROVE IndexInv'
<1>1. ASSUME NEW k \in CacheKeys, GetHit(k) PROVE IndexInv'
  BY <1>1, SameIndex DEF GetHit
<1>2. ASSUME NEW k \in CacheKeys, GetExpired(k) PROVE IndexInv'
  BY <1>2, DropIndex DEF GetExpired
<1>3. ASSUME NEW k \in CacheKeys, NEW ids \in SUBSET WillIds, Set(k, ids) PROVE IndexInv'
  BY <1>3, SetIndex
<1>4. ASSUME NEW k \in CacheKeys, SetUncached(k) PROVE IndexInv'
  BY <1>4, SameIndex DEF SetUncached
<1>5. ASSUME NEW k \in CacheKeys, Invalidate(k) PROVE IndexInv'
  BY <1>5, DeleteIndex DEF Invalidate
<1>6. ASSUME NEW w \in WillIds, InvalidateByWillId(w) PROVE IndexInv'
  BY <1>6, DeleteIndex DEF InvalidateByWillId
<1>7. ASSUME InvalidateAll PROVE IndexInv'
  BY <1>7, EmptyIndex DEF InvalidateAll, Empty
<1>8. ASSUME Clear PROVE IndexInv'
  BY <1>8, EmptyIndex DEF Clear, Empty
<1>9. ASSUME NEW n \in Networks, SetNetwork(n) PROVE IndexInv'
  BY <1>9, EmptyIndex DEF SetNetwork, Empty
<1> QED
  BY <1>1, <1>2, <1>3, <1>4, <1>5, <1>6, <1>7, <1>8, <1>9, AskedAssumption DEF Call

LEMMA AdapterIndex == ASSUME IndexInv, Adapter PROVE IndexInv'
<1>1. ASSUME HydrateRead PROVE IndexInv'
  <2>1. CASE cleared
    BY <1>1, <2>1, SameIndex DEF HydrateRead
  <2>2. CASE ~cleared
    <3>1. PICK ws : Loop(store, horizon, ws)
      BY <1>1, <2>2 DEF HydrateRead
    <3> QED BY <3>1, LoopIndex
  <2> QED BY <2>1, <2>2
<1>2. ASSUME HydrateResume PROVE IndexInv'
  BY <1>2, LoopIndex DEF HydrateResume
<1>3. ASSUME Start PROVE IndexInv'
  BY <1>3, SameIndex DEF Start, memVars
<1>4. ASSUME End PROVE IndexInv'
  BY <1>4, SameIndex DEF End, memVars
<1>5. ASSUME NEW l \in loose, LooseEnd(l) \/ LooseFails(l) PROVE IndexInv'
  BY <1>5, SameIndex DEF LooseEnd, LooseFails, memVars
<1>6. ASSUME HydrateReadFails PROVE IndexInv'
  BY <1>6, SameIndex DEF HydrateReadFails, memVars
<1>7. ASSUME EndFailed PROVE IndexInv'
  <2>1. UNCHANGED index
    BY <1>7 DEF EndFailed
  <2>2. \/ mem' = mem
        \/ mem' = [mem EXCEPT ![Head(lock).key] = None]
    BY <1>7 DEF EndFailed
  <2> QED BY <2>1, <2>2, SameIndex, DropIndex
<1> QED BY <1>1, <1>2, <1>3, <1>4, <1>5, <1>6, <1>7 DEF Adapter, AdapterAnswers, AdapterFails

LEMMA NextIndex == IndexInv /\ [Next]_vars => IndexInv'
<1> SUFFICES ASSUME IndexInv, [Next]_vars PROVE IndexInv'
  OBVIOUS
<1>1. CASE Call
  BY <1>1, CallIndex
<1>2. CASE Adapter
  BY <1>2, AdapterIndex
<1>3. CASE Expire
  BY <1>3, SameIndex DEF Expire, memVars
<1>4. CASE Restart
  BY <1>4, EmptyIndex DEF Restart, Fresh
<1>5. CASE UNCHANGED vars
  BY <1>5, SameIndex DEF vars, memVars
<1> QED BY <1>1, <1>2, <1>3, <1>4, <1>5 DEF Next

(* Every cached result is in the index under each will it mentions, so an  *)
(* invalidation by will id (an event, batchSequential) misses none.        *)
THEOREM IndexCompletes == Spec => []IndexComplete
<1>1. IndexInv => IndexComplete
  BY DEF IndexInv
<1> QED BY InitIndex, NextIndex, <1>1, PTL DEF Spec
-----------------------------------------------------------------------------
(* Capacity.                                                               *)

(* The last n elements of a sequence are n at most, and what is not among  *)
(* those before them is one of them.                                       *)
LEMMA TheLastOnes ==
  ASSUME NEW S, NEW s \in Seq(S), NEW n \in Nat,
         NEW T, T \subseteq ToSet(s), T \cap ToSet(SubSeq(s, 1, Len(s) - n)) = {}
  PROVE  IsFiniteSet(T) /\ Cardinality(T) \in Nat /\ Cardinality(T) <= n
<1> DEFINE first == SubSeq(s, 1, Len(s) - n)
           last == (Len(s) - n + 1)..Len(s)
           N == {i \in last : i \in DOMAIN s}
           f == [i \in N |-> s[i]]
           L == {s[i] : i \in N}
<1>1. Len(s) \in Nat /\ DOMAIN s = 1..Len(s)
  OBVIOUS
<1>2. \A i \in DOMAIN s : i \notin last => s[i] \in ToSet(first)
  <2> SUFFICES ASSUME NEW i \in 1..Len(s), i \notin last PROVE s[i] \in ToSet(first)
    BY <1>1
  <2>1. i \in 1..(Len(s) - n) /\ Len(s) - n \in Nat /\ Len(s) - n <= Len(s)
    BY <1>1
  <2>2. DOMAIN first = 1..(Len(s) - n) /\ first[i] = s[i]
    BY <1>1, <2>1
  <2> QED
    BY <2>1, <2>2 DEF ToSet
<1>3. T \subseteq L
  BY <1>1, <1>2 DEF ToSet
<1>4. IsFiniteSet(last) /\ Cardinality(last) <= n /\ Cardinality(last) \in Nat
  <2>1. Len(s) - n + 1 \in Int /\ Len(s) \in Int
    BY <1>1
  <2>2. IsFiniteSet(last)
        /\ Cardinality(last) = IF Len(s) - n + 1 > Len(s) THEN 0 ELSE Len(s) - (Len(s) - n + 1) + 1
    BY <2>1, FS_Interval
  <2> HIDE DEF last
  <2> QED
    BY <1>1, <2>2
<1>5. N \in SUBSET last
  OBVIOUS
<1>6. f \in Surjection(N, L)
  BY DEF Surjection
<1> HIDE DEF last, N, f, L, first
<1>7. IsFiniteSet(N) /\ Cardinality(N) <= Cardinality(last) /\ Cardinality(N) \in Nat
  BY <1>4, <1>5, FS_Subset, FS_CardinalityType
<1>8. IsFiniteSet(L) /\ Cardinality(L) <= Cardinality(N) /\ Cardinality(L) \in Nat
  BY <1>6, <1>7, FS_Surjection, FS_CardinalityType
<1>9. IsFiniteSet(T) /\ Cardinality(T) <= Cardinality(L) /\ Cardinality(T) \in Nat
  BY <1>3, <1>8, FS_Subset, FS_CardinalityType
<1> QED
  BY <1>4, <1>7, <1>8, <1>9
-----------------------------------------------------------------------------
(* `order` lists the keys of every entry, and others only where hydration  *)
(* has put them behind.                                                    *)
Listed(m, o) ==
  /\ m = [k \in CacheKeys |-> m[k]]
  /\ o \in Seq(CacheKeys)
  /\ Persisted(m) \subseteq ToSet(o)

CapacityInv == Listed(mem, order) /\ CapacityBound

LEMMA VictimsAreKeys ==
  ASSUME NEW o \in Seq(CacheKeys), NEW m
  PROVE  /\ Victims(o, m) \in Seq(CacheKeys)
         /\ Stale(o, m) \in Seq(CacheKeys) /\ Lively(o, m) \in Seq(CacheKeys)
         /\ ToSet(Stale(o, m)) = {k \in ToSet(o) : Expired(m[k])}
         /\ ToSet(Lively(o, m)) = {k \in ToSet(o) : ~Expired(m[k])}
<1>1. /\ Stale(o, m) \in Seq(CacheKeys) /\ Lively(o, m) \in Seq(CacheKeys)
      /\ ToSet(Stale(o, m)) = {k \in ToSet(o) : Expired(m[k])}
      /\ ToSet(Lively(o, m)) = {k \in ToSet(o) : ~Expired(m[k])}
  <2> DEFINE X == {k \in ToSet(o) : Expired(m[k])}
             Y == {k \in ToSet(o) : ~Expired(m[k])}
  <2>1. ToSet(o) \cap X = X /\ ToSet(o) \cap Y = Y
    OBVIOUS
  <2>2. Stale(o, m) = Kept(o, X) /\ Lively(o, m) = Kept(o, Y)
    BY DEF Stale, Lively
  <2> HIDE DEF X, Y
  <2>3. Kept(o, X) \in Seq(CacheKeys) /\ ToSet(Kept(o, X)) = X
    BY <2>1, KeptIsWhatIsIn
  <2>4. Kept(o, Y) \in Seq(CacheKeys) /\ ToSet(Kept(o, Y)) = Y
    BY <2>1, KeptIsWhatIsIn
  <2> QED
    BY <2>2, <2>3, <2>4 DEF X, Y
<1>2. SubSeq(Lively(o, m), 1, Len(Lively(o, m)) - MaxEntries) \in Seq(CacheKeys)
  BY <1>1, ReadCacheAssumption
<1>3. Victims(o, m) \in Seq(CacheKeys)
  <2> HIDE DEF Stale, Lively
  <2> QED
    BY <1>1, <1>2 DEF Victims
<1> QED
  BY <1>1, <1>3

(* What evictIfNeeded() leaves is within the capacity, and listed.         *)
LEMMA SettledFits ==
  ASSUME NEW m, NEW o, Listed(m, o), NEW ts, NEW ops, Settle(m, o, ts, ops)
  PROVE  Listed(mem, order)' /\ Cardinality(Persisted(mem')) <= MaxEntries
<1> DEFINE victims == ToSet(Victims(o, m))
<1>1. /\ order' = Kept(o, CacheKeys \ victims)
      /\ mem' = [k \in CacheKeys |-> IF k \in victims THEN None ELSE m[k]]
  BY DEF Settle
<1> HIDE DEF victims
<1>2. order' \in Seq(CacheKeys) /\ ToSet(order') = ToSet(o) \cap (CacheKeys \ victims)
  BY <1>1, KeptIsWhatIsIn DEF Listed
<1>3. \A k \in Persisted(mem') : k \in ToSet(o) /\ k \notin victims /\ k \in CacheKeys
  BY <1>1 DEF Persisted, Listed
<1>4. Listed(mem, order)'
  BY <1>1, <1>2, <1>3 DEF Listed, Persisted
<1>5. CASE Len(o) <= MaxEntries
  <2>1. IsFiniteSet(ToSet(o)) /\ Cardinality(ToSet(o)) \in Nat /\ Cardinality(ToSet(o)) <= Len(o)
    BY ElementsOfSeq DEF Listed
  <2>2. Cardinality(Persisted(mem')) <= Cardinality(ToSet(o)) /\ Cardinality(Persisted(mem')) \in Nat
    BY <1>3, <2>1, FS_Subset, FS_CardinalityType
  <2>3. Len(o) \in Nat /\ MaxEntries \in Nat
    BY ReadCacheAssumption DEF Listed
  <2>4. Cardinality(Persisted(mem')) <= MaxEntries
    BY <1>5, <2>1, <2>2, <2>3
  <2> QED
    BY <1>4, <2>4
<1>6. CASE ~(Len(o) <= MaxEntries)
  <2> DEFINE lively == Lively(o, m)
             first == SubSeq(lively, 1, Len(lively) - MaxEntries)
  <2>1. /\ lively \in Seq(CacheKeys) /\ Stale(o, m) \in Seq(CacheKeys)
        /\ ToSet(Stale(o, m)) = {k \in ToSet(o) : Expired(m[k])}
        /\ ToSet(lively) = {k \in ToSet(o) : ~Expired(m[k])}
    BY VictimsAreKeys DEF Listed
  <2>2. first \in Seq(CacheKeys)
    BY <2>1, ReadCacheAssumption
  <2>3. Victims(o, m) = Stale(o, m) \o first
    BY <1>6 DEF Victims
  <2> HIDE DEF lively, first
  <2>4. victims = ToSet(Stale(o, m)) \cup ToSet(first)
    BY <2>1, <2>2, <2>3, ElementsOfBoth DEF victims
  <2>5. Persisted(mem') \subseteq ToSet(lively) /\ Persisted(mem') \cap ToSet(first) = {}
    BY <1>3, <2>1, <2>4
  <2>6. MaxEntries \in Nat
    BY ReadCacheAssumption
  <2>7. Cardinality(Persisted(mem')) <= MaxEntries
    BY <2>1, <2>5, <2>6, TheLastOnes DEF first
  <2> QED
    BY <1>4, <2>7
<1> QED
  BY <1>4, <1>5, <1>6

(* Entries go, and their keys with them. *)
LEMMA RemovalFits ==
  ASSUME CapacityInv, NEW X,
         mem' = [k \in CacheKeys |-> IF k \in X THEN None ELSE mem[k]],
         order' = Kept(order, CacheKeys \ X),
         overdue' = overdue
  PROVE  CapacityInv'
<1>1. order' \in Seq(CacheKeys) /\ ToSet(order') = ToSet(order) \cap (CacheKeys \ X)
  BY KeptIsWhatIsIn DEF CapacityInv, Listed
<1>2. Persisted(mem') \subseteq Persisted(mem)
  BY DEF Persisted
<1>3. Listed(mem, order)'
  BY <1>1 DEF CapacityInv, Listed, Persisted
<1>4. Cardinality(Persisted(mem')) <= Cardinality(Persisted(mem))
      /\ Cardinality(Persisted(mem)) \in Nat /\ Cardinality(Persisted(mem')) \in Nat
  <2>1. Persisted(mem) \subseteq CacheKeys
    BY DEF Persisted
  <2>2. IsFiniteSet(Persisted(mem))
    BY <2>1, ReadCacheAssumption, FS_Subset
  <2> QED
    BY <1>2, <2>2, FS_Subset, FS_CardinalityType
<1>5. CapacityBound'
  BY <1>4, ReadCacheAssumption DEF CapacityBound, CapacityInv
<1> QED
  BY <1>3, <1>5 DEF CapacityInv

LEMMA StillFits ==
  ASSUME CapacityInv, UNCHANGED <<mem, order>>,
         overdue' = overdue
  PROVE  CapacityInv'
BY DEF CapacityInv, Listed, CapacityBound, Persisted

LEMMA EmptyFits ==
  ASSUME mem' = Nothing, order' = <<>>
  PROVE  CapacityInv'
<1>1. Persisted(mem') = {} /\ mem' = [k \in CacheKeys |-> None]
  BY DEF Persisted, Nothing
<1>2. Cardinality(Persisted(mem')) = 0
  BY <1>1, FS_EmptySet
<1> QED
  BY <1>1, <1>2, ReadCacheAssumption DEF CapacityInv, Listed, CapacityBound, Persisted

LEMMA BehindIsListed ==
  ASSUME NEW o \in Seq(CacheKeys), NEW m, NEW ws
  PROVE  Behind(o, m, ws) \in Seq(CacheKeys) /\ ToSet(Behind(o, m, ws)) = ToSet(o)
<1> DEFINE same == {ws[i].key : i \in {j \in 1..Len(ws) : m[ws[j].key] = ws[j].entry}}
<1>1. Behind(o, m, ws) = Kept(o, CacheKeys \ same) \o Kept(o, same)
  BY DEF Behind
<1> HIDE DEF same
<1>2. /\ Kept(o, CacheKeys \ same) \in Seq(CacheKeys)
      /\ ToSet(Kept(o, CacheKeys \ same)) = ToSet(o) \cap (CacheKeys \ same)
  BY KeptIsWhatIsIn
<1>3. Kept(o, same) \in Seq(CacheKeys) /\ ToSet(Kept(o, same)) = ToSet(o) \cap same
  BY KeptIsWhatIsIn
<1>4. ToSet(o) \subseteq CacheKeys
  BY DEF ToSet
<1> DEFINE fore == Kept(o, CacheKeys \ same)
           aft == Kept(o, same)
<1>5. fore \in Seq(CacheKeys) /\ aft \in Seq(CacheKeys)
  BY <1>2, <1>3
<1> HIDE DEF fore, aft
<1>6. fore \o aft \in Seq(CacheKeys) /\ ToSet(fore \o aft) = ToSet(fore) \cup ToSet(aft)
  BY <1>5, ElementsOfBoth
<1> QED
  BY <1>1, <1>2, <1>3, <1>4, <1>6 DEF fore, aft

(* What the loop of hydrate() loads goes to the end of the order. *)
LEMMA LoopFits ==
  ASSUME CapacityInv, NEW r, NEW now, NEW ws, Loop(r, now, ws)
  PROVE  CapacityInv'
<1>1. PICK passed \in SUBSET Persisted(r) :
        LET loaded == Loadable(passed)
            m == [k \in CacheKeys |-> IF k \in loaded THEN r[k] ELSE mem[k]]
        IN  \E s \in SetToSeqs(loaded) :
              \/ Settle(m, Behind(order \o s, m, ws), {}, <<>>)
              \/ overdue' = TRUE /\ mem' = m /\ order' = order \o s
  BY DEF Loop
<1> DEFINE loaded == Loadable(passed)
           m == [k \in CacheKeys |-> IF k \in loaded THEN r[k] ELSE mem[k]]
<1>2. loaded \in SUBSET CacheKeys
  BY DEF Loadable, Persisted
<1> HIDE DEF loaded
<1>3. PICK s \in SetToSeqs(loaded) :
        \/ Settle(m, Behind(order \o s, m, ws), {}, <<>>)
        \/ overdue' = TRUE /\ mem' = m /\ order' = order \o s
  BY <1>1 DEF loaded
<1>4. IsFiniteSet(loaded)
  BY <1>2, ReadCacheAssumption, FS_Subset
<1>5. s \in Seq(loaded) /\ ToSet(s) = loaded
  BY <1>4, ListsOfSet
<1>6. s \in Seq(CacheKeys)
  BY <1>2, <1>5
<1>7. order \o s \in Seq(CacheKeys) /\ ToSet(order \o s) = ToSet(order) \cup loaded
  BY <1>5, <1>6, ElementsOfBoth DEF CapacityInv, Listed
<1>8. m = [k \in CacheKeys |-> m[k]] /\ Persisted(m) \subseteq Persisted(mem) \cup loaded
  BY DEF Persisted
<1> HIDE DEF m
<1>9. Listed(m, order \o s)
  BY <1>7, <1>8 DEF CapacityInv, Listed
<1>10. CASE Settle(m, Behind(order \o s, m, ws), {}, <<>>)
  <2>1. Listed(m, Behind(order \o s, m, ws))
    BY <1>9, BehindIsListed DEF Listed
  <2>2. Listed(mem, order)' /\ Cardinality(Persisted(mem')) <= MaxEntries
    BY <1>10, <2>1, SettledFits
  <2> QED
    BY <2>2 DEF CapacityInv, CapacityBound, Persisted
<1>11. CASE overdue' = TRUE /\ mem' = m /\ order' = order \o s
  BY <1>9, <1>11 DEF CapacityInv, CapacityBound, Listed, Persisted
<1> QED
  BY <1>3, <1>10, <1>11

LEMMA ToEndIsListed ==
  ASSUME NEW o \in Seq(CacheKeys), NEW k \in CacheKeys
  PROVE  ToEnd(o, k) \in Seq(CacheKeys) /\ ToSet(ToEnd(o, k)) = ToSet(o) \cup {k}
<1> DEFINE before == Kept(o, CacheKeys \ {k})
<1>1. before \in Seq(CacheKeys) /\ ToSet(before) = ToSet(o) \cap (CacheKeys \ {k})
  BY KeptIsWhatIsIn
<1>2. ToEnd(o, k) = Append(before, k)
  BY DEF ToEnd, Without
<1>3. ToSet(o) \subseteq CacheKeys
  BY DEF ToSet
<1> HIDE DEF before
<1>4. Append(before, k) \in Seq(CacheKeys) /\ ToSet(Append(before, k)) = ToSet(before) \cup {k}
  <2>1. /\ Append(before, k) \in Seq(CacheKeys) /\ Len(before) \in Nat
        /\ DOMAIN Append(before, k) = 1..(Len(before) + 1) /\ DOMAIN before = 1..Len(before)
        /\ Append(before, k)[Len(before) + 1] = k
        /\ \A i \in 1..Len(before) : Append(before, k)[i] = before[i]
    BY <1>1
  <2>2. DOMAIN Append(before, k) = DOMAIN before \cup {Len(before) + 1}
    BY <2>1
  <2> QED
    BY <2>1, <2>2 DEF ToSet
<1> QED
  BY <1>1, <1>2, <1>3, <1>4

LEMMA CallFits == ASSUME CapacityInv, Call PROVE CapacityInv'
<1>1. ASSUME NEW k \in CacheKeys, GetHit(k) PROVE CapacityInv'
  <2>1. order' = ToEnd(order, k) /\ UNCHANGED <<mem, overdue>>
    BY <1>1 DEF GetHit, hydVars, history
  <2>2. ToEnd(order, k) \in Seq(CacheKeys) /\ ToSet(order) \subseteq ToSet(ToEnd(order, k))
    BY ToEndIsListed DEF CapacityInv, Listed
  <2> QED
    BY <2>1, <2>2 DEF CapacityInv, Listed, CapacityBound, Persisted
<1>2. ASSUME NEW k \in CacheKeys, GetExpired(k) PROVE CapacityInv'
  <2>1. /\ mem' = [j \in CacheKeys |-> IF j \in {k} THEN None ELSE mem[j]]
        /\ order' = Kept(order, CacheKeys \ {k}) /\ overdue' = overdue
    BY <1>2 DEF GetExpired, Without, hydVars, history, CapacityInv, Listed
  <2> QED
    BY <2>1, RemovalFits
<1>3. ASSUME NEW k \in CacheKeys, NEW ids \in SUBSET WillIds, Set(k, ids) PROVE CapacityInv'
  <2> DEFINE entry == [ver |-> clock + 1, ids |-> ids, net |-> network, ok |-> TRUE]
             m == [mem EXCEPT ![k] = entry]
  <2>1. Settle(m, ToEnd(order, k), {k}, <<WriteOp(k, entry)>>)
    BY <1>3 DEF Set
  <2>2. m = [j \in CacheKeys |-> m[j]] /\ Persisted(m) \subseteq Persisted(mem) \cup {k}
    BY DEF CapacityInv, Listed, Persisted
  <2> HIDE DEF m, entry
  <2>3. Listed(m, ToEnd(order, k))
    BY <2>2, ToEndIsListed DEF CapacityInv, Listed
  <2>4. Listed(mem, order)' /\ Cardinality(Persisted(mem')) <= MaxEntries
    BY <2>1, <2>3, SettledFits
  <2> QED
    BY <2>4 DEF CapacityInv, CapacityBound, Persisted
<1>4. ASSUME NEW k \in CacheKeys, SetUncached(k) PROVE CapacityInv'
  BY <1>4, StillFits DEF SetUncached, hydVars, history
<1>5. ASSUME NEW ks, DeleteKeys(ks) PROVE CapacityInv'
  BY <1>5, RemovalFits DEF DeleteKeys, hydVars, history
<1>6. ASSUME Empty PROVE CapacityInv'
  BY <1>6, EmptyFits DEF Empty
<1> QED
  BY <1>1, <1>2, <1>3, <1>4, <1>5, <1>6, AskedAssumption
     DEF Call, Invalidate, InvalidateByWillId, InvalidateAll, Clear, SetNetwork

LEMMA AdapterFits == ASSUME CapacityInv, Adapter PROVE CapacityInv'
<1>1. CASE HydrateRead
  <2>1. CASE cleared
    BY <1>1, <2>1, StillFits DEF HydrateRead, history
  <2>2. CASE ~cleared
    <3>1. PICK ws : Loop(store, horizon, ws)
      BY <1>1, <2>2 DEF HydrateRead
    <3> QED
      BY <3>1, LoopFits
  <2> QED
    BY <2>1, <2>2
<1>2. CASE HydrateResume
  BY <1>2, LoopFits DEF HydrateResume
<1>3. CASE Start \/ End
  BY <1>3, StillFits DEF Start, End, memVars, hydVars, history
<1>4. ASSUME NEW l \in loose, LooseEnd(l) \/ LooseFails(l) PROVE CapacityInv'
  BY <1>4, StillFits DEF LooseEnd, LooseFails, memVars, hydVars, history
<1>5. CASE HydrateReadFails
  BY <1>5, StillFits DEF HydrateReadFails, memVars, history
<1>6. CASE EndFailed
  <2>1. overdue' = overdue
    BY <1>6 DEF EndFailed
  <2>2. \/ UNCHANGED <<mem, order>>
        \/ /\ mem' = [mem EXCEPT ![Head(lock).key] = None]
           /\ order' = Kept(order, CacheKeys \ {Head(lock).key})
    BY <1>6 DEF EndFailed, Without
  <2>3. CASE UNCHANGED <<mem, order>>
    BY <2>1, <2>3, StillFits
  <2>4. CASE /\ mem' = [mem EXCEPT ![Head(lock).key] = None]
             /\ order' = Kept(order, CacheKeys \ {Head(lock).key})
    <3>1. mem' = [j \in CacheKeys |-> IF j \in {Head(lock).key} THEN None ELSE mem[j]]
      BY <2>4 DEF CapacityInv, Listed
    <3> QED
      BY <2>1, <2>4, <3>1, RemovalFits
  <2> QED
    BY <2>2, <2>3, <2>4
<1> QED
  BY <1>1, <1>2, <1>3, <1>4, <1>5, <1>6 DEF Adapter, AdapterAnswers, AdapterFails

LEMMA NextFits == CapacityInv /\ [Next]_vars => CapacityInv'
<1> SUFFICES ASSUME CapacityInv, [Next]_vars PROVE CapacityInv'
  OBVIOUS
<1>1. CASE Restart
  BY <1>1, EmptyFits DEF Restart, Fresh
<1>2. CASE Expire \/ UNCHANGED vars
  BY <1>2, StillFits DEF Expire, vars, memVars, hydVars, history
<1> QED
  BY <1>1, <1>2, CallFits, AdapterFits DEF Next

LEMMA InitFits == ASSUME Init PROVE CapacityInv
<1>1. mem = [k \in CacheKeys |-> None] /\ order = <<>>
  BY DEF Init, Nothing
<1>2. Persisted(mem) = {}
  BY <1>1 DEF Persisted
<1>3. Cardinality(Persisted(mem)) = 0
  BY <1>2, FS_EmptySet
<1> QED
  BY <1>1, <1>2, <1>3, ReadCacheAssumption DEF CapacityInv, Listed, CapacityBound

(* The map exceeds its capacity only with what hydrate() has loaded, from   *)
(* an await of its loop to its end or the next set(): whatever is set,     *)
(* hydrated, expires, fails or is rolled back, for every capacity and      *)
(* number of keys (evictIfNeeded(), line 498, which set() and hydrate()    *)
(* end with; a hydration that fails does not, lines 600 and 612).          *)
THEOREM CapacityHolds == Spec => []CapacityBound
<1>1. Init => CapacityInv
  BY InitFits
<1>2. CapacityInv => CapacityBound
  BY DEF CapacityInv
<1> QED
  BY <1>1, <1>2, NextFits, PTL DEF Spec
-----------------------------------------------------------------------------
(* Versions.                                                               *)

(* The content s is of the first n versions. *)
Within(s, n) ==
  /\ s \in Stores
  /\ \A k \in CacheKeys : s[k] # None => s[k].ver \in 1..n

OpWithin(op, n) ==
  /\ op \in Ops
  /\ op.kind # "clear" => op.key \in CacheKeys
  /\ op.kind = "write" => op.entry \in Entries /\ op.entry.ver \in 1..n
  /\ op.upto <= n

LockWithin(l, n) == l \in Seq(Ops) /\ \A i \in DOMAIN l : OpWithin(l[i], n)

(* No copy of an entry, wherever it is on its way, is of a version that    *)
(* has not been written; and hydration has still to visit a key that is in *)
(* memory only if it will pass it over.                                    *)
VersionsInv ==
  /\ clock \in Nat /\ network \in Networks
  /\ Within(mem, clock) /\ Within(rest, clock) /\ Within(store, clock)
  /\ doc # None => Within(doc, clock)
  /\ Document => \A l \in loose : Within(l.doc, clock)
  /\ LockWithin(lock, clock)
  /\ \A k \in CacheKeys : mem[k] # None => k \in touched \/ (hyd # "reading" /\ rest[k] = None)

(* The index is of keys, and the lock's head is there while it is called.  *)
Shapes ==
  /\ index \in [WillIds -> SUBSET CacheKeys]
  /\ doc # None => lock # <<>>

SessionInv == CapacityInv /\ VersionsInv /\ Shapes

LEMMA NothingWithin == ASSUME NEW n PROVE Within(Nothing, n)
BY DEF Within, Nothing, Stores

LEMMA WithinMore ==
  ASSUME NEW n \in Nat, NEW p \in Nat, n <= p
  PROVE  /\ \A s : Within(s, n) => Within(s, p)
         /\ \A l : LockWithin(l, n) => LockWithin(l, p)
<1>1. ASSUME NEW s, Within(s, n) PROVE Within(s, p)
  <2>1. ASSUME NEW k \in CacheKeys, s[k] # None PROVE s[k].ver \in 1..p
    <3>1. s[k] \in Entries /\ s[k].ver \in Nat /\ s[k].ver \in 1..n
      BY <1>1, <2>1 DEF Within, Stores, Entries
    <3> QED
      BY <3>1
  <2> QED
    BY <1>1, <2>1 DEF Within
<1>2. ASSUME NEW l, LockWithin(l, n) PROVE LockWithin(l, p)
  <2>1. ASSUME NEW i \in DOMAIN l PROVE OpWithin(l[i], p)
    <3>1. OpWithin(l[i], n)
      BY <1>2 DEF LockWithin
    <3>2. l[i].upto <= p
      BY <3>1 DEF OpWithin, Ops
    <3>3. l[i].kind = "write" => l[i].entry.ver \in 1..n
      BY <3>1 DEF OpWithin, Entries
    <3> QED
      BY <3>1, <3>2, <3>3 DEF OpWithin
  <2> QED
    BY <1>2, <2>1 DEF LockWithin
<1> QED
  BY <1>1, <1>2

LEMMA LockGrows ==
  ASSUME NEW n, NEW l, LockWithin(l, n), NEW more, LockWithin(more, n)
  PROVE  LockWithin(l \o more, n)
<1>1. l \o more \in Seq(Ops)
  BY DEF LockWithin
<1>2. ASSUME NEW i \in DOMAIN (l \o more) PROVE OpWithin((l \o more)[i], n)
  BY <1>2, PlacesOfBoth DEF LockWithin
<1> QED
  BY <1>1, <1>2 DEF LockWithin

LEMMA DeletesWithin ==
  ASSUME NEW ks \in Seq(CacheKeys), clock' \in Nat
  PROVE  LockWithin(Deletes(ks), clock')
<1>1. \A k \in CacheKeys : OpWithin(DeleteOp(k, "cache"), clock')
  BY DEF OpWithin, DeleteOp, Ops
<1>2. Deletes(ks) = [i \in 1..Len(ks) |-> DeleteOp(ks[i], "cache")] /\ Len(ks) \in Nat
      /\ \A i \in 1..Len(ks) : ks[i] \in CacheKeys
  BY DEF Deletes
<1>3. \A k \in CacheKeys : DeleteOp(k, "cache") \in Ops
  BY <1>1 DEF OpWithin
<1> HIDE DEF DeleteOp
<1> QED
  BY <1>1, <1>2, <1>3 DEF LockWithin

LEMMA OneOpWithin ==
  ASSUME NEW op, NEW n, OpWithin(op, n)
  PROVE  LockWithin(<<op>>, n)
BY DEF LockWithin, OpWithin

LEMMA TailWithin ==
  ASSUME NEW l, NEW n, LockWithin(l, n), l # <<>>
  PROVE  /\ LockWithin(Tail(l), n) /\ OpWithin(Head(l), n)
         /\ \A i \in DOMAIN Tail(l) : i + 1 \in DOMAIN l /\ Tail(l)[i] = l[i + 1]
<1>1. /\ l \in Seq(Ops) /\ Tail(l) \in Seq(Ops) /\ Len(l) \in Nat \ {0}
      /\ DOMAIN l = 1..Len(l) /\ DOMAIN Tail(l) = 1..(Len(l) - 1)
      /\ \A i \in 1..(Len(l) - 1) : Tail(l)[i] = l[i + 1]
      /\ Head(l) = l[1]
  BY DEF LockWithin
<1>2. \A i \in 1..(Len(l) - 1) : i + 1 \in 1..Len(l)
  BY <1>1
<1>3. 1 \in 1..Len(l)
  BY <1>1
<1> QED
  BY <1>1, <1>2, <1>3 DEF LockWithin

(* Ends a method: what is left of the entries m, and the lock.             *)
LEMMA SettledWithin ==
  ASSUME SessionInv, clock' \in Nat, clock <= clock',
         NEW m, NEW o \in Seq(CacheKeys), NEW ts, NEW ops, Settle(m, o, ts, ops),
         Within(m, clock'), LockWithin(ops, clock')
  PROVE  /\ LockWithin(lock, clock)' /\ Within(mem, clock)'
         /\ \A k \in CacheKeys : mem'[k] = m[k] \/ mem'[k] = None
         /\ touched \cup ts \subseteq touched'
<1> DEFINE vs == Victims(o, m)
<1>1. /\ mem' = [k \in CacheKeys |-> IF k \in ToSet(vs) THEN None ELSE m[k]]
      /\ lock' = lock \o ops \o Deletes(vs)
      /\ touched' = touched \cup ts \cup ToSet(vs)
  BY DEF Settle
<1>2. vs \in Seq(CacheKeys)
  BY VictimsAreKeys
<1> HIDE DEF vs
<1>3. LockWithin(Deletes(vs), clock') /\ LockWithin(lock, clock')
  BY <1>2, DeletesWithin, WithinMore DEF SessionInv, VersionsInv
<1>4. LockWithin(lock \o ops, clock')
  BY <1>3, LockGrows
<1>5. LockWithin(lock \o ops \o Deletes(vs), clock')
  BY <1>3, <1>4, LockGrows
<1>6. Within(mem', clock')
  BY <1>1 DEF Within, Stores
<1> QED
  BY <1>1, <1>5, <1>6 DEF LockWithin, Within

(* A set(): the entry of key k is the newest. *)
LEMMA SetVersions ==
  ASSUME SessionInv, NEW k \in CacheKeys, NEW ids \in SUBSET WillIds, Set(k, ids)
  PROVE  VersionsInv'
<1> DEFINE entry == [ver |-> clock + 1, ids |-> ids, net |-> network, ok |-> TRUE]
           m == [mem EXCEPT ![k] = entry]
<1>1. /\ Settle(m, ToEnd(order, k), {k}, <<WriteOp(k, entry)>>)
      /\ clock' = clock + 1 /\ clock \in Nat /\ clock' \in Nat /\ clock <= clock'
      /\ UNCHANGED <<network, hyd, rest, doc, loose, store>>
  BY DEF Set, hydVars, SessionInv, VersionsInv
<1>2. entry \in Entries /\ entry.ver = clock' /\ entry # None
  <2>1. clock + 1 \in Nat /\ network \in Networks
    BY <1>1 DEF SessionInv, VersionsInv
  <2>2. entry \in Entries
    BY <2>1 DEF Entries
  <2> QED
    BY <1>1, <2>2, ReadCacheAssumption
<1>3. /\ \A s : Within(s, clock) => Within(s, clock')
      /\ \A l : LockWithin(l, clock) => LockWithin(l, clock')
  BY <1>1, WithinMore
<1> HIDE DEF entry
<1>4. Within(mem, clock')
  BY <1>3 DEF SessionInv, VersionsInv
<1>5. /\ m[k] = entry /\ \A j \in CacheKeys : j # k => m[j] = mem[j]
      /\ m \in Stores
  BY <1>2, <1>4 DEF Within, Stores
<1> HIDE DEF m
<1>6. Within(m, clock')
  BY <1>1, <1>2, <1>4, <1>5 DEF Within
<1>7. LockWithin(<<WriteOp(k, entry)>>, clock')
  <2>1. OpWithin(WriteOp(k, entry), clock')
    BY <1>1, <1>2 DEF OpWithin, WriteOp, Ops
  <2> QED
    BY <2>1, OneOpWithin
<1>8. ToEnd(order, k) \in Seq(CacheKeys)
  BY ToEndIsListed DEF SessionInv, CapacityInv, Listed
<1>9. /\ LockWithin(lock, clock)' /\ Within(mem, clock)'
      /\ \A j \in CacheKeys : mem'[j] = m[j] \/ mem'[j] = None
      /\ touched \cup {k} \subseteq touched'
  BY <1>1, <1>6, <1>7, <1>8, SettledWithin
<1>10. ASSUME NEW j \in CacheKeys, mem'[j] # None
       PROVE  j \in touched' \/ (hyd' # "reading" /\ rest'[j] = None)
  <2>1. mem'[j] = m[j]
    BY <1>9, <1>10
  <2>2. CASE j = k
    BY <1>2, <1>4, <1>5, <1>9, <2>1, <2>2 DEF Within
  <2>3. CASE j # k
    <3>1. mem'[j] = mem[j]
      BY <1>5, <2>1, <2>3
    <3> QED
      BY <1>1, <1>9, <1>10, <3>1 DEF SessionInv, VersionsInv
  <2> QED
    BY <2>2, <2>3
<1>11. /\ Within(rest, clock)' /\ Within(store, clock)' /\ (doc' # None => Within(doc, clock)')
       /\ (Document => \A l \in loose' : Within(l.doc, clock'))
  BY <1>1, <1>3 DEF SessionInv, VersionsInv
<1> QED
  BY <1>1, <1>9, <1>10, <1>11 DEF VersionsInv, SessionInv

(* What the loop of hydrate() does before its next await or its end: it    *)
(* loads some untouched keys, and ends by evictIfNeeded() or is about to   *)
(* wait for the deletion of one key that is not touched.                   *)
LoopOutcome(r, loaded, m) ==
  /\ loaded \subseteq CacheKeys
  /\ loaded \cap touched = {} /\ \A k \in loaded : r[k] # None
  /\ m = [k \in CacheKeys |-> IF k \in loaded THEN r[k] ELSE mem[k]]
  /\ \/ /\ hyd' = "ready" /\ rest' = Nothing
        /\ \A k \in CacheKeys : r[k] # None => k \in loaded \cup touched
        /\ \E o \in Seq(CacheKeys) : Settle(m, o, {}, <<>>)
     \/ \E b \in CacheKeys \ (loaded \cup touched), passed \in SUBSET CacheKeys :
          /\ r[b] # None /\ loaded \subseteq passed /\ passed \subseteq loaded \cup touched
          /\ hyd' = "deleting"
          /\ rest' = [k \in CacheKeys |-> IF k \in passed \cup {b} THEN None ELSE r[k]]
          /\ mem' = m /\ lock' = Append(lock, DeleteOp(b, "hydrate"))
          /\ Sees /\ UNCHANGED touched

LEMMA LoopOutcomes ==
  ASSUME CapacityInv, NEW r, NEW now, NEW ws, Loop(r, now, ws)
  PROVE  \E loaded, m : LoopOutcome(r, loaded, m)
<1>1. PICK passed \in SUBSET Persisted(r) :
        LET loaded == Loadable(passed)
            m == [k \in CacheKeys |-> IF k \in loaded THEN r[k] ELSE mem[k]]
        IN  \E s \in SetToSeqs(loaded) :
              \/ /\ hyd' = "ready" /\ rest' = Nothing /\ passed = Persisted(r)
                 /\ Settle(m, Behind(order \o s, m, ws), {}, <<>>)
              \/ \E b \in Persisted(r) \ passed :
                   /\ b \notin touched /\ hyd' = "deleting"
                   /\ rest' = [k \in CacheKeys |-> IF k \in passed \cup {b} THEN None ELSE r[k]]
                   /\ mem' = m /\ lock' = Append(lock, DeleteOp(b, "hydrate"))
                   /\ Sees /\ UNCHANGED touched
  BY DEF Loop, Discarded
<1> DEFINE loaded == Loadable(passed)
           m == [k \in CacheKeys |-> IF k \in loaded THEN r[k] ELSE mem[k]]
<1>2. loaded \in SUBSET CacheKeys /\ loaded \cap touched = {}
      /\ loaded \subseteq passed /\ passed \subseteq loaded \cup touched
      /\ passed \in SUBSET CacheKeys /\ \A k \in loaded : r[k] # None
  BY DEF Loadable, Persisted
<1> HIDE DEF loaded
<1>3. PICK s \in SetToSeqs(loaded) :
        \/ /\ hyd' = "ready" /\ rest' = Nothing /\ passed = Persisted(r)
           /\ Settle(m, Behind(order \o s, m, ws), {}, <<>>)
        \/ \E b \in Persisted(r) \ passed :
             /\ b \notin touched /\ hyd' = "deleting"
             /\ rest' = [k \in CacheKeys |-> IF k \in passed \cup {b} THEN None ELSE r[k]]
             /\ mem' = m /\ lock' = Append(lock, DeleteOp(b, "hydrate"))
             /\ Sees /\ UNCHANGED touched
  BY <1>1 DEF loaded
<1>4. Behind(order \o s, m, ws) \in Seq(CacheKeys)
  <2>1. IsFiniteSet(loaded)
    BY <1>2, ReadCacheAssumption, FS_Subset
  <2>2. s \in Seq(loaded)
    BY <2>1, ListsOfSet
  <2>3. s \in Seq(CacheKeys)
    BY <1>2, <2>2
  <2>4. order \o s \in Seq(CacheKeys)
    BY <2>3 DEF CapacityInv, Listed
  <2> HIDE DEF m
  <2> QED
    BY <2>4, BehindIsListed
<1>5. m = [k \in CacheKeys |-> IF k \in loaded THEN r[k] ELSE mem[k]]
  OBVIOUS
<1> HIDE DEF m
<1>6. CASE /\ hyd' = "ready" /\ rest' = Nothing /\ passed = Persisted(r)
           /\ Settle(m, Behind(order \o s, m, ws), {}, <<>>)
  <2>1. \A k \in CacheKeys : r[k] # None => k \in loaded \cup touched
    BY <1>2, <1>6 DEF Persisted
  <2> QED
    BY <1>2, <1>4, <1>5, <1>6, <2>1 DEF LoopOutcome
<1>7. ASSUME NEW b \in Persisted(r) \ passed,
             b \notin touched, hyd' = "deleting",
             rest' = [k \in CacheKeys |-> IF k \in passed \cup {b} THEN None ELSE r[k]],
             mem' = m, lock' = Append(lock, DeleteOp(b, "hydrate")), Sees, UNCHANGED touched
      PROVE  LoopOutcome(r, loaded, m)
  <2>1. b \in CacheKeys \ (loaded \cup touched) /\ r[b] # None
    BY <1>2, <1>7 DEF Persisted
  <2> QED
    BY <1>2, <1>5, <1>7, <2>1 DEF LoopOutcome
<1> QED
  BY <1>2, <1>3, <1>6, <1>7

(* hydrate() loads no key that is in memory. *)
LEMMA LoopVersions ==
  ASSUME SessionInv, NEW r, Within(r, clock), NEW now, NEW ws, Loop(r, now, ws),
         hyd # "reading" => r = rest,
         UNCHANGED <<clock, network, doc, loose, store>>
  PROVE  VersionsInv'
<1>1. PICK loaded, m : LoopOutcome(r, loaded, m)
  BY LoopOutcomes DEF SessionInv
<1>2. ASSUME NEW k \in CacheKeys, m[k] # None
      PROVE  /\ mem[k] # None => m[k] = mem[k]
             /\ k \in touched \/ k \in loaded \/ (mem[k] # None /\ hyd # "reading" /\ rest[k] = None)
  <2>1. m = [j \in CacheKeys |-> IF j \in loaded THEN r[j] ELSE mem[j]]
        /\ loaded \cap touched = {} /\ \A j \in loaded : r[j] # None
    BY <1>1 DEF LoopOutcome
  <2>2. CASE k \in loaded
    BY <2>1, <2>2 DEF SessionInv, VersionsInv
  <2>3. CASE k \notin loaded
    BY <1>2, <2>1, <2>3 DEF SessionInv, VersionsInv
  <2> QED
    BY <2>2, <2>3
<1>3. Within(m, clock)
  BY <1>1 DEF LoopOutcome, Within, Stores, SessionInv, VersionsInv
<1>5. clock \in Nat /\ clock' = clock /\ clock' \in Nat /\ clock <= clock' /\ Within(m, clock')
  BY <1>3 DEF SessionInv, VersionsInv
<1>6. ASSUME hyd' = "ready", rest' = Nothing,
             NEW o \in Seq(CacheKeys), Settle(m, o, {}, <<>>)
      PROVE  VersionsInv'
  <2>1. LockWithin(<<>>, clock')
    BY DEF LockWithin
  <2>2. /\ LockWithin(lock, clock)' /\ Within(mem, clock)'
        /\ \A k \in CacheKeys : mem'[k] = m[k] \/ mem'[k] = None
    BY <1>5, <1>6, <2>1, SettledWithin
  <2>4. \A k \in CacheKeys : hyd' # "reading" /\ rest'[k] = None
    BY <1>6 DEF Nothing
  <2>5. Within(rest, clock)'
    BY <1>6, NothingWithin
  <2> QED
    BY <2>2, <2>4, <2>5 DEF VersionsInv, SessionInv
<1>7. ASSUME NEW b \in CacheKeys \ (loaded \cup touched), NEW passed \in SUBSET CacheKeys,
             loaded \subseteq passed, hyd' = "deleting",
             rest' = [k \in CacheKeys |-> IF k \in passed \cup {b} THEN None ELSE r[k]],
             mem' = m, lock' = Append(lock, DeleteOp(b, "hydrate")), UNCHANGED touched
      PROVE  VersionsInv'
  <2>1. LockWithin(lock, clock)'
    <3>1. OpWithin(DeleteOp(b, "hydrate"), clock')
      BY <1>5 DEF OpWithin, DeleteOp, Ops
    <3>2. lock' = lock \o <<DeleteOp(b, "hydrate")>>
      BY <1>7, <3>1 DEF SessionInv, VersionsInv, LockWithin, OpWithin
    <3> QED
      BY <1>5, <3>1, <3>2, OneOpWithin, LockGrows DEF SessionInv, VersionsInv
  <2>2. Within(mem, clock)'
    BY <1>5, <1>7
  <2>3. Within(rest, clock)'
    BY <1>5, <1>7 DEF Within, Stores
  <2>4. ASSUME NEW k \in CacheKeys, mem'[k] # None
        PROVE  k \in touched' \/ (hyd' # "reading" /\ rest'[k] = None)
    <3>1. CASE k \in loaded
      BY <1>7, <3>1
    <3>2. CASE hyd # "reading" /\ rest[k] = None
      BY <1>7, <3>2
    <3> QED
      BY <1>2, <1>7, <2>4, <3>1, <3>2
  <2> QED
    BY <2>1, <2>2, <2>3, <2>4 DEF VersionsInv, SessionInv
<1> QED
  BY <1>1, <1>6, <1>7 DEF LoopOutcome

(* A step that drops entries and puts `more` on the lock, as a call does,  *)
(* and leaves hydration and the adapter alone.                             *)
LEMMA DropVersions ==
  ASSUME SessionInv, UNCHANGED <<clock, rest, store>>, network' \in Networks,
         hyd' # "reading" \/ hyd = "reading",
         NEW X, mem' = [k \in CacheKeys |-> IF k \in X THEN None ELSE mem[k]],
         \A k \in CacheKeys \ X : k \in touched => k \in touched',
         doc' # None => Within(doc', clock),
         Document => \A l \in loose' : Within(l.doc, clock),
         LockWithin(lock', clock)
  PROVE  VersionsInv'
<1>1. Within(mem, clock)'
  BY DEF SessionInv, VersionsInv, Within, Stores
<1>2. ASSUME NEW k \in CacheKeys, mem'[k] # None
      PROVE  k \in touched' \/ (hyd' # "reading" /\ rest'[k] = None)
  <2>1. mem'[k] = mem[k] /\ k \notin X /\ mem[k] # None
    BY <1>2
  <2> QED
    BY <2>1 DEF SessionInv, VersionsInv
<1> QED
  BY <1>1, <1>2 DEF SessionInv, VersionsInv

(* The same without a drop. *)
LEMMA QuietVersions ==
  ASSUME SessionInv, UNCHANGED <<clock, network, mem, rest>>,
         touched \subseteq touched', hyd' # "reading" \/ hyd = "reading",
         Within(store', clock), doc' # None => Within(doc', clock),
         Document => \A l \in loose' : Within(l.doc, clock),
         LockWithin(lock', clock)
  PROVE  VersionsInv'
<1>1. Within(mem, clock)' /\ Within(rest, clock)'
  BY DEF SessionInv, VersionsInv
<1>2. \A k \in CacheKeys : mem'[k] # None => k \in touched' \/ (hyd' # "reading" /\ rest'[k] = None)
  BY DEF SessionInv, VersionsInv
<1> QED
  BY <1>1, <1>2 DEF SessionInv, VersionsInv

LEMMA CallVersions == ASSUME SessionInv, Call PROVE VersionsInv'
<1> DEFINE Goal == VersionsInv'
<1>1. clock \in Nat /\ LockWithin(lock, clock) /\ Within(store, clock) /\ network \in Networks
      /\ (doc # None => Within(doc, clock)) /\ (Document => \A l \in loose : Within(l.doc, clock))
  BY DEF SessionInv, VersionsInv
<1>2. ASSUME NEW k \in CacheKeys, GetHit(k) PROVE Goal
  BY <1>1, <1>2, QuietVersions DEF GetHit, hydVars, adapterVars, timeVars
<1>3. ASSUME NEW k \in CacheKeys, GetExpired(k) PROVE Goal
  <2>1. mem' = [j \in CacheKeys |-> IF j \in {k} THEN None ELSE mem[j]]
    BY <1>3 DEF GetExpired, SessionInv, CapacityInv, Listed
  <2>2. Document => \A l \in loose' : Within(l.doc, clock)
    BY <1>1, <1>3 DEF GetExpired
  <2> QED
    BY <1>1, <1>3, <2>1, <2>2, DropVersions DEF GetExpired, hydVars, timeVars
<1>4. ASSUME NEW k \in CacheKeys, NEW ids \in SUBSET WillIds, Set(k, ids) PROVE Goal
  BY <1>4, SetVersions
<1>5. ASSUME NEW op, OpWithin(op, clock'), clock' = clock
      PROVE  LockWithin(Append(lock, op), clock)
  <2>1. Append(lock, op) = lock \o <<op>>
    BY <1>1, <1>5 DEF LockWithin, OpWithin
  <2> QED
    BY <1>1, <1>5, <2>1, OneOpWithin, LockGrows
<1>6. ASSUME NEW k \in CacheKeys, SetUncached(k) PROVE Goal
  <2>1. OpWithin(DeleteOp(k, "set"), clock') /\ clock' = clock
    BY <1>1, <1>6 DEF SetUncached, OpWithin, DeleteOp, Ops
  <2>2. LockWithin(lock', clock)
    BY <1>5, <1>6, <2>1 DEF SetUncached
  <2> QED
    BY <1>1, <1>6, <2>2, QuietVersions DEF SetUncached, hydVars
<1>7. ASSUME NEW ks \in SUBSET CacheKeys, DeleteKeys(ks) PROVE Goal
  <2>1. PICK s \in SetToSeqs(ks) : lock' = lock \o Deletes(s)
    BY <1>7 DEF DeleteKeys
  <2>2. s \in Seq(CacheKeys)
    <3>1. IsFiniteSet(ks)
      BY ReadCacheAssumption, FS_Subset
    <3>2. s \in Seq(ks)
      BY <3>1, ListsOfSet
    <3> QED
      BY <3>2
  <2>3. LockWithin(lock', clock)
    <3>1. clock' = clock
      BY <1>7 DEF DeleteKeys
    <3>2. LockWithin(Deletes(s), clock)
      BY <1>1, <2>2, <3>1, DeletesWithin
    <3> QED
      BY <1>1, <2>1, <3>2, LockGrows
  <2> QED
    BY <1>1, <1>7, <2>3, DropVersions DEF DeleteKeys, hydVars
<1>8. ASSUME Empty, network' \in Networks PROVE Goal
  <2>1. OpWithin(ClearOp, clock') /\ clock' = clock
    BY <1>1, <1>8 DEF Empty, OpWithin, ClearOp, Ops
  <2>2. LockWithin(lock', clock)
    BY <1>5, <1>8, <2>1 DEF Empty
  <2>3. mem' = [k \in CacheKeys |-> IF k \in CacheKeys THEN None ELSE mem[k]]
    BY <1>8 DEF Empty, Nothing
  <2> QED
    BY <1>1, <1>8, <2>2, <2>3, DropVersions DEF Empty, hydVars
<1>9. ASSUME NEW k \in CacheKeys, Invalidate(k) PROVE Goal
  BY <1>7, <1>9 DEF Invalidate
<1>10. ASSUME NEW w \in WillIds, InvalidateByWillId(w) PROVE Goal
  BY <1>7, <1>10 DEF InvalidateByWillId, SessionInv, Shapes
<1>11. CASE InvalidateAll \/ Clear \/ \E n \in Networks : SetNetwork(n)
  BY <1>1, <1>8, <1>11 DEF InvalidateAll, Clear, SetNetwork
<1> QED
  BY <1>2, <1>3, <1>4, <1>6, <1>9, <1>10, <1>11, AskedAssumption DEF Call

LEMMA AdapterVersions == ASSUME SessionInv, Adapter PROVE VersionsInv'
<1> DEFINE Goal == VersionsInv'
<1>1. clock \in Nat /\ LockWithin(lock, clock) /\ Within(store, clock) /\ network \in Networks
      /\ (doc # None => Within(doc, clock)) /\ (Document => \A l \in loose : Within(l.doc, clock))
      /\ Within(rest, clock)
  BY DEF SessionInv, VersionsInv
<1>2. CASE HydrateRead
  <2>1. CASE cleared
    BY <1>1, <1>2, <2>1, QuietVersions DEF HydrateRead
  <2>2. CASE ~cleared
    <3>1. PICK ws : Loop(store, horizon, ws)
      BY <1>2, <2>2 DEF HydrateRead
    <3> QED
      BY <1>1, <1>2, <3>1, LoopVersions DEF HydrateRead
  <2> QED
    BY <2>1, <2>2
<1>3. CASE HydrateResume
  BY <1>1, <1>3, LoopVersions DEF HydrateResume
<1>4. CASE HydrateReadFails
  BY <1>1, <1>4, QuietVersions DEF HydrateReadFails, memVars, adapterVars, timeVars
<1>5. CASE Start
  BY <1>1, <1>5, NothingWithin, QuietVersions DEF Start, memVars, hydVars, timeVars
<1>6. CASE End
  <2> DEFINE op == Head(lock)
             old == IF Document THEN doc ELSE store
  <2>1. LockWithin(Tail(lock), clock) /\ OpWithin(op, clock)
    BY <1>1, <1>6, TailWithin DEF End, SessionInv, Shapes
  <2>2. Within(old, clock)
    BY <1>1, <1>6 DEF End
  <2>3. store' = Effect(op, old) /\ lock' = Tail(lock) /\ doc' = None
        /\ hyd' \in {hyd, "resuming"} /\ UNCHANGED <<mem, network, rest, loose, touched, clock>>
    BY <1>6 DEF End, memVars, timeVars
  <2> HIDE DEF op, old
  <2>4. Within(Effect(op, old), clock)
    <3>1. CASE op.kind = "write"
      BY <2>1, <2>2, <3>1 DEF Within, Effect, OpWithin, Stores
    <3>2. CASE op.kind = "delete"
      BY <2>1, <2>2, <3>2 DEF Within, Effect, OpWithin, Stores
    <3>3. CASE op.kind = "clear"
      BY <3>3, NothingWithin DEF Effect
    <3> QED
      BY <2>1, <3>1, <3>2, <3>3 DEF OpWithin, Ops
  <2> QED
    BY <1>1, <2>1, <2>3, <2>4, QuietVersions
<1>7. CASE EndFailed
  <2>1. LockWithin(Tail(lock), clock) /\ OpWithin(Head(lock), clock)
    BY <1>1, <1>7, TailWithin DEF EndFailed, SessionInv, Shapes
  <2>2. lock' = Tail(lock) /\ doc' = None /\ UNCHANGED <<network, rest, loose, store, clock>>
    BY <1>7 DEF EndFailed, timeVars
  <2> DEFINE undo == Head(lock).kind = "write" /\ Rollback
             X == IF undo THEN {Head(lock).key} ELSE {}
  <2>3. /\ mem' = [k \in CacheKeys |-> IF k \in X THEN None ELSE mem[k]]
        /\ touched' = touched \ X
    BY <1>7 DEF EndFailed, SessionInv, CapacityInv, Listed
  <2>4. hyd' \in {hyd, "failed"}
    BY <1>7 DEF EndFailed
  <2> HIDE DEF X
  <2> QED
    BY <1>1, <2>1, <2>2, <2>3, <2>4, DropVersions
<1>8. ASSUME NEW l \in loose, LooseEnd(l) \/ LooseFails(l) PROVE Goal
  <2>1. Within(store', clock)
    BY <1>1, <1>8 DEF LooseEnd, LooseFails, Within, Stores
  <2>2. Document => \A k \in loose' : Within(k.doc, clock)
    BY <1>1, <1>8 DEF LooseEnd, LooseFails
  <2> QED
    BY <1>1, <1>8, <2>1, <2>2, QuietVersions DEF LooseEnd, LooseFails, memVars, hydVars, timeVars
<1> QED
  BY <1>2, <1>3, <1>4, <1>5, <1>6, <1>7, <1>8 DEF Adapter, AdapterAnswers, AdapterFails

LEMMA NextVersions == ASSUME SessionInv, [Next]_vars PROVE VersionsInv'
<1>1. CASE Restart
  <2>1. /\ mem' = Nothing /\ rest' = Nothing /\ lock' = <<>> /\ doc' = None /\ loose' = {}
        /\ network' \in Networks /\ UNCHANGED <<store, clock>>
    BY <1>1 DEF Restart, Fresh, timeVars
  <2>2. \A k \in CacheKeys : mem'[k] = None
    BY <2>1 DEF Nothing
  <2>3. LockWithin(<<>>, clock)
    BY DEF LockWithin
  <2> QED
    BY <2>1, <2>2, <2>3, NothingWithin DEF SessionInv, VersionsInv
<1>2. CASE Expire \/ UNCHANGED vars
  BY <1>2, QuietVersions DEF SessionInv, VersionsInv, Expire, vars, memVars, hydVars, adapterVars, timeVars
<1> QED
  BY <1>1, <1>2, CallVersions, AdapterVersions DEF Next

LEMMA NextShapes == ASSUME SessionInv, [Next]_vars PROVE Shapes'
<1>1. lock \in Seq(Ops) /\ clock \in Nat /\ (doc # None => lock # <<>>)
  BY DEF SessionInv, VersionsInv, LockWithin, Shapes
<1>2. index' \in [WillIds -> SUBSET CacheKeys]
  <2>1. ASSUME NEW k \in CacheKeys, NEW ids \in SUBSET WillIds, Set(k, ids)
        PROVE  index' \in [WillIds -> SUBSET CacheKeys]
    BY <2>1 DEF Set, Indexed, SessionInv, Shapes
  <2>2. ASSUME NEW ks, DeleteKeys(ks) PROVE index' \in [WillIds -> SUBSET CacheKeys]
    BY <2>2 DEF DeleteKeys, SessionInv, Shapes
  <2>3. ASSUME NEW r, NEW now, NEW ws, Loop(r, now, ws)
        PROVE  index' \in [WillIds -> SUBSET CacheKeys]
    BY <2>3 DEF Loop, Loadable, Persisted, SessionInv, Shapes
  <2>4. CASE HydrateRead
    BY <2>3, <2>4 DEF HydrateRead, SessionInv, Shapes
  <2>5. CASE HydrateResume
    BY <2>3, <2>5 DEF HydrateResume
  <2>6. CASE Restart
    BY <2>6 DEF Restart, Fresh
  <2>7. ASSUME Empty PROVE index' \in [WillIds -> SUBSET CacheKeys]
    BY <2>7 DEF Empty
  <2>8. ASSUME UNCHANGED index PROVE index' \in [WillIds -> SUBSET CacheKeys]
    BY <2>8 DEF SessionInv, Shapes
  <2>9. CASE Call
    BY <2>1, <2>2, <2>7, <2>8, <2>9, AskedAssumption
       DEF Call, GetHit, GetExpired, SetUncached, Invalidate, InvalidateByWillId, InvalidateAll,
           Clear, SetNetwork
  <2>10. CASE Adapter
    BY <2>4, <2>5, <2>8, <2>10
       DEF Adapter, AdapterAnswers, AdapterFails, Start, End, LooseEnd, LooseFails,
           HydrateReadFails, EndFailed, memVars
  <2> QED
    BY <2>6, <2>8, <2>9, <2>10 DEF Next, Expire, vars, memVars
<1>3. doc' # None => lock' # <<>>
  <2>1. ASSUME NEW x PROVE Append(lock, x) # <<>>
    BY <1>1
  <2>2. ASSUME NEW l \in Seq(Ops), NEW ks \in Seq(CacheKeys), clock' \in Nat, l # <<>>
        PROVE  l \o Deletes(ks) # <<>>
    <3>1. Deletes(ks) \in Seq(Ops)
      BY <2>2, DeletesWithin DEF LockWithin
    <3> QED
      BY <2>2, <3>1
  <2>3. ASSUME UNCHANGED <<lock, doc>> PROVE doc' # None => lock' # <<>>
    BY <1>1, <2>3
  <2>4. ASSUME NEW k \in CacheKeys, NEW ids \in SUBSET WillIds, Set(k, ids)
        PROVE  lock' # <<>>
    <3> DEFINE entry == [ver |-> clock + 1, ids |-> ids, net |-> network, ok |-> TRUE]
               vs == Victims(ToEnd(order, k), [mem EXCEPT ![k] = entry])
    <3>1. /\ lock' = lock \o <<WriteOp(k, entry)>> \o Deletes(vs)
          /\ clock' \in Nat
      BY <1>1, <2>4 DEF Set, Settle
    <3>2. vs \in Seq(CacheKeys)
      <4>1. ToEnd(order, k) \in Seq(CacheKeys)
        BY ToEndIsListed DEF SessionInv, CapacityInv, Listed
      <4> QED
        BY <4>1, VictimsAreKeys
    <3>3. WriteOp(k, entry) \in Ops
      <4>1. entry \in Entries
        BY <1>1 DEF Entries, SessionInv, VersionsInv
      <4> QED
        BY <4>1 DEF WriteOp, Ops
    <3> HIDE DEF vs, entry
    <3>4. lock \o <<WriteOp(k, entry)>> \in Seq(Ops) /\ lock \o <<WriteOp(k, entry)>> # <<>>
      BY <1>1, <3>3
    <3> QED
      BY <2>2, <3>1, <3>2, <3>4
  <2>5. ASSUME NEW ks \in SUBSET CacheKeys, DeleteKeys(ks) PROVE doc' # None => lock' # <<>>
    <3>1. PICK s \in SetToSeqs(ks) : lock' = lock \o Deletes(s)
      BY <2>5 DEF DeleteKeys
    <3>2. s \in Seq(CacheKeys)
      <4>1. IsFiniteSet(ks)
        BY ReadCacheAssumption, FS_Subset
      <4>2. s \in Seq(ks)
        BY <4>1, ListsOfSet
      <4> QED
        BY <4>2
    <3>3. doc' = doc /\ clock' \in Nat
      BY <1>1, <2>5 DEF DeleteKeys
    <3> QED
      BY <1>1, <2>2, <3>1, <3>2, <3>3
  <2>6. ASSUME NEW w \in WillIds, InvalidateByWillId(w) PROVE doc' # None => lock' # <<>>
    BY <2>5, <2>6 DEF InvalidateByWillId, SessionInv, Shapes
  <2>7. CASE Call
    BY <2>1, <2>3, <2>4, <2>5, <2>6, <2>7, AskedAssumption
       DEF Call, GetHit, GetExpired, SetUncached, Invalidate, InvalidateAll,
           Clear, SetNetwork, Empty, adapterVars
  <2>8. ASSUME NEW r, NEW now, NEW ws, Loop(r, now, ws), UNCHANGED <<doc, clock>>
        PROVE  doc' # None => lock' # <<>>
    <3>1. PICK loaded, m : LoopOutcome(r, loaded, m)
      BY <2>8, LoopOutcomes DEF SessionInv
    <3>2. ASSUME NEW o \in Seq(CacheKeys), Settle(m, o, {}, <<>>)
          PROVE  doc' # None => lock' # <<>>
      <4>1. lock' = (lock \o <<>>) \o Deletes(Victims(o, m)) /\ Victims(o, m) \in Seq(CacheKeys)
        BY <3>2, VictimsAreKeys DEF Settle
      <4>2. lock \o <<>> = lock /\ clock' \in Nat
        BY <1>1, <2>8
      <4> QED
        BY <1>1, <2>2, <2>8, <4>1, <4>2
    <3> QED
      BY <1>1, <2>1, <2>8, <3>1, <3>2 DEF LoopOutcome
  <2>9. CASE HydrateRead
    BY <2>3, <2>8, <2>9 DEF HydrateRead
  <2>10. CASE HydrateResume
    BY <2>8, <2>10 DEF HydrateResume
  <2>11. CASE Adapter
    BY <1>1, <2>3, <2>9, <2>10, <2>11
       DEF Adapter, AdapterAnswers, AdapterFails, Start, End, LooseEnd, LooseFails,
           HydrateReadFails, EndFailed, adapterVars
  <2>12. CASE Restart
    BY <2>12 DEF Restart, Fresh
  <2> QED
    BY <2>3, <2>7, <2>11, <2>12 DEF Next, Expire, vars, adapterVars
<1> QED
  BY <1>2, <1>3 DEF Shapes

LEMMA InitSession == ASSUME Init PROVE SessionInv
<1> DEFINE Kept0 == {k \in CacheKeys : Stored[k] # None}
<1>1. clock \in Nat /\ clock = Cardinality(Kept0)
  <2>1. IsFiniteSet(Kept0)
    BY ReadCacheAssumption, FS_Subset
  <2> QED
    BY <2>1, FS_CardinalityType DEF Init
<1>2. Within(store, clock)
  BY <1>1, ReadCacheAssumption DEF Init, Within
<1>3. CapacityInv
  BY InitFits
<1>4. LockWithin(<<>>, clock)
  BY DEF LockWithin
<1>5. \A k \in CacheKeys : mem[k] = None
  BY DEF Init, Nothing
<1> QED
  BY <1>1, <1>2, <1>3, <1>4, <1>5, NothingWithin DEF Init, SessionInv, VersionsInv, Shapes

LEMMA NextSession == ASSUME SessionInv, [Next]_vars PROVE SessionInv'
BY NextFits, NextVersions, NextShapes DEF SessionInv

(* What the memory has held in the session is of the versions written, and *)
(* hydration loads none of its keys again; an entry in memory is of the    *)
(* newest version seen.                                                    *)
SeenInv ==
  /\ seen \in [CacheKeys -> 0..clock]
  /\ \A k \in CacheKeys : seen[k] # 0 => k \in touched \/ (hyd # "reading" /\ rest[k] = None)
  /\ \A k \in CacheKeys : mem[k] # None => seen[k] = mem[k].ver

(* A step that loads nothing, and forgets at most keys of X. *)
LEMMA SeenStays ==
  ASSUME SessionInv, SeenInv, clock' = clock, rest' = rest,
         NEW X \in SUBSET CacheKeys,
         seen' = [k \in CacheKeys |-> IF k \in X THEN 0 ELSE seen[k]],
         \A k \in CacheKeys \ X : k \in touched => k \in touched', hyd' # "reading" \/ hyd = "reading",
         \A k \in CacheKeys : mem'[k] = None \/ (mem'[k] = mem[k] /\ k \notin X)
  PROVE  SeenInv'
<1>1. clock \in Nat
  BY DEF SessionInv, VersionsInv
<1> QED
  BY <1>1 DEF SeenInv

(* The entries m, of keys whose older versions cannot come back: those     *)
(* remembered are the newest.                                              *)
LEMMA SeenGrows ==
  ASSUME SeenInv, clock \in Nat, clock' \in Nat, clock <= clock',
         NEW m, Within(m, clock'), Sees,
         \A k \in CacheKeys : mem'[k] = m[k] \/ mem'[k] = None,
         \A k \in CacheKeys : m[k] # None => seen[k] <= m[k].ver,
         \A k \in CacheKeys :
           seen[k] # 0 \/ m[k] # None => k \in touched' \/ (hyd' # "reading" /\ rest'[k] = None)
  PROVE  SeenInv'
<1>1. ASSUME NEW k \in CacheKeys
      PROVE  /\ seen'[k] \in 0..clock'
             /\ seen'[k] # 0 => k \in touched' \/ (hyd' # "reading" /\ rest'[k] = None)
             /\ mem'[k] # None => seen'[k] = mem'[k].ver
  <2>1. seen'[k] = IF mem'[k] # None /\ seen[k] < mem'[k].ver THEN mem'[k].ver ELSE seen[k]
    BY DEF Sees
  <2>2. seen[k] \in 0..clock
    BY DEF SeenInv
  <2>3. CASE mem'[k] = None
    BY <2>1, <2>2, <2>3
  <2>4. CASE mem'[k] # None
    <3>1. mem'[k] = m[k] /\ m[k].ver \in 1..clock' /\ seen[k] <= m[k].ver
      BY <2>4 DEF Within
    <3> QED
      BY <2>1, <2>2, <3>1
  <2> QED
    BY <2>3, <2>4
<1>2. seen' = [k \in CacheKeys |-> seen'[k]]
  BY DEF Sees
<1> QED
  BY <1>1, <1>2 DEF SeenInv

LEMMA SetSeen ==
  ASSUME SessionInv, SeenInv, NEW k \in CacheKeys, NEW ids \in SUBSET WillIds, Set(k, ids)
  PROVE  SeenInv'
<1> DEFINE entry == [ver |-> clock + 1, ids |-> ids, net |-> network, ok |-> TRUE]
           m == [mem EXCEPT ![k] = entry]
           v == ToSet(Victims(ToEnd(order, k), m))
<1>1. /\ mem' = [j \in CacheKeys |-> IF j \in v THEN None ELSE m[j]]
      /\ touched' = touched \cup {k} \cup v /\ Sees
      /\ clock' = clock + 1 /\ clock \in Nat /\ clock' \in Nat /\ clock <= clock'
      /\ UNCHANGED <<hyd, rest>>
  BY DEF Set, Settle, SessionInv, VersionsInv
<1>2. entry \in Entries /\ entry.ver = clock'
  <2>1. clock + 1 \in Nat /\ network \in Networks
    BY <1>1 DEF SessionInv, VersionsInv
  <2> QED
    BY <1>1, <2>1 DEF Entries
<1> HIDE DEF v, entry
<1>3. /\ m \in Stores /\ m[k] = entry /\ \A j \in CacheKeys : j # k => m[j] = mem[j]
  BY <1>2 DEF SessionInv, VersionsInv, Within, Stores
<1> HIDE DEF m
<1>4. Within(mem, clock') /\ \A j \in CacheKeys : seen[j] \in 0..clock
  BY <1>1, WithinMore DEF SessionInv, VersionsInv, SeenInv
<1>5. Within(m, clock')
  BY <1>1, <1>2, <1>3, <1>4 DEF Within
<1>6. \A j \in CacheKeys : m[j] # None => seen[j] <= m[j].ver
  BY <1>1, <1>2, <1>3, <1>4 DEF SeenInv
<1>7. \A j \in CacheKeys :
        seen[j] # 0 \/ m[j] # None => j \in touched' \/ (hyd' # "reading" /\ rest'[j] = None)
  BY <1>1, <1>3 DEF SeenInv, SessionInv, VersionsInv
<1> QED
  BY <1>1, <1>5, <1>6, <1>7, SeenGrows

LEMMA LoopSeen ==
  ASSUME SessionInv, SeenInv, NEW r, Within(r, clock), NEW now, NEW ws, Loop(r, now, ws),
         hyd # "reading" => r = rest, clock' = clock
  PROVE  SeenInv'
<1>1. PICK loaded, m : LoopOutcome(r, loaded, m)
  BY LoopOutcomes DEF SessionInv
<1>2. /\ m = [k \in CacheKeys |-> IF k \in loaded THEN r[k] ELSE mem[k]]
      /\ loaded \in SUBSET CacheKeys /\ loaded \cap touched = {} /\ \A k \in loaded : r[k] # None
  BY <1>1 DEF LoopOutcome
<1>3. clock \in Nat /\ clock' \in Nat /\ clock <= clock' /\ Within(mem, clock) /\ Within(r, clock')
  BY DEF SessionInv, VersionsInv
<1>4. \A k \in loaded : seen[k] = 0
  BY <1>2 DEF SeenInv
<1>5. Within(m, clock') /\ \A k \in CacheKeys : m[k] # None => seen[k] <= m[k].ver
  <2>1. Within(m, clock')
    BY <1>2, <1>3 DEF Within, Stores
  <2>2. ASSUME NEW k \in CacheKeys, m[k] # None PROVE seen[k] <= m[k].ver
    <3>1. m[k].ver \in 1..clock' /\ seen[k] \in 0..clock
      BY <2>1, <2>2 DEF Within, SeenInv
    <3>2. CASE k \in loaded
      BY <1>3, <1>4, <3>1, <3>2
    <3>3. CASE k \notin loaded
      BY <1>2, <1>3, <2>2, <3>1, <3>3 DEF SeenInv
    <3> QED
      BY <3>2, <3>3
  <2> QED
    BY <2>1, <2>2
<1>6. Sees /\ (\A k \in CacheKeys : mem'[k] = m[k] \/ mem'[k] = None) /\ touched \subseteq touched'
  BY <1>1 DEF LoopOutcome, Settle
<1>7. hyd' # "reading" /\ \A k \in CacheKeys :
        seen[k] # 0 \/ m[k] # None => k \in touched' \/ rest'[k] = None
  <2>1. CASE hyd' = "ready" /\ rest' = Nothing
    BY <2>1 DEF Nothing
  <2>2. ASSUME hyd' = "deleting",
               NEW b \in CacheKeys, NEW passed \in SUBSET CacheKeys, loaded \subseteq passed,
               rest' = [k \in CacheKeys |-> IF k \in passed \cup {b} THEN None ELSE r[k]]
        PROVE  \A k \in CacheKeys : seen[k] # 0 \/ m[k] # None => k \in touched' \/ rest'[k] = None
    <3> SUFFICES ASSUME NEW k \in CacheKeys, seen[k] # 0 \/ m[k] # None, k \notin touched
                 PROVE  rest'[k] = None
      BY <1>6
    <3>1. CASE k \in loaded
      BY <2>2, <3>1
    <3>2. CASE k \notin loaded
      <4>1. hyd # "reading" /\ rest[k] = None
        BY <1>2, <3>2 DEF SeenInv, SessionInv, VersionsInv
      <4> QED
        BY <2>2, <4>1
    <3> QED
      BY <3>1, <3>2
  <2> QED
    BY <1>1, <2>1, <2>2 DEF LoopOutcome
<1> QED
  BY <1>3, <1>5, <1>6, <1>7, SeenGrows

LEMMA NextSeen == ASSUME SessionInv, SeenInv, [Next]_vars PROVE SeenInv'
<1>1. /\ seen = [k \in CacheKeys |-> seen[k]] /\ mem = [k \in CacheKeys |-> mem[k]]
      /\ Within(store, clock) /\ Within(rest, clock)
  BY DEF SeenInv, SessionInv, VersionsInv, Within, Stores
<1>2. ASSUME clock' = clock, rest' = rest, seen' = seen, touched \subseteq touched',
             hyd' # "reading" \/ hyd = "reading",
             \A k \in CacheKeys : mem'[k] \in {None, mem[k]}
      PROVE  SeenInv'
  <2> DEFINE X == {}
  <2>1. /\ X \in SUBSET CacheKeys /\ \A k \in CacheKeys \ X : k \in touched => k \in touched'
        /\ seen' = [k \in CacheKeys |-> IF k \in X THEN 0 ELSE seen[k]]
        /\ \A k \in CacheKeys : mem'[k] = None \/ (mem'[k] = mem[k] /\ k \notin X)
    BY <1>1, <1>2
  <2> HIDE DEF X
  <2> QED
    BY <1>2, <2>1, SeenStays
<1>3. CASE Call
  <2>1. ASSUME NEW k \in CacheKeys, GetHit(k) \/ GetExpired(k) \/ SetUncached(k) PROVE SeenInv'
    BY <1>1, <1>2, <2>1 DEF GetHit, GetExpired, SetUncached, hydVars, history, timeVars
  <2>2. ASSUME NEW ks, DeleteKeys(ks) PROVE SeenInv'
    BY <1>1, <1>2, <2>2 DEF DeleteKeys, hydVars, history
  <2>3. ASSUME Empty PROVE SeenInv'
    BY <1>1, <1>2, <2>3 DEF Empty, Nothing, hydVars, history
  <2> QED
    BY <1>3, <2>1, <2>2, <2>3, SetSeen, AskedAssumption
       DEF Call, Invalidate, InvalidateByWillId, InvalidateAll, Clear, SetNetwork
<1>4. CASE Adapter
  <2>1. CASE HydrateRead
    <3>1. CASE cleared
      BY <1>2, <2>1, <3>1 DEF HydrateRead, history
    <3>2. CASE ~cleared
      <4>1. PICK ws : Loop(store, horizon, ws)
        BY <2>1, <3>2 DEF HydrateRead
      <4> QED
        BY <1>1, <2>1, <4>1, LoopSeen DEF HydrateRead
    <3> QED
      BY <3>1, <3>2
  <2>2. CASE HydrateResume
    BY <1>1, <2>2, LoopSeen DEF HydrateResume
  <2>3. CASE HydrateReadFails \/ Start \/ End \/ \E l \in loose : LooseEnd(l) \/ LooseFails(l)
    BY <1>2, <2>3
       DEF HydrateReadFails, Start, End, LooseEnd, LooseFails, memVars, hydVars, history, timeVars
  <2>4. CASE EndFailed
    <3> DEFINE X == IF Head(lock).kind = "write" /\ Rollback
                    THEN {Head(lock).key} \cap CacheKeys ELSE {}
    <3>1. /\ clock' = clock /\ rest' = rest /\ X \in SUBSET CacheKeys
          /\ (hyd' # "reading" \/ hyd = "reading")
      BY <2>4 DEF EndFailed, timeVars
    <3>2. \A k \in CacheKeys \ X : k \in touched => k \in touched'
      BY <2>4 DEF EndFailed
    <3>3. /\ seen' = [k \in CacheKeys |-> IF k \in X THEN 0 ELSE seen[k]]
          /\ \A k \in CacheKeys : mem'[k] = None \/ (mem'[k] = mem[k] /\ k \notin X)
      BY <1>1, <2>4 DEF EndFailed
    <3> HIDE DEF X
    <3> QED
      BY <3>1, <3>2, <3>3, SeenStays
  <2> QED
    BY <1>4, <2>1, <2>2, <2>3, <2>4 DEF Adapter, AdapterAnswers, AdapterFails
<1>5. CASE Restart
  <2>1. clock' \in Nat /\ seen' = [k \in CacheKeys |-> 0] /\ mem' = Nothing
    BY <1>5 DEF Restart, Fresh, timeVars, SessionInv, VersionsInv
  <2> QED
    BY <2>1 DEF SeenInv, Nothing
<1>6. CASE Expire \/ UNCHANGED vars
  BY <1>2, <1>6 DEF Expire, vars, memVars, hydVars, history, timeVars
<1> QED
  BY <1>3, <1>4, <1>5, <1>6 DEF Next

(* Within a session no key is in memory in an older version than it was    *)
(* in memory in before, since it was last rolled back: for every adapter,  *)
(* queue and order of sets, evictions, invalidations, expiries, clears and *)
(* hydration (touchedKeys, line 596).                                      *)
THEOREM NothingOlder == Spec => []NeverOlder
<1>1. Init => SessionInv /\ SeenInv
  <2>1. ASSUME Init PROVE SeenInv
    <3>1. clock \in Nat
      BY <2>1, InitSession DEF SessionInv, VersionsInv
    <3>2. mem = Nothing /\ seen = [k \in CacheKeys |-> 0]
      BY <2>1 DEF Init
    <3> QED
      BY <3>1, <3>2 DEF SeenInv, Nothing
  <2> QED
    BY <2>1, InitSession
<1>2. SessionInv /\ SeenInv /\ [Next]_vars => (SessionInv /\ SeenInv)'
  BY NextSession, NextSeen
<1>3. SessionInv /\ SeenInv => NeverOlder
  <2> SUFFICES ASSUME SessionInv, SeenInv, NEW k \in CacheKeys, mem[k] # None
               PROVE  seen[k] <= mem[k].ver
    BY DEF NeverOlder
  <2>1. seen[k] = mem[k].ver /\ seen[k] \in 0..clock /\ clock \in Nat
    BY DEF SeenInv, SessionInv, VersionsInv
  <2> QED
    BY <2>1
<1> QED
  BY <1>1, <1>2, <1>3, PTL DEF Spec
-----------------------------------------------------------------------------
(* Invalidations.                                                          *)

(* The mutation takes the entry of key k from the adapter. *)
Covers(op, k) == op.kind = "clear" \/ (op.kind = "delete" /\ op.key = k)

(* Hydration may still load key k. *)
MayLoad(k) == k \notin touched /\ (hyd = "reading" \/ rest[k] # None)

(* Whatever may yet become an entry of the memory or of the adapter (an    *)
(* entry on its way in hydration, a write that waits for the lock) is newer*)
(* than what has been deleted, and than every deletion that is carried out *)
(* before it or after it; and no deletion waits for a key that hydration   *)
(* may still load.                                                         *)
SurvivalInv ==
  /\ gone \in [CacheKeys -> Nat]
  /\ \A k \in CacheKeys :
       /\ gone[k] <= clock
       /\ store[k] # None => gone[k] < store[k].ver
       /\ mem[k] # None => gone[k] < mem[k].ver
       /\ k \notin touched /\ rest[k] # None => gone[k] < rest[k].ver
       /\ \A i \in DOMAIN lock : Covers(lock[i], k) =>
            /\ ~MayLoad(k)
            /\ mem[k] # None => lock[i].upto < mem[k].ver
  /\ \A j \in DOMAIN lock : lock[j].kind = "write" =>
       /\ gone[lock[j].key] < lock[j].entry.ver
       /\ \A i \in DOMAIN lock : i < j /\ Covers(lock[i], lock[j].key) =>
            lock[i].upto < lock[j].entry.ver
  /\ hyd \in {"reading", "ready"} => rest = Nothing

(* The adapter keeps one entry per key, a failed write is not rolled back, *)
(* and the application does not call clear() or setNetwork().              *)
Careful == ~Document /\ ~Rollback /\ Events \cap {"clear", "network"} = {}

(* A step that adds `more` to the lock. *)
LEMMA LockedSurvives ==
  ASSUME SessionInv, SurvivalInv, SessionInv',
         NEW more \in Seq(Ops), lock' = lock \o more, UNCHANGED gone, clock <= clock',
         \A k \in CacheKeys : store'[k] \in {store[k], None},
         \A i \in DOMAIN more, k \in CacheKeys :
           Covers(more[i], k) => /\ mem'[k] = None \/ more[i].upto = 0
                                 /\ k \in touched' \/ (hyd' # "reading" /\ rest'[k] = None),
         \A j \in DOMAIN more : more[j].kind = "write" =>
           /\ more[j].entry.ver > clock
           /\ \A i \in DOMAIN more : i < j => more[i].kind = "write",
         \A k \in CacheKeys : MayLoad(k)' => MayLoad(k),
         \A k \in CacheKeys : mem'[k] # None =>
           \/ mem'[k] = mem[k]
           \/ mem'[k].ver > clock
           \/ MayLoad(k) /\ gone[k] < mem'[k].ver,
         \A k \in CacheKeys : k \notin touched' /\ rest'[k] # None => gone[k] < rest'[k].ver,
         hyd' \in {"reading", "ready"} => rest' = Nothing
  PROVE  SurvivalInv'
<1>1. /\ lock \in Seq(Ops) /\ clock \in Nat /\ clock' \in Nat
      /\ \A i \in DOMAIN lock : OpWithin(lock[i], clock)
      /\ \A i \in DOMAIN lock' : OpWithin(lock'[i], clock')
  BY DEF SessionInv, VersionsInv, LockWithin
<1>2. /\ \A i \in DOMAIN lock : i \in DOMAIN lock' /\ lock'[i] = lock[i]
      /\ \A i \in DOMAIN lock' : i \in DOMAIN lock \/
           (i > Len(lock) /\ i - Len(lock) \in DOMAIN more /\ lock'[i] = more[i - Len(lock)])
      /\ DOMAIN lock = 1..Len(lock) /\ Len(lock) \in Nat
      /\ DOMAIN lock' \subseteq Nat
  <2>1. lock \o more \in Seq(Ops)
    BY <1>1
  <2> QED
    BY <1>1, <2>1, PlacesOfBoth
<1>3. gone' = gone /\ gone \in [CacheKeys -> Nat]
  BY DEF SurvivalInv
<1>4. ASSUME NEW k \in CacheKeys
      PROVE  /\ gone[k] <= clock' /\ gone[k] \in Nat /\ gone[k] <= clock
             /\ store'[k] # None => gone[k] < store'[k].ver
  BY <1>1, <1>3 DEF SurvivalInv
<1>5. ASSUME NEW k \in CacheKeys, mem'[k] # None
      PROVE  mem'[k] \in Entries /\ mem'[k].ver \in Nat /\ gone[k] < mem'[k].ver
  <2>1. mem'[k] \in Entries /\ mem'[k].ver \in Nat
    BY <1>5 DEF SessionInv, VersionsInv, Within, Stores, Entries
  <2>2. CASE mem'[k] = mem[k]
    BY <1>5, <2>1, <2>2 DEF SurvivalInv
  <2>3. CASE mem'[k].ver > clock
    BY <1>1, <1>4, <2>1, <2>3
  <2> QED
    BY <1>5, <2>1, <2>2, <2>3
<1>6. ASSUME NEW k \in CacheKeys, NEW i \in DOMAIN lock', Covers(lock'[i], k)
      PROVE  ~MayLoad(k)' /\ (mem'[k] # None => lock'[i].upto < mem'[k].ver)
  <2>1. CASE i \in DOMAIN lock
    <3>1. lock'[i] = lock[i] /\ lock[i].upto \in Nat /\ lock[i].upto <= clock
      BY <1>1, <1>2, <2>1 DEF OpWithin, Ops
    <3>2. Covers(lock[i], k)
      BY <1>6, <3>1
    <3>3. ~MayLoad(k) /\ (mem[k] # None => lock[i].upto < mem[k].ver)
      BY <2>1, <3>2 DEF SurvivalInv
    <3>4. ASSUME mem'[k] # None PROVE lock[i].upto < mem'[k].ver
      BY <1>1, <1>5, <3>1, <3>3, <3>4
    <3> QED
      BY <3>1, <3>3, <3>4
  <2>2. CASE i \notin DOMAIN lock
    <3>1. PICK n \in DOMAIN more : lock'[i] = more[n]
      BY <1>2, <2>2
    <3>2. Covers(more[n], k)
      BY <1>6, <3>1
    <3>3. /\ mem'[k] = None \/ lock'[i].upto = 0
          /\ k \in touched' \/ (hyd' # "reading" /\ rest'[k] = None)
      BY <3>1, <3>2
    <3>4. ~MayLoad(k)'
      BY <3>3 DEF MayLoad
    <3>5. ASSUME mem'[k] # None PROVE lock'[i].upto < mem'[k].ver
      <4>1. mem'[k].ver \in Nat /\ gone[k] \in Nat /\ gone[k] < mem'[k].ver
        BY <1>4, <1>5, <3>5
      <4>2. 0 < mem'[k].ver
        BY <4>1
      <4> QED
        BY <3>3, <3>5, <4>2
    <3> QED
      BY <3>4, <3>5
  <2> QED
    BY <2>1, <2>2
<1>7. ASSUME NEW j \in DOMAIN lock', lock'[j].kind = "write"
      PROVE  /\ gone[lock'[j].key] < lock'[j].entry.ver
             /\ \A i \in DOMAIN lock' : i < j /\ Covers(lock'[i], lock'[j].key) =>
                  lock'[i].upto < lock'[j].entry.ver
  <2>1. CASE j \in DOMAIN lock
    <3>1. lock'[j] = lock[j] /\ \A i \in DOMAIN lock' : i < j => i \in DOMAIN lock /\ lock'[i] = lock[i]
      BY <1>2, <2>1
    <3> QED
      BY <1>7, <2>1, <3>1 DEF SurvivalInv
  <2>2. CASE j \notin DOMAIN lock
    <3>1. PICK n \in DOMAIN more : n = j - Len(lock) /\ lock'[j] = more[n]
      BY <1>2, <2>2
    <3>2. /\ lock'[j].entry.ver > clock /\ lock'[j].key \in CacheKeys
          /\ lock'[j].entry.ver \in Nat
      BY <1>1, <1>7, <3>1 DEF OpWithin, Entries
    <3>3. gone[lock'[j].key] < lock'[j].entry.ver
      <4>1. PICK k \in CacheKeys : k = lock'[j].key
        BY <3>2
      <4>2. gone[k] \in Nat /\ gone[k] <= clock /\ clock \in Nat
        BY <1>1, <1>4
      <4> QED
        BY <3>2, <4>1, <4>2
    <3>4. ASSUME NEW i \in DOMAIN lock', i < j, Covers(lock'[i], lock'[j].key)
          PROVE  lock'[i].upto < lock'[j].entry.ver
      <4>1. CASE i \in DOMAIN lock
        <5>1. lock'[i] = lock[i] /\ lock[i].upto \in Nat /\ lock[i].upto <= clock
          BY <1>1, <1>2, <4>1 DEF OpWithin, Ops
        <5>2. PICK u \in Nat : u = lock'[i].upto
          BY <5>1
        <5>3. PICK v \in Nat : v = lock'[j].entry.ver
          BY <3>2
        <5>4. clock \in Nat /\ u <= clock /\ clock < v
          BY <1>1, <3>2, <5>1, <5>2, <5>3
        <5>5. u < v
          BY <5>4
        <5> QED
          BY <5>2, <5>3, <5>5
      <4>2. CASE i \notin DOMAIN lock
        <5>1. PICK p \in DOMAIN more : p = i - Len(lock) /\ lock'[i] = more[p]
          BY <1>2, <4>2
        <5>2. p < n
          BY <1>2, <3>1, <3>4, <5>1
        <5>3. more[p].kind = "write"
          BY <1>7, <3>1, <5>1, <5>2
        <5> QED
          BY <3>4, <5>1, <5>3 DEF Covers
      <4> QED
        BY <4>1, <4>2
    <3> QED
      BY <3>3, <3>4
  <2> QED
    BY <2>1, <2>2
<1> HIDE DEF MayLoad, Covers
<1>8. \A k \in CacheKeys :
       /\ gone'[k] <= clock'
       /\ store'[k] # None => gone'[k] < store'[k].ver
       /\ mem'[k] # None => gone'[k] < mem'[k].ver
       /\ k \notin touched' /\ rest'[k] # None => gone'[k] < rest'[k].ver
       /\ \A i \in DOMAIN lock' : Covers(lock'[i], k) =>
            /\ ~MayLoad(k)'
            /\ mem'[k] # None => lock'[i].upto < mem'[k].ver
  BY <1>3, <1>4, <1>5, <1>6
<1>9. \A j \in DOMAIN lock' : lock'[j].kind = "write" =>
       /\ gone'[lock'[j].key] < lock'[j].entry.ver
       /\ \A i \in DOMAIN lock' : i < j /\ Covers(lock'[i], lock'[j].key) =>
            lock'[i].upto < lock'[j].entry.ver
  BY <1>3, <1>7
<1> QED
  BY <1>3, <1>8, <1>9 DEF SurvivalInv

(* The same for a step that leaves the lock alone. *)
LEMMA QuietSurvives ==
  ASSUME SessionInv, SurvivalInv, SessionInv', UNCHANGED <<lock, gone>>, clock <= clock',
         \A k \in CacheKeys : store'[k] \in {store[k], None},
         \A k \in CacheKeys : mem'[k] \in {mem[k], None},
         touched \subseteq touched', UNCHANGED rest,
         hyd' = hyd \/ hyd' = "failed"
  PROVE  SurvivalInv'
<1>1. lock \in Seq(Ops) /\ lock' = lock \o <<>> /\ <<>> \in Seq(Ops)
  BY DEF SessionInv, VersionsInv, LockWithin
<1>2. \A k \in CacheKeys : MayLoad(k)' => MayLoad(k)
  BY DEF MayLoad
<1>3. \A k \in CacheKeys : k \notin touched' /\ rest'[k] # None => gone[k] < rest'[k].ver
  BY DEF SurvivalInv
<1>4. hyd' \in {"reading", "ready"} => rest' = Nothing
  BY DEF SurvivalInv
<1>5. \A k \in CacheKeys : mem'[k] # None => mem'[k] = mem[k]
  OBVIOUS
<1>6. DOMAIN <<>> = {}
  OBVIOUS
<1> HIDE DEF MayLoad, Covers
<1> QED
  BY <1>1, <1>2, <1>3, <1>4, <1>5, <1>6, LockedSurvives

(* A step by which the lock passes on: the head has been carried out, or   *)
(* it has failed.                                                          *)
LEMMA PassedOnSurvives ==
  ASSUME SessionInv, SurvivalInv, SessionInv', lock # <<>>, lock' = Tail(lock),
         UNCHANGED <<mem, touched, rest, clock>>,
         hyd' \in {hyd, "resuming", "failed"},
         gone' \in [CacheKeys -> Nat],
         \A k \in CacheKeys :
           gone'[k] # gone[k] => gone'[k] = Head(lock).upto /\ Covers(Head(lock), k),
         \A k \in CacheKeys : store'[k] # None => gone'[k] < store'[k].ver
  PROVE  SurvivalInv'
<1>1. /\ OpWithin(Head(lock), clock) /\ clock \in Nat /\ Head(lock) = lock[1]
      /\ lock \in Seq(Ops) /\ 1 \in DOMAIN lock
      /\ \A i \in DOMAIN lock' : i + 1 \in DOMAIN lock /\ lock'[i] = lock[i + 1]
      /\ \A i \in DOMAIN lock' : i \in Nat /\ 1 < i + 1
  BY TailWithin DEF SessionInv, VersionsInv, LockWithin
<1>2. ASSUME NEW k \in CacheKeys
      PROVE  /\ gone'[k] <= clock
             /\ mem[k] # None => gone'[k] < mem[k].ver
             /\ k \notin touched /\ rest[k] # None => gone'[k] < rest[k].ver
  <2>1. CASE gone'[k] = gone[k]
    BY <2>1 DEF SurvivalInv
  <2>2. CASE gone'[k] # gone[k]
    <3>1. gone'[k] = lock[1].upto /\ Covers(lock[1], k)
      BY <1>1, <2>2
    <3>2. ~MayLoad(k) /\ (mem[k] # None => lock[1].upto < mem[k].ver)
      BY <1>1, <3>1 DEF SurvivalInv
    <3>3. lock[1].upto <= clock
      BY <1>1 DEF OpWithin
    <3> QED
      BY <3>1, <3>2, <3>3 DEF MayLoad
  <2> QED
    BY <2>1, <2>2
<1>3. ASSUME NEW k \in CacheKeys, NEW i \in DOMAIN lock', Covers(lock'[i], k)
      PROVE  ~MayLoad(k)' /\ (mem[k] # None => lock'[i].upto < mem[k].ver)
  <2>1. i + 1 \in DOMAIN lock /\ lock'[i] = lock[i + 1]
    BY <1>1
  <2>2. Covers(lock[i + 1], k)
    BY <1>3, <2>1
  <2>3. ~MayLoad(k) /\ (mem[k] # None => lock[i + 1].upto < mem[k].ver)
    BY <2>1, <2>2 DEF SurvivalInv
  <2> QED
    BY <2>1, <2>3 DEF MayLoad
<1>4. ASSUME NEW j \in DOMAIN lock', lock'[j].kind = "write"
      PROVE  /\ gone'[lock'[j].key] < lock'[j].entry.ver
             /\ \A i \in DOMAIN lock' : i < j /\ Covers(lock'[i], lock'[j].key) =>
                  lock'[i].upto < lock'[j].entry.ver
  <2>1. j + 1 \in DOMAIN lock /\ lock'[j] = lock[j + 1] /\ lock[j + 1].key \in CacheKeys
    BY <1>1, <1>4 DEF SessionInv, VersionsInv, LockWithin, OpWithin
  <2>2. /\ gone[lock[j + 1].key] < lock[j + 1].entry.ver
        /\ \A i \in DOMAIN lock : i < j + 1 /\ Covers(lock[i], lock[j + 1].key) =>
             lock[i].upto < lock[j + 1].entry.ver
    BY <1>4, <2>1 DEF SurvivalInv
  <2>3. gone'[lock[j + 1].key] < lock[j + 1].entry.ver
    <3>1. CASE gone'[lock[j + 1].key] = gone[lock[j + 1].key]
      BY <2>2, <3>1
    <3>2. CASE gone'[lock[j + 1].key] # gone[lock[j + 1].key]
      BY <1>1, <2>1, <2>2, <3>2
    <3> QED
      BY <3>1, <3>2
  <2>4. ASSUME NEW i \in DOMAIN lock', i < j, Covers(lock'[i], lock'[j].key)
        PROVE  lock'[i].upto < lock'[j].entry.ver
    <3>1. i + 1 \in DOMAIN lock /\ lock'[i] = lock[i + 1] /\ i + 1 < j + 1
      BY <1>1, <2>4
    <3>2. Covers(lock[i + 1], lock[j + 1].key)
      BY <2>1, <2>4, <3>1
    <3> QED
      BY <2>1, <2>2, <3>1, <3>2
  <2> QED
    BY <2>1, <2>3, <2>4
<1>5. hyd' \in {"reading", "ready"} => rest' = Nothing
  BY DEF SurvivalInv
<1> HIDE DEF MayLoad, Covers
<1>6. \A k \in CacheKeys :
       /\ gone'[k] <= clock'
       /\ store'[k] # None => gone'[k] < store'[k].ver
       /\ mem'[k] # None => gone'[k] < mem'[k].ver
       /\ k \notin touched' /\ rest'[k] # None => gone'[k] < rest'[k].ver
       /\ \A i \in DOMAIN lock' : Covers(lock'[i], k) =>
            /\ ~MayLoad(k)'
            /\ mem'[k] # None => lock'[i].upto < mem'[k].ver
  BY <1>2, <1>3
<1> QED
  BY <1>4, <1>5, <1>6 DEF SurvivalInv

(* A method that ends by evictIfNeeded() and may have put writes on the    *)
(* lock.                                                                   *)
LEMMA SettledSurvives ==
  ASSUME SessionInv, SurvivalInv, SessionInv', clock <= clock', UNCHANGED <<gone, store>>,
         NEW m, NEW o \in Seq(CacheKeys), NEW ts, NEW ops \in Seq(Ops), Settle(m, o, ts, ops),
         \A i \in DOMAIN ops : ops[i].kind = "write" /\ ops[i].entry.ver > clock,
         UNCHANGED <<hyd, rest>> \/ (hyd' = "ready" /\ rest' = Nothing),
         \A k \in CacheKeys : m[k] # None =>
           \/ m[k] = mem[k]
           \/ m[k].ver > clock
           \/ MayLoad(k) /\ gone[k] < m[k].ver
  PROVE  SurvivalInv'
<1> DEFINE vs == Victims(o, m)
           ds == Deletes(vs)
           more == ops \o ds
<1>1. /\ mem' = [k \in CacheKeys |-> IF k \in ToSet(vs) THEN None ELSE m[k]]
      /\ touched' = touched \cup ts \cup ToSet(vs)
      /\ lock' = (lock \o ops) \o ds
  BY DEF Settle
<1>2. vs \in Seq(CacheKeys)
  BY VictimsAreKeys
<1> HIDE DEF vs
<1>3. /\ ds \in Seq(Ops) /\ DOMAIN ds = 1..Len(vs)
      /\ \A i \in DOMAIN ds : ds[i].kind = "delete" /\ ds[i].key \in ToSet(vs)
  <2>1. ds \in Seq(Ops)
    BY <1>2, DeletesWithin DEF SessionInv, VersionsInv, LockWithin
  <2>2. /\ DOMAIN ds = 1..Len(vs)
        /\ \A i \in DOMAIN ds : ds[i].kind = "delete" /\ ds[i].key = vs[i]
    BY DEF Deletes, DeleteOp
  <2>3. \A i \in 1..Len(vs) : vs[i] \in ToSet(vs)
    BY <1>2 DEF ToSet
  <2> QED
    BY <2>1, <2>2, <2>3
<1> HIDE DEF ds
<1>4. more \in Seq(Ops) /\ lock' = lock \o more
  <2>1. lock \in Seq(Ops)
    BY DEF SessionInv, VersionsInv, LockWithin
  <2> QED
    BY <1>1, <1>3, <2>1, InAnyGrouping
<1>5. ASSUME NEW i \in DOMAIN more
      PROVE  \/ i \in DOMAIN ops /\ more[i].kind = "write" /\ more[i].entry.ver > clock
             \/ /\ i \notin DOMAIN ops /\ more[i].kind = "delete" /\ more[i].key \in ToSet(vs)
  <2>1. CASE i \in DOMAIN ops
    BY <1>3, <2>1, PlacesOfBoth
  <2>2. CASE i \notin DOMAIN ops
    <3>1. i - Len(ops) \in DOMAIN ds /\ more[i] = ds[i - Len(ops)]
      BY <1>3, <1>5, <2>2, PlacesOfBoth
    <3> QED
      BY <1>3, <2>2, <3>1
  <2> QED
    BY <2>1, <2>2
<1>6. DOMAIN ops = 1..Len(ops) /\ DOMAIN more \subseteq Nat \ {0}
  BY <1>4
<1> HIDE DEF more
<1>7. \A i \in DOMAIN more, k \in CacheKeys :
        Covers(more[i], k) => /\ mem'[k] = None
                              /\ k \in touched' \/ (hyd' # "reading" /\ rest'[k] = None)
  BY <1>1, <1>5 DEF Covers
<1>8. ASSUME NEW j \in DOMAIN more, more[j].kind = "write"
      PROVE  /\ more[j].entry.ver > clock
             /\ \A i \in DOMAIN more : i < j => more[i].kind = "write"
  BY <1>5, <1>6, <1>8
<1>9. \A k \in CacheKeys : MayLoad(k)' => MayLoad(k)
  BY <1>1 DEF MayLoad, Nothing
<1>10. \A k \in CacheKeys : mem'[k] # None =>
         \/ mem'[k] = mem[k]
         \/ mem'[k].ver > clock
         \/ MayLoad(k) /\ gone[k] < mem'[k].ver
  BY <1>1
<1>11. \A k \in CacheKeys : k \notin touched' /\ rest'[k] # None => gone[k] < rest'[k].ver
  BY <1>1 DEF SurvivalInv, Nothing
<1>12. hyd' \in {"reading", "ready"} => rest' = Nothing
  BY DEF SurvivalInv
<1>13. gone' = gone /\ \A k \in CacheKeys : store'[k] \in {store[k], None}
  OBVIOUS
<1> HIDE DEF MayLoad, Covers
<1> QED
  BY <1>4, <1>7, <1>8, <1>9, <1>10, <1>11, <1>12, <1>13, LockedSurvives

LEMMA SetSurvives ==
  ASSUME SessionInv, SurvivalInv, SessionInv',
         NEW k \in CacheKeys, NEW ids \in SUBSET WillIds, Set(k, ids)
  PROVE  SurvivalInv'
<1> DEFINE entry == [ver |-> clock + 1, ids |-> ids, net |-> network, ok |-> TRUE]
           m == [mem EXCEPT ![k] = entry]
           ops == <<WriteOp(k, entry)>>
<1>1. /\ Settle(m, ToEnd(order, k), {k}, ops)
      /\ clock' = clock + 1 /\ clock \in Nat
      /\ UNCHANGED <<hyd, rest, store, gone>>
  BY DEF Set, hydVars, SessionInv, VersionsInv
<1>2. entry \in Entries /\ entry.ver > clock /\ clock <= clock'
  BY <1>1 DEF Entries, SessionInv, VersionsInv
<1> HIDE DEF entry
<1>3. /\ ops \in Seq(Ops)
      /\ \A i \in DOMAIN ops : ops[i].kind = "write" /\ ops[i].entry.ver > clock
  BY <1>2 DEF WriteOp, Ops
<1>4. ToEnd(order, k) \in Seq(CacheKeys)
  BY ToEndIsListed DEF SessionInv, CapacityInv, Listed
<1>5. \A j \in CacheKeys : m[j] # None => m[j] = mem[j] \/ m[j].ver > clock
  BY <1>2 DEF SessionInv, VersionsInv, Within, Stores
<1> HIDE DEF m, ops, MayLoad
<1> QED
  BY <1>1, <1>2, <1>3, <1>4, <1>5, SettledSurvives

(* What hydrate() loads has not been deleted. *)
LEMMA LoopSurvives ==
  ASSUME SessionInv, SurvivalInv, SessionInv', NEW r, NEW now, NEW ws, Loop(r, now, ws),
         (hyd = "reading" /\ r = store) \/ (hyd = "resuming" /\ r = rest),
         UNCHANGED <<clock, gone, store>>
  PROVE  SurvivalInv'
<1>1. PICK loaded, m : LoopOutcome(r, loaded, m)
  BY LoopOutcomes DEF SessionInv
<1>2. clock \in Nat /\ clock <= clock'
  BY DEF SessionInv, VersionsInv
<1>3. ASSUME NEW k \in CacheKeys \ touched, r[k] # None
      PROVE  MayLoad(k) /\ gone[k] < r[k].ver /\ \A i \in DOMAIN lock : ~Covers(lock[i], k)
  BY <1>3 DEF MayLoad, SurvivalInv
<1>4. \A k \in CacheKeys : m[k] # None =>
        m[k] = mem[k] \/ (MayLoad(k) /\ gone[k] < m[k].ver)
  BY <1>1, <1>3 DEF LoopOutcome
<1>5. ASSUME hyd' = "ready", rest' = Nothing, NEW o \in Seq(CacheKeys), Settle(m, o, {}, <<>>)
      PROVE  SurvivalInv'
  <2>1. <<>> \in Seq(Ops) /\ DOMAIN <<>> = {}
    OBVIOUS
  <2> HIDE DEF MayLoad
  <2> QED
    BY <1>2, <1>4, <1>5, <2>1, SettledSurvives
<1>6. ASSUME NEW b \in CacheKeys \ (loaded \cup touched), NEW passed \in SUBSET CacheKeys,
             r[b] # None, hyd' = "deleting",
             rest' = [k \in CacheKeys |-> IF k \in passed \cup {b} THEN None ELSE r[k]],
             mem' = m, lock' = Append(lock, DeleteOp(b, "hydrate")), UNCHANGED touched
      PROVE  SurvivalInv'
  <2> DEFINE more == <<DeleteOp(b, "hydrate")>>
  <2>1. /\ more \in Seq(Ops) /\ DOMAIN more = {1}
        /\ more[1].kind = "delete" /\ more[1].key = b
        /\ lock' = lock \o more
    <3>1. DeleteOp(b, "hydrate") \in Ops
      BY <1>2 DEF DeleteOp, Ops
    <3>2. DeleteOp(b, "hydrate").kind = "delete" /\ DeleteOp(b, "hydrate").key = b
      BY DEF DeleteOp
    <3> HIDE DEF DeleteOp
    <3> QED
      BY <1>6, <3>1, <3>2 DEF SessionInv, VersionsInv, LockWithin
  <2> HIDE DEF more
  <2>2. mem'[b] = None
    <3>1. m[b] = mem[b]
      BY <1>1, <1>6 DEF LoopOutcome
    <3>2. mem[b] # None => hyd # "reading" /\ rest[b] = None
      BY <1>6 DEF SessionInv, VersionsInv
    <3> QED
      BY <1>6, <3>1, <3>2
  <2>3. rest'[b] = None /\ hyd' # "reading"
    BY <1>6
  <2>4. \A i \in DOMAIN more, k \in CacheKeys :
          Covers(more[i], k) => /\ mem'[k] = None
                                /\ k \in touched' \/ (hyd' # "reading" /\ rest'[k] = None)
    BY <2>1, <2>2, <2>3 DEF Covers
  <2>5. \A j \in DOMAIN more : more[j].kind # "write"
    BY <2>1
  <2>6. \A k \in CacheKeys : rest'[k] # None => rest'[k] = r[k]
    BY <1>6
  <2>7. \A k \in CacheKeys : MayLoad(k)' => MayLoad(k)
    BY <1>3, <1>6, <2>3, <2>6 DEF MayLoad
  <2>8. \A k \in CacheKeys : k \notin touched' /\ rest'[k] # None => gone[k] < rest'[k].ver
    BY <1>3, <1>6, <2>6
  <2>9. hyd' \notin {"reading", "ready"}
    BY <1>6
  <2>10. gone' = gone /\ \A k \in CacheKeys : store'[k] \in {store[k], None}
    OBVIOUS
  <2> HIDE DEF MayLoad, Covers
  <2> QED
    BY <1>2, <1>4, <1>6, <2>1, <2>4, <2>5, <2>7, <2>8, <2>9, <2>10, LockedSurvives
<1> QED
  BY <1>1, <1>5, <1>6 DEF LoopOutcome

(* The three invalidations. *)
LEMMA InvalidatedSurvives ==
  ASSUME SessionInv, SurvivalInv, SessionInv',
         InvalidateAll \/ (hyd = "ready" /\ \E ks \in SUBSET CacheKeys : DeleteKeys(ks))
  PROVE  SurvivalInv'
<1>1. /\ UNCHANGED <<clock, hyd, rest, store, gone>> /\ touched \subseteq touched'
      /\ hyd = "ready" /\ rest = Nothing /\ clock \in Nat /\ clock <= clock'
      /\ \A k \in CacheKeys : mem'[k] \in {mem[k], None}
  <2>1. clock \in Nat /\ (hyd = "ready" => rest = Nothing)
    BY DEF SessionInv, VersionsInv, SurvivalInv
  <2>2. CASE InvalidateAll
    BY <2>1, <2>2 DEF InvalidateAll, Empty, hydVars, Nothing
  <2>3. CASE hyd = "ready" /\ \E ks \in SUBSET CacheKeys : DeleteKeys(ks)
    BY <2>1, <2>3 DEF DeleteKeys, hydVars
  <2> QED
    BY <2>2, <2>3
<1>2. ASSUME NEW more \in Seq(Ops), lock' = lock \o more,
             \A i \in DOMAIN more : more[i].kind # "write",
             \A i \in DOMAIN more, k \in CacheKeys : Covers(more[i], k) => mem'[k] = None
      PROVE  SurvivalInv'
  <2>1. \A k \in CacheKeys : MayLoad(k)' => MayLoad(k)
    BY <1>1 DEF MayLoad
  <2>2. \A k \in CacheKeys : rest'[k] = None
    BY <1>1 DEF Nothing
  <2>3. \A k \in CacheKeys : mem'[k] # None => mem'[k] = mem[k]
    BY <1>1
  <2>4. gone' = gone /\ \A k \in CacheKeys : store'[k] \in {store[k], None}
    BY <1>1
  <2> HIDE DEF MayLoad, Covers
  <2> QED
    BY <1>1, <1>2, <2>1, <2>2, <2>3, <2>4, LockedSurvives
<1>3. CASE InvalidateAll
  <2>1. lock \in Seq(Ops) /\ ClearOp \in Ops /\ ClearOp.kind = "clear"
    BY <1>1 DEF SessionInv, VersionsInv, LockWithin, ClearOp, Ops
  <2>2. lock' = Append(lock, ClearOp) /\ \A k \in CacheKeys : mem'[k] = None
    BY <1>3 DEF InvalidateAll, Empty, Nothing
  <2> HIDE DEF ClearOp
  <2>3. lock' = lock \o <<ClearOp>> /\ <<ClearOp>> \in Seq(Ops)
        /\ \A i \in DOMAIN <<ClearOp>> : <<ClearOp>>[i].kind # "write"
    BY <2>1, <2>2
  <2> QED
    BY <1>2, <2>2, <2>3
<1>4. ASSUME NEW ks \in SUBSET CacheKeys, DeleteKeys(ks) PROVE SurvivalInv'
  <2>1. PICK s \in SetToSeqs(ks) : lock' = lock \o Deletes(s)
    BY <1>4 DEF DeleteKeys
  <2>2. s \in Seq(CacheKeys) /\ \A i \in 1..Len(s) : s[i] \in ks
    <3>1. IsFiniteSet(ks)
      BY ReadCacheAssumption, FS_Subset
    <3>2. s \in Seq(ks)
      BY <3>1, ListsOfSet
    <3> QED
      BY <3>2
  <2>3. Deletes(s) \in Seq(Ops)
    BY <1>1, <2>2, DeletesWithin DEF LockWithin
  <2>4. \A i \in DOMAIN Deletes(s) : Deletes(s)[i].kind = "delete" /\ Deletes(s)[i].key \in ks
    BY <2>2 DEF Deletes, DeleteOp
  <2>5. \A k \in ks : mem'[k] = None
    BY <1>4 DEF DeleteKeys
  <2>6. \A i \in DOMAIN Deletes(s), k \in CacheKeys : Covers(Deletes(s)[i], k) => mem'[k] = None
    BY <2>4, <2>5 DEF Covers
  <2> QED
    BY <1>2, <2>1, <2>3, <2>4, <2>6
<1> QED
  BY <1>3, <1>4

(* set() with a ttlMs of 0: what it deletes is not an invalidation. *)
LEMMA UncachedSurvives ==
  ASSUME SessionInv, SurvivalInv, SessionInv', NEW k \in CacheKeys, SetUncached(k)
  PROVE  SurvivalInv'
<1> DEFINE more == <<DeleteOp(k, "set")>>
<1>1. /\ touched' = touched \cup {k} /\ lock' = Append(lock, DeleteOp(k, "set"))
      /\ UNCHANGED <<clock, mem, hyd, rest, store, gone>> /\ clock \in Nat /\ clock <= clock'
  BY DEF SetUncached, hydVars, SessionInv, VersionsInv
<1>2. /\ more \in Seq(Ops) /\ DOMAIN more = {1} /\ lock' = lock \o more
      /\ more[1].kind = "delete" /\ more[1].key = k /\ more[1].upto = 0
  <2>1. DeleteOp(k, "set") \in Ops
    BY DEF DeleteOp, Ops
  <2>2. /\ DeleteOp(k, "set").kind = "delete" /\ DeleteOp(k, "set").key = k
        /\ DeleteOp(k, "set").upto = 0
    BY DEF DeleteOp
  <2> HIDE DEF DeleteOp
  <2> QED
    BY <1>1, <2>1, <2>2 DEF SessionInv, VersionsInv, LockWithin
<1> HIDE DEF more
<1>3. \A i \in DOMAIN more, j \in CacheKeys :
        Covers(more[i], j) => more[i].upto = 0 /\ j \in touched'
  BY <1>1, <1>2 DEF Covers
<1>4. \A j \in DOMAIN more : more[j].kind # "write"
  BY <1>2
<1>5. \A j \in CacheKeys : MayLoad(j)' => MayLoad(j)
  BY <1>1 DEF MayLoad
<1>6. \A j \in CacheKeys : j \notin touched' /\ rest'[j] # None => gone[j] < rest'[j].ver
  BY <1>1 DEF SurvivalInv
<1>7. hyd' \in {"reading", "ready"} => rest' = Nothing
  BY <1>1 DEF SurvivalInv
<1>8. gone' = gone /\ (\A j \in CacheKeys : store'[j] \in {store[j], None})
      /\ \A j \in CacheKeys : mem'[j] = mem[j]
  BY <1>1
<1> HIDE DEF MayLoad, Covers
<1> QED
  BY <1>1, <1>2, <1>3, <1>4, <1>5, <1>6, <1>7, <1>8, LockedSurvives

LEMMA CallSurvives ==
  ASSUME Careful, SessionInv, SurvivalInv, SessionInv', Call
  PROVE  SurvivalInv'
<1>1. clock \in Nat /\ "clear" \notin Events /\ "network" \notin Events
  BY DEF Careful, SessionInv, VersionsInv
<1>2. ASSUME NEW k \in CacheKeys, GetHit(k) \/ GetExpired(k) PROVE SurvivalInv'
  <2>1. /\ \A j \in CacheKeys : mem'[j] \in {mem[j], None}
        /\ touched \subseteq touched'
        /\ UNCHANGED <<lock, gone, clock, store, hyd, rest>>
    BY <1>2 DEF GetHit, GetExpired, hydVars, adapterVars, timeVars, SessionInv, VersionsInv, Within, Stores
  <2> QED
    BY <1>1, <2>1, QuietSurvives
<1>3. ASSUME NEW k \in CacheKeys, Invalidate(k) PROVE SurvivalInv'
  BY <1>3, InvalidatedSurvives DEF Invalidate
<1>4. ASSUME NEW w \in WillIds, InvalidateByWillId(w) PROVE SurvivalInv'
  BY <1>4, InvalidatedSurvives DEF InvalidateByWillId, SessionInv, Shapes
<1>5. CASE InvalidateAll
  BY <1>5, InvalidatedSurvives
<1> QED
  BY <1>1, <1>2, <1>3, <1>4, <1>5, SetSurvives, UncachedSurvives, AskedAssumption DEF Call

LEMMA AdapterSurvives ==
  ASSUME Careful, SessionInv, SurvivalInv, SessionInv', Adapter
  PROVE  SurvivalInv'
<1>1. clock \in Nat /\ ~Document /\ ~Rollback /\ (doc # None => lock # <<>>)
  BY DEF Careful, SessionInv, VersionsInv, Shapes
<1>2. CASE HydrateRead
  <2>1. CASE cleared
    <3>1. /\ hyd' = "ready" /\ rest' = Nothing /\ touched' = touched
          /\ UNCHANGED <<mem, lock, gone, clock, store>>
      BY <1>2, <2>1 DEF HydrateRead, SurvivalInv
    <3>2. \A k \in CacheKeys : ~MayLoad(k)'
      BY <3>1 DEF MayLoad, Nothing
    <3> QED
      BY <3>1, <3>2 DEF SurvivalInv, MayLoad, Nothing, Covers
  <2>2. CASE ~cleared
    <3>1. PICK r, now, ws : r = store /\ Loop(r, now, ws)
      BY <1>2, <2>2 DEF HydrateRead
    <3>2. hyd = "reading" /\ clock' = clock /\ gone' = gone /\ store' = store
      BY <1>2 DEF HydrateRead
    <3> QED
      BY <3>1, <3>2, LoopSurvives
  <2> QED
    BY <2>1, <2>2
<1>3. CASE HydrateResume
  BY <1>3, LoopSurvives DEF HydrateResume
<1>4. CASE HydrateReadFails \/ Start
  <2>1. /\ \A j \in CacheKeys : mem'[j] \in {mem[j], None} /\ store'[j] \in {store[j], None}
        /\ UNCHANGED <<touched, rest, lock, gone, clock>> /\ hyd' \in {hyd, "failed"}
    BY <1>4 DEF HydrateReadFails, Start, memVars, hydVars, adapterVars, timeVars
  <2> QED
    BY <1>1, <2>1, QuietSurvives
<1>5. ASSUME NEW l \in loose, LooseEnd(l) \/ LooseFails(l) PROVE SurvivalInv'
  <2>1. \A j \in CacheKeys : store'[j] \in {store[j], None}
    BY <1>1, <1>5 DEF LooseEnd, LooseFails, SessionInv, VersionsInv, Within, Stores
  <2>2. \A j \in CacheKeys : mem'[j] \in {mem[j], None}
    BY <1>5 DEF LooseEnd, LooseFails, memVars
  <2> QED
    BY <1>1, <1>5, <2>1, <2>2, QuietSurvives
       DEF LooseEnd, LooseFails, memVars, hydVars, timeVars
<1>6. CASE End
  <2> DEFINE op == Head(lock)
  <2>1. /\ store' = Effect(op, store) /\ lock' = Tail(lock) /\ lock # <<>>
        /\ gone' = [k \in CacheKeys |->
             IF (op.kind = "clear" \/ (op.kind = "delete" /\ op.key = k)) /\ gone[k] < op.upto
             THEN op.upto ELSE gone[k]]
        /\ hyd' \in {hyd, "resuming"} /\ UNCHANGED <<mem, touched, rest, clock>>
    BY <1>1, <1>6 DEF End, memVars, timeVars
  <2>2. /\ OpWithin(op, clock) /\ op = lock[1] /\ 1 \in DOMAIN lock
    BY <2>1, TailWithin DEF SessionInv, VersionsInv, LockWithin
  <2> HIDE DEF op
  <2>3. gone \in [CacheKeys -> Nat] /\ op.upto \in Nat
    BY <2>2 DEF SurvivalInv, OpWithin, Ops
  <2>4. /\ gone' \in [CacheKeys -> Nat]
        /\ \A k \in CacheKeys : gone'[k] # gone[k] => gone'[k] = op.upto /\ Covers(op, k)
    BY <2>1, <2>3 DEF Covers
  <2>5. ASSUME NEW k \in CacheKeys, store'[k] # None PROVE gone'[k] < store'[k].ver
    <3>1. store \in Stores
      BY DEF SessionInv, VersionsInv, Within
    <3>2. CASE op.kind = "write"
      <4>1. gone' = gone
        BY <2>1, <2>3, <3>2
      <4>2. gone[op.key] < op.entry.ver
        BY <2>2, <3>2 DEF SurvivalInv
      <4>3. CASE k = op.key
        BY <2>1, <3>1, <3>2, <4>1, <4>2, <4>3 DEF Effect, Stores
      <4>4. CASE k # op.key
        <5>1. store'[k] = store[k]
          BY <2>1, <3>1, <3>2, <4>4 DEF Effect, Stores
        <5> QED
          BY <2>5, <4>1, <5>1 DEF SurvivalInv
      <4> QED
        BY <4>3, <4>4
    <3>3. CASE op.kind = "delete"
      <4>1. store' = [store EXCEPT ![op.key] = None]
        BY <2>1, <3>3 DEF Effect
      <4>2. k # op.key /\ store'[k] = store[k]
        BY <2>5, <3>1, <4>1 DEF Stores
      <4>3. gone'[k] = gone[k]
        BY <2>1, <3>3, <4>2
      <4> QED
        BY <2>5, <4>2, <4>3 DEF SurvivalInv
    <3>4. CASE op.kind = "clear"
      BY <2>1, <2>5, <3>4 DEF Effect, Nothing
    <3> QED
      BY <2>2, <3>2, <3>3, <3>4 DEF OpWithin, Ops
  <2> HIDE DEF Covers
  <2> QED
    BY <2>1, <2>4, <2>5, PassedOnSurvives DEF op
<1>7. CASE EndFailed
  <2>1. /\ lock' = Tail(lock) /\ lock # <<>> /\ UNCHANGED <<mem, touched, rest, clock, gone, store>>
        /\ hyd' \in {hyd, "failed"}
    BY <1>1, <1>7 DEF EndFailed, timeVars
  <2>2. gone' \in [CacheKeys -> Nat] /\ \A k \in CacheKeys : store'[k] # None => gone'[k] < store'[k].ver
    BY <2>1 DEF SurvivalInv
  <2> HIDE DEF Covers
  <2> QED
    BY <2>1, <2>2, PassedOnSurvives
<1> QED
  BY <1>2, <1>3, <1>4, <1>5, <1>6, <1>7 DEF Adapter, AdapterAnswers, AdapterFails

LEMMA NextSurvives ==
  ASSUME Careful, SessionInv, SurvivalInv, [Next]_vars
  PROVE  SessionInv' /\ SurvivalInv'
<1>1. SessionInv'
  BY NextSession
<1>2. CASE Restart
  <2>1. /\ mem' = Nothing /\ rest' = Nothing /\ lock' = <<>>
        /\ UNCHANGED <<store, gone, clock>>
    BY <1>2 DEF Restart, Fresh, timeVars
  <2>2. \A k \in CacheKeys : mem'[k] = None /\ rest'[k] = None
    BY <2>1 DEF Nothing
  <2>3. DOMAIN lock' = {} /\ gone' = gone /\ clock' = clock /\ store' = store
    BY <2>1
  <2>4. SurvivalInv'
    BY <2>1, <2>2, <2>3 DEF SurvivalInv
  <2> QED
    BY <1>1, <2>4
<1>3. CASE Expire \/ UNCHANGED vars
  <2>1. UNCHANGED <<mem, touched, rest, hyd, lock, gone, clock, store>>
    BY <1>3 DEF Expire, vars, memVars, hydVars, adapterVars, timeVars
  <2>2. clock \in Nat
    BY DEF SessionInv, VersionsInv
  <2> QED
    BY <1>1, <2>1, <2>2, QuietSurvives
<1> QED
  BY <1>1, <1>2, <1>3, CallSurvives, AdapterSurvives DEF Next

(* Once the adapter has confirmed an invalidation or an eviction, what it  *)
(* removed is not served again, by this process or by the next one: for    *)
(* every number of keys, capacity, queue and order of hydration, evictions,*)
(* failures, expirations and restarts.  Each condition of Careful is       *)
(* needed: without any one of them TLC finds an entry served again in      *)
(* ReadCache_restart (with Rollback, when four mutations may wait).        *)
THEOREM DeletedStaysDeleted ==
  ASSUME Careful
  PROVE  Spec => []InvalidationSurvives
<1>1. ASSUME Init PROVE SurvivalInv
  <2>1. /\ gone = [k \in CacheKeys |-> 0] /\ mem = Nothing /\ rest = Nothing /\ lock = <<>>
        /\ store = Stored /\ clock \in Nat
    BY <1>1, InitSession DEF Init, SessionInv, VersionsInv
  <2>2. DOMAIN lock = {} /\ \A k \in CacheKeys : mem[k] = None /\ rest[k] = None
    BY <2>1 DEF Nothing
  <2>3. \A k \in CacheKeys : store[k] # None => 0 < store[k].ver
    <3>1. ASSUME NEW k \in CacheKeys, Stored[k] # None
          PROVE  Stored[k].ver \in 1..Cardinality({j \in CacheKeys : Stored[j] # None})
      BY <3>1, ReadCacheAssumption
    <3>2. Cardinality({j \in CacheKeys : Stored[j] # None}) \in Nat
      BY <1>1, <2>1 DEF Init
    <3> QED
      BY <2>1, <3>1, <3>2
  <2> QED
    BY <2>1, <2>2, <2>3 DEF SurvivalInv
<1>2. Init => SessionInv /\ SurvivalInv
  BY <1>1, InitSession
<1>3. SessionInv /\ SurvivalInv /\ [Next]_vars => (SessionInv /\ SurvivalInv)'
  BY NextSurvives
<1>4. SurvivalInv => InvalidationSurvives
  BY DEF SurvivalInv, InvalidationSurvives
<1> QED
  BY <1>2, <1>3, <1>4, PTL DEF Spec
-----------------------------------------------------------------------------
(* Memory and adapter.                                                     *)

(* The mutation decides what the adapter holds of key k, and what. *)
Touches(op, k) == Covers(op, k) \/ (op.kind = "write" /\ op.key = k)
Result(op) == IF op.kind = "write" THEN op.entry ELSE None

(* The last mutation that waits for a key leaves what the memory holds of  *)
(* it, and where none waits the adapter holds that already; nothing waits  *)
(* for a key that hydration may still load, and the adapter holds of it    *)
(* what hydration has read.                                                *)
Follows ==
  /\ loose = {}
  /\ Document /\ doc # None => doc = store
  /\ hyd \in {"reading", "ready"} => rest = Nothing
  /\ hyd = "reading" => \A i \in DOMAIN lock : lock[i].by # "hydrate"
  /\ \A k \in CacheKeys :
       IF MayLoad(k)
       THEN /\ \A i \in DOMAIN lock : ~Touches(lock[i], k)
            /\ hyd # "reading" => rest[k] = store[k]
       ELSE /\ (\A i \in DOMAIN lock : ~Touches(lock[i], k)) => store[k] = mem[k]
            /\ \A j \in DOMAIN lock : Touches(lock[j], k) /\ Result(lock[j]) # mem[k] =>
                 \E i \in DOMAIN lock : j < i /\ Touches(lock[i], k)

FollowInv ==
  /\ ~cleared /\ ~zeroTtl /\ horizon \in Nat
  /\ ~faulty /\ horizon = 0 => Follows

(* The cache keeps what is set, and the application does not call clear()  *)
(* or setNetwork().  Each is needed: without the first TLC finds a         *)
(* difference in ReadCache_restart, without one of the others there with   *)
(* an unreadable entry left (OneCorrupt).                                  *)
Undisturbed == ZeroTtls = {FALSE} /\ Events \cap {"clear", "network"} = {}

(* A step that adds `more` to the lock. *)
LEMMA LongerFollows ==
  ASSUME lock \in Seq(Ops), Follows, UNCHANGED <<loose, doc, store>>,
         NEW more \in Seq(Ops), lock' = lock \o more,
         hyd' \in {"reading", "ready"} => rest' = Nothing,
         hyd' = "reading" => hyd = "reading" /\ \A i \in DOMAIN more : more[i].by # "hydrate",
         \A k \in CacheKeys : MayLoad(k)' =>
           /\ MayLoad(k)
           /\ \A i \in DOMAIN more : ~Touches(more[i], k)
           /\ hyd' # "reading" => rest'[k] = store[k],
         \A k \in CacheKeys, j \in DOMAIN more : Touches(more[j], k) =>
           Result(more[j]) = mem'[k] \/ \E i \in DOMAIN more : j < i /\ Touches(more[i], k),
         \A k \in CacheKeys : ~MayLoad(k)' /\ (\A i \in DOMAIN more : ~Touches(more[i], k)) =>
           mem'[k] = IF MayLoad(k) THEN store[k] ELSE mem[k]
  PROVE  Follows'
<1>1. /\ \A i \in DOMAIN lock : i \in DOMAIN lock' /\ lock'[i] = lock[i]
      /\ \A i \in DOMAIN lock' : i \in DOMAIN lock \/
           (i > Len(lock) /\ i - Len(lock) \in DOMAIN more /\ lock'[i] = more[i - Len(lock)])
      /\ DOMAIN lock = 1..Len(lock) /\ Len(lock) \in Nat
      /\ DOMAIN lock' \subseteq Nat /\ DOMAIN more \subseteq Nat \ {0}
  <2>1. lock \o more \in Seq(Ops)
    OBVIOUS
  <2> QED
    BY <2>1, PlacesOfBoth
<1>2. ASSUME NEW n \in DOMAIN more
      PROVE  Len(lock) + n \in DOMAIN lock' /\ lock'[Len(lock) + n] = more[n]
  BY <1>2
<1> HIDE DEF MayLoad, Touches, Result
<1>3. ASSUME NEW k \in CacheKeys, MayLoad(k)'
      PROVE  /\ \A i \in DOMAIN lock' : ~Touches(lock'[i], k)
             /\ hyd' # "reading" => rest'[k] = store[k]
  <2>1. MayLoad(k) /\ (\A i \in DOMAIN more : ~Touches(more[i], k))
        /\ (hyd' # "reading" => rest'[k] = store[k])
    BY <1>3
  <2>2. \A i \in DOMAIN lock : ~Touches(lock[i], k)
    BY <2>1 DEF Follows
  <2> QED
    BY <1>1, <2>1, <2>2
<1>4. ASSUME NEW k \in CacheKeys, ~MayLoad(k)', \A i \in DOMAIN lock' : ~Touches(lock'[i], k)
      PROVE  store[k] = mem'[k]
  <2>1. \A i \in DOMAIN lock : ~Touches(lock[i], k)
    BY <1>1, <1>4
  <2>2. \A i \in DOMAIN more : ~Touches(more[i], k)
    BY <1>2, <1>4
  <2>3. mem'[k] = IF MayLoad(k) THEN store[k] ELSE mem[k]
    BY <1>4, <2>2
  <2> QED
    BY <2>1, <2>3 DEF Follows
<1>5. ASSUME NEW k \in CacheKeys, ~MayLoad(k)',
             NEW j \in DOMAIN lock', Touches(lock'[j], k), Result(lock'[j]) # mem'[k]
      PROVE  \E i \in DOMAIN lock' : j < i /\ Touches(lock'[i], k)
  <2>1. CASE j \notin DOMAIN lock
    <3>1. PICK n \in DOMAIN more : n = j - Len(lock) /\ lock'[j] = more[n]
      BY <1>1, <2>1
    <3>2. PICK p \in DOMAIN more : n < p /\ Touches(more[p], k)
      BY <1>5, <3>1
    <3>3. j < Len(lock) + p
      BY <1>1, <3>1, <3>2
    <3> QED
      BY <1>2, <3>2, <3>3
  <2>2. CASE j \in DOMAIN lock
    <3>1. lock'[j] = lock[j] /\ Touches(lock[j], k)
      BY <1>1, <1>5, <2>2
    <3>2. ~MayLoad(k)
      BY <2>2, <3>1 DEF Follows
    <3>3. CASE \E n \in DOMAIN more : Touches(more[n], k)
      <4>1. PICK n \in DOMAIN more : Touches(more[n], k)
        BY <3>3
      <4>2. j < Len(lock) + n
        BY <1>1, <2>2
      <4> QED
        BY <1>2, <4>1, <4>2
    <3>4. CASE \A n \in DOMAIN more : ~Touches(more[n], k)
      <4>1. mem'[k] = mem[k]
        BY <1>5, <3>2, <3>4
      <4>2. PICK i \in DOMAIN lock : j < i /\ Touches(lock[i], k)
        BY <1>5, <2>2, <3>1, <3>2, <4>1 DEF Follows
      <4> QED
        BY <1>1, <4>2
    <3> QED
      BY <3>3, <3>4
  <2> QED
    BY <2>1, <2>2
<1>6. loose' = {} /\ (Document /\ doc' # None => doc' = store')
  BY DEF Follows
<1>7. ASSUME hyd' = "reading", NEW i \in DOMAIN lock' PROVE lock'[i].by # "hydrate"
  BY <1>1, <1>7 DEF Follows
<1> QED
  BY <1>3, <1>4, <1>5, <1>6, <1>7 DEF Follows

(* A step that leaves the lock alone. *)
LEMMA QuietFollows ==
  ASSUME lock \in Seq(Ops), Follows,
         UNCHANGED <<loose, store, lock, mem, touched, hyd, rest>>,
         Document /\ doc' # None => doc' = store
  PROVE  Follows'
BY DEF Follows, MayLoad

(* The head of the lock is carried out. *)
LEMMA EndFollows ==
  ASSUME SessionInv, Follows, End
  PROVE  Follows'
<1> DEFINE op == Head(lock)
<1>1. /\ store' = Effect(op, store) /\ lock' = Tail(lock) /\ lock # <<>> /\ doc' = None
      /\ hyd' \in {hyd, "resuming"} /\ (hyd' = hyd \/ hyd' # "reading")
      /\ UNCHANGED <<mem, touched, rest, loose>>
  BY DEF End, memVars, Follows, SessionInv, Shapes
<1>2. /\ OpWithin(op, clock) /\ op = lock[1] /\ 1 \in DOMAIN lock /\ DOMAIN lock \subseteq Nat \ {0}
      /\ \A i \in DOMAIN lock' : i + 1 \in DOMAIN lock /\ lock'[i] = lock[i + 1]
      /\ \A i \in DOMAIN lock : i > 1 => i - 1 \in DOMAIN lock' /\ lock'[i - 1] = lock[i]
      /\ DOMAIN lock' \subseteq Nat
  <2>1. lock \in Seq(Ops)
    BY DEF SessionInv, VersionsInv, LockWithin
  <2>2. OpWithin(op, clock) /\ op = lock[1]
    BY <1>1, <2>1, TailWithin DEF SessionInv, VersionsInv, LockWithin
  <2> HIDE DEF op
  <2> QED
    BY <1>1, <2>1, <2>2
<1> HIDE DEF op
<1>3. ASSUME NEW k \in CacheKeys
      PROVE  store'[k] = IF Touches(op, k) THEN Result(op) ELSE store[k]
  <2>1. store \in Stores
    BY DEF SessionInv, VersionsInv, Within
  <2>2. CASE op.kind = "write"
    BY <1>1, <1>2, <2>1, <2>2 DEF Effect, Touches, Covers, Result, OpWithin, Stores
  <2>3. CASE op.kind = "delete"
    BY <1>1, <1>2, <2>1, <2>3 DEF Effect, Touches, Covers, Result, OpWithin, Stores
  <2>4. CASE op.kind = "clear"
    BY <1>1, <2>4 DEF Effect, Touches, Covers, Result, Nothing
  <2> QED
    BY <1>2, <2>2, <2>3, <2>4 DEF OpWithin, Ops
<1>4. ASSUME NEW k \in CacheKeys PROVE MayLoad(k)' => MayLoad(k)
  BY <1>1 DEF MayLoad
<1>5. hyd = "reading" => hyd' = "reading"
  BY <1>2 DEF End, Follows, op
<1>6. ASSUME NEW k \in CacheKeys PROVE MayLoad(k)' <=> MayLoad(k)
  <2>1. CASE hyd = "reading"
    BY <1>1, <1>5, <2>1 DEF MayLoad
  <2>2. CASE hyd # "reading"
    BY <1>1, <2>2 DEF MayLoad
  <2> QED
    BY <2>1, <2>2
<1> HIDE DEF MayLoad, Touches, Result
<1>7. ASSUME NEW k \in CacheKeys, MayLoad(k)
      PROVE  /\ \A i \in DOMAIN lock' : ~Touches(lock'[i], k)
             /\ hyd' # "reading" => rest'[k] = store'[k]
  <2>1. \A i \in DOMAIN lock : ~Touches(lock[i], k)
    BY <1>7 DEF Follows
  <2>2. store'[k] = store[k]
    BY <1>2, <1>3, <2>1
  <2>3. hyd' # "reading" => rest'[k] = store[k]
    BY <1>1, <1>5, <1>7 DEF Follows
  <2> QED
    BY <1>2, <2>1, <2>2, <2>3
<1>8. ASSUME NEW k \in CacheKeys, ~MayLoad(k), \A i \in DOMAIN lock' : ~Touches(lock'[i], k)
      PROVE  store'[k] = mem[k]
  <2>1. \A i \in DOMAIN lock : i > 1 => ~Touches(lock[i], k)
    BY <1>2, <1>8
  <2>2. CASE Touches(op, k)
    <3>1. Result(op) = mem[k]
      BY <1>2, <1>8, <2>1, <2>2 DEF Follows
    <3> QED
      BY <1>3, <2>2, <3>1
  <2>3. CASE ~Touches(op, k)
    <3>1. \A i \in DOMAIN lock : ~Touches(lock[i], k)
      BY <1>2, <2>1, <2>3
    <3> QED
      BY <1>3, <1>8, <2>3, <3>1 DEF Follows
  <2> QED
    BY <2>2, <2>3
<1>9. ASSUME NEW k \in CacheKeys, ~MayLoad(k),
             NEW j \in DOMAIN lock', Touches(lock'[j], k), Result(lock'[j]) # mem[k]
      PROVE  \E i \in DOMAIN lock' : j < i /\ Touches(lock'[i], k)
  <2>1. PICK i \in DOMAIN lock : j + 1 < i /\ Touches(lock[i], k)
    BY <1>2, <1>9 DEF Follows
  <2>2. i - 1 \in DOMAIN lock' /\ lock'[i - 1] = lock[i] /\ j < i - 1
    BY <1>2, <2>1
  <2> QED
    BY <2>1, <2>2
<1>10. /\ loose' = {} /\ doc' = None
       /\ hyd' \in {"reading", "ready"} => rest' = Nothing
       /\ hyd' = "reading" => \A i \in DOMAIN lock' : lock'[i].by # "hydrate"
  BY <1>1, <1>2 DEF Follows
<1> QED
  BY <1>1, <1>6, <1>7, <1>8, <1>9, <1>10 DEF Follows

(* A method that ends by evictIfNeeded() and may have put writes on the    *)
(* lock, at most one for a key.                                            *)
LEMMA SettledFollows ==
  ASSUME SessionInv, Follows, clock' \in Nat, UNCHANGED <<loose, doc, store>>,
         NEW m, NEW o \in Seq(CacheKeys), NEW ts, NEW ops \in Seq(Ops), Settle(m, o, ts, ops),
         \A i \in DOMAIN ops : /\ ops[i].kind = "write" /\ ops[i].by = "set"
                               /\ ops[i].key \in ts /\ m[ops[i].key] = ops[i].entry,
         UNCHANGED <<hyd, rest>> \/ (hyd' = "ready" /\ rest' = Nothing),
         \A k \in CacheKeys : ~MayLoad(k)' /\ (\A i \in DOMAIN ops : ops[i].key # k) =>
           m[k] = (IF MayLoad(k) THEN store[k] ELSE mem[k]) \/ k \in ToSet(Victims(o, m))
  PROVE  Follows'
<1> DEFINE vs == Victims(o, m)
           ds == Deletes(vs)
           more == ops \o ds
<1>1. /\ mem' = [k \in CacheKeys |-> IF k \in ToSet(vs) THEN None ELSE m[k]]
      /\ touched' = touched \cup ts \cup ToSet(vs)
      /\ lock' = (lock \o ops) \o ds
  BY DEF Settle
<1>2. vs \in Seq(CacheKeys)
  BY VictimsAreKeys
<1>3. \A k \in CacheKeys : ~MayLoad(k)' /\ (\A i \in DOMAIN ops : ops[i].key # k) =>
        m[k] = (IF MayLoad(k) THEN store[k] ELSE mem[k]) \/ k \in ToSet(vs)
  OBVIOUS
<1> HIDE DEF vs
<1>4. /\ ds \in Seq(Ops) /\ DOMAIN ds = 1..Len(vs)
      /\ \A i \in DOMAIN ds : ds[i].kind = "delete" /\ ds[i].key = vs[i] /\ ds[i].by = "cache"
      /\ \A k \in ToSet(vs) : \E i \in DOMAIN ds : ds[i].key = k
      /\ \A i \in DOMAIN ds : ds[i].key \in ToSet(vs)
  <2>1. ds \in Seq(Ops)
    BY <1>2, DeletesWithin DEF LockWithin
  <2>2. /\ DOMAIN ds = 1..Len(vs)
        /\ \A i \in DOMAIN ds : ds[i].kind = "delete" /\ ds[i].key = vs[i] /\ ds[i].by = "cache"
    BY DEF Deletes, DeleteOp
  <2>3. \A k \in ToSet(vs) : \E i \in 1..Len(vs) : vs[i] = k
    BY <1>2 DEF ToSet
  <2>4. \A i \in 1..Len(vs) : vs[i] \in ToSet(vs)
    BY <1>2 DEF ToSet
  <2> HIDE DEF ds
  <2>5. \A k \in ToSet(vs) : \E i \in DOMAIN ds : ds[i].key = k
    BY <2>2, <2>3
  <2>6. \A i \in DOMAIN ds : ds[i].key \in ToSet(vs)
    BY <2>2, <2>4
  <2> QED
    BY <2>1, <2>2, <2>5, <2>6
<1> HIDE DEF ds
<1>5. lock \in Seq(Ops)
  BY DEF SessionInv, VersionsInv, LockWithin
<1>6. more \in Seq(Ops) /\ lock' = lock \o more
  BY <1>1, <1>4, <1>5, InAnyGrouping
<1>7. /\ DOMAIN ops = 1..Len(ops) /\ DOMAIN more \subseteq Nat \ {0} /\ Len(ops) \in Nat
      /\ \A i \in DOMAIN ops : i \in DOMAIN more /\ more[i] = ops[i]
      /\ \A i \in DOMAIN more \ DOMAIN ops : i > Len(ops) /\ \E n \in DOMAIN ds : more[i] = ds[n]
      /\ \A n \in DOMAIN ds : Len(ops) + n \in DOMAIN more /\ more[Len(ops) + n] = ds[n]
  <2>1. \A n \in DOMAIN ds : Len(ops) + n \in DOMAIN more /\ more[Len(ops) + n] = ds[n]
    BY <1>4
  <2>2. DOMAIN ops = 1..Len(ops) /\ DOMAIN more \subseteq Nat \ {0} /\ Len(ops) \in Nat
    BY <1>6
  <2>3. /\ \A i \in DOMAIN ops : i \in DOMAIN more /\ more[i] = ops[i]
        /\ \A i \in DOMAIN more : i \in DOMAIN ops \/
             (i > Len(ops) /\ i - Len(ops) \in DOMAIN ds /\ more[i] = ds[i - Len(ops)])
    BY <1>4, PlacesOfBoth
  <2> HIDE DEF more
  <2> QED
    BY <2>1, <2>2, <2>3
<1> HIDE DEF more
<1>8. ASSUME NEW k \in CacheKeys
      PROVE  /\ \A i \in DOMAIN ops : Touches(ops[i], k) <=> ops[i].key = k
             /\ \A i \in DOMAIN ds : Touches(ds[i], k) <=> ds[i].key = k
             /\ \A i \in DOMAIN ds : Result(ds[i]) = None
             /\ \A i \in DOMAIN ops : Result(ops[i]) = ops[i].entry
  BY <1>4 DEF Touches, Covers, Result
<1>9. \A k \in CacheKeys : MayLoad(k)' =>
        MayLoad(k) /\ k \notin ts /\ k \notin ToSet(vs) /\ UNCHANGED <<hyd, rest>>
  BY <1>1 DEF MayLoad, Nothing
<1> HIDE DEF MayLoad, Touches, Result
<1>10. ASSUME NEW k \in CacheKeys, MayLoad(k)'
       PROVE  /\ MayLoad(k)
              /\ \A i \in DOMAIN more : ~Touches(more[i], k)
              /\ hyd' # "reading" => rest'[k] = store[k]
  <2>1. MayLoad(k) /\ k \notin ts /\ k \notin ToSet(vs) /\ UNCHANGED <<hyd, rest>>
    BY <1>9, <1>10
  <2>2. hyd' # "reading" => rest'[k] = store[k]
    BY <2>1 DEF Follows
  <2>3. ASSUME NEW i \in DOMAIN more PROVE ~Touches(more[i], k)
    <3>1. CASE i \in DOMAIN ops
      BY <1>7, <1>8, <2>1, <3>1
    <3>2. CASE i \notin DOMAIN ops
      BY <1>4, <1>7, <1>8, <2>1, <3>2
    <3> QED
      BY <3>1, <3>2
  <2> QED
    BY <2>1, <2>2, <2>3
<1>11. ASSUME NEW k \in CacheKeys, NEW j \in DOMAIN more, Touches(more[j], k)
       PROVE  Result(more[j]) = mem'[k] \/ \E i \in DOMAIN more : j < i /\ Touches(more[i], k)
  <2>1. CASE k \in ToSet(vs) /\ j \in DOMAIN ops
    <3>1. PICK n \in DOMAIN ds : ds[n].key = k
      BY <1>4, <2>1
    <3>2. Touches(more[Len(ops) + n], k) /\ Len(ops) + n \in DOMAIN more
      BY <1>7, <1>8, <3>1
    <3>3. n \in Nat \ {0} /\ j \in 1..Len(ops)
      BY <1>2, <1>4, <1>7, <2>1
    <3>4. j < Len(ops) + n
      BY <1>7, <3>3
    <3> QED
      BY <3>2, <3>4
  <2>2. CASE j \notin DOMAIN ops
    <3>1. PICK n \in DOMAIN ds : more[j] = ds[n]
      BY <1>7, <2>2
    <3>2. ds[n].key = k /\ Result(more[j]) = None /\ k \in ToSet(vs)
      BY <1>4, <1>8, <1>11, <3>1
    <3> QED
      BY <1>1, <3>2
  <2>3. CASE k \notin ToSet(vs) /\ j \in DOMAIN ops
    <3>1. ops[j].key = k /\ Result(more[j]) = ops[j].entry
      BY <1>7, <1>8, <1>11, <2>3
    <3> QED
      BY <1>1, <2>3, <3>1
  <2> QED
    BY <2>1, <2>2, <2>3
<1>12. ASSUME NEW k \in CacheKeys, ~MayLoad(k)', \A i \in DOMAIN more : ~Touches(more[i], k)
       PROVE  mem'[k] = IF MayLoad(k) THEN store[k] ELSE mem[k]
  <2>1. \A i \in DOMAIN ops : ops[i].key # k
    BY <1>7, <1>8, <1>12
  <2>2. ASSUME k \in ToSet(vs) PROVE FALSE
    <3>1. PICK n \in DOMAIN ds : ds[n].key = k
      BY <1>4, <2>2
    <3> QED
      BY <1>7, <1>8, <1>12, <3>1
  <2> QED
    BY <1>1, <1>3, <1>12, <2>1, <2>2
<1>13. /\ hyd' \in {"reading", "ready"} => rest' = Nothing
       /\ hyd' = "reading" => hyd = "reading" /\ \A i \in DOMAIN more : more[i].by # "hydrate"
  <2>1. \A i \in DOMAIN more : more[i].by # "hydrate"
    BY <1>4, <1>7
  <2> QED
    BY <2>1 DEF Follows
<1> QED
  BY <1>5, <1>6, <1>10, <1>11, <1>12, <1>13, LongerFollows

LEMMA SetFollows ==
  ASSUME SessionInv, Follows, NEW k \in CacheKeys, NEW ids \in SUBSET WillIds, Set(k, ids)
  PROVE  Follows'
<1> DEFINE entry == [ver |-> clock + 1, ids |-> ids, net |-> network, ok |-> TRUE]
           m == [mem EXCEPT ![k] = entry]
           ops == <<WriteOp(k, entry)>>
           o == ToEnd(order, k)
<1>1. /\ Settle(m, o, {k}, ops)
      /\ clock \in Nat /\ clock' \in Nat
      /\ UNCHANGED <<hyd, rest, store, loose, doc>> /\ mem \in Stores
  BY DEF Set, hydVars, SessionInv, VersionsInv, Within
<1>2. entry \in Entries
  BY <1>1 DEF Entries, SessionInv, VersionsInv
<1> HIDE DEF entry
<1>3. m[k] = entry /\ \A j \in CacheKeys : j # k => m[j] = mem[j]
  BY <1>1 DEF Stores
<1>4. /\ ops \in Seq(Ops) /\ DOMAIN ops = {1}
      /\ ops[1].kind = "write" /\ ops[1].by = "set" /\ ops[1].key = k /\ ops[1].entry = entry
  BY <1>2 DEF WriteOp, Ops
<1>5. o \in Seq(CacheKeys)
  BY ToEndIsListed DEF SessionInv, CapacityInv, Listed
<1>6. touched' = touched \cup {k} \cup ToSet(Victims(o, m))
  BY <1>1 DEF Settle
<1> HIDE DEF m, ops, o
<1>7. ASSUME NEW j \in CacheKeys, ~MayLoad(j)', \A i \in DOMAIN ops : ops[i].key # j
      PROVE  m[j] = (IF MayLoad(j) THEN store[j] ELSE mem[j]) \/ j \in ToSet(Victims(o, m))
  <2>1. m[j] = mem[j] /\ j # k
    BY <1>3, <1>4, <1>7
  <2>2. MayLoad(j) => j \in ToSet(Victims(o, m))
    BY <1>1, <1>6, <1>7, <2>1 DEF MayLoad
  <2> QED
    BY <2>1, <2>2
<1> HIDE DEF MayLoad
<1> QED
  BY <1>1, <1>3, <1>4, <1>5, <1>7, SettledFollows

(* hydrate() takes over what the adapter holds. *)
LEMMA LoopFollows ==
  ASSUME SessionInv, Follows, NEW r, NEW now, NEW ws, Loop(r, now, ws),
         (hyd = "reading" /\ r = store) \/ (hyd = "resuming" /\ r = rest),
         UNCHANGED <<clock, loose, doc, store>>
  PROVE  Follows'
<1>1. PICK loaded, m : LoopOutcome(r, loaded, m)
  BY LoopOutcomes DEF SessionInv
<1>2. clock' \in Nat
  BY DEF SessionInv, VersionsInv
<1>3. ASSUME NEW k \in CacheKeys \ touched
      PROVE  /\ r[k] # None => MayLoad(k) /\ r[k] = store[k]
             /\ r[k] = None /\ MayLoad(k) => store[k] = mem[k]
  <2>1. r[k] # None => MayLoad(k)
    BY <1>3 DEF MayLoad
  <2>2. MayLoad(k) => r[k] = store[k] /\ mem[k] = None
    BY <1>3 DEF MayLoad, Follows, SessionInv, VersionsInv
  <2> QED
    BY <2>1, <2>2
<1>4. m = [k \in CacheKeys |-> IF k \in loaded THEN r[k] ELSE mem[k]]
      /\ loaded \cap touched = {} /\ \A k \in loaded : r[k] # None
  BY <1>1 DEF LoopOutcome
<1>5. ASSUME NEW k \in CacheKeys, r[k] # None => k \in loaded \cup touched
      PROVE  m[k] = IF MayLoad(k) THEN store[k] ELSE mem[k]
  <2>1. CASE k \in loaded
    BY <1>3, <1>4, <2>1
  <2>2. CASE k \notin loaded /\ k \notin touched
    BY <1>3, <1>4, <1>5, <2>2
  <2>3. CASE k \notin loaded /\ k \in touched
    BY <1>4, <2>3 DEF MayLoad
  <2> QED
    BY <2>1, <2>2, <2>3
<1>6. ASSUME hyd' = "ready", rest' = Nothing, NEW o \in Seq(CacheKeys), Settle(m, o, {}, <<>>),
             \A k \in CacheKeys : r[k] # None => k \in loaded \cup touched
      PROVE  Follows'
  <2>1. <<>> \in Seq(Ops) /\ DOMAIN <<>> = {}
    OBVIOUS
  <2> HIDE DEF MayLoad
  <2> QED
    BY <1>2, <1>5, <1>6, <2>1, SettledFollows
<1>7. ASSUME NEW b \in CacheKeys \ (loaded \cup touched), NEW passed \in SUBSET CacheKeys,
             r[b] # None, loaded \subseteq passed, passed \subseteq loaded \cup touched,
             hyd' = "deleting",
             rest' = [k \in CacheKeys |-> IF k \in passed \cup {b} THEN None ELSE r[k]],
             mem' = m, lock' = Append(lock, DeleteOp(b, "hydrate")), UNCHANGED touched
      PROVE  Follows'
  <2> DEFINE more == <<DeleteOp(b, "hydrate")>>
  <2>1. /\ more \in Seq(Ops) /\ DOMAIN more = {1} /\ lock \in Seq(Ops)
        /\ more[1].kind = "delete" /\ more[1].key = b
        /\ lock' = lock \o more
    <3>1. DeleteOp(b, "hydrate") \in Ops
      BY <1>2 DEF DeleteOp, Ops
    <3>2. DeleteOp(b, "hydrate").kind = "delete" /\ DeleteOp(b, "hydrate").key = b
      BY DEF DeleteOp
    <3> HIDE DEF DeleteOp
    <3> QED
      BY <1>7, <3>1, <3>2 DEF SessionInv, VersionsInv, LockWithin
  <2> HIDE DEF more
  <2>2. \A k \in CacheKeys, i \in DOMAIN more : (Touches(more[i], k) <=> k = b) /\ Result(more[i]) = None
    BY <2>1 DEF Touches, Covers, Result
  <2>3. mem'[b] = None /\ rest'[b] = None
    <3>1. m[b] = mem[b]
      BY <1>4, <1>7
    <3>2. mem[b] # None => hyd # "reading" /\ rest[b] = None
      BY <1>7 DEF SessionInv, VersionsInv
    <3> QED
      BY <1>7, <3>1, <3>2
  <2>4. ASSUME NEW k \in CacheKeys, MayLoad(k)'
        PROVE  MayLoad(k) /\ k # b /\ rest'[k] = store[k]
    <3>1. k \notin touched /\ rest'[k] # None
      BY <1>7, <2>4 DEF MayLoad
    <3>2. rest'[k] = r[k] /\ k # b
      BY <1>7, <3>1
    <3> QED
      BY <1>3, <3>1, <3>2
  <2>5. ASSUME NEW k \in CacheKeys, ~MayLoad(k)', k # b
        PROVE  mem'[k] = IF MayLoad(k) THEN store[k] ELSE mem[k]
    <3>1. k \in touched \/ rest'[k] = None
      BY <1>7, <2>5 DEF MayLoad
    <3>2. r[k] # None => k \in loaded \cup touched
      BY <1>7, <2>5, <3>1
    <3> QED
      BY <1>5, <1>7, <3>2
  <2>6. hyd' \notin {"reading", "ready"}
    BY <1>7
  <2> HIDE DEF MayLoad, Touches, Result
  <2>7. \A k \in CacheKeys : MayLoad(k)' =>
          /\ MayLoad(k)
          /\ \A i \in DOMAIN more : ~Touches(more[i], k)
          /\ hyd' # "reading" => rest'[k] = store[k]
    BY <2>2, <2>4
  <2>8. \A k \in CacheKeys, j \in DOMAIN more : Touches(more[j], k) => Result(more[j]) = mem'[k]
    BY <2>2, <2>3
  <2>9. \A k \in CacheKeys : ~MayLoad(k)' /\ (\A i \in DOMAIN more : ~Touches(more[i], k)) =>
          mem'[k] = IF MayLoad(k) THEN store[k] ELSE mem[k]
    BY <2>1, <2>2, <2>5
  <2> QED
    BY <2>1, <2>6, <2>7, <2>8, <2>9, LongerFollows
<1> QED
  BY <1>1, <1>6, <1>7 DEF LoopOutcome

(* The three invalidations. *)
LEMMA InvalidatedFollows ==
  ASSUME SessionInv, Follows,
         InvalidateAll \/ (hyd = "ready" /\ \E ks \in SUBSET CacheKeys : DeleteKeys(ks))
  PROVE  Follows'
<1>1. /\ hyd = "ready" /\ rest = Nothing /\ UNCHANGED <<clock, hyd, rest, store, loose, doc>>
      /\ clock' \in Nat /\ lock \in Seq(Ops)
  <2>1. clock \in Nat /\ lock \in Seq(Ops) /\ (hyd = "ready" => rest = Nothing)
    BY DEF SessionInv, VersionsInv, LockWithin, Follows
  <2>2. CASE InvalidateAll
    BY <2>1, <2>2 DEF InvalidateAll, Empty, hydVars
  <2>3. CASE hyd = "ready" /\ \E ks \in SUBSET CacheKeys : DeleteKeys(ks)
    BY <2>1, <2>3 DEF DeleteKeys, hydVars
  <2> QED
    BY <2>2, <2>3
<1>2. \A k \in CacheKeys : ~MayLoad(k) /\ ~MayLoad(k)'
  BY <1>1 DEF MayLoad, Nothing
<1>3. ASSUME NEW more \in Seq(Ops), lock' = lock \o more, NEW X \in SUBSET CacheKeys,
             mem' = [k \in CacheKeys |-> IF k \in X THEN None ELSE mem[k]],
             \A i \in DOMAIN more : Result(more[i]) = None,
             \A i \in DOMAIN more, k \in CacheKeys : Touches(more[i], k) => k \in X,
             \A k \in X : \E i \in DOMAIN more : Touches(more[i], k)
      PROVE  Follows'
  <2>1. hyd' # "reading" /\ (hyd' \in {"reading", "ready"} => rest' = Nothing)
    BY <1>1
  <2> HIDE DEF MayLoad, Touches, Result
  <2>2. \A k \in CacheKeys, j \in DOMAIN more : Touches(more[j], k) => Result(more[j]) = mem'[k]
    BY <1>3
  <2>3. \A k \in CacheKeys : (\A i \in DOMAIN more : ~Touches(more[i], k)) => mem'[k] = mem[k]
    BY <1>3
  <2> QED
    BY <1>1, <1>2, <1>3, <2>1, <2>2, <2>3, LongerFollows
<1>4. CASE InvalidateAll
  <2>1. ClearOp \in Ops /\ ClearOp.kind = "clear"
    BY <1>1 DEF ClearOp, Ops
  <2>2. lock' = Append(lock, ClearOp)
        /\ mem' = [k \in CacheKeys |-> IF k \in CacheKeys THEN None ELSE mem[k]]
    BY <1>4 DEF InvalidateAll, Empty, Nothing
  <2>3. Result(ClearOp) = None /\ \A k \in CacheKeys : Touches(ClearOp, k)
    BY <2>1 DEF Result, Touches, Covers
  <2> HIDE DEF ClearOp, Result, Touches
  <2> DEFINE more == <<ClearOp>>
  <2>4. lock' = lock \o more /\ more \in Seq(Ops) /\ DOMAIN more = {1} /\ more[1] = ClearOp
    BY <1>1, <2>1, <2>2
  <2> HIDE DEF more
  <2> QED
    BY <1>3, <2>2, <2>3, <2>4
<1>5. ASSUME NEW ks \in SUBSET CacheKeys, DeleteKeys(ks) PROVE Follows'
  <2>1. PICK s \in SetToSeqs(ks) : lock' = lock \o Deletes(s)
    BY <1>5 DEF DeleteKeys
  <2>2. s \in Seq(ks) /\ ToSet(s) = ks /\ s \in Seq(CacheKeys)
    <3>1. IsFiniteSet(ks)
      BY ReadCacheAssumption, FS_Subset
    <3>2. s \in Seq(ks) /\ ToSet(s) = ks
      BY <3>1, ListsOfSet
    <3> QED
      BY <3>2
  <2>3. Deletes(s) \in Seq(Ops)
    BY <1>1, <2>2, DeletesWithin DEF LockWithin
  <2>4. DOMAIN Deletes(s) = 1..Len(s) /\
        \A i \in DOMAIN Deletes(s) : Deletes(s)[i].kind = "delete" /\ Deletes(s)[i].key = s[i]
    BY DEF Deletes, DeleteOp
  <2>5. /\ \A i \in DOMAIN Deletes(s) : Result(Deletes(s)[i]) = None
        /\ \A i \in DOMAIN Deletes(s), k \in CacheKeys : Touches(Deletes(s)[i], k) <=> k = s[i]
    BY <2>4 DEF Touches, Covers, Result
  <2>6. (\A i \in 1..Len(s) : s[i] \in ks) /\ (\A k \in ks : \E i \in 1..Len(s) : s[i] = k)
    BY <2>2 DEF ToSet
  <2>7. mem' = [k \in CacheKeys |-> IF k \in ks THEN None ELSE mem[k]]
    BY <1>5 DEF DeleteKeys
  <2> HIDE DEF Touches, Result, Deletes
  <2>8. \A i \in DOMAIN Deletes(s), k \in CacheKeys : Touches(Deletes(s)[i], k) => k \in ks
    BY <2>4, <2>5, <2>6
  <2>9. \A k \in ks : \E i \in DOMAIN Deletes(s) : Touches(Deletes(s)[i], k)
    BY <2>4, <2>5, <2>6
  <2> QED
    BY <1>3, <2>1, <2>3, <2>5, <2>7, <2>8, <2>9
<1> QED
  BY <1>4, <1>5

LEMMA CallFollows ==
  ASSUME Undisturbed, SessionInv, Follows, ~zeroTtl, horizon = 0, Call
  PROVE  Follows'
<1>1. lock \in Seq(Ops) /\ "clear" \notin Events /\ "network" \notin Events
  BY DEF Undisturbed, SessionInv, VersionsInv, LockWithin
<1>2. ASSUME NEW k \in CacheKeys, GetHit(k) PROVE Follows'
  BY <1>1, <1>2, QuietFollows DEF GetHit, hydVars, adapterVars, Follows
<1>3. ASSUME NEW k \in CacheKeys PROVE ~GetExpired(k)
  <2>1. ASSUME mem[k] # None PROVE mem[k].ver \in 1..clock /\ clock \in Nat
    BY <2>1 DEF SessionInv, VersionsInv, Within
  <2> QED
    BY <2>1 DEF GetExpired, Expired
<1>4. ASSUME NEW k \in CacheKeys PROVE ~SetUncached(k)
  BY DEF SetUncached
<1>5. ASSUME NEW k \in CacheKeys, Invalidate(k) PROVE Follows'
  BY <1>5, InvalidatedFollows DEF Invalidate
<1>6. ASSUME NEW w \in WillIds, InvalidateByWillId(w) PROVE Follows'
  BY <1>6, InvalidatedFollows DEF InvalidateByWillId, SessionInv, Shapes
<1> QED
  BY <1>1, <1>2, <1>3, <1>4, <1>5, <1>6, SetFollows, InvalidatedFollows, AskedAssumption DEF Call

LEMMA AdapterFollows ==
  ASSUME SessionInv, Follows, ~cleared, AdapterAnswers
  PROVE  Follows'
<1>1. lock \in Seq(Ops)
  BY DEF SessionInv, VersionsInv, LockWithin
<1>2. CASE HydrateRead
  <2>1. PICK r, now, ws : r = store /\ Loop(r, now, ws)
    BY <1>2 DEF HydrateRead
  <2>2. hyd = "reading" /\ UNCHANGED <<clock, loose, doc, store>>
    BY <1>2 DEF HydrateRead
  <2> QED
    BY <2>1, <2>2, LoopFollows
<1>3. CASE HydrateResume
  <2>1. PICK r, now, ws : r = rest /\ Loop(r, now, ws)
    BY <1>3 DEF HydrateResume
  <2>2. hyd = "resuming" /\ UNCHANGED <<clock, loose, doc, store>>
    BY <1>3 DEF HydrateResume
  <2> QED
    BY <2>1, <2>2, LoopFollows
<1>4. CASE Start
  BY <1>1, <1>4, QuietFollows DEF Start, memVars, hydVars
<1>5. CASE End
  BY <1>5, EndFollows
<1>6. ASSUME NEW l \in loose PROVE FALSE
  BY DEF Follows
<1> QED
  BY <1>2, <1>3, <1>4, <1>5, <1>6 DEF AdapterAnswers

LEMMA NextFollow ==
  ASSUME Undisturbed, SessionInv, FollowInv, [Next]_vars
  PROVE  FollowInv'
<1>1. lock \in Seq(Ops) /\ clock \in Nat /\ horizon \in Nat /\ ~cleared /\ ~zeroTtl
      /\ "clear" \notin Events /\ "network" \notin Events
  BY DEF Undisturbed, SessionInv, VersionsInv, LockWithin, FollowInv
<1>2. CASE Restart
  <2>1. /\ mem' = Nothing /\ rest' = Nothing /\ lock' = <<>> /\ doc' = None /\ loose' = {}
        /\ hyd' = "reading" /\ touched' = {} /\ cleared' = FALSE /\ zeroTtl' = FALSE
        /\ horizon' = horizon
    BY <1>2 DEF Restart, Fresh, timeVars, Undisturbed
  <2>2. DOMAIN lock' = {} /\ \A k \in CacheKeys : MayLoad(k)'
    BY <2>1 DEF MayLoad
  <2>3. Follows'
    BY <2>1, <2>2 DEF Follows
  <2> QED
    BY <1>1, <2>1, <2>3 DEF FollowInv
<1>3. CASE Expire
  <2>1. horizon' \in Nat /\ horizon' # 0 /\ UNCHANGED <<cleared, zeroTtl>>
    BY <1>1, <1>3 DEF Expire, memVars
  <2> QED
    BY <1>1, <2>1 DEF FollowInv
<1>4. CASE UNCHANGED vars
  <2>1. ASSUME Follows PROVE Follows'
    BY <1>1, <1>4, <2>1, QuietFollows DEF vars, memVars, hydVars, adapterVars, Follows
  <2> QED
    BY <1>4, <2>1 DEF FollowInv, vars, memVars, adapterVars, timeVars
<1>5. CASE Call
  <2>1. UNCHANGED <<cleared, zeroTtl, horizon, faulty>>
    BY <1>1, <1>5, AskedAssumption DEF Call, GetHit, GetExpired, Set, SetUncached, Invalidate, InvalidateByWillId,
                      DeleteKeys, InvalidateAll, Empty, adapterVars, timeVars
  <2> QED
    BY <1>1, <1>5, <2>1, CallFollows DEF FollowInv
<1>6. CASE AdapterAnswers
  <2>1. UNCHANGED <<cleared, zeroTtl, horizon, faulty>>
    BY <1>6 DEF AdapterAnswers, HydrateRead, HydrateResume, Start, End, LooseEnd, memVars, timeVars
  <2> QED
    BY <1>1, <1>6, <2>1, AdapterFollows DEF FollowInv
<1>7. CASE AdapterFails
  <2>1. UNCHANGED <<cleared, zeroTtl, horizon>> /\ faulty' = TRUE
    BY <1>7 DEF AdapterFails, HydrateReadFails, EndFailed, LooseFails, memVars, timeVars
  <2> QED
    BY <1>1, <2>1 DEF FollowInv
<1> QED
  BY <1>2, <1>3, <1>4, <1>5, <1>6, <1>7 DEF Next, Adapter

(* Where the adapter does not fail and nothing expires, it ends up with    *)
(* exactly the entries of the memory: for every number of keys, capacity,  *)
(* queue, order of sets, evictions, invalidations, hydration and crashes,  *)
(* and whether it keeps the entries one by one or in one document.         *)
THEOREM StoreFollows ==
  ASSUME Undisturbed
  PROVE  Spec => []StoreFollowsMemory
<1>1. ASSUME Init PROVE FollowInv
  <2>1. /\ mem = Nothing /\ rest = Nothing /\ lock = <<>> /\ doc = None /\ loose = {}
        /\ hyd = "reading" /\ touched = {} /\ cleared = FALSE /\ zeroTtl = FALSE
    BY <1>1 DEF Init, Undisturbed
  <2>2. horizon \in Nat
    <3>1. clock \in Nat
      BY <1>1, InitSession DEF SessionInv, VersionsInv
    <3> QED
      BY <1>1, <3>1 DEF Init
  <2>3. DOMAIN lock = {} /\ \A k \in CacheKeys : MayLoad(k)
    BY <2>1 DEF MayLoad
  <2> QED
    BY <2>1, <2>2, <2>3 DEF FollowInv, Follows
<1>2. Init => SessionInv /\ FollowInv
  BY <1>1, InitSession
<1>3. SessionInv /\ FollowInv /\ [Next]_vars => (SessionInv /\ FollowInv)'
  BY NextSession, NextFollow
<1>4. ASSUME SessionInv, FollowInv PROVE StoreFollowsMemory
  <2> SUFFICES ASSUME Quiet, ~faulty, horizon = 0 PROVE store = mem
    BY DEF StoreFollowsMemory
  <2>1. Follows /\ DOMAIN lock = {} /\ hyd = "ready" /\ rest = Nothing
    BY <1>4 DEF FollowInv, Quiet, Follows
  <2>2. \A k \in CacheKeys : ~MayLoad(k)
    BY <2>1 DEF MayLoad, Nothing
  <2>3. \A k \in CacheKeys : store[k] = mem[k]
    BY <2>1, <2>2 DEF Follows
  <2>4. store \in Stores /\ mem \in Stores
    BY <1>4 DEF SessionInv, VersionsInv, Within
  <2> QED
    BY <2>3, <2>4 DEF Stores
<1> QED
  BY <1>2, <1>3, <1>4, PTL DEF Spec
=============================================================================
