-------------------------- MODULE InFlightTracker --------------------------
(***************************************************************************)
(* InFlightTracker: one entry per key for the operation in flight, a limit *)
(* on entries, a time to live, and a limit of operations per wallet.  The  *)
(* methods are synchronous, but track() calls the operation in the middle: *)
(* what the operation does synchronously, a call of track() included,      *)
(* happens between the checks and the new entry.                           *)
(***************************************************************************)
EXTENDS Naturals, Sequences, FiniteSets

CONSTANTS
  Calls,         (* Calls of the four track methods.                         *)
  Keys,          (* Results of getKey, and the keys of trackByKey.           *)
  Wallets,       (* Wallet addresses.                                        *)
  NoWallet,      (* A call that passes no walletAddress.                     *)
  None,          (* No call.                                                 *)
  KeyOf,         (* The key of each call.                                    *)
  WalletArg,     (* The walletAddress of each call of track.                 *)
  MethodOf,      (* The method of each call.                                 *)
  MaxInFlight,   (* Option maxInFlight.                                      *)
  MaxPerWallet,  (* Option maxConcurrentPerWallet.                           *)
  MaxNesting     (* Calls on the stack: above 1, operations call track().    *)

Methods == {"track", "exclusive", "ifPending", "byKey"}

ASSUME TrackerAssumption ==
  /\ IsFiniteSet(Calls) /\ None \notin Calls
  /\ IsFiniteSet(Keys)
  /\ NoWallet \notin Wallets
  /\ KeyOf \in [Calls -> Keys]
  /\ WalletArg \in [Calls -> Wallets \cup {NoWallet}]
  /\ MethodOf \in [Calls -> Methods]
  /\ MaxInFlight \in Nat \ {0}
  /\ MaxPerWallet \in Nat \ {0}
  /\ MaxNesting \in Nat \ {0}

VARIABLES
  owner,     (* inFlight: the call whose entry each key has.                 *)
  place,     (* Place of each key in the insertion order of the map.         *)
  places,    (* Places given out.                                            *)
  count,     (* walletCounts.                                                *)
  released,  (* Calls whose entry has `released` set.                        *)
  status,    (* What became of each call.                                    *)
  stack,     (* Calls whose operation is being called, innermost last.       *)
  expired,   (* Calls whose entry is older than ttlMs.                       *)
  aborted    (* Calls whose controller was aborted.                          *)

vars == <<owner, place, places, count, released, status, stack, expired, aborted>>

Statuses == {"new", "calling", "running", "settled", "joined", "refused"}

(* Only track() hands a wallet on to the entry. *)
WalletOf(c) == IF MethodOf[c] = "track" THEN WalletArg[c] ELSE NoWallet

Tracked == {c \in Calls : \E k \in Keys : owner[k] = c}
InMap == {k \in Keys : owner[k] # None}

Init ==
  /\ owner = [k \in Keys |-> None]
  /\ place = [k \in Keys |-> 0]
  /\ places = 0
  /\ count = [w \in Wallets |-> 0]
  /\ released = {}
  /\ status = [c \in Calls |-> "new"]
  /\ stack = <<>>
  /\ expired = {}
  /\ aborted = {}
-----------------------------------------------------------------------------
(* Entries that go: evict, pruneExpired, evictOldest, abort and clear.     *)

(* releaseWallet() acts once per entry. *)
Charged(cs, w) == {c \in cs \ released : WalletOf(c) = w}

(* Mutant: the entries go and their slots stay taken. *)
KeepSlots(cs) ==
  /\ owner' = [k \in Keys |-> IF owner[k] \in cs THEN None ELSE owner[k]]
  /\ released' = released \cup cs
  /\ UNCHANGED count

(* The entries of cs leave the map and give their slots back. *)
Release(cs) ==
  /\ owner' = [k \in Keys |-> IF owner[k] \in cs THEN None ELSE owner[k]]
  /\ released' = released \cup cs
  /\ count' = [w \in Wallets |-> count[w] - Cardinality(Charged(cs, w))]

Drop(cs) ==
  /\ Release(cs)
  /\ aborted' = aborted \cup cs

Stale == Tracked \cap expired

(* The first entry in insertion order once the stale ones are gone, when   *)
(* the map is full then.                                                   *)
Oldest ==
  LET left == {k \in InMap : owner[k] \notin expired} IN
    IF Cardinality(left) < MaxInFlight THEN {}
    ELSE {owner[k] : k \in {l \in left : \A m \in left : place[l] <= place[m]}}
-----------------------------------------------------------------------------
(* track() and its variants.                                               *)

Callable(c) == status[c] = "new" /\ Len(stack) < MaxNesting

Occupied(c) == owner[KeyOf[c]] # None /\ owner[KeyOf[c]] \notin expired

(* An operation in flight is shared, or for trackExclusive() a refusal. *)
Duplicate(c) ==
  /\ Callable(c)
  /\ Occupied(c)
  /\ status' = [status EXCEPT ![c] = IF MethodOf[c] = "exclusive" THEN "refused" ELSE "joined"]
  /\ UNCHANGED <<owner, place, places, count, released, stack, expired, aborted>>

(* trackIfPending() returns undefined when the key has no entry. *)
NotPending(c) ==
  /\ Callable(c)
  /\ MethodOf[c] = "ifPending"
  /\ owner[KeyOf[c]] = None
  /\ status' = [status EXCEPT ![c] = "refused"]
  /\ UNCHANGED <<owner, place, places, count, released, stack, expired, aborted>>

MayStart(c) ==
  /\ Callable(c)
  /\ ~Occupied(c)
  /\ MethodOf[c] = "ifPending" => owner[KeyOf[c]] # None

(* The wallet has no slot left once the stale entries are gone. *)
WalletFull(c) ==
  /\ WalletOf(c) # NoWallet
  /\ count[WalletOf(c)] - Cardinality(Charged(Stale, WalletOf(c))) >= MaxPerWallet

LimitReached(c) ==
  /\ MayStart(c)
  /\ WalletFull(c)
  /\ Drop(Stale)
  /\ status' = [status EXCEPT ![c] = "refused"]
  /\ UNCHANGED <<place, places, stack, expired>>

(* Stale entries and, at capacity, the oldest one go; the operation is     *)
(* called.                                                                 *)
Start(c) ==
  /\ MayStart(c)
  /\ ~WalletFull(c)
  /\ Drop(Stale \cup Oldest)
  /\ status' = [status EXCEPT ![c] = "calling"]
  /\ stack' = Append(stack, c)
  /\ UNCHANGED <<place, places, expired>>

Top(c) == stack # <<>> /\ c = stack[Len(stack)]
Pop == stack' = SubSeq(stack, 1, Len(stack) - 1)

(* The operation throws before it returns a promise: no entry is made. *)
Throws(c) ==
  /\ Top(c)
  /\ Pop
  /\ status' = [status EXCEPT ![c] = "settled"]
  /\ UNCHANGED <<owner, place, places, count, released, expired, aborted>>

(* The operation has returned a promise: the entry is made.  A key that    *)
(* the operation itself has filled meanwhile keeps its place in the map.   *)
Admit(c) ==
  /\ Top(c)
  /\ Pop
  /\ status' = [status EXCEPT ![c] = "running"]
  /\ owner' = [owner EXCEPT ![KeyOf[c]] = c]
  /\ IF owner[KeyOf[c]] = None
     THEN place' = [place EXCEPT ![KeyOf[c]] = places + 1] /\ places' = places + 1
     ELSE UNCHANGED <<place, places>>
  /\ count' = [w \in Wallets |-> IF w = WalletOf(c) THEN count[w] + 1 ELSE count[w]]
  /\ UNCHANGED <<released, expired, aborted>>
-----------------------------------------------------------------------------
(* What happens between two tasks of the event loop.                       *)

(* Mutant: the finally removes the entry of whoever has the key now. *)
SettleKey(c) ==
  /\ stack = <<>>
  /\ status[c] = "running"
  /\ status' = [status EXCEPT ![c] = "settled"]
  /\ Release({owner[KeyOf[c]]} \ {None})
  /\ UNCHANGED <<place, places, stack, expired, aborted>>

(* The promise settles; its finally removes the entry if it is still its. *)
Settle(c) ==
  /\ stack = <<>>
  /\ status[c] = "running"
  /\ status' = [status EXCEPT ![c] = "settled"]
  /\ Release({c} \cap Tracked)
  /\ UNCHANGED <<place, places, stack, expired, aborted>>

(* isInFlight() and getInFlightPromise() evict an expired entry. *)
Query(k) ==
  /\ stack = <<>>
  /\ owner[k] \in expired
  /\ Drop({owner[k]})
  /\ UNCHANGED <<place, places, status, stack, expired>>

Abort(k) ==
  /\ stack = <<>>
  /\ owner[k] # None
  /\ Drop({owner[k]})
  /\ UNCHANGED <<place, places, status, stack, expired>>

Clear ==
  /\ stack = <<>>
  /\ owner' = [k \in Keys |-> None]
  /\ released' = released \cup Tracked
  /\ count' = [w \in Wallets |-> 0]
  /\ aborted' = aborted \cup Tracked
  /\ UNCHANGED <<place, places, status, stack, expired>>

(* Time passes: entries expire in the order in which they were made. *)
Expire(k) ==
  /\ stack = <<>>
  /\ owner[k] # None
  /\ \A l \in InMap : place[l] < place[k] => owner[l] \in expired
  /\ expired' = expired \cup {owner[k]}
  /\ UNCHANGED <<owner, place, places, count, released, status, stack, aborted>>
-----------------------------------------------------------------------------
Track(c) == Duplicate(c) \/ NotPending(c) \/ LimitReached(c) \/ Start(c)

Next ==
  \/ \E c \in Calls : Track(c) \/ Throws(c) \/ Admit(c) \/ Settle(c)
  \/ \E k \in Keys : Query(k) \/ Abort(k) \/ Expire(k)
  \/ Clear

Spec == Init /\ [][Next]_vars
-----------------------------------------------------------------------------
(* Types: every variable has the shape its comment says. *)
TypeOK ==
  /\ owner \in [Keys -> Calls \cup {None}]
  /\ place \in [Keys -> Nat]
  /\ places \in Nat
  /\ count \in [Wallets -> Nat]
  /\ released \subseteq Calls
  /\ status \in [Calls -> Statuses]
  /\ stack \in Seq(Calls)
  /\ expired \subseteq Calls
  /\ aborted \subseteq Calls

(* The slots taken of each wallet are exactly its entries in the map: none *)
(* is returned twice or never, whichever of settling, expiry, eviction,    *)
(* abort and clear an operation meets, and in whichever order (#606).      *)
SlotsMatchEntries ==
  \A w \in Wallets : count[w] = Cardinality({c \in Tracked : WalletOf(c) = w})

(* The limits on entries and on the slots of a wallet. *)
WithinLimits ==
  /\ Cardinality(InMap) <= MaxInFlight
  /\ \A w \in Wallets : count[w] <= MaxPerWallet

(* An operation that runs and is no longer the one in flight for its key   *)
(* has been told to stop: a key never passes on behind its owner's back.   *)
ReplacedIsAborted ==
  \A c \in Calls : status[c] = "running" /\ owner[KeyOf[c]] # c => c \in aborted

(* No entry outlives its operation, and the entry found under a key is of  *)
(* an operation for that key: who joins gets a promise that will settle.   *)
EntriesRun == \A k \in InMap : status[owner[k]] = "running" /\ KeyOf[owner[k]] = k

(* The three of them: map, counters and operations agree and are in bounds *)
(* after every mixture of calls that do not call the tracker again.        *)
BooksAgree == SlotsMatchEntries /\ WithinLimits /\ EntriesRun
-----------------------------------------------------------------------------
(* What the documentation says and the code does not do.                   *)

(* trackIfPending() "runs `operation` only if no operation is currently in *)
(* flight for the given will/method pair".                                 *)
FollowUpRunsAlone ==
  [][\A c, d \in Calls :
       /\ MethodOf[c] = "ifPending" /\ Start(c)
       /\ KeyOf[d] = KeyOf[c]
       => status[d] # "running"]_vars

(* getWalletInFlightCount(): "the number of operations currently in flight *)
(* for `walletAddress`", also after an operation has called track() for    *)
(* its own key.                                                            *)
IdleWalletsAreFree ==
  (\A c \in Calls : status[c] \notin {"calling", "running"}) => \A w \in Wallets : count[w] = 0
=============================================================================
