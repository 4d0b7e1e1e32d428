# A TLA+ verification of the SoroWill SDK

The SDK is a TypeScript client of the SoroWill contract on Soroban. It is a
library that runs in one event loop, but it is concurrent all the same: every
method awaits a wallet, RPC nodes, hooks or a persistence adapter, callers
abort, timers fire, and several calls, hooks and clients share one queue, one
tracker, one cache and one chain of submissions. This directory holds TLA+
modules of its parts, the TLC configurations that check them on small
instances, and TLAPS proofs of what matters most for every instance.

Paths below are relative to the repository.

## 1. Inventory

| Component (source under `src/`) | State | Operations | Talks to |
|---|---|---|---|
| **Write path** (`SoroWillClient.ts` 3322-3720, 3050-3075) | `writeChain`, `signedTransactionHashes`, `destroyed`; per call its promise, its submission, its sequence number | invoke, abort, cancel, destroy; prepare, sign, send, poll, bump | tracker, hooks, request queue, endpoint pool, wallet, ledger, cache |
| **In-flight tracker** (`inFlightTracker.ts`) | `inFlight` in insertion order, `walletCounts`, an abort controller and an expiry per entry | track, trackExclusive, trackIfPending, trackByKey, isInFlight, abort, clear | called by writes and reads; calls the operation |
| **Request queue** (`requestQueue.ts`) | `pending`, `active`, `starts` (rolling second), `wakeTimer` | enqueue, abort, rejectAll, drain, execute with timeout and rate-limit retries | every RPC request |
| **Shared queue registry** (`requestQueue.ts` 277-332, 405-537) | `sharedCores` with reference counts, `sharedQueueMap`, `released` | constructor, release, getSharedRequestQueue, releaseSharedRequestQueue | request queue, apps |
| **Read cache** (`cache.ts`) | `entries` in LRU order, `willIdToKeys`, `touchedKeys`, `clearedBeforeHydration`, the persistence lock, the stores | get, set, delete, clear, three invalidations, setNetwork, hydrate, evict, expire | persistence adapter; the read API |
| **RPC endpoint pool** (`rpc.ts`) | `activeIndex`, `lastFailoverAt`; per endpoint backoff, failures, circuit breaker, latency samples | withFailover, getActiveServer, rotate, add | RPC nodes |
| **Lifecycle hooks** (`hooks.ts`) | the hooks, the recursion flag `executing` | runBeforeInvoke, runAfterInvoke, on, off, clear | write path, batches |
| **Read API** (`SoroWillClient.ts` 2024-2400, 3216-3320) | `inFlightReads`, the read's entry in the tracker | getWill, lists, coalesced reads with retries | cache, tracker, queue, pool |
| **Contract spec** (3140-3214, 3935) | the spec's promise, its age, its version | getSpec, refreshSpec | pool |
| **Batches** (2349-2630), **signed submission** (3740-3880) | none of their own | batch, batchSequential; buildTransaction, submitSignedTransaction | write chain, hooks, wallet, cache |
| **Event subscription** (2798-3035) | the WebSocket, the connect timer, the polling cursor and timer | subscribe, fall back, poll, unsubscribe | RPC, listener |
| **WalletConnect adapter** (`walletConnect.ts`) | session, connection, stored topic | connect, reconnect, disconnect, sign, with timeouts | relay, wallet |
| **Freighter adapter** (`wallet.ts`) | stale-context flag, session with expiry, network watcher | connect, reconnect, disconnect, check, sign, watch | browser extension |
| **Other adapters** (`adapters/`) | the account each remembers, Ledger's app | connect, getPublicKey, sign, disconnect | vendors' libraries |
| **Fee bump** (`feeBump.ts`) | failed sequence numbers | submitFeeBump, autoFeeBumpOnTimeout, estimates | RPC |
| **Multisig collector** (`multisig.ts`) | signatures, threshold, start time | addSignature, reset, build, toJSON, fromJSON | signers' devices |
| **Will rules** (`utils.ts`, checks of the write methods) | none | getNextActionableState, validateBeneficiaries, calculateShares | contract |
| **React hooks** (`react/hooks.tsx`) | one client per component, the runs of its effects, data and flags | effects and their cleanups | client, wallet |
| **Pure parts**: amounts, addresses, transaction checks, error mapping | none | functions of their arguments | everything |
| **Exported only**: `ordering.ts`, `logRotation.ts`, `metrics.ts`; debug logger, contract version | queues, buffers, counters nothing reads | | |

How they interact. A call of a contract method is first a *tracked* operation
(one per will and method); inside it the `beforeInvoke` hooks, the spec and
then one link of the promise chain `writeChain`. The link makes its requests
through the *request queue* (slots, rate, priorities, timeout) and through
`withFailover()` of the *endpoint pool* (which node, again after a failure).
The caller's promise is a race between the link and the tracker's abort
signal: the caller may be gone while the link still signs and sends. A write
that succeeds invalidates the *read cache*, which may be hydrating, and which
mirrors itself into an adapter behind a lock. `batch()` takes a place in the
same chain but not in the tracker; `submitSignedTransaction()` takes neither.
Reads look into the cache, share a simulation through two maps, and fill the
cache with what they find, while events and writes invalidate it.

What is hard about it, component by component, and what makes it correct:

* *Write path*: one invocation stands for up to two transactions, sent to
  several nodes, possibly while nobody waits. Correct means: applied at most
  once, reported successful only if it was, in the order of the calls, and
  no request to send it started for a caller who had gone before.
* *Tracker*: an entry leaves by settling, expiry, eviction, abort or clear, in
  any order, while its operation runs. Correct means: slots follow entries,
  and a key never passes on without its owner being told.
* *Queue*: two limits, a timer, timeouts, retries and aborts. Correct means:
  both limits at every instant, first in first out per priority, somebody left
  to drain whatever waits, and every request answered once. The registry must
  not drop a core that is in use.
* *Cache*: hydration works on a snapshot across awaits; mutations reach the
  adapter late, or not at all, or the process ends. Correct means: what was
  invalidated stays gone, hydration never wins over something newer, memory
  and adapter agree when nothing fails, and the index misses no entry.
* *Reads*: callers join a simulation that may be aborted, expire or end in
  another order, and nodes lag. Correct means: every caller answered, by one
  simulation, and no entry that an event has overtaken stays.
* *Pool*: concurrent calls decide about one shared endpoint with answers that
  are older than its state. Correct means: calls that fail together do not
  push it past a working endpoint, the breaker agrees with the count, every
  call ends.
* *Batches and outside submissions*: statuses that are true of what was sent
  and applied; a number lost only to a transaction that did not queue.
* *Events*: a change of transport, failed polls, pages without a cursor and a
  listener that throws. Correct means: each event once, in order, and none
  missing.
* *Wallets*: awaits in which a session may expire, be ended, or be approved
  late. Correct means: no popup for a call that has not looked at a session, no
  connection shown that has none.
* *React*: requests that end in another order than they began. Correct means:
  what is shown as current is the answer to what is asked now.

`PROJECT.json` lists every component with its status and, under "hazards",
each such place at its line.

## 2. Modules and how they correspond to the code

Code between two awaits runs without interruption, so each such stretch is one
action, with everything it calls. Each module keeps the names of the source
where it can. External parties (ledger, wallet, RPC nodes, adapters) are
nondeterministic: they answer late, fail, or not at all.

**WritePath** (with `MCWritePath`, `WritePathProofs`). Two processes per
invocation: the caller's promise `call` (`idle`, `before`, `spec`, `racing`,
`afterOk/afterErr`, `ok/failed`, or `joined` to a `leader`) and the submission
`sub` (`queued`, `prepare`, `sign`, `send`, `reply`, `poll` and the same again
for the bump). `CallUntracked/Duplicate/Join/Tracked` are `track()` and
`trackExclusive()` with pruning and eviction; `HooksProceed/Veto/Throw` and
`AfterHooks` are the hooks with their shared flag; `SpecLoaded` puts the
submission on the chain at `pos`, and `Turn` is `writeChain`: a link runs when
those before it are `done`. `LoadAccount` reads a sequence number that may lag
by `MaxLag`; `Prepare` has the check of `signedTransactionHashes`; `SubEnd`
settles the caller if he still waits. `Send` and `BumpSend` only start the
request (`handed`): from there the queue listens to no signal (queue 441), and
its backoff after a rate limit, the retries after a timeout and the fail-over
transmit without a look at caller, signal or link. That is `Transmit`, at any
later time, also when the link is over. `Land` may apply a sent transaction at
any time after while its number is the next: lost answers and late application
are in there.
`UserAbort` (options.signal), `CancelOperation`, `Destroy` and `Age` are the
events. Arguments, fees, XDR and error texts are abstracted: a transaction is
its invocation, its kind and its sequence number.

**RequestQueue** (`MCRequestQueue`, `RequestQueueProofs`). `stage` tells where
a request is, `age` is `core.starts` (ticks since the start), `armed` and
`wake` are `wakeTimer`. `Drain` is the whole loop of `drain()` as one choice of
the set that starts, with the timer it leaves; `Enqueue`, `Finish` (the finally
of `execute()`) and `Wake` each end with it. `Timeout` leaves an *orphan*: a
`run()` that goes on.

**ReadCache** (`MCReadCache`, `ReadCacheProofs`). Values are versions, the n-th
`set()` stores n. `Settle` is `evictIfNeeded()`, the end of every method that
adds. `lock` is the queue of `withPersistenceLock`, `Start`/`End`/`EndFailed`
its head; `loose` are the deletions that bypass it. `HydrateRead`, `Loop` and
`HydrateResume` are `hydrate()` from await to await. `Restart` ends the process
at any point and opens a new cache over the same adapter, perhaps on another
network. `gone` (the last version deleted of each key), `faulty` (the adapter
has failed in this session), `seen` (the newest version of each key that was in
memory in this session, forgotten by a rollback) and `overdue` (hydration has
loaded entries and `evictIfNeeded()` has not run since) are history variables,
which nothing reads but the properties.

**InFlightTracker** (`MCInFlightTracker`, `InFlightTrackerProofs`). The tracker
with the slots per wallet the write path does not use. `Start` is `track()` up
to the call of the operation, `Admit` what follows, and `stack` allows an
operation to call the tracker again in between.

**RpcEndpointPool** (`MCRpcEndpointPool`, `RpcEndpointPoolProofs`). `Begin`, `Skip`,
`Request`, `Exhausted`, `Succeeds`, `TimesOut` and `Fails` are the stretches of
`withFailover()` and `runWithTimeoutRetry()`; `turn` is the call that runs now.
`Selects` is `selectEndpointIndex()`, `Lift` the side effect of asking whether
an endpoint is quarantined. Time is in ticks; counters stop where nothing can
tell their values apart any more. Latencies are averages.

**OperationLedger** (`Implementation` in `WritePathProofs`). The abstract
promise of a write: operations line up while their caller waits, take effect at
most once and in the order of the line, and are reported once, as a success only
after the effect. WritePath implements it: the place is the position in
`writeChain`, the effect is what the ledger holds of the invocation, the verdict
is what its caller, and those who joined it, were told.

**CachedReads**. The read methods: a look at the cache, `read()` with its map
`inFlightReads` and behind it the tracker's `trackByKey()` (two maps with two
keys, since only the first contains the request options), the simulation with
its retries, and the fill of the cache. Against it: the ledger, which other
clients change (a value is the number of changes it has seen), its nodes, of
which reads ask several and each may answer with any state the ledger has had
(`ledgers`), events, which may come from another node than the answers, the
client's own writes, batches, expiry, entries that age out of the tracker, a
change of network and `destroy()`. The cache is that of ReadCache without
persistence.

**HookManager**. The arrays of hooks, changed while a run is on, the position
of the loop in them, the recursion flag, hooks that return, stop or throw.
WritePath has what their runs mean for an invocation.

**CacheStores**. The adapters behind ReadCache: memory, one document in
`localStorage` that a change reads, awaits and writes, one record per entry in
IndexedDB; two caches on one store change it through the same lock, and delete
expired entries past it (`StExpired`).

**FreighterSession**, **WalletConnectSession**, **WalletAdapters**. The
adapters' calls, interleaved at their awaits, against a user and a wallet that
switch, expire, approve late or disappear. The injected, Ledger, LOBSTR and
Albedo adapters are four kinds of one module, which differ in what they
remember. What is said of those is said by departures only (section 6); no
property of a run is about them. In FreighterSession a call that signs is in
`loading` between `ensureValidSession()` and the popup, while the API of the
extension loads: there the session may expire, `disconnect()` or a lost context
may delete it, and the timer may answer the caller (`late`), and the popup opens
all the same.

**ReactHooks**. `Rendered`, `Effects`, `StrictRemount` and `Unmount` are what
React does; a query hook with its client and its runs; `useWallet`.

**EventSubscription**. The promise of `subscribeToEvents()`, the socket with its
connect timer, the polling loop with its cursor, and the listener, called
between two turns. The answer to a poll may lack `nextCursor`, and then the
cursor stays (`bare` counts such pages); `onError` may throw, which leaves for the
outer catch before the cursor moves, or rejects the poll (`throws`).

**FeeBump**. `submitFeeBump()` and `autoFeeBumpOnTimeout()` for one inner
transaction, with estimates that go stale. Original and bumps share a sequence
number, of which the ledger applies one.

**BatchQueue** is `batchSequential()`: an operation is an invocation reduced to
whether a transaction was sent and how the call ended. **BatchCalls**
is `batch()` beside apps that build, sign and submit by themselves: `bcAhead`
are the links a link waits for.

**ContractSpec**. `getSpec()`, the fetches it shares, `refreshSpec()`, and an
upgrade of the contract.

**SharedQueues**, **MultisigCollector**. The registries, with a
core named by the queue that made it; collectors on several devices with
signatures of this transaction or of another. The envelope that `build()`
appends to is taken to have no signatures yet (multisig 261-263).

**WillRules**. What the client computes of a will, against the contract's life
of it: offers, refusals, deadlines in ticks of a fraction of a second, shares
in basis points. Offers are made on the will the app read last (`held`), and the
methods check the will as it is or as the cache has it (`Reads`). A call of
`releaseInheritance()` goes from await to await (`AskRelease`, `CheckGrace`, then
`FundingRefused` or `ReleaseInheritance`), while time passes, others act on the
will, and the accounts of the beneficiaries come and go (`funded`).

**Amounts**, **WillLists**, **Addresses**, **TxValidation**, **ContractErrors** are
functions. `MCHelpers` checks them over bounded inputs by named ASSUMEs against
a reference definition: `ShownToTheCent`, `NothingIsCutOff`,
`ExpandedIsTheSameNumber`, `AmountsAgree`, `EachWillOnceInOrder`,
`PagesCoverTheList`, `OffsetsAndSizes`, `AddressesAgree`,
`PreparedCallsTheSame`, `OperationsStayInPlace`, `SignaturesAreExpected`,
`MappedOnce`; `SharesMirrorTheContract` in `MCServices` does it for
`calculateShares()`. TLC evaluates them before `Services_parts`.

**Filters** is `Array.prototype.filter` (`Kept`), which HookManager and ReadCache
use. It is what `SelectSeq` gives, by `KeptIsFiltered` in `MCHelpers`, but defined
by counting instead of by recursion, so that it can be reasoned about
(`FilterProofs`).

`AppSideProofs` has the proofs about the modules of `MCAppSide`, `ServiceProofs`
those about the modules of `MCServices`.

`MCAppSide` and `MCServices` put modules that share no state side by side, as a
sum: the first step of a behaviour is the choice of a `part`, and then only
that module moves. It saves the product of their state spaces and loses
nothing, since no step of one can enable or disable a step of another.
Where parts of the code do meet, they meet in one module: WritePath has
tracker, hooks, chain, wallet and ledger; CachedReads has cache, tracker and
ledger; BatchCalls has chain and ledger; ReadCache has cache and adapter.

WritePath and InFlightTracker model the same tracker at two levels: WritePath
has what the write path sees of it (one entry per key, expiry, eviction,
abort), InFlightTracker has the rest. The same holds of WritePath and
HookManager, and of ReadCache and CacheStores.

The definitions called *mutants* in the modules are the code with one plausible
mistake in it; no specification uses them. For each property of a passing run
`PROJECT.json` names one that violates it.

## 3. Runs

`tlc -config X.cfg MCModule`; each ends within a few minutes.

| Run | Instance | What it shows |
|---|---|---|
| `WritePath_exclusive` | 3 calls of one exclusive method and will, so of one key, cancel and expiry | two unaborted calls never wait on one key, though their predecessors may still run |
| `WritePath_bump` | 2 calls on 2 wills, capacity 1, fee bump, node lagging by 1, foreign transactions, cancel, destroy, one options.signal | applied at most once; success is real; applied in chain order; a request to send starts only for a caller who waits; OperationLedger is implemented |
| `WritePath_live` | 3 calls (two coalesced, one untracked), asynchronous hooks, cancel | every caller is answered, every link ends |
| `RequestQueue_full` | 5 requests (1 urgent, with signal and timeout), 2 slots, 2 starts in 2 ticks, room for 2 | rate window, no lost wake-up, FIFO within a priority |
| `RequestQueue_retries` | 3 timed requests, 2 slots, 1 start in 2 ticks, 1 retry | nothing settled twice, every request answered |
| `ReadCache_memory` | 3 keys, room for 1, 2 networks, three entries left of which one is unreadable, every call and every failure, crashes, no expirations | index; capacity but for what hydration has loaded and not yet evicted; hydration ends |
| `ReadCache_restart` | 2 keys, room for 1, two entries left, expiry, failures, crashes | invalidations survive, no key is served in an older version than before in the session, adapter and memory agree in a session in which nothing has failed or expired |
| `InFlightTracker_methods` | 5 calls, all four methods, 3 keys, 2 wallets, capacity 2, 1 slot per wallet | slots, entries and limits agree, a replaced operation has been aborted |
| `RpcEndpointPool_failover` | 2 callers, 1 endpoint and 1 added later, a retry of timeouts, breaker after 1 failure, rotate | the breaker follows the count, overlapping failures leave only failing endpoints, every call ends |
| `AppSide_parts` | CachedReads, FreighterSession, WalletConnectSession, ReactHooks, HookManager, WalletAdapters, CacheStores | what is in the cache when an event arrives does not survive it if it is older, and what is stored later is not older but where the answer was; reads are shared and all answered; a popup only for a call that found or made a valid session, which only its expiry, disconnect() or a lost context can have taken since; a connection has a session; what is shown is what is asked; each hook once; changes of a store are serial, in localStorage as long as no deletion of an expired entry overlaps with another change |
| `Services_parts` | EventSubscription, FeeBump, BatchQueue, ContractSpec, SharedQueues, WillRules, BatchCalls, MultisigCollector; the helpers of MCHelpers | wanted events only, none left out, and each once where every page has a nextCursor and onError does not throw; each arrives; a bump reported is applied; outcomes of a batch are true; a spec can be replaced; one core per account; a release that was offered is refused over the grace period only if the will was triggered again; a batch loses its number to outsiders only; a built transaction has its signers |
| `WillRules_percent` (violation) | percentages with a fraction | a will the SDK writes that it cannot read, section 6 |

Bounds, and why they are enough. *Calls*: two suffice for every pairwise race;
the third gives a successor of an operation that was evicted or coalesced, or
one that waits behind a failed link. *Queue*: five requests fill two slots and a
queue of two and leave one to be refused. *Keys*: with room for one entry, two
keys already force eviction at every set, also during hydration. In
`ReadCache_memory` a third, unreadable entry makes hydration wait with two
loaded, and no caller asks for that one (`Asked`): a call for it would
only take the deletion away.
*Endpoints*: two make a choice, and starting with one covers `add()` during a
failover. *Versions* (`MaxSets`), *waiting mutations* (`MaxLock`) and *sequence
numbers* (`MaxSeq`) bound the state space only. `Window = 2` makes the rolling
second longer than one tick.

*AppSide_parts*: four reads, of which one has a signal, of one will and of a
list with two sets of options, so that a caller can join by each of the two
maps; a will that changes once (`MaxChanges`), two attempts (`MaxAttempts`);
entries age out of the tracker in a part without the read that has a signal,
which the tracker never sees. Two calls of Freighter, whose calls and whose
network watcher are two parts, and three of the other adapters: one to connect,
one that interleaves, one that comes after; three WalletConnect sessions, of
which one cannot sign. React: four runs of the effect (`MaxRuns`: StrictMode, a
change of input there and back), two clients, one run of `useWallet`. Two
invocations with hooks and at most two hooks; three changes of a store over two
keys.
*Services_parts*: four events of which one is filtered out, in pages of two, so
that one page is full and the next is not, with one answer without `nextCursor`
(`MaxBare`) and one throw of `onError` (`MaxThrows`); two bumps of one
transaction, one of them automatic; three operations, so that one is skipped
after another failed; three fetches of a spec that is upgraded once; four
queues; a will with a period longer than a second of two ticks and a grace
period shorter, up to a `MaxTime` that leaves room to be triggered, checked in
and triggered again, with one call of `releaseInheritance()` at a time; two
batches and one app outside the chain; two devices and two signers. The proofs
of section 5 have none of these bounds.

`CHECK_DEADLOCK FALSE` is given where the system really stops: when every call
of a module has been made and settled, when an event subscription is closed,
a will settled or a component unmounted, and when ReadCache has used up its
versions in `ReadCache_memory`.

Every module has a type invariant. Those of the modules with theorems are part
of what is proved; they hold of the others too and are left out of the
configurations, which are kept for what could really go wrong.

## 4. Fairness

* *WritePath*: the steps of a caller (its hooks return, the spec request ends)
  and the steps of the link whose turn it is are weakly fair. The requests
  justify it: the queue times each of them out. **The wallet is an
  assumption**: `signTransaction()` is awaited without a timeout, and without
  the assumption the property fails (`WritePath_hung.cfg`). Nothing is assumed
  of callers, signals or the ledger: `EveryCallSettles` holds when no
  transaction is ever applied, because the poll gives up.
* *RequestQueue*: timers fire (`Tick`, `Wake`, the end of a backoff) and an
  attempt with a timeout ends. Requests without a timeout have no fairness.
* *ReadCache*: the adapter answers or fails, and `hydrate()` goes on when it has
  its answer. Crashes and calls are not fair, and
  `HydrationEnds` has a way out for processes that all end before they are ready.
* *RpcEndpointPool*: a call that runs goes on to its next await (weak), and a
  request ends (strong): it has a timer of its own, but the model interleaves
  it with the synchronous stretches of other calls, which disable it for a
  moment and may do so for ever in turn.
* *EventSubscription*: the connect timer and the timer of the next poll fire,
  the listener is called for what has arrived, and a poll is answered or fails
  (all weak; the event loop and the queue's timeout). `EventsArrive` assumes
  two things of the outside (`ProvidersAnswer`): a node that is polled for ever
  answers some time with a `nextCursor` (strong), and an open socket delivers
  what its server has sent. Without the first a full page comes again at every
  poll and what follows it never arrives. `onError` throws finitely often
  (`MaxThrows`); that Node may end the process over the rejection of a poll nobody
  awaits is not modelled. Nothing else has fairness: a socket may never open,
  and may drop.

## 5. Proofs

Liveness under fairness stays with TLC, and so does everything about ENABLED.
What follows is proved for every value of the constants that satisfies the
module's named ASSUME, by an inductive invariant.

`WritePathProofs`: `TypeCorrect` (TypeOK). `AppliedAtMostOnce` and
`AppliedInChainOrder` rest on the ledger invariant `LedgerInv`: a link loads its
account once, in its turn (`LoadedOnce`, `ChainPlaces`); whatever is sent for it
carries that number (`SentAsLoaded`); the account applies one transaction per
number (`OnePerNumber`); and a later link has a number that is not smaller, or
one that is used up so that it can never be applied (`ChainOrder`). AtMostOnce
alone is not inductive: it is the shared number of original and bump that
excludes the second application. For the order the hard case is a predecessor
whose poll timed out: its successor loads the same number, and only one of the
two is applied, or loads a stale one, and is not applied at all. Each step of
the module is one of `Joins`, `Loads`, `Moves`, `Ends`, `Land` or leaves these
variables alone, and there is a lemma for each. `SuccessIsReal`,
`AdmissionIsExclusive` and `SendRequestsAreAwaited` (an action property, of the
start of the request and not of what it transmits later) rest on `CallerInv`: a
caller who waits owns its entry or has been aborted (`OwnsEntry`), and a
submission that runs has a caller who waits or was aborted (`StillAwaited`).

In the same module: `Implementation`, Spec => Promise!Spec. The initial state
maps to the initial state, and every step to one of `OperationLedger` or to a
stutter: `SpecLoaded` lines an operation up, `Land` is its effect, and whatever
ends a call tells its caller and those who joined it. That these are told in
one step, once, rests on `JoinInv`: a coalesced caller joined a call that runs
on its own (`JoinedCallsRun`), the owner of an entry waits (`OwnersWait`), and a
submission has a place exactly when it was handed over (`PlacesGiven`). The
order and the single effect come from `LandsInChainOrder` and `AtMostOnce`.

`RequestQueueProofs`: `QueueTypes`, `ConcurrencyHolds`, `RateHolds`,
`WakeupHolds`, `FifoHolds`, `SettledOnce` follow from one invariant: the six
properties, and that a request which is not done is unanswered and no ticket is
ahead of the count (`StagesFit`). `DrainLimits` and `DrainOrder` say what a call
of `drain()` gives from any state; enqueue, finish and wake-up cite them.

`ReadCacheProofs` has five results, on invariants that build on one another.
`IndexCompletes`: no cached entry is missing from the index; `LoopIndex` is the
step of hydration. `CapacityHolds`: `order` lists the key of every entry
(`Listed`), and what `Settle` leaves are the last of it (`TheLastOnes`), so
their number is counted rather than recomputed at every `set`. The map exceeds
its capacity only while `overdue`, which a step of the loop of hydration raises
and the next `evictIfNeeded()` lowers; after a hydration that has failed that
is the next `set()`, so the bound of the documentation is not kept
(`CapacityOnceSettled`, section 6). `NothingOlder`: over all of a session no key
is served in an older version than before. What was ever in memory is either
in `touched`, or hydration has passed it and does not come back (`SeenInv`); a
rollback takes a key out of both `touched` and `seen`. Every copy of an entry,
in the snapshot, in the lock, in the document or in the adapter, is of a
version that has been written (`VersionsInv`), so that a new one is newer.

`DeletedStaysDeleted`: what the adapter has deleted is not served again. The
property speaks of memory and adapter only and is far from inductive: a deleted
entry could come back from the snapshot of hydration or from a write that waits
for the lock. `SurvivalInv` says that both are newer than what was deleted, and
newer than what the deletions will delete that wait before or behind them; and
that no deletion waits for a key that hydration may still load. The theorem
holds under `Careful`: an adapter with an entry per key, no rollback, neither
`clear()` nor `setNetwork()`. These are no conveniences of the proof. Take any one
away from `ReadCache_restart` and TLC finds an entry served again (for the
rollback with room for four waiting mutations); the rows `ClearedStaysEmpty`,
`NoLostWrite`, `RollbackKeepsSync` and `EntriesOfNetwork` of section 6 are the
reasons.

`StoreFollows`: in a session in which the adapter has not failed and nothing has
expired, it ends up with the entries of the memory. In between the two differ;
`Follows` says by what: the last mutation that waits for a key leaves what the
memory holds of it, a key for which none waits agrees already, and one that
hydration may still load is in the adapter as the snapshot has it. It holds for
adapters of either kind and under `Undisturbed`: every entry has a ttl, and
again neither `clear()` nor `setNetwork()`. TLC finds a difference without the
first, since a `set` with a ttl of 0 deletes the entry from the adapter and
leaves the one that hydration has loaded in memory, and without the others where
an unreadable entry was left (`OneCorrupt`): the loop of hydration forgets the
`clear()` (`ClearedStaysEmpty`).

`FilterProofs`: `RanksAreCounted`, that every rank up to their number is taken by
one place, by induction on the number of places; `KeptIsWhatIsIn`, that
`Kept(s, T)` has the elements of `s` that are in `T`, and no others;
and lemmas on the elements of sequences, which the proofs about the cache's
`order` and the hooks' lists use.

`InFlightTrackerProofs`: `BooksAreKept` and `OwnersAreTold`, on the condition
`MaxNesting = 1`, that no operation calls the tracker again before it has
returned its promise; without it the slots and the limits of the first are
false (`InFlightTracker_nested`), and the second too: an operation that has filled
its caller's key loses it when the caller's entry is made, and is not told.
The invariant `TrackerInv` adds to the properties that one operation at most is
being called, and that the room it was admitted for is still there
(`OneAtATime`), and that who has given its slot back is out of the map
(`ReleasedIsOut`). The lemmas `Releasing` and `Dropping` are about the five ways
out of the map at once; `RoomInMap` and `RoomInWallet` are why pruning and
eviction make room. `NestingIsContained` has no condition: to every depth of nesting
an entry is of an operation that runs, for its key; a wallet has at least as many
slots taken as entries (`SlotsCover`); and a limit is overrun by at most
`MaxNesting - 1` (`LimitsStretch`). Its invariant `NestedInv` counts the calls on
the stack, which are all different and have no entry yet (`StackCalls`), as places
taken already, in the map and in their wallet (`PlacesPromised`). The bound is
reached: the inner calls are checked while the outer ones have no entry to be
counted. It does not creep up either, though one eviction makes room for one entry
only: a call that finds the map overfull evicts one before it adds one
(`MapMakesRoom`).

`RpcEndpointPoolProofs`: `BreakerIsExact`. The invariant adds that the count
never passes the threshold and every request is of an endpoint of the pool
(`BreakerTypes`); successes and failures that arrive in any order change count
and quarantine together. `OnlyFailingAreLeft`: an endpoint that is passed over
is in quarantine and stays so in that step, and one that fails gets a delay,
which is never 0 (`DelayInv`). `delay` is the backoff that the next failure gives,
doubled by each; `DelaysDouble` in `MCRpcEndpointPool` compares it with
`base * 2^(failures - 1)` of the code, a power the prover has no arithmetic for.

`ServiceProofs`, about the parts of `Services_parts`:

* `AccountHasOneCore`, by counting the queues in use, with the lemmas of finite
  sets for one more and one fewer; `EnoughSignersSign`, since each signer is once
  in the set a transaction is built of.
* `SpecIsReplaced`: the property is inductive with the types. `ReleaseStaysOpen`,
  for every pair of periods: no will that was read, by the app or from the
  cache, was triggered after the last trigger, and an offer that was taken up
  remains one of a will past its grace period, whatever happens until the
  method looks (`WillInv`). That an offered release is sent is not so
  (`OfferedIsSent`, section 6).
* `ReportsAreTrue`: a call that is about to report has seen its envelope on the
  ledger, which applies one of the sequence (`FeeInv`).
* `QueueReportsTheTruth`: nothing of an operation is sent before it is the
  current one, and a queue that is halted invokes nothing; what is ahead of a
  transaction that was sent had an outcome that lets the queue go on (`BatchInv`).
* `EventsComeOnce`: the listener has got all that is wanted up to an event
  (`Have`), nothing after it (`Fresh`), nothing with a gap before it (`NoGap`),
  each after those before it (`InOrder`), through the three lives of a
  subscription: before the promise settles (`NothingYet`), on the socket
  (`OnStream`), and polling (`OnPolls`), where the page at hand ends at or behind
  the event the cursor moves to (`PageTo`). Without a `nextCursor` or after a
  throw of `onError` (not `Calm`) polling is left with Have and NoGap: what comes
  may have come before, but nothing is left out. A throw on the socket leaves
  Fresh and InOrder: what is lost is not sent again.
* `BatchesKeepTheirNumber`: of two links one is behind the other
  (`OneBehindTheOther`), one that has begun is behind none (`BegunIsFirst`), so a
  single link has begun; what a node still holds is of that link, of an app, or
  of a link that ended without a verdict (`PoolIsOpen`), and only what a node
  held is applied, once (`AppliedWasSent`).

`AppSideProofs`, about the parts of `AppSide_parts`:

* `ConnectionsAreBacked`: what `signTransaction()` restores came from the store,
  and so can sign (`RestoresWhatSigns`): the one way a session enters the adapter
  past `useSession()`. `PopupsAfterCheck`, an action property: a call whose API is
  loading has a valid session, or is in `frLapsed`, which only the three ways of
  losing it fill (`HeldOrLapsed`). That the session is still there is not so:
  `PopupUnderSession`, section 6.
* `CurrentIsShown`: of a committed component, a run of the effect that is not
  cancelled is for the input and the client of the last render (`LiveRunsFit`).
* `EventsInvalidate`: an answer on its way that is not marked as `outdated`,
  because the node was behind what was announced when it answered or because an
  announcement has overtaken it since, is no older than what was announced
  (`AnswersFollowEvents`); the property alone says nothing of an answer that is
  about to be stored.
* `ReadsShared`: both maps name only reads that may be shared and go on, under
  their own key (`SharedFit`), a simulation that runs is waited for by the call
  that started it (`ReadersWait`), and until `destroy()` the first map knows it
  (`FirstMapKnows`), also when its entry has aged out of the tracker.
* `StoresAreSerial`: a change that is under way has the lock or is a deletion
  that takes none (`UnderLock`), and the document it has read is the one the
  adapter still holds, unless the two have raced since the last clear
  (`ReadIsHeld`).
* `HooksRunOnce`: runs are under way one at a time and the flag says so
  (`OneRun`); unless a hook of its kind was removed, what a run has left is what
  stands in the array from its position on (`LeftIsTheRest`), also when hooks are
  added meanwhile.

Assumptions. Each theorem has the named ASSUME of its module, which TLC
evaluates in the runs: sizes are positive where the code's options are, bounds
are numbers, and a value that stands for nothing (`None`, `RhNone`, `FrNone`) is
not one of the values it is told apart from. `ReadCacheAssumption` says of what an
earlier session left that its versions are 1 up to their number.

What stays with TLC. All liveness: `EveryCallSettles`, `EveryLinkEnds`,
`EveryRequestSettles`, `HydrationEnds`, `EveryCallEnds`, `EventsArrive`. The
helpers: they are sums and folds over sequences, whose induction is out of the
prover's reach. Every invariant and action property of a passing run is a
theorem.

## 6. Where code and documentation differ

Each row is a property that states the sentence of the documentation, at the
end of its module, and what TLC finds when the property is put into the named
configuration (as INVARIANT, or as PROPERTY where it is marked †).
`WillRules_percent`, `WritePath_hung` and `InFlightTracker_nested` are
configurations of their own.

| Property (module) | Configuration | What happens |
|---|---|---|
| `ReturnedHashLanded` (WritePath) | `WritePath_bump` | after a fee bump the result carries the hash of the transaction that was replaced (client 3704) |
| `NothingSentAfterDestroy`† (WritePath) | `WritePath_bump` | after destroy() a submission still signs and sends (client 3064; doc 3050) |
| `NothingSentAfterSignal`† (WritePath) | `WritePath_bump` | a request to send that has started goes on after options.signal has fired, and transmits again: after a rate limit, at another endpoint, after a timeout (queue 441, 497; rpc 586; comment queue 367) |
| `BumpOnlyOnTimeout`† (WritePath) | `WritePath_bump` | a transaction that was applied and failed is bumped as if it had timed out (client 3635; option 429) |
| `HooksKeepTheOutcome` (WritePath) | `WritePath_live` | the recursion flag is shared: the hooks of one call turn the success of another into a rejection (hooks 196; doc 190) |
| `JoinedCallIsIdentical` (WritePath) | `WritePath_live` | calls with different arguments are "identical" to the tracker (tracker 249; doc 60) |
| `FreshCall`† (MCWritePath) | `WritePath_hung` | a wallet that never answers an aborted call holds up all later ones (client 3489; skipped test `issue-608-operation-cancellation.test.ts:84`) |
| `InFlightBound` (RequestQueue) | `RequestQueue_full` | a timed-out request gives its slot back while it is open (queue 478; option 20) |
| `NothingAfterTeardown` (RequestQueue) | `RequestQueue_full` | requests enqueued after rejectAll() run (queue 388; doc 385) |
| `RetryWithinRate`† (RequestQueue) | `RequestQueue_retries` | retries are not counted by the rate window (queue 500; option 23) |
| `SharedIsInUse` (SharedQueues) | `Services_parts` | a shared queue released by its own release() stays in the registry (queue 521); the client itself gives no account and releases nothing |
| `ClearedStaysEmpty`† (ReadCache) | `ReadCache_memory` | clear() during hydration is forgotten by its loop (cache 583; doc 278) |
| `CapacityOnceSettled` (ReadCache) | `ReadCache_memory` | a deletion that fails ends hydrate() before its eviction, and the map stays above maxEntries until the next set() (cache 600, 612, 645; option 52) |
| `NoLostWrite` (ReadCache) | `ReadCache_restart` without `"fail"` | deletions of expired entries bypass the lock and can lose a write (cache 544; doc 29) |
| `RollbackKeepsSync` (ReadCache) | `ReadCache_memory` | the rollback of a failed write may drop a newer one and leaves the adapter alone (cache 412; doc 67) |
| `IndexExact` (ReadCache) | `ReadCache_memory` | eviction leaves keys in the index (cache 528; doc 268) |
| `FailureOnlyCostsDurability`† (ReadCache) | `ReadCache_memory` | a failing deletion during hydration rejects `ready()`, and with it reads (cache 601; doc 62) |
| `EntriesOfNetwork` (ReadCache) | `ReadCache_memory` | persisted entries carry no network (cache 476; doc 283) |
| `AllMutationsSerial` (CacheStores) | `AppSide_parts` | the deletion of an expired entry rewrites the document without the lock: it loses another change, or is lost (cache 541-548; comment 29) |
| `FailuresAreTold` (CacheStores) | `AppSide_parts` | IndexedDB failures are swallowed, and a document that could not be read is overwritten with one entry (cache 712-846; option 65) |
| `ListsFollowEvents` (CachedReads) | `AppSide_parts` | a will that was created is missing in cached lists until they expire: the event names the will, no list is indexed under it (client 1166) |
| `NothingStaleIsStored` (CachedReads) | `AppSide_parts` | a read stores what it was answered before an invalidation, or after it by a node that lags behind the event (client 2081, 3283, 1087) |
| `FollowUpRunsAlone`† (InFlightTracker) | `InFlightTracker_methods` | trackIfPending() takes an expired entry for one in flight and starts the follow-up beside it (tracker 359; doc 340) |
| `IdleWalletsAreFree` (InFlightTracker) | `InFlightTracker_nested` | a nested track() of the same key leaves a wallet slot taken for good (tracker 299; doc 396) |
| `FallsBackOnlyWhenNoneIsLeft` (RpcEndpointPool) | `RpcEndpointPool_failover` | an endpoint without samples is never selected (rpc 495; doc 408, 475) |
| `CooldownRunsOnBackup` (RpcEndpointPool) | `RpcEndpointPool_failover` | passing over a quarantined primary sets no failover time, so it is not tried again (rpc 601; doc 355) |
| `OnlyRetryableFailuresCount` (RpcEndpointPool) | `RpcEndpointPool_failover` | errors that say nothing about the endpoint put it into backoff (rpc 618; doc 375) |
| `SkipsAreFree` (RpcEndpointPool) | `RpcEndpointPool_failover` | passing over a quarantined endpoint uses up an attempt (rpc 603; doc 598) |
| `RemovalSkipsNobody`† (HookManager) | `AppSide_parts` | a hook that removes itself makes the run skip the next one (hooks 200) |
| `AppliedIsTold` (BatchCalls) | `Services_parts` | the afterInvoke hooks of a batch that was applied may reject it (client 2512; hooks 190) |
| `CarriedOutOnce` (BatchQueue) | `Services_parts` | a retry sends an operation again while the first transaction may still land (client 2580) |
| `LandsBeforeInvalidation`† (BatchQueue) | `Services_parts` | a transaction lands after the reads were invalidated (client 2607; doc 2539) |
| `VersionOfTheSpec` (ContractSpec) | `Services_parts` | a fetch from before a refresh dates the spec that is kept (client 3205) |
| `ResolvedStays`† (ContractSpec) | `Services_parts` | a fetch that fails after a refresh throws away the newer spec (client 3206) |
| `NoneIsRedelivered` (EventSubscription) | `Services_parts` | without nextCursor, or after a throw of onError, the cursor stays and the page is delivered again (client 3016, 3011; comment 3004) |
| `PollsCanBeClosed` (EventSubscription) | `Services_parts` | a first poll that rejects leaves its timer running, and the caller has no handle to close it with (client 3019-3034; doc of subscribeToEvents) |
| `FailedIsRemembered` (FeeBump) | `Services_parts` | the sequence that is remembered is `undefined`: FeeBumpTransaction has none (feeBump 386; doc 137) |
| `FailureIsNotApplied` (FeeBump) | `Services_parts` | a call fails though the original is applied, later or while its status could not be read (feeBump 607; doc 552) |
| `OfferedIsSent` (WillRules) | `Services_parts` | a release that is offered is refused because an account of a beneficiary is not funded (client 1744, 1762; utils 517) |
| `FundingRefusalIsTrue`† (WillRules) | `Services_parts` | whatever keeps an account from being read is reported as "not funded" (client 1768; doc 1757) |
| `CheckInRefusalIsTrue` (WillRules) | `Services_parts` | checkIn() refuses on a cached will that was triggered, though it has been checked in since (client 1527; comment 1524) |
| `DueIsOverdue` (WillRules) | `Services_parts` | within the last second a check-in is due and not overdue (utils 183, 541) |
| `WrittenIsReadable` (WillRules) | `WillRules_percent` | percentages with a fraction are written and cannot be read back (client 700; doc 686) |
| `ReadyCanBeSubmitted` (MultisigCollector) | `Services_parts` | signatures of another transaction count (multisig 188; doc 139) |
| `LateStaysLate`† (MultisigCollector) | `Services_parts` | a stored collection made again starts its timeout anew, and a late one that was stored is not late (multisig 300; doc 156) |
| `SignsAsConnected` (WalletConnectSession) | `AppSide_parts` | connect() answered with one account and another one signs, after a second session (walletConnect 386) |
| `SessionStored` (WalletConnectSession) | `AppSide_parts` | a lookup of a topic that is gone clears the store of a newer session (walletConnect 413) |
| `SignerIsConnected`, `NoSignatureUnlinked`†, `LoadIsTriedAgain` (WalletAdapters) | `AppSide_parts` | Albedo, Ledger and injected wallets sign with the account they have now; a signature asked for before disconnect() is handed out after it; a library that failed to load is not loaded again (adapters/ledger 95) |
| `PopupUnderSession`† (FreighterSession) | `AppSide_parts` | the popup opens though the session has expired or was deleted while the API loaded (wallet 1023-1034; comment 1020) |
| `ClientUsable` (ReactHooks) | `AppSide_parts` | under StrictMode the cleanup destroys the client the component keeps (hooks.tsx 159; comment 139) |
| `OldDataIsMarked` (ReactHooks) | `AppSide_parts` | between a render with a new input and its effects, and after an error, old data is not marked (hooks.tsx 205; doc 36) |
| `NoMixedSession` (ReactHooks) | `AppSide_parts` | a network switched there and back between the two reads is not noticed (hooks.tsx 91; doc 64) |

Seen while modelling, without a property of its own:

* `toStroops()` expands scientific notation to check it and parses the text
  unexpanded, so it refuses what its comment (utils 145) gives as an example;
  the comments say USDC_DECIMALS is 6 (utils 140) where it is 7 (24).
* `buildTransaction()` "is NOT prepared" (client 3745) but is.
* The guardians' votes are computed and discarded before a trigger;
  `checkIn()` with `skipExistenceCheck` returns the creation time as deadline.
* The comparison of a prepared transaction with the intended one
  (`operationsMatch`) looks neither at authorizations nor at the source of an
  operation, and refuses host functions other than `invokeContract`, identical
  or not.
* An error with an unknown code is wrapped again each time it is mapped
  (`MappedOnce` is about the known ones).
* Pages of a list shift when wills disappear between two pages
  (`PagesCoverTheList` is about lists that grow).
* Freighter's `isConnected()` forgets a lost context only when the extension
  says it is not connected, and `connect()` may combine an account and a network
  of different moments; two options for timeouts of WalletConnect are not used.
* Two tabs on one namespace of the same store do not share the lock.

## 7. Plan

Modelled first was what moves value: the write path and what it stands on
(queue, tracker, cache, pool); then what surrounds it: reads, batches, fee
bumps, events, wallets, React; then the functions. What is left, in this order:

1. A second refinement: an abstract cache (a map that forgets, and a store that
   may lag behind it) which ReadCache implements, and which CachedReads could
   use in place of its own.
2. The fee statistics of `getNetworkFeeStats()`, which are kept without an
   expiry under the wallet's network though they come from the client's server.
