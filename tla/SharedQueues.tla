----------------------------- MODULE SharedQueues -----------------------------
(***************************************************************************)
(* The registries of requestQueue.ts: one core per account for all the     *)
(* RequestQueue objects of the account (sharedCores, counted references),  *)
(* and the queue of getSharedRequestQueue() (sharedQueueMap).              *)
(* One account; those without one have a core each and share nothing.      *)
(***************************************************************************)
EXTENDS Naturals, FiniteSets

CONSTANTS
  Queues,   (* Bound: RequestQueue objects made for the account, 1..n.     *)
  NoQueue

ASSUME SharedQueuesAssumption ==
  /\ Queues \subseteq Nat /\ IsFiniteSet(Queues)
  /\ NoQueue \notin Queues

VARIABLES
  coreOf,       (* The core of each queue: the queue that made it.         *)
  released,     (* `released` of each queue.                               *)
  sharedCore,   (* The core in sharedCores, NoQueue if there is none.      *)
  refCount,     (* refCount of each core, named by the queue that made it. *)
  sharedQueue   (* The queue in sharedQueueMap.                            *)

sqVars == <<coreOf, released, sharedCore, refCount, sharedQueue>>

Made == {q \in Queues : coreOf[q] # NoQueue}
InUse == Made \ released

SharedQueuesInit ==
  /\ coreOf = [q \in Queues |-> NoQueue]
  /\ released = {}
  /\ sharedCore = NoQueue
  /\ refCount = [q \in Queues |-> 0]
  /\ sharedQueue = NoQueue

(* new RequestQueue({ account }). *)
Construct(q) ==
  /\ q \notin Made
  /\ \A r \in Queues : r < q => r \in Made
  /\ LET core == IF sharedCore = NoQueue THEN q ELSE sharedCore
     IN /\ coreOf' = [coreOf EXCEPT ![q] = core]
        /\ sharedCore' = core
        /\ refCount' = [refCount EXCEPT ![core] = @ + 1]

NewQueue(q) ==
  /\ Construct(q)
  /\ UNCHANGED <<released, sharedQueue>>

(* The reference is given back; without references the core is dropped. *)
GiveBack(q) ==
  /\ refCount' = [refCount EXCEPT ![coreOf[q]] = @ - 1]
  /\ sharedCore' = IF refCount[coreOf[q]] <= 1 THEN NoQueue ELSE sharedCore

(* Mutant: a queue may be released again. *)
ReleaseEachTime(q) ==
  /\ released' = released \cup {q}
  /\ IF sharedCore = coreOf[q] THEN GiveBack(q) ELSE UNCHANGED <<refCount, sharedCore>>

(* release(): once, and only of the core that is registered. *)
Release(q) ==
  /\ released' = released \cup {q}
  /\ IF q \notin released /\ sharedCore = coreOf[q]
     THEN GiveBack(q)
     ELSE UNCHANGED <<refCount, sharedCore>>

(* An app calls release(), maybe twice. *)
ReleaseQueue(q) ==
  /\ q \in Made
  /\ Release(q)
  /\ UNCHANGED <<coreOf, sharedQueue>>

(* getSharedRequestQueue(account), when it has to make the queue. *)
GetShared(q) ==
  /\ sharedQueue = NoQueue
  /\ Construct(q)
  /\ sharedQueue' = q
  /\ UNCHANGED released

(* releaseSharedRequestQueue(account), which any user of it may call. *)
ReleaseShared ==
  /\ sharedQueue # NoQueue
  /\ Release(sharedQueue)
  /\ sharedQueue' = NoQueue
  /\ UNCHANGED coreOf

SharedQueuesNext ==
  \/ \E q \in Queues : NewQueue(q) \/ GetShared(q) \/ ReleaseQueue(q)
  \/ ReleaseShared

SharedQueuesSpec == SharedQueuesInit /\ [][SharedQueuesNext]_sqVars
-----------------------------------------------------------------------------
(* Types: every variable has the shape its comment says. *)
SharedQueuesTypeOK ==
  /\ coreOf \in [Queues -> Queues \cup {NoQueue}]
  /\ released \subseteq Queues
  /\ sharedCore \in Queues \cup {NoQueue}
  /\ refCount \in [Queues -> Nat]
  /\ sharedQueue \in Queues \cup {NoQueue}

(* "effectively a singleton per account": all queues of the account that    *)
(* are not released have the one core that is registered, however often    *)
(* and by whomever the others are released.                                *)
OneCorePerAccount ==
  /\ \A q \in InUse : coreOf[q] = sharedCore
  /\ sharedCore # NoQueue =>
       refCount[sharedCore] = Cardinality({q \in InUse : coreOf[q] = sharedCore})
-----------------------------------------------------------------------------
(* What the documentation says and the code does not do.                   *)

(* What getSharedRequestQueue() hands out is a queue in use: one released   *)
(* by its own release() stays in sharedQueueMap.                           *)
SharedIsInUse == sharedQueue # NoQueue => sharedQueue \notin released
=============================================================================
