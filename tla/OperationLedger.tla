--------------------------- MODULE OperationLedger ---------------------------
(***************************************************************************)
(* What the state-changing methods of SoroWillClient promise, without how  *)
(* they keep it: operations take a place in a line, each takes effect at   *)
(* most once and in the order of the line, and a caller that is told of    *)
(* success is told of an effect.  A failure promises nothing: the          *)
(* operation may have taken effect, or take it later.                      *)
(*                                                                         *)
(* This is the contract a reader of serializeWrite(), invoke() and the     *)
(* tracker in src/SoroWillClient.ts and src/inFlightTracker.ts relies on;  *)
(* WritePath implements it (Implementation in WritePathProofs).            *)
(***************************************************************************)
EXTENDS Naturals

CONSTANT Ops

VARIABLES
  place,    (* The operation's place in the line, 0 before it has one.       *)
  effect,   (* What the operation did on the ledger.                         *)
  verdict   (* What its caller was told.                                     *)

promiseVars == <<place, effect, verdict>>

PromiseTypeOK ==
  /\ place \in [Ops -> Nat]
  /\ effect \in [Ops -> {"none", "ok", "failed"}]
  /\ verdict \in [Ops -> {"open", "ok", "failed"}]

Init ==
  /\ place = [o \in Ops |-> 0]
  /\ effect = [o \in Ops |-> "none"]
  /\ verdict = [o \in Ops |-> "open"]

(* Lining up is for operations whose caller still waits, and at the end. *)
LineUp(o) ==
  /\ place[o] = 0
  /\ verdict[o] = "open"
  /\ place'[o] \in Nat
  /\ \A p \in Ops : place'[o] > place[p]
  /\ place' = [place EXCEPT ![o] = place'[o]]
  /\ UNCHANGED <<effect, verdict>>

(* An effect: of an operation in the line, its first, and after none that  *)
(* is behind it.                                                           *)
TakeEffect(o, outcome) ==
  /\ place[o] # 0
  /\ effect[o] = "none"
  /\ \A p \in Ops : place[p] > place[o] => effect[p] = "none"
  /\ effect' = [effect EXCEPT ![o] = outcome]
  /\ UNCHANGED <<place, verdict>>

(* The caller of o is told, and with it those that share its promise: they *)
(* have no operation of their own in the line.                             *)
Tell(o, sharing, outcome) ==
  /\ outcome = "ok" => effect[o] = "ok"
  /\ \A p \in sharing \cup {o} : verdict[p] = "open"
  /\ \A p \in sharing : p = o \/ place[p] = 0
  /\ verdict' = [p \in Ops |-> IF p \in sharing \cup {o} THEN outcome ELSE verdict[p]]
  /\ UNCHANGED <<place, effect>>

Next ==
  \E o \in Ops :
    \/ LineUp(o)
    \/ \E outcome \in {"ok", "failed"} :
         \/ TakeEffect(o, outcome)
         \/ \E sharing \in SUBSET Ops : Tell(o, sharing, outcome)

Spec == Init /\ [][Next]_promiseVars
=============================================================================
