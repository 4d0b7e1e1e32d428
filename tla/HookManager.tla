------------------------------ MODULE HookManager ------------------------------
(***************************************************************************)
(* HookManager of hooks.ts: hooks are registered and removed at any time,  *)
(* also by a hook that runs, and calls of the client have them run, one    *)
(* after another, each awaited.  The loop of a run goes over the array     *)
(* itself, by position.                                                    *)
(*                                                                         *)
(* What a hook returns or throws is the application's.                     *)
(***************************************************************************)
EXTENDS Naturals, Sequences, FiniteSets, Filters

CONSTANTS
  HookCalls,    (* Runs that calls of the client ask for.                  *)
  HookNames,    (* Functions that are registered.                          *)
  MaxHooks      (* Bound: registrations at a time.                         *)

ASSUME HookManagerAssumption == MaxHooks \in Nat \ {0}

VARIABLES
  hooks,      (* registry: the functions of each kind, in order.           *)
  executing,  (* The flag against recursion.                               *)
  hookRun,    (* Each run: its kind, where it is, at which position.       *)
  left,       (* Functions registered for each run that it has not called. *)
  shrunk      (* Runs during which a hook of their kind was removed.       *)

hmVars == <<hooks, executing, hookRun, left, shrunk>>

HookKinds == {"before", "after"}

HooksInit ==
  /\ hooks = [k \in HookKinds |-> <<>>]
  /\ executing = FALSE
  /\ hookRun = [c \in HookCalls |-> [kind |-> "before", phase |-> "idle", at |-> 0]]
  /\ left = [c \in HookCalls |-> <<>>]
  /\ shrunk = {}

RunsOf(kind) ==
  {c \in HookCalls : hookRun[c].kind = kind /\ hookRun[c].phase \in {"loop", "hook"}}
-----------------------------------------------------------------------------
(* onBeforeInvoke(), onAfterInvoke() *)
On(kind, h) ==
  /\ Len(hooks["before"]) + Len(hooks["after"]) < MaxHooks
  /\ hooks' = [hooks EXCEPT ![kind] = Append(@, h)]
  /\ left' = [c \in HookCalls |-> IF c \in RunsOf(kind) THEN Append(left[c], h) ELSE left[c]]
  /\ UNCHANGED <<executing, hookRun, shrunk>>

(* offBeforeInvoke(), offAfterInvoke(): every occurrence goes. *)
Off(kind, h) ==
  LET Without(list) == Kept(list, HookNames \ {h})
  IN /\ \E i \in DOMAIN hooks[kind] : hooks[kind][i] = h
     /\ hooks' = [hooks EXCEPT ![kind] = Without(@)]
     /\ left' = [c \in HookCalls |-> IF c \in RunsOf(kind) THEN Without(left[c]) ELSE left[c]]
     /\ shrunk' = shrunk \cup RunsOf(kind)
     /\ UNCHANGED <<executing, hookRun>>

ClearHooks ==
  /\ hooks' = [k \in HookKinds |-> <<>>]
  /\ left' = [c \in HookCalls |-> <<>>]
  /\ shrunk' = shrunk \cup UNION {RunsOf(k) : k \in HookKinds}
  /\ UNCHANGED <<executing, hookRun>>
-----------------------------------------------------------------------------
(* runBeforeInvoke(), runAfterInvoke(): refused while hooks run. *)
StartRun(c, kind) ==
  /\ hookRun[c].phase = "idle"
  /\ hookRun' = [hookRun EXCEPT ![c] =
       [kind |-> kind, phase |-> IF executing THEN "refused" ELSE "loop", at |-> 1]]
  /\ executing' = TRUE
  /\ left' = [left EXCEPT ![c] = IF executing THEN <<>> ELSE hooks[kind]]
  /\ UNCHANGED <<hooks, shrunk>>

EndRun(c, outcome) ==
  /\ hookRun' = [hookRun EXCEPT ![c].phase = outcome]
  /\ executing' = FALSE
  /\ left' = [left EXCEPT ![c] = <<>>]
  /\ shrunk' = shrunk \ {c}

(* The next position of the array as it is now, or its end. *)
CallHook(c) ==
  LET run == hookRun[c]
  IN /\ run.phase = "loop" /\ run.at <= Len(hooks[run.kind])
     /\ left' = [left EXCEPT ![c] = IF @ = <<>> THEN @ ELSE Tail(@)]
     /\ hookRun' = [hookRun EXCEPT ![c].phase = "hook"]
     /\ UNCHANGED <<hooks, executing, shrunk>>

RunEnds(c) ==
  LET run == hookRun[c]
  IN /\ run.phase = "loop" /\ run.at > Len(hooks[run.kind])
     /\ EndRun(c, "proceed")
     /\ UNCHANGED hooks

(* The loop goes on with the position that follows. *)
Advance(c) ==
  /\ hookRun' = [hookRun EXCEPT ![c].phase = "loop", ![c].at = @ + 1]
  /\ UNCHANGED <<executing, left, shrunk>>

(* true or nothing; an afterInvoke hook may return what it likes. *)
HookReturns(c) ==
  /\ hookRun[c].phase = "hook"
  /\ Advance(c)
  /\ UNCHANGED hooks

(* false, or what is neither a boolean nor nothing. *)
HookStops(c, outcome) ==
  /\ hookRun[c].phase = "hook" /\ hookRun[c].kind = "before"
  /\ EndRun(c, outcome)
  /\ UNCHANGED hooks

(* Mutant: a hook that throws ends the run, whichever kind it is. *)
ThrowEnds(c, recursion) == EndRun(c, "error")

(* An afterInvoke hook that throws is passed over, but for the error of    *)
(* recursion, which a hook gets that makes a call itself.                  *)
AfterThrow(c, recursion) ==
  IF recursion THEN EndRun(c, "recursion")
  ELSE IF hookRun[c].kind = "before" THEN EndRun(c, "error")
  ELSE Advance(c)

HookThrows(c, recursion) ==
  /\ hookRun[c].phase = "hook"
  /\ AfterThrow(c, recursion)
  /\ UNCHANGED hooks

HooksNext ==
  \/ \E kind \in HookKinds, h \in HookNames : On(kind, h) \/ Off(kind, h)
  \/ ClearHooks
  \/ \E c \in HookCalls :
       \/ \E kind \in HookKinds : StartRun(c, kind)
       \/ CallHook(c) \/ RunEnds(c) \/ HookReturns(c)
       \/ \E outcome \in {"abort", "error"} : HookStops(c, outcome)
       \/ \E recursion \in BOOLEAN : HookThrows(c, recursion)

HooksSpec == HooksInit /\ [][HooksNext]_hmVars
-----------------------------------------------------------------------------
CallsTheNext(c) ==
  /\ CallHook(c) => left[c] # <<>> /\ hooks[hookRun[c].kind][hookRun[c].at] = Head(left[c])
  /\ RunEnds(c) => left[c] = <<>>

(* "Every hook still runs exactly once, in order, even if an earlier one   *)
(* throws": unless a hook is removed meanwhile, a run calls what was       *)
(* registered before it or during it in that order, and all of it; a run   *)
(* of afterInvoke hooks ends before only for recursion.  The flag is set   *)
(* exactly while a run is under way, so that none is refused on behalf of  *)
(* one that has ended.                                                     *)
EveryHookOnce ==
  [][/\ executing <=> \E c \in HookCalls : hookRun[c].phase \in {"loop", "hook"}
     /\ \A c \in HookCalls :
          /\ c \notin shrunk => CallsTheNext(c)
          /\ hookRun'[c].kind = "after" => hookRun'[c].phase # "error"]_hmVars
-----------------------------------------------------------------------------
(* What the documentation says and the code does not do.                   *)

(* The same where a hook removes itself, or one before it: the one that    *)
(* follows moves to a position the loop has passed.                        *)
RemovalSkipsNobody == [][\A c \in HookCalls : CallsTheNext(c)]_hmVars
=============================================================================
