----------------------------- MODULE ReactHooks -----------------------------
(***************************************************************************)
(* The React hooks: useSoroWillClient with a query hook on top of it       *)
(* (useWill, useWillsByOwner and useWillsByBeneficiary are one hook but    *)
(* for the method they call), and useWallet.  A component renders, then    *)
(* its effects run; an effect's cleanup runs before it runs again and at   *)
(* the end, and in StrictMode once after the first run.                    *)
(*                                                                         *)
(* External: React, which the names Rendered, Effects and Unmount stand    *)
(* for, the parent that changes inputs and options, the answers of the     *)
(* client, and the wallet with the user who switches its network.          *)
(***************************************************************************)
EXTENDS Naturals

CONSTANTS
  RhInputs,    (* Wills, owners or beneficiaries a component may ask for.  *)
  RhNetworks,  (* Networks of the wallet.                                  *)
  RhNone,      (* No input, no data, no network.                           *)
  MaxRuns,     (* Bound: runs of the query's effect.                       *)
  MaxClients,  (* Bound: clients made for changed options.                 *)
  MaxWalletRuns (* Bound: runs of the effect of useWallet.                 *)

QueryRuns == [input : RhInputs, client : Nat, cancelled : BOOLEAN, pending : BOOLEAN]

ASSUME ReactHooksAssumption ==
  /\ RhNone \notin RhInputs \cup RhNetworks \cup QueryRuns
  /\ {MaxRuns, MaxClients, MaxWalletRuns} \subseteq Nat \ {0}

VARIABLES
  rhPhase,    (* "rendered", "committed", "unmounted".                     *)
  rhStrict,   (* StrictMode has yet to clean up and run the effects again. *)
  rhInput,    (* The input of the last render.                             *)
  rhClient,   (* The memoized client of the last render.                   *)
  rhPrevious, (* previousClientRef.                                        *)
  rhDestroyed,(* Clients destroyed.                                        *)
  rhRuns,     (* Runs of the effect that called the client, oldest first.  *)
  rhRun,      (* The number of runs; the last is the current one.          *)
  rhData,     (* data: the run whose answer it is, 0 for null.             *)
  rhState,    (* loading, error, isStale.                                  *)
  rhWallet    (* The runs of useWallet and what it returns.                *)

rhClients == <<rhClient, rhPrevious, rhDestroyed>>
rhQuery == <<rhRuns, rhRun, rhData, rhState>>
rhVars == <<rhPhase, rhStrict, rhInput, rhClients, rhQuery, rhWallet>>

QueryState(loading, error, stale) == [loading |-> loading, error |-> error, isStale |-> stale]

ReactInit ==
  /\ rhPhase = "rendered"
  /\ rhStrict \in BOOLEAN
  /\ rhInput \in RhInputs \cup {RhNone}
  /\ rhClient = 1 /\ rhPrevious = 0 /\ rhDestroyed = {}
  /\ rhRuns = [n \in 1..MaxRuns |-> RhNone]
  /\ rhRun = 0
  /\ rhData = 0
  /\ rhState = QueryState(FALSE, FALSE, FALSE)
  /\ rhWallet = [run |-> 0, at |-> "idle", network |-> RhNone, seen |-> RhNone,
                 key |-> RhNone, shown |-> RhNone]
-----------------------------------------------------------------------------
(* Effects.                                                                *)

(* Mutant: the cleanup aborts the request and does not mark the run. *)
KeepRuns(runs) == runs

(* The cleanup of the query: the run is cancelled, its request aborted. *)
CancelRuns(runs) ==
  [n \in 1..MaxRuns |-> IF runs[n] = RhNone THEN RhNone ELSE [runs[n] EXCEPT !.cancelled = TRUE]]

(* The query's effect: no input clears all; an input starts a request. *)
StartQuery(runs) ==
  IF rhInput = RhNone
  THEN /\ rhRuns' = runs /\ rhRun' = rhRun
       /\ rhData' = 0
       /\ rhState' = QueryState(FALSE, FALSE, FALSE)
  ELSE /\ rhRun < MaxRuns
       /\ rhRun' = rhRun + 1
       /\ rhRuns' = [runs EXCEPT ![rhRun + 1] =
            [input |-> rhInput, client |-> rhClient, cancelled |-> FALSE, pending |-> TRUE]]
       /\ rhData' = rhData
       /\ rhState' = QueryState(TRUE, FALSE, TRUE)

(* The first effect of useSoroWillClient destroys the client it replaces,  *)
(* and so does the cleanup of the second.                                  *)
Effects ==
  /\ rhPhase = "rendered"
  /\ rhPhase' = "committed"
  /\ rhPrevious' = rhClient
  /\ rhDestroyed' = IF rhPrevious \notin {0, rhClient} THEN rhDestroyed \cup {rhPrevious}
                    ELSE rhDestroyed
  /\ StartQuery(CancelRuns(rhRuns))
  /\ UNCHANGED <<rhStrict, rhInput, rhClient, rhWallet>>

(* StrictMode: all cleanups, then all effects, of the same render. *)
StrictRemount ==
  /\ rhPhase = "committed" /\ rhStrict
  /\ rhStrict' = FALSE
  /\ rhDestroyed' = rhDestroyed \cup {rhClient}
  /\ StartQuery(CancelRuns(rhRuns))
  /\ UNCHANGED <<rhPhase, rhInput, rhClient, rhPrevious, rhWallet>>

(* The parent renders with another input, or refetch() was called. *)
RenderInput(i) ==
  /\ rhPhase = "committed" /\ ~rhStrict
  /\ rhRun < MaxRuns
  /\ rhPhase' = "rendered"
  /\ rhInput' = i
  /\ UNCHANGED <<rhStrict, rhClients, rhQuery, rhWallet>>

(* It renders with other options: a new client. *)
RenderOptions ==
  /\ rhPhase = "committed" /\ ~rhStrict
  /\ rhRun < MaxRuns /\ rhClient < MaxClients
  /\ rhPhase' = "rendered"
  /\ rhClient' = rhClient + 1
  /\ UNCHANGED <<rhStrict, rhInput, rhPrevious, rhDestroyed, rhQuery, rhWallet>>

Unmount ==
  /\ rhPhase = "committed" /\ ~rhStrict
  /\ rhPhase' = "unmounted"
  /\ rhDestroyed' = rhDestroyed \cup {rhClient}
  /\ rhRuns' = CancelRuns(rhRuns)
  /\ UNCHANGED <<rhStrict, rhInput, rhClient, rhPrevious, rhRun, rhData, rhState, rhWallet>>
-----------------------------------------------------------------------------
(* The request of a run ends: with an answer, with an error, or aborted.   *)
(* The answer of a cancelled run is dropped.                               *)

RequestEnds(n) ==
  /\ rhRuns[n] # RhNone /\ rhRuns[n].pending
  /\ rhRuns' = [rhRuns EXCEPT ![n].pending = FALSE]
  /\ UNCHANGED <<rhPhase, rhStrict, rhInput, rhClients, rhRun, rhWallet>>

Answered(n) ==
  /\ RequestEnds(n)
  /\ IF rhRuns[n].cancelled
     THEN UNCHANGED <<rhData, rhState>>
     ELSE rhData' = n /\ rhState' = QueryState(FALSE, FALSE, FALSE)

(* data stays what it was. *)
RequestFails(n) ==
  /\ RequestEnds(n)
  /\ UNCHANGED rhData
  /\ IF rhRuns[n].cancelled
     THEN UNCHANGED rhState
     ELSE rhState' = QueryState(FALSE, TRUE, FALSE)
-----------------------------------------------------------------------------
(* useWallet: isConnected, getNetwork, getPublicKey, getNetwork.  Of its   *)
(* runs only the last matters, the others are cancelled: where it is, the  *)
(* network of the wallet, the one seen first, the one the key was read on, *)
(* and the one shown with the key.                                         *)

WalletAct(record) ==
  /\ rhWallet' = record
  /\ UNCHANGED <<rhPhase, rhStrict, rhInput, rhClients, rhQuery>>

(* The effect runs, for the first adapter or another one: what the run     *)
(* before it had under way is cancelled.                                   *)
WalletEffect(n) ==
  /\ rhWallet.run < MaxWalletRuns
  /\ WalletAct([run |-> rhWallet.run + 1, at |-> "connected?", network |-> n,
                seen |-> RhNone, key |-> RhNone, shown |-> RhNone])

NotConnected == rhWallet.at = "connected?" /\ WalletAct([rhWallet EXCEPT !.at = "done"])

NetworkRead ==
  /\ rhWallet.at = "connected?"
  /\ WalletAct([rhWallet EXCEPT !.at = "key", !.seen = rhWallet.network])

KeyRead ==
  /\ rhWallet.at = "key"
  /\ WalletAct([rhWallet EXCEPT !.at = "again", !.key = rhWallet.network])

(* The second look: the key is shown when nothing has changed. *)
NetworkReadAgain ==
  /\ rhWallet.at = "again"
  /\ WalletAct([rhWallet EXCEPT !.at = "done",
       !.shown = IF rhWallet.seen = rhWallet.network THEN rhWallet.seen ELSE RhNone])

WalletFails == rhWallet.at \in {"connected?", "key", "again"} /\ WalletAct([rhWallet EXCEPT !.at = "done"])

(* The user switches the network of the wallet. *)
WalletSwitches(n) ==
  /\ rhWallet.at \in {"connected?", "key", "again"} /\ n # rhWallet.network
  /\ WalletAct([rhWallet EXCEPT !.network = n])
-----------------------------------------------------------------------------
QueryNext ==
  \/ Effects \/ StrictRemount \/ RenderOptions \/ Unmount
  \/ \E i \in RhInputs \cup {RhNone} : RenderInput(i)
  \/ \E n \in 1..MaxRuns : Answered(n) \/ RequestFails(n)

WalletNext ==
  \/ \E n \in RhNetworks : WalletEffect(n) \/ WalletSwitches(n)
  \/ NotConnected \/ NetworkRead \/ KeyRead \/ NetworkReadAgain \/ WalletFails

ReactNext == QueryNext \/ WalletNext

ReactSpec == ReactInit /\ [][ReactNext]_rhVars
-----------------------------------------------------------------------------
(* A query that loads has a request of its own that is still to end. *)
LoadingHasARequest ==
  rhState.loading =>
    /\ rhRun # 0 /\ rhRuns[rhRun].pending /\ ~rhRuns[rhRun].cancelled
    /\ rhRuns[rhRun].input = rhInput

(* Whatever the order in which requests end, StrictMode, changed inputs    *)
(* and clients: what a committed component shows as current, neither       *)
(* loading nor failed, is the answer to what it asks for now, given by the *)
(* client it has now; what is left of an earlier input while a request is  *)
(* in flight is marked (isStale), and nothing loads for ever.              *)
ShowsWhatIsAsked ==
  rhPhase = "committed" =>
    /\ ~rhState.loading /\ ~rhState.error =>
         IF rhData = 0 THEN rhInput = RhNone
         ELSE rhRuns[rhData].input = rhInput /\ rhRuns[rhData].client = rhClient
    /\ rhState.loading => rhState.isStale
    /\ LoadingHasARequest

-----------------------------------------------------------------------------
(* What does not hold.                                                     *)

(* "Destroy the client only when it is actually replaced": under           *)
(* StrictMode the second effect destroys the client the component keeps.   *)
ClientUsable == rhPhase = "committed" => rhClient \notin rhDestroyed

(* "`true` while a request for a new input is in flight and `data` still   *)
(* holds the result of the previous input": between the render with a new  *)
(* input and its effects, and after an error, old data is not marked.      *)
OldDataIsMarked ==
  rhData # 0 /\ rhPhase # "unmounted" /\ ~rhState.isStale => rhRuns[rhData].input = rhInput

(* "if it changed in between, the hook clears the key and network so       *)
(* consumers cannot act on a mixed session": there and back is not seen.   *)
NoMixedSession == rhWallet.shown # RhNone => rhWallet.key = rhWallet.shown
=============================================================================
