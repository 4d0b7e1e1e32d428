-------------------------- MODULE FreighterSession --------------------------
(***************************************************************************)
(* FreighterWalletAdapter: the extension whose context may be lost and     *)
(* come back, the flag that remembers the loss, the session with its       *)
(* expiry, connect, reconnect, disconnect, isConnected, signTransaction    *)
(* with its timeout, and the watcher of the network.                       *)
(*                                                                         *)
(* The calls interleave at their awaits; what the extension answers, and   *)
(* what the continuation does with it, is one step.  External: the         *)
(* extension, its user, who switches account and network, and the window   *)
(* that may not have the extension injected (getAddress fails).            *)
(***************************************************************************)
EXTENDS Naturals

CONSTANTS
  FrOps,       (* Calls made of the adapter.                               *)
  FrAccounts,  (* Accounts of the user.                                    *)
  FrNetworks,  (* Network passphrases.                                     *)
  FrExpected,  (* Option expectedNetworkPassphrase, or FrNone.             *)
  FrNone       (* No session, no account, no report.                       *)

ASSUME FreighterAssumption ==
  /\ FrNone \notin FrAccounts \cup FrNetworks \cup FrAccounts \X {"valid", "expired"}
  /\ FrExpected \in FrNetworks \cup {FrNone}

VARIABLES
  frAccount,   (* External: the account selected.                          *)
  frNetwork,   (* External: the network selected.                          *)
  frContext,   (* External: "live", or "lost" until the page has reloaded  *)
               (* the extension.                                           *)
  frStale,     (* _extensionContextStale.                                  *)
  frSession,   (* The session: the account it was issued for, and "valid"  *)
               (* or "expired"; FrNone.                                    *)
  frLapsed,    (* History: calls past their look at the session since when *)
               (* it expired or was deleted.                               *)
  frOp,        (* Where each call is.                                      *)
  frPopups,    (* Calls whose approval popup is on the screen.             *)
  frAddress,   (* The address each call has read.                          *)
  frWatch,     (* The watcher: "loading", "on", "stopped".                 *)
  frLast,      (* lastPassphrase.                                          *)
  frTold       (* What the listener was last called with.                  *)

frUser == <<frAccount, frNetwork, frContext>>
frHeld == <<frSession, frLapsed>>
frCalls == <<frOp, frPopups, frAddress>>
frWatcher == <<frWatch, frLast, frTold>>
frVars == <<frUser, frStale, frHeld, frCalls, frWatcher>>

FreighterInit ==
  /\ frAccount \in FrAccounts
  /\ frNetwork \in FrNetworks
  /\ frContext = "live"
  /\ frStale = FALSE
  /\ frSession = FrNone
  /\ frLapsed = {}
  /\ frOp = [o \in FrOps |-> "idle"]
  /\ frPopups = {}
  /\ frAddress = [o \in FrOps |-> FrNone]
  /\ frWatch = "loading"
  /\ frLast = FrNone
  /\ frTold = FrNone

FrGoto(o, from, to) == frOp[o] = from /\ frOp' = [frOp EXCEPT ![o] = to]

(* Between ensureValidSession() and the popup: the API of the extension is *)
(* being loaded, in "late" with the timer of the call run out.             *)
Loading == {o \in FrOps : frOp[o] \in {"loading", "late"}}

(* The session expires or is deleted. *)
SessionBecomes(session) ==
  /\ frSession' = session
  /\ frLapsed' = frLapsed \cup Loading
-----------------------------------------------------------------------------
(* The extension and its user.                                             *)

SwitchAccount(a) ==
  /\ frAccount' = a /\ a # frAccount
  /\ UNCHANGED <<frNetwork, frContext, frStale, frHeld, frCalls, frWatcher>>

SwitchNetwork(n) ==
  /\ frNetwork' = n /\ n # frNetwork
  /\ UNCHANGED <<frAccount, frContext, frStale, frHeld, frCalls, frWatcher>>

ContextLost ==
  /\ frContext = "live" /\ frContext' = "lost"
  /\ UNCHANGED <<frAccount, frNetwork, frStale, frHeld, frCalls, frWatcher>>

ContextBack ==
  /\ frContext = "lost" /\ frContext' = "live"
  /\ UNCHANGED <<frAccount, frNetwork, frStale, frHeld, frCalls, frWatcher>>

SessionExpires ==
  /\ frSession # FrNone /\ frSession[2] = "valid"
  /\ SessionBecomes(<<frSession[1], "expired">>)
  /\ UNCHANGED <<frUser, frStale, frCalls, frWatcher>>
-----------------------------------------------------------------------------
(* Answers.                                                                *)

(* handlePossibleContextInvalidation(): the loss is remembered, and the    *)
(* session is gone with it.                                                *)
NoticeLoss == frStale' = TRUE /\ SessionBecomes(FrNone)

(* An error that says the context was lost, or any other. *)
ErrorAnswer ==
  \/ frContext = "lost" /\ NoticeLoss
  \/ UNCHANGED <<frStale, frHeld>>

FrFails(o, from) ==
  /\ FrGoto(o, from, "failed")
  /\ ErrorAnswer
  /\ UNCHANGED <<frUser, frPopups, frAddress, frWatcher>>

(* assertNetworkMatches() *)
NetworkMatches == FrExpected = FrNone \/ frNetwork = FrExpected
-----------------------------------------------------------------------------
(* connect(): requestAccess, then getNetworkDetails.                       *)

Connect(o) ==
  /\ FrGoto(o, "idle", "access")
  /\ UNCHANGED <<frUser, frStale, frHeld, frPopups, frAddress, frWatcher>>

AccessGranted(o) ==
  /\ FrGoto(o, "access", "details")
  /\ frContext = "live"
  /\ frAddress' = [frAddress EXCEPT ![o] = frAccount]
  /\ UNCHANGED <<frUser, frStale, frHeld, frPopups, frWatcher>>

(* The details of a network that matches end connect() and reconnect(). *)
Connected(o) ==
  /\ frOp[o] \in {"details", "current"}
  /\ frContext = "live"
  /\ NetworkMatches
  /\ frOp' = [frOp EXCEPT ![o] = "connected"]
  /\ frStale' = FALSE
  /\ UNCHANGED <<frUser, frHeld, frPopups, frAddress, frWatcher>>

WrongNetwork(o) ==
  /\ frOp[o] \in {"details", "current"}
  /\ frContext = "live"
  /\ ~NetworkMatches
  /\ frOp' = [frOp EXCEPT ![o] = "failed"]
  /\ UNCHANGED <<frUser, frStale, frHeld, frPopups, frAddress, frWatcher>>

(* reconnect(): a context known to be lost asks for access again. *)
Reconnect(o) ==
  /\ FrGoto(o, "idle", IF frStale THEN "access" ELSE "address")
  /\ UNCHANGED <<frUser, frStale, frHeld, frPopups, frAddress, frWatcher>>

AddressRead(o) ==
  /\ FrGoto(o, "address", "current")
  /\ frContext = "live"
  /\ frAddress' = [frAddress EXCEPT ![o] = frAccount]
  /\ UNCHANGED <<frUser, frStale, frHeld, frPopups, frWatcher>>

(* An error in reconnect(): when the flag is up now, by this error or by   *)
(* another call's, it asks for access as well.                             *)
ReconnectFails(o) ==
  /\ frOp[o] \in {"address", "current"}
  /\ ErrorAnswer
  /\ frOp' = [frOp EXCEPT ![o] = IF frStale' THEN "access" ELSE "failed"]
  /\ UNCHANGED <<frUser, frPopups, frAddress, frWatcher>>

ConnectFails(o) == FrFails(o, "access") \/ FrFails(o, "details")

Disconnect ==
  /\ SessionBecomes(FrNone)
  /\ frStale' = FALSE
  /\ UNCHANGED <<frUser, frCalls, frWatcher>>

(* isConnected(): the answer "no" without an error takes the flag down. *)
IsConnected ==
  /\ \/ frContext = "lost" /\ NoticeLoss
     \/ frStale' = FALSE /\ UNCHANGED frHeld
  /\ UNCHANGED <<frUser, frCalls, frWatcher>>
-----------------------------------------------------------------------------
(* signTransaction().                                                      *)

(* Mutant: any session will do. *)
AnySession(session) == session # FrNone

Valid(session) == session # FrNone /\ session[2] = "valid"

(* assertWalletSessionActive(), which the client calls first: a session    *)
(* that has expired is refreshed, none at all is let through.              *)
SessionChecked(o) ==
  /\ FrGoto(o, "idle", IF frSession = FrNone \/ Valid(frSession) THEN "checked"
                       ELSE "check")
  /\ UNCHANGED <<frUser, frStale, frHeld, frPopups, frAddress, frWatcher>>

SessionRenewed(o) ==
  /\ FrGoto(o, "check", "checked")
  /\ frContext = "live"
  /\ frSession' = <<frAccount, "valid">>
  /\ UNCHANGED <<frUser, frStale, frLapsed, frPopups, frAddress, frWatcher>>

(* ensureValidSession(): the session found, or a refresh before going on. *)
Sign(o) ==
  /\ frOp[o] \in {"idle", "checked"}
  /\ FrGoto(o, frOp[o], IF Valid(frSession) THEN "loading" ELSE "refresh")
  /\ UNCHANGED <<frUser, frStale, frHeld, frPopups, frAddress, frWatcher>>

(* refreshSession(): a session for the account selected now. *)
Refreshed(o) ==
  /\ FrGoto(o, "refresh", "loading")
  /\ frContext = "live"
  /\ frSession' = <<frAccount, "valid">>
  /\ UNCHANGED <<frUser, frStale, frLapsed, frPopups, frAddress, frWatcher>>

(* The API is there and the popup opens, whatever became of the session,   *)
(* and of a caller whom the timer has answered.                            *)
PopupOpens(o) ==
  /\ \/ FrGoto(o, "loading", "popup")
     \/ FrGoto(o, "late", "timedOut")
  /\ frContext = "live"
  /\ frPopups' = frPopups \cup {o}
  /\ UNCHANGED <<frUser, frStale, frHeld, frAddress, frWatcher>>

(* The API cannot be loaded, or the extension refuses; what goes wrong     *)
(* after the timer is dropped.                                             *)
LoadFails(o) ==
  \/ FrFails(o, "loading")
  \/ /\ FrGoto(o, "late", "timedOut")
     /\ UNCHANGED <<frUser, frStale, frHeld, frPopups, frAddress, frWatcher>>

RefreshFails(o) == FrFails(o, "refresh") \/ FrFails(o, "check")

(* The user approves, of whatever account is selected now. *)
Approved(o) ==
  /\ FrGoto(o, "popup", "signed")
  /\ frContext = "live"
  /\ frPopups' = frPopups \ {o}
  /\ UNCHANGED <<frUser, frStale, frHeld, frAddress, frWatcher>>

Declined(o) ==
  /\ FrGoto(o, "popup", "failed")
  /\ ErrorAnswer
  /\ frPopups' = frPopups \ {o}
  /\ UNCHANGED <<frUser, frAddress, frWatcher>>

(* The timer wins the race; the popup stays on the screen, or comes yet. *)
SignTimeout(o) ==
  /\ \/ FrGoto(o, "popup", "timedOut")
     \/ FrGoto(o, "loading", "late")
  /\ UNCHANGED <<frUser, frStale, frHeld, frPopups, frAddress, frWatcher>>

(* The user answers a popup nobody waits for: its answer is dropped. *)
LateAnswer(o) ==
  /\ frOp[o] = "timedOut"
  /\ o \in frPopups
  /\ frPopups' = frPopups \ {o}
  /\ UNCHANGED <<frUser, frStale, frHeld, frOp, frAddress, frWatcher>>
-----------------------------------------------------------------------------
(* onNetworkChange().                                                      *)

WatcherLoads ==
  /\ frWatch = "loading" /\ frWatch' = "on"
  /\ UNCHANGED <<frUser, frStale, frHeld, frCalls, frLast, frTold>>

NetworkReported ==
  /\ frWatch = "on"
  /\ frContext = "live"
  /\ frLast' = frNetwork
  /\ frTold' = IF frLast \notin {FrNone, frNetwork} THEN frNetwork ELSE frTold
  /\ UNCHANGED <<frUser, frStale, frHeld, frCalls, frWatch>>

StopWatching ==
  /\ frWatch # "stopped" /\ frWatch' = "stopped"
  /\ UNCHANGED <<frUser, frStale, frHeld, frCalls, frLast, frTold>>
-----------------------------------------------------------------------------
FreighterUserNext ==
  \/ \E a \in FrAccounts : SwitchAccount(a)
  \/ \E n \in FrNetworks : SwitchNetwork(n)
  \/ ContextLost \/ ContextBack

FreighterCallsNext ==
  \/ \E o \in FrOps :
       \/ Connect(o) \/ AccessGranted(o) \/ Connected(o) \/ WrongNetwork(o) \/ ConnectFails(o)
       \/ Reconnect(o) \/ AddressRead(o) \/ ReconnectFails(o)
       \/ SessionChecked(o) \/ SessionRenewed(o) \/ Sign(o) \/ Refreshed(o) \/ RefreshFails(o)
       \/ PopupOpens(o) \/ LoadFails(o)
       \/ Approved(o) \/ Declined(o) \/ SignTimeout(o) \/ LateAnswer(o)
  \/ SessionExpires \/ Disconnect \/ IsConnected

WatcherNext == WatcherLoads \/ NetworkReported \/ StopWatching

FreighterNext == FreighterUserNext \/ FreighterCallsNext \/ WatcherNext

FreighterSpec == FreighterInit /\ [][FreighterNext]_frVars
-----------------------------------------------------------------------------
(* A popup opens only for a call that found or made a valid session after  *)
(* it began, and only expiry, disconnect() or a lost context can have      *)
(* taken that session while the API was loading: no other call that        *)
(* connects, refreshes, fails or runs into its timer does, and none gets   *)
(* past the look at the session (signTransaction, ensureValidSession).     *)
PopupAfterCheck ==
  [][\A o \in frPopups' \ frPopups :
       o \in frLapsed \/ (frSession # FrNone /\ frSession[2] = "valid")]_frVars
-----------------------------------------------------------------------------
(* What the documentation says and the code does not do.                   *)

(* "Validate/refresh the session token before handing anything to the      *)
(* contract, so an expired token surfaces a clear error here"              *)
(* (signTransaction): the session is valid when the popup opens.           *)
PopupUnderSession ==
  [][\A o \in frPopups' \ frPopups : frSession # FrNone /\ frSession[2] = "valid"]_frVars
=============================================================================
