---------------------------- MODULE WalletAdapters ----------------------------
(***************************************************************************)
(* The other wallet adapters: injected providers (Hana, HOT), Ledger,      *)
(* LOBSTR and Albedo.  What each remembers of the account it is connected  *)
(* to, its connect, reconnect, disconnect, getPublicKey and                *)
(* signTransaction at their awaits, and a wallet that is on another        *)
(* account, no longer connected, slow or absent.                           *)
(*                                                                         *)
(* External: the wallets.  An injected provider is one with getPublicKey(),*)
(* isConnected() and getNetwork().                                         *)
(***************************************************************************)
CONSTANTS
  WaKinds,     (* Adapters: "injected", "ledger", "lobstr", "albedo".      *)
  WaOps,       (* Calls made of the adapter.                               *)
  WaAccounts,  (* Accounts of the wallet.                                  *)
  WaNone       (* No account.                                              *)

ASSUME WalletAdaptersAssumption ==
  /\ WaKinds \subseteq {"injected", "ledger", "lobstr", "albedo"}
  /\ WaNone \notin WaAccounts

VARIABLES
  waKind,     (* The adapter.                                              *)
  waKey,      (* connection, publicKey or cachedPublicKey: what it keeps.  *)
  waWallet,   (* External: the account the wallet is on.                   *)
  waLinked,   (* External: the wallet holds a connection to this page.     *)
  waApp,      (* appPromise of Ledger: "none", "loaded" or "broken".       *)
  waOp,       (* Where each call is.                                       *)
  waAsked,    (* The account a call to sign was made for.                  *)
  waSigner    (* The account whose signature it returned.                  *)

waCalls == <<waOp, waAsked, waSigner>>
waVars == <<waKind, waKey, waWallet, waLinked, waApp, waCalls>>

WaWaiting == {"connect", "check", "provider", "read", "close", "load", "sign"}

WalletAdaptersInit ==
  /\ waKind \in WaKinds
  /\ waKey = WaNone
  /\ waWallet \in WaAccounts
  /\ waLinked = FALSE
  /\ waApp = "none"
  /\ waOp = [o \in WaOps |-> "idle"]
  /\ waAsked = [o \in WaOps |-> WaNone]
  /\ waSigner = [o \in WaOps |-> WaNone]

WaGoto(o, from, to) == waOp[o] = from /\ waOp' = [waOp EXCEPT ![o] = to]

(* LOBSTR keeps nothing: its session client does. *)
Remember(account) == waKey' = IF waKind = "lobstr" THEN WaNone ELSE account
-----------------------------------------------------------------------------
(* The wallet.                                                             *)

OtherAccount(a) ==
  /\ a # waWallet
  /\ waWallet' = a
  /\ UNCHANGED <<waKind, waKey, waLinked, waApp, waCalls>>

WalletLetsGo ==
  /\ waLinked
  /\ waLinked' = FALSE
  /\ UNCHANGED <<waKind, waKey, waWallet, waApp, waCalls>>
-----------------------------------------------------------------------------
(* connect(), and reconnect() when there is nothing to resume. *)

WaConnect(o) ==
  /\ WaGoto(o, "idle", "connect")
  /\ UNCHANGED <<waKind, waKey, waWallet, waLinked, waApp, waAsked, waSigner>>

(* The wallet has answered with its account. *)
WaConnected(o) ==
  /\ WaGoto(o, "connect", "done")
  /\ waApp # "broken"
  /\ waApp' = IF waKind = "ledger" THEN "loaded" ELSE waApp
  /\ waLinked' = TRUE
  /\ Remember(waWallet)
  /\ UNCHANGED <<waKind, waWallet, waAsked, waSigner>>

(* Ledger's library cannot be loaded: the promise that says so is kept.    *)
AppUnloadable(o) ==
  /\ waKind = "ledger" /\ waApp = "none"
  /\ WaGoto(o, "connect", "failed")
  /\ waApp' = "broken"
  /\ UNCHANGED <<waKind, waKey, waWallet, waLinked, waAsked, waSigner>>

(* LOBSTR: the approval comes after connect() has been given up. *)
PairedLate(o) ==
  /\ waKind = "lobstr" /\ WaGoto(o, "timedOut", "failed")
  /\ waLinked' = TRUE
  /\ UNCHANGED <<waKind, waKey, waWallet, waApp, waAsked, waSigner>>

(* Albedo resumes what it keeps; Ledger connects anew; an injected adapter *)
(* that keeps a connection asks whether there is one, as LOBSTR does.      *)
WaReconnect(o) ==
  /\ waOp[o] = "idle"
  /\ \/ waKind = "albedo" /\ waKey # WaNone /\ WaGoto(o, "idle", "done")
     \/ waKind = "albedo" /\ waKey = WaNone /\ WaGoto(o, "idle", "connect")
     \/ waKind = "ledger" /\ WaGoto(o, "idle", "connect")
     \/ waKind = "injected" /\ WaGoto(o, "idle", IF waKey # WaNone THEN "check" ELSE "provider")
     \/ waKind = "lobstr" /\ WaGoto(o, "idle", "provider")
  /\ UNCHANGED <<waKind, waKey, waWallet, waLinked, waApp, waAsked, waSigner>>

(* isConnected() of the connection that is kept: resumed, if it is still    *)
(* kept, or the provider is asked.                                          *)
Checked(o) ==
  /\ WaGoto(o, "check", IF waLinked THEN "done" ELSE "provider")
  /\ UNCHANGED <<waKind, waKey, waWallet, waLinked, waApp, waAsked, waSigner>>

(* isConnected() of the wallet: its account is read, or it is connected.   *)
Asked(o) ==
  /\ WaGoto(o, "provider", IF waLinked THEN "read" ELSE "connect")
  /\ UNCHANGED <<waKind, waKey, waWallet, waLinked, waApp, waAsked, waSigner>>

AccountRead(o) ==
  /\ WaGoto(o, "read", "done")
  /\ Remember(waWallet)
  /\ UNCHANGED <<waKind, waWallet, waLinked, waApp, waAsked, waSigner>>
-----------------------------------------------------------------------------
(* disconnect(): Albedo forgets at once, the others when the wallet or the *)
(* transport has closed.                                                   *)

WaDisconnect(o) ==
  /\ IF waKind = "albedo"
     THEN WaGoto(o, "idle", "done") /\ waKey' = WaNone
     ELSE WaGoto(o, "idle", "close") /\ UNCHANGED waKey
  /\ UNCHANGED <<waKind, waWallet, waLinked, waApp, waAsked, waSigner>>

WaClosed(o) ==
  /\ WaGoto(o, "close", "done")
  /\ waLinked' = FALSE
  /\ waKey' = WaNone
  /\ UNCHANGED <<waKind, waWallet, waApp, waAsked, waSigner>>
-----------------------------------------------------------------------------
(* getPublicKey(): Ledger answers with what it keeps, and so does Albedo,  *)
(* or connects; the others ask the wallet and keep nothing.                *)

WaGetPublicKey(o) ==
  /\ waKind = "albedo"
  /\ WaGoto(o, "idle", IF waKey # WaNone THEN "done" ELSE "connect")
  /\ UNCHANGED <<waKind, waKey, waWallet, waLinked, waApp, waAsked, waSigner>>
-----------------------------------------------------------------------------
(* signTransaction() *)

(* Refused by Ledger and an injected adapter without a connection; Ledger  *)
(* reads the account here, Albedo when its library is there.               *)
WaSign(o) ==
  /\ waOp[o] = "idle"
  /\ waOp' = [waOp EXCEPT ![o] =
       IF waKind = "albedo" THEN "load"
       ELSE IF waKind # "lobstr" /\ waKey = WaNone THEN "failed" ELSE "sign"]
  /\ waAsked' = [waAsked EXCEPT ![o] = waKey]
  /\ UNCHANGED <<waKind, waKey, waWallet, waLinked, waApp, waSigner>>

AlbedoLoaded(o) ==
  /\ WaGoto(o, "load", "sign")
  /\ waAsked' = [waAsked EXCEPT ![o] = waKey]
  /\ UNCHANGED <<waKind, waKey, waWallet, waLinked, waApp, waSigner>>

(* Ledger: addSignature() verifies the signature against the account that  *)
(* was read first.  Albedo is told which account is to sign, if it keeps   *)
(* one.  The others sign with the wallet's.                                *)
SignsAs(o) ==
  waKind = "ledger" \/ (waKind = "albedo" /\ waAsked[o] # WaNone) => waWallet = waAsked[o]

WaSigned(o) ==
  /\ WaGoto(o, "sign", "done")
  /\ SignsAs(o)
  /\ waSigner' = [waSigner EXCEPT ![o] = waWallet]
  /\ UNCHANGED <<waKind, waKey, waWallet, waLinked, waApp, waAsked>>

(* Ledger's signTransaction() and LOBSTR's connect() have a limit of time. *)
WaTimeout(o) ==
  /\ \/ waKind = "ledger" /\ WaGoto(o, "sign", "failed")
     \/ waKind = "lobstr" /\ WaGoto(o, "connect", "timedOut")
  /\ UNCHANGED <<waKind, waKey, waWallet, waLinked, waApp, waAsked, waSigner>>

(* The wallet refuses or cannot be reached. *)
WaFails(o) ==
  /\ waOp[o] \in WaWaiting
  /\ waOp' = [waOp EXCEPT ![o] = "failed"]
  /\ UNCHANGED <<waKind, waKey, waWallet, waLinked, waApp, waAsked, waSigner>>

WalletAdaptersNext ==
  \/ \E a \in WaAccounts : OtherAccount(a)
  \/ WalletLetsGo
  \/ \E o \in WaOps :
       \/ WaConnect(o) \/ WaConnected(o) \/ AppUnloadable(o) \/ PairedLate(o)
       \/ WaReconnect(o) \/ Checked(o) \/ Asked(o) \/ AccountRead(o)
       \/ WaDisconnect(o) \/ WaClosed(o) \/ WaGetPublicKey(o)
       \/ WaSign(o) \/ AlbedoLoaded(o) \/ WaSigned(o) \/ WaTimeout(o) \/ WaFails(o)

WalletAdaptersSpec == WalletAdaptersInit /\ [][WalletAdaptersNext]_waVars
-----------------------------------------------------------------------------
(* A signature of an adapter that checks, or says, who is to sign is that  *)
(* of the account it had given to the page when it was asked, whichever    *)
(* account the wallet has changed to and whatever was connected meanwhile. *)
SignerIsAsked ==
  \A o \in WaOps :
    waKind \in {"ledger", "albedo"} /\ WaNone \notin {waSigner[o], waAsked[o]}
    => waSigner[o] = waAsked[o]
-----------------------------------------------------------------------------
(* What the documentation says and the code does not do.                   *)

(* The same of every adapter. *)
SignerIsConnected ==
  \A o \in WaOps : WaNone \notin {waSigner[o], waAsked[o]} => waSigner[o] = waAsked[o]

(* Nobody signs for a page that has disconnected. *)
NoSignatureUnlinked ==
  [][\A o \in WaOps : waKind # "lobstr" /\ WaSigned(o) => waKey # WaNone]_waVars

(* A library that could not be loaded is loaded again. *)
LoadIsTriedAgain == waApp # "broken"
=============================================================================
