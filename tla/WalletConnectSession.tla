------------------------ MODULE WalletConnectSession ------------------------
(***************************************************************************)
(* WalletConnectAdapter: the session and the connection it remembers, the  *)
(* topic in the session store, connect, reconnect, disconnect and          *)
(* signTransaction, interleaved at their awaits, a page that is loaded     *)
(* again, and a wallet that approves late or never and ends sessions.      *)
(*                                                                         *)
(* External: the WalletConnect client and the wallet behind it.  The store *)
(* is one of the two of walletConnect.ts, whose functions take effect when *)
(* they are called.                                                        *)
(***************************************************************************)
CONSTANTS
  WcOps,         (* Calls made of the adapter.                             *)
  WcTopics,      (* Sessions the wallet may approve.                       *)
  WcUnsupported, (* Those without the method that signs.                   *)
  WcNone         (* No session.                                            *)

ASSUME WalletConnectAssumption ==
  WcUnsupported \subseteq WcTopics /\ WcNone \notin WcTopics

VARIABLES
  wcAlive,      (* External: sessions the wallet holds.                    *)
  wcEnded,      (* External: sessions it held.                             *)
  wcSession,    (* The topic of session.                                   *)
  wcConnection, (* The topic whose account connection names.               *)
  wcStore,      (* The topic in the session store.                         *)
  wcOp,         (* Where each call is.                                     *)
  wcTopic,      (* The topic each call works with.                         *)
  wcPending     (* Approvals that nobody waits for any more.               *)

wcRemote == <<wcAlive, wcEnded>>
wcState == <<wcSession, wcConnection, wcStore>>
wcCalls == <<wcOp, wcTopic>>
wcVars == <<wcRemote, wcState, wcCalls, wcPending>>

WcEnded == {"connected", "disconnected", "signed", "failed", "timedOut"}
WcWaiting == {"pairing", "approval", "fresh", "lookup", "closing", "restore", "request"}

WalletConnectInit ==
  /\ wcAlive = {} /\ wcEnded = {}
  /\ wcSession = WcNone /\ wcConnection = WcNone /\ wcStore = WcNone
  /\ wcOp = [o \in WcOps |-> "idle"]
  /\ wcTopic = [o \in WcOps |-> WcNone]
  /\ wcPending = {}

WcGoto(o, from, to) == wcOp[o] = from /\ wcOp' = [wcOp EXCEPT ![o] = to]

(* useSession(): refused when the session cannot sign. *)
UseSession(o, t) ==
  IF t \in WcUnsupported
  THEN /\ wcOp' = [wcOp EXCEPT ![o] = "failed"]
       /\ UNCHANGED wcState
  ELSE /\ wcOp' = [wcOp EXCEPT ![o] = "connected"]
       /\ wcSession' = t /\ wcConnection' = t /\ wcStore' = t

(* Mutant: the session is dropped, what the page shows of it is kept. *)
ForgetTheSession ==
  /\ wcSession' = WcNone /\ wcStore' = WcNone
  /\ UNCHANGED wcConnection

Forget == wcSession' = WcNone /\ wcConnection' = WcNone /\ wcStore' = WcNone
-----------------------------------------------------------------------------
(* The wallet.                                                             *)

New(t) == t \notin wcAlive \cup wcEnded

(* The wallet or the relay ends a session; the adapter is not told. *)
WalletEnds(t) ==
  /\ t \in wcAlive
  /\ wcAlive' = wcAlive \ {t} /\ wcEnded' = wcEnded \cup {t}
  /\ UNCHANGED <<wcState, wcCalls, wcPending>>

(* A pairing is approved that has timed out: a session nobody uses. *)
ApprovedLate(o, t) ==
  /\ o \in wcPending /\ New(t)
  /\ wcAlive' = wcAlive \cup {t}
  /\ wcPending' = wcPending \ {o}
  /\ UNCHANGED <<wcEnded, wcState, wcCalls>>
-----------------------------------------------------------------------------
(* connect() *)

WcConnect(o) ==
  /\ WcGoto(o, "idle", "pairing")
  /\ UNCHANGED <<wcRemote, wcState, wcTopic, wcPending>>

(* client.connect() has answered; the URI is shown, the timer set. *)
Paired(o) ==
  /\ WcGoto(o, "pairing", "approval")
  /\ UNCHANGED <<wcRemote, wcState, wcTopic, wcPending>>

PairingApproved(o, t) ==
  /\ wcOp[o] = "approval" /\ New(t)
  /\ wcAlive' = wcAlive \cup {t}
  /\ UseSession(o, t)
  /\ UNCHANGED <<wcEnded, wcTopic, wcPending>>

ApprovalTimeout(o) ==
  /\ WcGoto(o, "approval", "timedOut")
  /\ wcPending' = wcPending \cup {o}
  /\ UNCHANGED <<wcRemote, wcState, wcTopic>>
-----------------------------------------------------------------------------
(* reconnect() *)

(* The session at hand is looked up, or the one in the store, or there is  *)
(* none.                                                                   *)
WcReconnect(o) ==
  /\ wcOp[o] = "idle"
  /\ LET known == wcSession # WcNone /\ wcConnection # WcNone
     IN /\ wcOp' = [wcOp EXCEPT ![o] =
             IF known THEN "fresh" ELSE IF wcStore = WcNone THEN "failed" ELSE "lookup"]
        /\ wcTopic' = [wcTopic EXCEPT ![o] = IF known THEN wcSession ELSE wcStore]
  /\ UNCHANGED <<wcRemote, wcState, wcPending>>

(* getSession() of the topic: still there. *)
Found(o) ==
  /\ wcOp[o] \in {"fresh", "lookup"}
  /\ wcTopic[o] \in wcAlive
  /\ UseSession(o, wcTopic[o])
  /\ UNCHANGED <<wcRemote, wcTopic, wcPending>>

(* The session at hand is gone: all is forgotten, and so the store, which  *)
(* is read next, is empty.                                                 *)
SessionGone(o) ==
  /\ WcGoto(o, "fresh", "failed")
  /\ wcTopic[o] \notin wcAlive
  /\ Forget
  /\ UNCHANGED <<wcRemote, wcTopic, wcPending>>

(* The stored one is gone: the store is cleared, and nothing else. *)
StoredGone(o) ==
  /\ WcGoto(o, "lookup", "failed")
  /\ wcTopic[o] \notin wcAlive
  /\ wcStore' = WcNone
  /\ UNCHANGED <<wcRemote, wcSession, wcConnection, wcTopic, wcPending>>
-----------------------------------------------------------------------------
(* disconnect() *)

KnownTopic == IF wcSession # WcNone THEN wcSession ELSE wcStore

WcDisconnect(o) ==
  /\ wcTopic' = [wcTopic EXCEPT ![o] = KnownTopic]
  /\ IF KnownTopic # WcNone
     THEN WcGoto(o, "idle", "closing") /\ UNCHANGED wcState
     ELSE WcGoto(o, "idle", "disconnected") /\ Forget
  /\ UNCHANGED <<wcRemote, wcPending>>

Closed(o) ==
  /\ WcGoto(o, "closing", "disconnected")
  /\ wcAlive' = wcAlive \ {wcTopic[o]}
  /\ wcEnded' = wcEnded \cup {wcTopic[o]}
  /\ Forget
  /\ UNCHANGED <<wcTopic, wcPending>>
-----------------------------------------------------------------------------
(* signTransaction() *)

(* requireSession(): the session at hand, or the one in the store. *)
WcSign(o) ==
  /\ wcTopic' = [wcTopic EXCEPT ![o] = KnownTopic]
  /\ WcGoto(o, "idle",
       IF KnownTopic = WcNone \/ (wcSession # WcNone /\ wcSession \in WcUnsupported) THEN "failed"
       ELSE IF wcSession # WcNone THEN "request" ELSE "restore")
  /\ UNCHANGED <<wcRemote, wcState, wcPending>>

(* The stored session is there: it becomes the session of the adapter,     *)
(* whatever that is by now; then the method is looked for.                 *)
Restored(o) ==
  /\ WcGoto(o, "restore", IF wcTopic[o] \in WcUnsupported THEN "failed" ELSE "request")
  /\ wcTopic[o] \in wcAlive
  /\ wcSession' = wcTopic[o]
  /\ UNCHANGED <<wcRemote, wcConnection, wcStore, wcTopic, wcPending>>

Signed(o) ==
  /\ WcGoto(o, "request", "signed")
  /\ wcTopic[o] \in wcAlive
  /\ UNCHANGED <<wcRemote, wcState, wcTopic, wcPending>>

RequestTimeout(o) ==
  /\ WcGoto(o, "request", "timedOut")
  /\ UNCHANGED <<wcRemote, wcState, wcTopic, wcPending>>

(* A network, chain or client error, a refusal, a session that is gone. *)
WcFails(o) ==
  /\ wcOp[o] \in {"pairing", "approval", "fresh", "lookup", "closing", "restore", "request"}
  /\ wcOp' = [wcOp EXCEPT ![o] = "failed"]
  /\ UNCHANGED <<wcRemote, wcState, wcTopic, wcPending>>
-----------------------------------------------------------------------------
(* The page is loaded again: the adapter is new, the store is not. *)
PageReload ==
  /\ \E o \in WcOps : wcOp[o] # "idle"
  /\ wcSession' = WcNone /\ wcConnection' = WcNone
  /\ wcOp' = [o \in WcOps |-> "idle"]
  /\ wcTopic' = [o \in WcOps |-> WcNone]
  /\ wcPending' = {}
  /\ UNCHANGED <<wcRemote, wcStore>>

WalletConnectNext ==
  \/ \E o \in WcOps :
       \/ WcConnect(o) \/ Paired(o) \/ ApprovalTimeout(o)
       \/ WcReconnect(o) \/ Found(o) \/ SessionGone(o) \/ StoredGone(o)
       \/ WcDisconnect(o) \/ Closed(o)
       \/ WcSign(o) \/ Restored(o) \/ Signed(o) \/ RequestTimeout(o) \/ WcFails(o)
  \/ \E o \in WcOps, t \in WcTopics : PairingApproved(o, t) \/ ApprovedLate(o, t)
  \/ \E t \in WcTopics : WalletEnds(t)
  \/ PageReload

WalletConnectSpec == WalletConnectInit /\ [][WalletConnectNext]_wcVars
-----------------------------------------------------------------------------
(* While the page shows a connection there is a session behind it, and     *)
(* both and what the store holds can sign: through every interleaving of   *)
(* connect, reconnect, disconnect and signTransaction.                     *)
ConnectionBacked ==
  /\ wcConnection # WcNone => wcSession # WcNone
  /\ {wcSession, wcConnection, wcStore} \cap WcUnsupported = {}
-----------------------------------------------------------------------------
(* What does not hold.                                                     *)

(* The account connect() answered with is the one that signs. *)
SignsAsConnected == wcConnection # WcNone => wcSession = wcConnection

(* A session at hand is found again after the page is loaded again. *)
SessionStored == wcSession # WcNone => wcStore = wcSession
=============================================================================
