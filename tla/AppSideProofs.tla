---------------------------- MODULE AppSideProofs ----------------------------
(***************************************************************************)
(* Proofs about what an application has around the calls of the client:    *)
(* its reads, the React hooks, its lifecycle hooks, the wallet sessions    *)
(* and the stores behind the cache, each for any number of calls and       *)
(* whatever they are made of.                                              *)
(***************************************************************************)
EXTENDS CachedReads, FreighterSession, WalletConnectSession, ReactHooks,
        HookManager, CacheStores, FilterProofs, TLAPS

(* WalletConnectSession.  What signTransaction() restores came from the    *)
(* store, and so can sign: the one way a session enters the adapter past   *)
(* useSession().                                                           *)
RestoresWhatSigns ==
  \A o \in WcOps : wcOp[o] = "restore" => wcTopic[o] \notin WcUnsupported \cup {WcNone}

WcFunctions ==
  /\ wcOp = [o \in WcOps |-> wcOp[o]]
  /\ wcTopic = [o \in WcOps |-> wcTopic[o]]

SessionInv == WcFunctions /\ ConnectionBacked /\ RestoresWhatSigns

LEMMA SessionInit == WalletConnectInit => SessionInv
  BY WalletConnectAssumption
  DEF WalletConnectInit, SessionInv, WcFunctions, ConnectionBacked, RestoresWhatSigns

(* A step that moves a call, not to "restore", and keeps what is remembered. *)
LEMMA SessionKept ==
  ASSUME SessionInv, NEW o \in WcOps, NEW to, to # "restore",
         wcOp' = [wcOp EXCEPT ![o] = to],
         wcTopic' = wcTopic \/ \E t : wcTopic' = [wcTopic EXCEPT ![o] = t],
         ConnectionBacked'
  PROVE  SessionInv'
<1>1. WcFunctions'
  BY DEF SessionInv, WcFunctions
<1>2. \A p \in WcOps : wcOp'[p] = "restore" => p # o /\ wcOp[p] = "restore" /\ wcTopic'[p] = wcTopic[p]
  BY DEF SessionInv, WcFunctions
<1> QED
  BY <1>1, <1>2 DEF SessionInv, RestoresWhatSigns

LEMMA ConnectionKept ==
  ASSUME ConnectionBacked,
         UNCHANGED wcState \/ Forget
         \/ (wcStore' = WcNone /\ UNCHANGED <<wcSession, wcConnection>>)
         \/ \E t : t \notin WcUnsupported /\ wcSession' = t /\ wcConnection' = t /\ wcStore' = t
  PROVE  ConnectionBacked'
  BY WalletConnectAssumption DEF ConnectionBacked, wcState, Forget

LEMMA SessionStep == SessionInv /\ [WalletConnectNext]_wcVars => SessionInv'
<1> SUFFICES ASSUME SessionInv, [WalletConnectNext]_wcVars PROVE SessionInv'
  OBVIOUS
<1>0. ConnectionBacked
  BY DEF SessionInv
<1>1. ASSUME NEW o \in WcOps,
             WcConnect(o) \/ Paired(o) \/ ApprovalTimeout(o) \/ Signed(o) \/ RequestTimeout(o)
             \/ WcFails(o) \/ SessionGone(o) \/ StoredGone(o) \/ Closed(o)
      PROVE  SessionInv'
  <2>1. ConnectionBacked'
    BY <1>0, <1>1, ConnectionKept
    DEF WcConnect, Paired, ApprovalTimeout, Signed, RequestTimeout, WcFails, SessionGone,
        StoredGone, Closed, wcState
  <2>2. \E to : to # "restore" /\ wcOp' = [wcOp EXCEPT ![o] = to]
    BY <1>1
    DEF WcConnect, Paired, ApprovalTimeout, Signed, RequestTimeout, WcFails, SessionGone,
        StoredGone, Closed, WcGoto
  <2>3. wcTopic' = wcTopic
    BY <1>1
    DEF WcConnect, Paired, ApprovalTimeout, Signed, RequestTimeout, WcFails, SessionGone,
        StoredGone, Closed
  <2> QED
    BY <2>1, <2>2, <2>3, SessionKept
<1>2. ASSUME NEW o \in WcOps, NEW t, UseSession(o, t), UNCHANGED wcTopic PROVE SessionInv'
  BY <1>0, <1>2, ConnectionKept, SessionKept DEF UseSession
<1>3. ASSUME NEW o \in WcOps, Found(o) \/ \E t \in WcTopics : PairingApproved(o, t) PROVE SessionInv'
  BY <1>2, <1>3 DEF Found, PairingApproved
<1>4. ASSUME NEW o \in WcOps, WcReconnect(o) PROVE SessionInv'
  <2>1. ConnectionBacked'
    BY <1>0, <1>4, ConnectionKept DEF WcReconnect
  <2>2. \E to : to # "restore" /\ wcOp' = [wcOp EXCEPT ![o] = to]
    BY <1>4 DEF WcReconnect
  <2>3. \E t : wcTopic' = [wcTopic EXCEPT ![o] = t]
    BY <1>4 DEF WcReconnect
  <2> QED
    BY <2>1, <2>2, <2>3, SessionKept
<1>5. ASSUME NEW o \in WcOps, WcDisconnect(o) PROVE SessionInv'
  <2>1. ConnectionBacked'
    BY <1>0, <1>5, ConnectionKept DEF WcDisconnect
  <2>2. \E to : to # "restore" /\ wcOp' = [wcOp EXCEPT ![o] = to]
    BY <1>5 DEF WcDisconnect, WcGoto
  <2>3. \E t : wcTopic' = [wcTopic EXCEPT ![o] = t]
    BY <1>5 DEF WcDisconnect
  <2> QED
    BY <2>1, <2>2, <2>3, SessionKept
<1>6. ASSUME NEW o \in WcOps, WcSign(o) PROVE SessionInv'
  <2>1. ConnectionBacked'
    BY <1>0, <1>6, ConnectionKept DEF WcSign
  <2>2. KnownTopic # WcNone => KnownTopic \notin WcUnsupported
    BY <1>0 DEF ConnectionBacked, KnownTopic
  <2>3. WcFunctions' /\ \A p \in WcOps : p # o => wcOp'[p] = wcOp[p] /\ wcTopic'[p] = wcTopic[p]
    BY <1>6 DEF WcSign, WcGoto, SessionInv, WcFunctions
  <2>4. wcOp'[o] = "restore" => KnownTopic # WcNone /\ wcTopic'[o] = KnownTopic
    BY <1>6 DEF WcSign, WcGoto, SessionInv, WcFunctions
  <2> QED
    BY <2>1, <2>2, <2>3, <2>4 DEF SessionInv, RestoresWhatSigns
<1>7. ASSUME NEW o \in WcOps, Restored(o) PROVE SessionInv'
  <2>1. wcTopic[o] \notin WcUnsupported \cup {WcNone}
    BY <1>7 DEF Restored, WcGoto, SessionInv, RestoresWhatSigns
  <2>2. ConnectionBacked'
    BY <1>0, <1>7, <2>1 DEF Restored, ConnectionBacked
  <2> DEFINE to == IF wcTopic[o] \in WcUnsupported THEN "failed" ELSE "request"
  <2>3. to # "restore" /\ wcOp' = [wcOp EXCEPT ![o] = to]
    BY <1>7 DEF Restored, WcGoto
  <2> HIDE DEF to
  <2> QED
    BY <1>7, <2>2, <2>3, SessionKept DEF Restored
<1>8. CASE UNCHANGED wcVars \/ (\E t \in WcTopics : WalletEnds(t))
           \/ \E o \in WcOps, t \in WcTopics : ApprovedLate(o, t)
  BY <1>8 DEF wcVars, wcState, wcCalls, WalletEnds, ApprovedLate, SessionInv, WcFunctions,
              ConnectionBacked, RestoresWhatSigns
<1>9. CASE PageReload
  BY <1>9, WalletConnectAssumption
  DEF PageReload, SessionInv, WcFunctions, ConnectionBacked, RestoresWhatSigns
<1> QED
  BY <1>1, <1>3, <1>4, <1>5, <1>6, <1>7, <1>8, <1>9 DEF WalletConnectNext

(* A connection that is shown has a session behind it, and what is         *)
(* remembered can sign, however connect, reconnect, disconnect and         *)
(* signTransaction interleave and the page is loaded again.                *)
THEOREM ConnectionsAreBacked == WalletConnectSpec => []ConnectionBacked
<1>1. SessionInv => ConnectionBacked
  BY DEF SessionInv
<1> QED
  BY SessionInit, SessionStep, <1>1, PTL DEF WalletConnectSpec
-----------------------------------------------------------------------------
(* FreighterSession.  While the API of the extension is loading for a      *)
(* call, the session it looked at is there, or has lapsed since.           *)
HeldOrLapsed == \A o \in Loading : o \in frLapsed \/ Valid(frSession)

FreighterTypes == frAccount \in FrAccounts /\ frOp = [o \in FrOps |-> frOp[o]]

LEMMA FreshIsValid ==
  ASSUME frAccount \in FrAccounts, frSession' = <<frAccount, "valid">>
  PROVE  Valid(frSession')
<1>1. <<frAccount, "valid">> # FrNone
  BY FreighterAssumption
<1> QED
  BY <1>1 DEF Valid

(* What a step does to the session and to who is loading. *)
Held == Loading' \subseteq Loading /\ UNCHANGED frHeld
Lapses == Loading' \subseteq Loading /\ frLapsed' = frLapsed \cup Loading
Renews == frLapsed' = frLapsed /\ Valid(frSession')

LEMMA HeldOrLapsedKept == HeldOrLapsed /\ (Held \/ Lapses \/ Renews) => HeldOrLapsed'
  BY DEF HeldOrLapsed, Held, Lapses, Renews, Valid, frHeld

LEMMA FreighterStep ==
  FreighterTypes /\ [FreighterNext]_frVars => FreighterTypes' /\ (Held \/ Lapses \/ Renews)
<1> SUFFICES ASSUME FreighterTypes, [FreighterNext]_frVars
             PROVE  FreighterTypes' /\ (Held \/ Lapses \/ Renews)
  OBVIOUS
<1>1. ASSUME UNCHANGED frOp PROVE Loading' \subseteq Loading
  BY <1>1 DEF Loading
<1>2. ASSUME \/ \E a \in FrAccounts : SwitchAccount(a)
             \/ \E n \in FrNetworks : SwitchNetwork(n)
             \/ ContextLost \/ ContextBack \/ WatcherNext \/ UNCHANGED frVars
      PROVE  FreighterTypes' /\ Held
  BY <1>1, <1>2
  DEF SwitchAccount, SwitchNetwork, ContextLost, ContextBack, WatcherNext, WatcherLoads,
      NetworkReported, StopWatching, frVars, frCalls, frUser, FreighterTypes, Held
<1>3. ASSUME SessionExpires \/ Disconnect \/ IsConnected
      PROVE  FreighterTypes' /\ (Held \/ Lapses)
  BY <1>1, <1>3
  DEF SessionExpires, Disconnect, IsConnected, NoticeLoss, SessionBecomes, frCalls, frUser,
      FreighterTypes, Held, Lapses
<1>4. ASSUME NEW o \in FrOps,
             \/ Connect(o) \/ AccessGranted(o) \/ Connected(o) \/ WrongNetwork(o)
             \/ Reconnect(o) \/ AddressRead(o) \/ SessionChecked(o)
             \/ PopupOpens(o) \/ Approved(o) \/ SignTimeout(o) \/ LateAnswer(o)
      PROVE  FreighterTypes' /\ Held
  <2>1. UNCHANGED frHeld /\ UNCHANGED frUser
    BY <1>4
    DEF Connect, AccessGranted, Connected, WrongNetwork, Reconnect, AddressRead, SessionChecked,
        PopupOpens, Approved, SignTimeout, LateAnswer
  <2>2. \/ UNCHANGED frOp
        \/ \E to : /\ frOp' = [frOp EXCEPT ![o] = to]
                   /\ to \in {"loading", "late"} => frOp[o] \in {"loading", "late"}
    BY <1>4
    DEF Connect, AccessGranted, Connected, WrongNetwork, Reconnect, AddressRead, SessionChecked,
        PopupOpens, Approved, SignTimeout, LateAnswer, FrGoto
  <2>3. FreighterTypes' /\ Loading' \subseteq Loading
    BY <2>1, <2>2 DEF FreighterTypes, Loading, frUser
  <2> QED
    BY <2>1, <2>3 DEF Held
<1>5. ASSUME NEW o \in FrOps,
             ConnectFails(o) \/ ReconnectFails(o) \/ RefreshFails(o) \/ LoadFails(o) \/ Declined(o)
      PROVE  FreighterTypes' /\ (Held \/ Lapses)
  <2>1. (UNCHANGED frHeld \/ frLapsed' = frLapsed \cup Loading) /\ UNCHANGED frUser
    BY <1>5
    DEF ConnectFails, ReconnectFails, RefreshFails, LoadFails, Declined, FrFails, ErrorAnswer,
        NoticeLoss, SessionBecomes
  <2>2. \E to : to \notin {"loading", "late"} /\ frOp' = [frOp EXCEPT ![o] = to]
    BY <1>5
    DEF ConnectFails, ReconnectFails, RefreshFails, LoadFails, Declined, FrFails, FrGoto
  <2>3. FreighterTypes' /\ Loading' \subseteq Loading
    BY <2>1, <2>2 DEF FreighterTypes, Loading, frUser
  <2> QED
    BY <2>1, <2>3 DEF Held, Lapses
<1>6. ASSUME NEW o \in FrOps, Sign(o) PROVE FreighterTypes' /\ (Held \/ Renews)
  <2>1. FreighterTypes'
    BY <1>6 DEF Sign, FrGoto, FreighterTypes, frUser
  <2>2. ~Valid(frSession) => Loading' \subseteq Loading
    BY <1>6 DEF Sign, FrGoto, FreighterTypes, Loading
  <2>3. Valid(frSession) => Renews
    BY <1>6 DEF Sign, frHeld, Renews, Valid
  <2> QED
    BY <1>6, <2>1, <2>2, <2>3 DEF Sign, Held
<1>7. ASSUME NEW o \in FrOps, SessionRenewed(o) \/ Refreshed(o) PROVE FreighterTypes' /\ Renews
  <2>1. Valid(frSession')
    BY <1>7, FreshIsValid DEF SessionRenewed, Refreshed, FreighterTypes
  <2> QED
    BY <1>7, <2>1 DEF SessionRenewed, Refreshed, FrGoto, FreighterTypes, frUser, Renews
<1> QED
  BY <1>2, <1>3, <1>4, <1>5, <1>6, <1>7
  DEF FreighterNext, FreighterUserNext, FreighterCallsNext

(* A step that opens a popup is that of a call which was loading. *)
LEMMA PopupsComeFromLoading ==
  ASSUME FreighterNext, NEW o \in frPopups' \ frPopups
  PROVE  o \in Loading
<1>1. ASSUME NEW p \in FrOps, PopupOpens(p) PROVE o = p /\ p \in Loading
  BY <1>1 DEF PopupOpens, FrGoto, Loading
<1>2. ASSUME NEW p \in FrOps,
             \/ Connect(p) \/ AccessGranted(p) \/ Connected(p) \/ WrongNetwork(p)
             \/ ConnectFails(p) \/ Reconnect(p) \/ AddressRead(p) \/ ReconnectFails(p)
             \/ SessionChecked(p) \/ SessionRenewed(p) \/ Sign(p) \/ Refreshed(p)
             \/ RefreshFails(p) \/ LoadFails(p) \/ Approved(p) \/ Declined(p)
             \/ SignTimeout(p) \/ LateAnswer(p)
      PROVE  frPopups' \subseteq frPopups
  BY <1>2
  DEF Connect, AccessGranted, Connected, WrongNetwork, ConnectFails, FrFails, Reconnect,
      AddressRead, ReconnectFails, SessionChecked, SessionRenewed, Sign, Refreshed,
      RefreshFails, LoadFails, Approved, Declined, SignTimeout, LateAnswer
<1>3. FreighterUserNext \/ WatcherNext \/ SessionExpires \/ Disconnect \/ IsConnected
      => frPopups' = frPopups
  BY DEF FreighterUserNext, SwitchAccount, SwitchNetwork, ContextLost, ContextBack, WatcherNext,
         WatcherLoads, NetworkReported, StopWatching, SessionExpires, Disconnect, IsConnected,
         frCalls
<1> QED
  BY <1>1, <1>2, <1>3 DEF FreighterNext, FreighterCallsNext

(* A popup opens only for a call that found or made a valid session, and   *)
(* nothing but its expiry, disconnect() or a lost context can have taken   *)
(* that session meanwhile (ensureValidSession() and signTransaction() of   *)
(* wallet.ts).                                                             *)
THEOREM PopupsAfterCheck == FreighterSpec => PopupAfterCheck
<1> DEFINE Inv == FreighterTypes /\ HeldOrLapsed
<1>1. FreighterInit => Inv
  BY DEF FreighterInit, FreighterTypes, HeldOrLapsed, Loading
<1>2. Inv /\ [FreighterNext]_frVars => Inv'
  BY FreighterStep, HeldOrLapsedKept
<1>3. Inv /\ [FreighterNext]_frVars
      => [\A o \in frPopups' \ frPopups :
            o \in frLapsed \/ (frSession # FrNone /\ frSession[2] = "valid")]_frVars
  BY PopupsComeFromLoading DEF HeldOrLapsed, Valid
<1> QED
  BY <1>1, <1>2, <1>3, PTL DEF FreighterSpec, PopupAfterCheck
-----------------------------------------------------------------------------
(* ReactHooks: the query.  What is shown follows from two facts more: of a *)
(* committed component a run that is not cancelled is for the input and    *)
(* the client of the last render, and the slots of runs to come are empty. *)
QueryTypes ==
  /\ rhInput \in RhInputs \cup {RhNone} /\ rhClient \in Nat
  /\ rhRun \in 0..MaxRuns /\ rhData \in 0..rhRun
  /\ rhRuns \in [1..MaxRuns -> QueryRuns \cup {RhNone}]
  /\ \A n \in 1..MaxRuns : rhRuns[n] = RhNone <=> n > rhRun
  /\ rhState \in [loading : BOOLEAN, error : BOOLEAN, isStale : BOOLEAN]

LiveRunsFit ==
  rhPhase = "committed" =>
    \A n \in 1..rhRun : ~rhRuns[n].cancelled =>
      rhRuns[n].input = rhInput /\ rhRuns[n].client = rhClient

QueryInv == QueryTypes /\ LiveRunsFit /\ ShowsWhatIsAsked

LEMMA QueryInit == ReactInit => QueryInv
  BY ReactHooksAssumption
  DEF ReactInit, QueryState, QueryInv, QueryTypes, LiveRunsFit, ShowsWhatIsAsked

LEMMA RunsAreNotNone == RhNone \notin QueryRuns /\ RhNone \notin RhInputs /\ MaxRuns \in Nat \ {0}
  BY ReactHooksAssumption

(* All runs cancelled, and a new one for the last render or none.          *)
LEMMA StartedQuery ==
  ASSUME QueryTypes, StartQuery(CancelRuns(rhRuns)), UNCHANGED <<rhInput, rhClient>>
  PROVE  QueryInv'
<1> USE RunsAreNotNone DEF QueryTypes
<1> DEFINE runs == CancelRuns(rhRuns)
<1>1. /\ runs \in [1..MaxRuns -> QueryRuns \cup {RhNone}]
      /\ \A n \in 1..MaxRuns : runs[n] = RhNone <=> n > rhRun
      /\ \A n \in 1..rhRun : runs[n].cancelled
  <2>1. \A n \in 1..MaxRuns : runs[n] = IF n > rhRun THEN RhNone
                                        ELSE [rhRuns[n] EXCEPT !.cancelled = TRUE]
    BY DEF CancelRuns
  <2>2. runs = [n \in 1..MaxRuns |-> runs[n]]
    BY DEF CancelRuns
  <2> HIDE DEF runs
  <2>3. ASSUME NEW n \in 1..rhRun
        PROVE  n \in 1..MaxRuns /\ runs[n] \in QueryRuns /\ runs[n].cancelled
    <3>1. n \in 1..MaxRuns /\ ~(n > rhRun)
      OBVIOUS
    <3>2. rhRuns[n] \in QueryRuns
      BY <3>1
    <3>3. runs[n] = [rhRuns[n] EXCEPT !.cancelled = TRUE]
      BY <2>1, <3>1
    <3> QED
      BY <3>1, <3>2, <3>3 DEF QueryRuns
  <2>4. \A n \in 1..MaxRuns : n > rhRun \/ n \in 1..rhRun
    OBVIOUS
  <2>5. ASSUME NEW n \in 1..MaxRuns
        PROVE  runs[n] \in QueryRuns \cup {RhNone} /\ (runs[n] = RhNone <=> n > rhRun)
    <3>1. CASE n > rhRun
      BY <2>1, <3>1
    <3>2. CASE n \in 1..rhRun
      <4>1. runs[n] \in QueryRuns
        BY <2>3, <3>2
      <4> QED
        BY <4>1, <3>2
    <3> QED
      BY <2>4, <3>1, <3>2
  <2> QED
    BY <2>2, <2>3, <2>5
<1> HIDE DEF runs
<1>2. CASE rhInput = RhNone
  <2>1. /\ rhRuns' = runs /\ rhRun' = rhRun /\ rhData' = 0
        /\ rhState' = [loading |-> FALSE, error |-> FALSE, isStale |-> FALSE]
    BY <1>2 DEF StartQuery, QueryState, runs
  <2>2. QueryTypes'
    BY <1>1, <2>1
  <2>3. LiveRunsFit'
    BY <1>1, <2>1 DEF LiveRunsFit
  <2>4. ~rhState'.loading /\ rhData' = 0 /\ rhInput' = RhNone
    BY <1>2, <2>1
  <2> QED
    BY <2>2, <2>3, <2>4 DEF QueryInv, ShowsWhatIsAsked, LoadingHasARequest
<1>3. CASE rhInput # RhNone
  <2> DEFINE run == [input |-> rhInput, client |-> rhClient, cancelled |-> FALSE, pending |-> TRUE]
  <2>1. /\ rhRuns' = [runs EXCEPT ![rhRun + 1] = run] /\ rhRun' = rhRun + 1 /\ rhRun < MaxRuns
        /\ rhData' = rhData
        /\ rhState' = [loading |-> TRUE, error |-> FALSE, isStale |-> TRUE]
    BY <1>3 DEF StartQuery, QueryState, runs
  <2>2. run \in QueryRuns
    BY <1>3 DEF QueryRuns
  <2>3. /\ run.input = rhInput /\ run.client = rhClient /\ ~run.cancelled /\ run.pending
    OBVIOUS
  <2> HIDE DEF run
  <2>4. /\ rhRuns'[rhRun'] = run
        /\ \A n \in 1..MaxRuns : n # rhRun' => rhRuns'[n] = runs[n]
        /\ rhRuns' \in [1..MaxRuns -> QueryRuns \cup {RhNone}]
    BY <1>1, <2>1, <2>2
  <2>5. QueryTypes'
    <3>1. run # RhNone
      BY <2>2
    <3> QED
      BY <1>1, <2>1, <2>2, <2>4, <3>1
  <2>6. LiveRunsFit'
    BY <1>1, <2>1, <2>3, <2>4 DEF LiveRunsFit
  <2>7. ShowsWhatIsAsked'
    BY <2>1, <2>3, <2>4 DEF ShowsWhatIsAsked, LoadingHasARequest
  <2> QED
    BY <2>5, <2>6, <2>7 DEF QueryInv
<1> QED
  BY <1>2, <1>3

(* The request of run n ends: all but `pending` of it stays.               *)
LEMMA EndedRequest ==
  ASSUME QueryInv, NEW n \in 1..MaxRuns, RequestEnds(n)
  PROVE  /\ n \in 1..rhRun
         /\ rhRuns' \in [1..MaxRuns -> QueryRuns \cup {RhNone}]
         /\ \A m \in 1..MaxRuns : rhRuns'[m] = RhNone <=> m > rhRun
         /\ \A m \in 1..rhRun :
              /\ rhRuns'[m].input = rhRuns[m].input /\ rhRuns'[m].client = rhRuns[m].client
              /\ rhRuns'[m].cancelled = rhRuns[m].cancelled
              /\ m # n => rhRuns'[m].pending = rhRuns[m].pending
<1> USE RunsAreNotNone DEF QueryInv, QueryTypes
<1>1. n \in 1..rhRun /\ rhRuns' = [rhRuns EXCEPT ![n] = [rhRuns[n] EXCEPT !.pending = FALSE]]
  BY DEF RequestEnds
<1>2. rhRuns[n] \in QueryRuns
  BY <1>1
<1> DEFINE run == [rhRuns[n] EXCEPT !.pending = FALSE]
<1>3. run \in QueryRuns /\ run # RhNone /\ run.input = rhRuns[n].input
      /\ run.client = rhRuns[n].client /\ run.cancelled = rhRuns[n].cancelled
  BY <1>2 DEF QueryRuns
<1> HIDE DEF run
<1>4. rhRuns' = [rhRuns EXCEPT ![n] = run]
  BY <1>1 DEF run
<1>5. \A m \in 1..MaxRuns : rhRuns'[m] = IF m = n THEN run ELSE rhRuns[m]
  BY <1>4
<1>6. rhRuns' \in [1..MaxRuns -> QueryRuns \cup {RhNone}]
  BY <1>3, <1>4
<1>7. \A m \in 1..rhRun : m \in 1..MaxRuns
  OBVIOUS
<1>8. ASSUME NEW m \in 1..MaxRuns PROVE rhRuns'[m] = RhNone <=> m > rhRun
  <2>1. CASE m = n
    <3>1. ~(n > rhRun)
      BY <1>1
    <3> QED
      BY <1>3, <1>5, <2>1, <3>1
  <2>2. CASE m # n
    BY <1>5, <2>2
  <2> QED
    BY <2>1, <2>2
<1>9. ASSUME NEW m \in 1..rhRun
      PROVE  /\ rhRuns'[m].input = rhRuns[m].input /\ rhRuns'[m].client = rhRuns[m].client
             /\ rhRuns'[m].cancelled = rhRuns[m].cancelled
             /\ m # n => rhRuns'[m].pending = rhRuns[m].pending
  BY <1>3, <1>5, <1>7
<1> QED
  BY <1>1, <1>6, <1>8, <1>9

LEMMA EndedQuery ==
  ASSUME QueryInv, NEW n \in 1..MaxRuns, Answered(n) \/ RequestFails(n)
  PROVE  QueryInv'
<1> USE RunsAreNotNone DEF QueryInv, QueryTypes
<1>0. RequestEnds(n)
  BY DEF Answered, RequestFails
<1>1. UNCHANGED <<rhPhase, rhInput, rhClient, rhRun>>
  BY <1>0 DEF RequestEnds, rhClients
<1>2. n \in 1..rhRun /\ rhRuns[n] \in QueryRuns
  BY <1>0, EndedRequest
<1>3. CASE rhRuns[n].cancelled
  <2>1. UNCHANGED <<rhData, rhState>>
    BY <1>3 DEF Answered, RequestFails
  <2>2. QueryTypes' /\ LiveRunsFit'
    BY <2>1, <1>0, <1>1, EndedRequest DEF LiveRunsFit
  <2>3. ASSUME rhPhase = "committed", rhState.loading PROVE LoadingHasARequest'
    <3>1. rhRun \in 1..rhRun /\ rhRun # n
      BY <2>3, <1>3 DEF ShowsWhatIsAsked, LoadingHasARequest
    <3> QED
      BY <3>1, <2>3, <1>0, <1>1, EndedRequest DEF ShowsWhatIsAsked, LoadingHasARequest
  <2>4. ASSUME rhData # 0
        PROVE  rhRuns'[rhData].input = rhRuns[rhData].input /\ rhRuns'[rhData].client = rhRuns[rhData].client
    BY <2>4, <1>0, EndedRequest
  <2>5. ShowsWhatIsAsked'
    BY <2>1, <2>3, <2>4, <1>1 DEF ShowsWhatIsAsked, LoadingHasARequest
  <2> QED
    BY <2>2, <2>5
<1>4. CASE ~rhRuns[n].cancelled
  <2>1. rhPhase = "committed" => rhRuns'[n].input = rhInput /\ rhRuns'[n].client = rhClient
    BY <1>0, <1>2, <1>4, EndedRequest DEF LiveRunsFit
  <2>2. ~rhState'.loading /\ (~rhState'.error => rhData' = n)
        /\ rhState' \in [loading : BOOLEAN, error : BOOLEAN, isStale : BOOLEAN]
        /\ rhData' \in {n, rhData}
    <3>1. CASE Answered(n)
      <4>1. rhData' = n /\ rhState' = [loading |-> FALSE, error |-> FALSE, isStale |-> FALSE]
        BY <1>4, <3>1, Zenon DEF Answered, QueryState
      <4> QED
        BY <4>1
    <3>2. CASE RequestFails(n)
      <4>1. rhData' = rhData /\ rhState' = [loading |-> FALSE, error |-> TRUE, isStale |-> FALSE]
        BY <1>4, <3>2, Zenon DEF RequestFails, QueryState
      <4> QED
        BY <4>1
    <3> QED
      BY <3>1, <3>2
  <2>3. QueryTypes' /\ LiveRunsFit'
    BY <2>2, <1>0, <1>1, <1>2, EndedRequest DEF LiveRunsFit
  <2>4. ShowsWhatIsAsked'
    BY <2>1, <2>2, <1>1, <1>2 DEF ShowsWhatIsAsked, LoadingHasARequest
  <2> QED
    BY <2>3, <2>4
<1> QED
  BY <1>3, <1>4

LEMMA QueryStep == QueryInv /\ [ReactNext]_rhVars => QueryInv'
<1> SUFFICES ASSUME QueryInv, [ReactNext]_rhVars PROVE QueryInv'
  OBVIOUS
<1>1. CASE Effects \/ StrictRemount
  <2>1. StartQuery(CancelRuns(rhRuns)) /\ UNCHANGED <<rhInput, rhClient>>
    BY <1>1 DEF Effects, StrictRemount
  <2> QED
    BY <2>1, StartedQuery DEF QueryInv
<1>2. CASE RenderOptions \/ \E i \in RhInputs \cup {RhNone} : RenderInput(i)
  <2>1. /\ UNCHANGED rhQuery /\ rhPhase' # "committed"
        /\ rhInput' \in RhInputs \cup {RhNone} /\ rhClient' \in Nat
    BY <1>2 DEF RenderOptions, RenderInput, rhClients, QueryInv, QueryTypes
  <2> QED
    BY <2>1 DEF rhQuery, QueryInv, QueryTypes, LiveRunsFit, ShowsWhatIsAsked
<1>3. CASE Unmount
  <2> USE RunsAreNotNone DEF QueryInv, QueryTypes
  <2>1. /\ UNCHANGED <<rhInput, rhClient, rhRun, rhData, rhState>> /\ rhPhase' # "committed"
        /\ rhRuns' = CancelRuns(rhRuns)
    BY <1>3 DEF Unmount
  <2>2. \A n \in 1..MaxRuns : rhRuns[n] # RhNone =>
          [rhRuns[n] EXCEPT !.cancelled = TRUE] \in QueryRuns
    BY DEF QueryRuns
  <2>3. rhRuns' \in [1..MaxRuns -> QueryRuns \cup {RhNone}]
        /\ \A n \in 1..MaxRuns : rhRuns'[n] = RhNone <=> n > rhRun
    BY <2>1, <2>2 DEF CancelRuns
  <2> QED
    BY <2>1, <2>3 DEF LiveRunsFit, ShowsWhatIsAsked
<1>4. ASSUME NEW n \in 1..MaxRuns, Answered(n) \/ RequestFails(n) PROVE QueryInv'
  BY <1>4, EndedQuery
<1>5. CASE WalletNext \/ UNCHANGED rhVars
  <2>1. UNCHANGED <<rhPhase, rhInput, rhClients, rhQuery>>
    BY <1>5 DEF WalletNext, WalletEffect, WalletSwitches, NotConnected, NetworkRead, KeyRead,
                NetworkReadAgain, WalletFails, WalletAct, rhVars
  <2> QED
    BY <2>1 DEF rhClients, rhQuery, QueryInv, QueryTypes, LiveRunsFit, ShowsWhatIsAsked,
                LoadingHasARequest
<1> QED
  BY <1>1, <1>2, <1>3, <1>4, <1>5 DEF ReactNext, QueryNext

(* What a committed component shows as current answers what it asks for    *)
(* now, whatever the order in which requests end and effects run again     *)
(* (the query hooks of react/hooks.tsx).                                   *)
THEOREM CurrentIsShown == ReactSpec => []ShowsWhatIsAsked
<1>1. QueryInv => ShowsWhatIsAsked
  BY DEF QueryInv
<1> QED
  BY QueryInit, QueryStep, <1>1, PTL DEF ReactSpec
-----------------------------------------------------------------------------
(* CachedReads: what is cached.  An announcement is of a version that      *)
(* exists, and an answer on its way that is not marked as outdated, by a   *)
(* lagging node or by an announcement that overtook it, is no older than   *)
(* what was announced of the wills it will be indexed under.               *)
AnswersFollowEvents ==
  /\ version \in [Wills -> Nat] /\ announced \in [Wills -> Nat]
  /\ \A w \in Wills : announced[w] <= version[w]
  /\ ledgers \subseteq [Wills -> Nat]
  /\ cache = [q \in Queries |-> cache[q]]
  /\ read = [c \in Calls |-> read[c]] /\ seen = [c \in Calls |-> seen[c]]
  /\ \A c \in Calls : read[c] = "answer" /\ c \notin outdated =>
       \A w \in IndexOf(QueryOf[c], seen[c]) : seen[c][w] \in Nat /\ seen[c][w] >= announced[w]

EventInv == AnswersFollowEvents /\ CacheFollowsEvents

LEMMA IndexWithin ==
  ASSUME NEW q \in Queries, NEW data
  PROVE  IndexOf(q, data) \subseteq Covers[q] /\ Covers[q] \subseteq Wills
  BY CachedReadsAssumption DEF IndexOf

LEMMA EventsInit == Init => EventInv
  BY CachedReadsAssumption DEF Init, EventInv, AnswersFollowEvents, CacheFollowsEvents

(* The reads move: no answer comes about that was not one, entries stay or *)
(* go.                                                                     *)
LEMMA EventsKept ==
  ASSUME EventInv, UNCHANGED announced,
         version' \in [Wills -> Nat], \A w \in Wills : version[w] <= version'[w],
         ledgers' \subseteq [Wills -> Nat],
         cache' = [q \in Queries |-> cache'[q]],
         \A q \in Queries : cache'[q] \in {cache[q], None},
         read' = [c \in Calls |-> read'[c]], seen' = [c \in Calls |-> seen'[c]],
         \A c \in Calls : read'[c] = "answer" =>
           read[c] = "answer" /\ seen'[c] = seen[c] /\ (c \notin outdated' => c \notin outdated)
  PROVE  EventInv'
<1>1. AnswersFollowEvents'
  <2>1. \A w \in Wills : announced'[w] <= version'[w]
    BY DEF EventInv, AnswersFollowEvents
  <2> QED
    BY <2>1 DEF EventInv, AnswersFollowEvents
<1>2. CacheFollowsEvents'
  BY DEF EventInv, CacheFollowsEvents
<1> QED
  BY <1>1, <1>2 DEF EventInv

(* The simulation of c is over and may leave its result in the cache.      *)
LEMMA EventsSettle ==
  ASSUME EventInv, NEW c \in Calls, NEW outcome, Settle(c, outcome),
         \/ UNCHANGED cache
         \/ read[c] = "answer" /\ cache' = [cache EXCEPT ![QueryOf[c]] = Result(c)]
  PROVE  EventInv'
<1> USE DEF EventInv, AnswersFollowEvents
<1>1. UNCHANGED <<version, ledgers, announced>> /\ read' = [read EXCEPT ![c] = "none"]
      /\ seen' = [seen EXCEPT ![c] = None] /\ outdated' = outdated \ {c}
  BY DEF Settle, ledgerVars
<1>2. AnswersFollowEvents'
  <2>1. cache' = [q \in Queries |-> cache'[q]]
    OBVIOUS
  <2>2. \A d \in Calls : read'[d] = "answer" =>
          d # c /\ read[d] = "answer" /\ seen'[d] = seen[d] /\ (d \notin outdated' => d \notin outdated)
    BY <1>1
  <2> QED
    BY <1>1, <2>1, <2>2
<1>3. ASSUME NEW q \in Queries, cache'[q] # None, ~cache'[q].late,
             NEW w \in IndexOf(q, cache'[q].data)
      PROVE  cache'[q].data[w] >= announced'[w]
  <2>1. CASE cache'[q] = cache[q]
    BY <1>1, <1>3, <2>1 DEF CacheFollowsEvents
  <2>2. CASE cache'[q] # cache[q]
    <3>1. q = QueryOf[c] /\ read[c] = "answer" /\ cache'[q] = Result(c)
      BY <2>2
    <3>2. c \notin outdated /\ cache'[q].data = seen[c]
      <4>1. Result(c).data = seen[c] /\ (c \in outdated => Result(c).late)
        BY DEF Result
      <4> QED
        BY <1>3, <3>1, <4>1
    <3> QED
      BY <1>1, <1>3, <3>1, <3>2
  <2> QED
    BY <2>1, <2>2
<1> QED
  BY <1>2, <1>3 DEF CacheFollowsEvents

LEMMA EventsAnnounced ==
  ASSUME EventInv, NEW S \in SUBSET Wills, Announce(S), UNCHANGED <<version, ledgers>>
  PROVE  EventInv'
<1> USE DEF EventInv, AnswersFollowEvents
<1>1. /\ announced' = [w \in Wills |-> IF w \in S THEN version[w] ELSE announced[w]]
      /\ outdated' = outdated \cup
           {c \in Calls : read[c] = "answer" /\ Covers[QueryOf[c]] \cap S # {}}
      /\ UNCHANGED <<read, seen>>
  BY DEF Announce
<1>2. cache' = [q \in Queries |->
        IF cache[q] # None /\ IndexOf(q, cache[q].data) \cap S # {} THEN None ELSE cache[q]]
  BY DEF Announce, Invalidate
<1>3. AnswersFollowEvents'
  <2>1. announced' \in [Wills -> Nat] /\ \A w \in Wills : announced'[w] <= version'[w]
    BY <1>1
  <2>2. cache' = [q \in Queries |-> cache'[q]]
    BY <1>2
  <2>3. ASSUME NEW c \in Calls, read'[c] = "answer", c \notin outdated',
               NEW w \in IndexOf(QueryOf[c], seen'[c])
        PROVE  seen'[c][w] \in Nat /\ seen'[c][w] >= announced'[w]
    <3>1. c \notin outdated /\ w \notin S /\ w \in Wills
      BY <1>1, <2>3, IndexWithin, CachedReadsAssumption
    <3> QED
      BY <1>1, <2>3, <3>1
  <2> QED
    BY <1>1, <2>1, <2>2, <2>3
<1>4. ASSUME NEW q \in Queries, cache'[q] # None, ~cache'[q].late,
             NEW w \in IndexOf(q, cache'[q].data)
      PROVE  cache'[q].data[w] >= announced'[w]
  <2>1. cache'[q] = cache[q] /\ w \notin S
    BY <1>2, <1>4
  <2>2. w \in Wills
    BY <1>4, IndexWithin
  <2> QED
    BY <1>1, <1>4, <2>1, <2>2 DEF CacheFollowsEvents
<1> QED
  BY <1>3, <1>4 DEF CacheFollowsEvents

LEMMA EventsStep == EventInv /\ [Next]_vars => EventInv'
<1> SUFFICES ASSUME EventInv, [Next]_vars PROVE EventInv'
  OBVIOUS
<1> USE DEF EventInv, AnswersFollowEvents
<1>1. ASSUME NEW c \in Calls, CallStep(c) PROVE EventInv'
  <2>1. UNCHANGED <<version, ledgers, announced, cache, seen, outdated>> /\ read' \in {read, [read EXCEPT ![c] = "simulate"]}
    BY <1>1 DEF CallStep, Hit, ReadAlone, JoinRead, JoinTracked, StartRead, Begin, ledgerVars, readVars
  <2> QED
    BY <2>1, EventsKept
<1>2. ASSUME NEW c \in Calls, Simulate(c) PROVE EventInv'
  <2> DEFINE q == QueryOf[c]
  <2>1. PICK ledger \in ledgers :
          /\ seen' = [seen EXCEPT ![c] = Answer(q, ledger)]
          /\ outdated' = IF Behind(q, Answer(q, ledger)) THEN outdated \cup {c} ELSE outdated
    BY <1>2 DEF Simulate
  <2>2. /\ UNCHANGED <<version, ledgers, announced, cache>>
        /\ read' = [read EXCEPT ![c] = "answer"]
    BY <1>2 DEF Simulate, ReadGoto, ledgerVars
  <2>3. \A w \in IndexOf(q, Answer(q, ledger)) : Answer(q, ledger)[w] \in Nat /\ w \in Wills
    <3>1. ledger \in [Wills -> Nat] /\ q \in Queries
      BY CachedReadsAssumption
    <3> QED
      BY <3>1, IndexWithin DEF Answer
  <2>4. ASSUME c \notin outdated', NEW w \in IndexOf(q, seen'[c])
        PROVE  seen'[c][w] \in Nat /\ seen'[c][w] >= announced[w]
    <3>1. seen'[c] = Answer(q, ledger)
      BY <2>1
    <3>2. ~Behind(q, Answer(q, ledger))
      BY <2>1, <2>4
    <3> QED
      BY <2>3, <2>4, <3>1, <3>2 DEF Behind
  <2>5. AnswersFollowEvents'
    <3>1. ASSUME NEW d \in Calls, read'[d] = "answer", d \notin outdated'
          PROVE  \A w \in IndexOf(QueryOf[d], seen'[d]) : seen'[d][w] \in Nat /\ seen'[d][w] >= announced'[w]
      <4>1. CASE d = c
        BY <2>2, <2>4, <3>1, <4>1
      <4>2. CASE d # c
        BY <2>1, <2>2, <3>1, <4>2
      <4> QED
        BY <4>1, <4>2
    <3> HIDE DEF q
    <3> QED
      BY <2>1, <2>2, <3>1
  <2> QED
    BY <2>2, <2>5 DEF CacheFollowsEvents
<1>3. ASSUME NEW c \in Calls, Succeed(c) \/ ReadFails(c) \/ Abort(c) PROVE EventInv'
  BY <1>3, EventsSettle DEF Succeed, ReadFails, Abort, Fail
<1>4. ASSUME NEW c \in Calls, AttemptFails(c) \/ NextAttempt(c) PROVE EventInv'
  <2>1. /\ UNCHANGED <<version, ledgers, announced, cache>>
        /\ outdated' \in {outdated, outdated \ {c}}
        /\ read' \in {[read EXCEPT ![c] = "pause"], [read EXCEPT ![c] = "simulate"]}
        /\ seen' \in {seen, [seen EXCEPT ![c] = None]}
    BY <1>4 DEF AttemptFails, NextAttempt, ReadGoto, ledgerVars
  <2> QED
    BY <2>1, EventsKept
<1>5. ASSUME NEW w \in Wills, Write(w) \/ Create(w) PROVE EventInv'
  <2>1. UNCHANGED <<announced, cache, read, seen, outdated>>
    BY <1>5 DEF Write, Create, readVars
  <2>2. version' = [version EXCEPT ![w] = version[w] + 1]
    BY <1>5 DEF Write, Create
  <2>3. version' \in [Wills -> Nat] /\ \A x \in Wills : version[x] <= version'[x]
    BY <2>2
  <2>4. ledgers' \subseteq [Wills -> Nat]
    BY <1>5, <2>3 DEF Write, Create
  <2> QED
    BY <2>1, <2>3, <2>4, EventsKept
<1>6. ASSUME NEW S \in SUBSET Wills, Announce(S), UNCHANGED <<version, ledgers>> PROVE EventInv'
  BY <1>6, EventsAnnounced
<1>7. ASSUME NEW q \in Queries, Expire(q) \/ EntryAges(q) PROVE EventInv'
  <2>1. UNCHANGED <<version, ledgers, announced, read, seen, outdated>>
        /\ cache' \in {cache, [cache EXCEPT ![q] = None]}
    BY <1>7 DEF Expire, EntryAges, ledgerVars, readVars
  <2> QED
    BY <2>1, EventsKept
<1>8. CASE NetworkChanges \/ Destroy \/ UNCHANGED vars
  <2>1. UNCHANGED <<version, ledgers, announced, read, seen, outdated>>
        /\ cache' \in {cache, [q \in Queries |-> None]}
    BY <1>8 DEF NetworkChanges, Destroy, vars, ledgerVars, readVars
  <2> QED
    BY <2>1, EventsKept
<1>9. ASSUME NEW w \in Wills, EventArrives(w) PROVE EventInv'
  BY <1>6, <1>9 DEF EventArrives
<1>10. ASSUME NEW S \in SUBSET Wills, BatchEnds(S) PROVE EventInv'
  BY <1>6, <1>10 DEF BatchEnds
<1> QED
  BY <1>1, <1>2, <1>3, <1>4, <1>5, <1>7, <1>8, <1>9, <1>10 DEF Next, ReadsNext, ReadStep

(* No cached read is older than an event about it that was delivered,      *)
(* unless its answer was so when it was stored: given by a node behind the *)
(* event, or overtaken by the event ("cached will reads will be            *)
(* invalidated automatically when matching will events arrive").           *)
THEOREM EventsInvalidate == Spec => []CacheFollowsEvents
<1>1. EventInv => CacheFollowsEvents
  BY DEF EventInv
<1> QED
  BY EventsInit, EventsStep, <1>1, PTL DEF Spec
-----------------------------------------------------------------------------
(* CachedReads: who shares which simulation.  Both maps name only reads    *)
(* that may be shared and that go on, under their own key; a simulation    *)
(* that runs is waited for by the call that started it, and until          *)
(* destroy() the first map knows it.                                       *)
ReadTypes ==
  /\ call = [c \in Calls |-> call[c]] /\ read = [c \in Calls |-> read[c]]
  /\ source \in [Calls -> Calls \cup {None}]
  /\ inFlightReads \in [Keys -> (Calls \ WithSignal) \cup {None}]
  /\ entry \in [Queries -> (Calls \ WithSignal) \cup {None}]
  /\ \A c \in Calls : call[c] = "waiting" => source[c] \in Calls

ReadersWait == \A c \in Calls : read[c] \in Running => call[c] = "waiting" /\ source[c] = c

SharedFit ==
  /\ \A k \in Keys : inFlightReads[k] # None =>
       KeyOf(inFlightReads[k]) = k /\ call[inFlightReads[k]] = "waiting"
  /\ \A q \in Queries : entry[q] # None =>
       QueryOf[entry[q]] = q /\ read[entry[q]] \in Running

FirstMapKnows ==
  destroyed \/ \A c \in Calls \ WithSignal : read[c] \in Running => inFlightReads[KeyOf(c)] = c

SharingInv == ReadTypes /\ ReadersWait /\ SharedFit /\ FirstMapKnows /\ NobodyForgotten

LEMMA KeysOfCalls ==
  None \notin Calls /\ \A c \in Calls : QueryOf[c] \in Queries /\ KeyOf(c) \in Keys /\ KeyOf(c)[1] = QueryOf[c]
  BY CachedReadsAssumption DEF KeyOf, Keys

LEMMA SharingInit == Init => SharingInv
  BY CachedReadsAssumption
  DEF Init, SharingInv, ReadTypes, ReadersWait, SharedFit, FirstMapKnows, NobodyForgotten, Running

(* What the two maps name. *)
LEMMA SharedRead ==
  ASSUME SharingInv, NEW k \in Keys, inFlightReads[k] # None
  PROVE  /\ inFlightReads[k] \in Calls \ WithSignal /\ KeyOf(inFlightReads[k]) = k
         /\ call[inFlightReads[k]] = "waiting"
  BY DEF SharingInv, ReadTypes, SharedFit

LEMMA TrackedRead ==
  ASSUME SharingInv, NEW q \in Queries, entry[q] # None
  PROVE  /\ entry[q] \in Calls \ WithSignal /\ QueryOf[entry[q]] = q
         /\ read[entry[q]] \in Running
  BY DEF SharingInv, ReadTypes, SharedFit

(* A read moves, or stays where it is; an entry of the tracker goes. *)
LEMMA SharingKept ==
  ASSUME SharingInv, UNCHANGED <<call, source, inFlightReads, destroyed>>,
         read' = [c \in Calls |-> read'[c]],
         \A c \in Calls : read'[c] \in Running <=> read[c] \in Running,
         entry' = [q \in Queries |-> entry'[q]],
         \A q \in Queries : entry'[q] \in {entry[q], None}
  PROVE  SharingInv'
<1> USE KeysOfCalls DEF SharingInv, ReadTypes
<1>1. ReadTypes'
  OBVIOUS
<1>2. ReadersWait' /\ FirstMapKnows' /\ NobodyForgotten'
  BY DEF ReadersWait, FirstMapKnows, NobodyForgotten
<1>3. SharedFit'
  <2>1. ASSUME NEW k \in Keys, inFlightReads'[k] # None
        PROVE  KeyOf(inFlightReads'[k]) = k /\ call'[inFlightReads'[k]] = "waiting"
    BY <2>1, SharedRead
  <2>2. ASSUME NEW q \in Queries, entry'[q] # None
        PROVE  QueryOf[entry'[q]] = q /\ read'[entry'[q]] \in Running
    BY <2>2, TrackedRead
  <2> QED
    BY <2>1, <2>2 DEF SharedFit
<1> QED
  BY <1>1, <1>2, <1>3

(* Call c goes to wait for the simulation of s, a shared one.              *)
LEMMA SharingJoined ==
  ASSUME SharingInv, NEW c \in Calls \ WithSignal, call[c] = "idle", NEW s \in Calls \ WithSignal,
         Await(c, s), read[s] \in Running, QueryOf[s] = QueryOf[c],
         UNCHANGED <<read, entry, destroyed>>,
         \/ UNCHANGED inFlightReads
         \/ inFlightReads[KeyOf(c)] = None /\ inFlightReads' = [inFlightReads EXCEPT ![KeyOf(c)] = c]
  PROVE  SharingInv'
<1> USE KeysOfCalls DEF SharingInv, ReadTypes
<1>1. /\ call' = [call EXCEPT ![c] = "waiting"] /\ source' = [source EXCEPT ![c] = s]
      /\ read[c] \notin Running
  BY DEF Await, ReadersWait
<1>2. ReadTypes'
  BY <1>1
<1>3. ReadersWait'
  BY <1>1 DEF ReadersWait
<1>4. SharedFit'
  <2>1. ASSUME NEW k \in Keys, inFlightReads'[k] # None
        PROVE  KeyOf(inFlightReads'[k]) = k /\ call'[inFlightReads'[k]] = "waiting"
    <3>1. CASE inFlightReads'[k] = inFlightReads[k]
      BY <1>1, <2>1, <3>1, SharedRead
    <3>2. CASE inFlightReads'[k] # inFlightReads[k]
      <4>1. k = KeyOf(c) /\ inFlightReads'[k] = c
        BY <3>2
      <4> QED
        BY <1>1, <4>1
    <3> QED
      BY <3>1, <3>2
  <2>2. ASSUME NEW q \in Queries, entry'[q] # None
        PROVE  QueryOf[entry'[q]] = q /\ read'[entry'[q]] \in Running
    BY <2>2, TrackedRead
  <2> QED
    BY <2>1, <2>2 DEF SharedFit
<1>5. FirstMapKnows'
  BY <1>1 DEF FirstMapKnows
<1>6. NobodyForgotten'
  BY <1>1 DEF NobodyForgotten
<1> QED
  BY <1>2, <1>3, <1>4, <1>5, <1>6

(* Call c starts a simulation, which is shared unless it has a signal.     *)
LEMMA SharingBegun ==
  ASSUME SharingInv, NEW c \in Calls, call[c] = "idle", Begin(c), UNCHANGED destroyed,
         \/ c \in WithSignal /\ UNCHANGED <<inFlightReads, entry>>
         \/ /\ c \notin WithSignal /\ inFlightReads[KeyOf(c)] = None
            /\ inFlightReads' = [inFlightReads EXCEPT ![KeyOf(c)] = c]
            /\ entry' = [entry EXCEPT ![QueryOf[c]] = c]
  PROVE  SharingInv'
<1> USE KeysOfCalls DEF SharingInv, ReadTypes
<1>1. /\ call' = [call EXCEPT ![c] = "waiting"] /\ source' = [source EXCEPT ![c] = c]
      /\ read' = [read EXCEPT ![c] = "simulate"] /\ "simulate" \in Running
  BY DEF Begin, Await, Running
<1>2. ReadTypes'
  <2>1. inFlightReads' \in [Keys -> (Calls \ WithSignal) \cup {None}]
        /\ entry' \in [Queries -> (Calls \ WithSignal) \cup {None}]
    OBVIOUS
  <2>2. source' \in [Calls -> Calls \cup {None}]
        /\ \A d \in Calls : call'[d] = "waiting" => source'[d] \in Calls
    BY <1>1
  <2>3. call' = [d \in Calls |-> call'[d]] /\ read' = [d \in Calls |-> read'[d]]
    BY <1>1
  <2> QED
    BY <2>1, <2>2, <2>3
<1>3. ReadersWait'
  BY <1>1 DEF ReadersWait
<1>4. SharedFit'
  <2>1. ASSUME NEW k \in Keys, inFlightReads'[k] # None
        PROVE  KeyOf(inFlightReads'[k]) = k /\ call'[inFlightReads'[k]] = "waiting"
    <3>1. CASE inFlightReads'[k] = inFlightReads[k]
      BY <1>1, <2>1, <3>1, SharedRead
    <3>2. CASE inFlightReads'[k] # inFlightReads[k]
      <4>1. k = KeyOf(c) /\ inFlightReads'[k] = c
        BY <3>2
      <4> QED
        BY <1>1, <4>1
    <3> QED
      BY <3>1, <3>2
  <2>2. ASSUME NEW q \in Queries, entry'[q] # None
        PROVE  QueryOf[entry'[q]] = q /\ read'[entry'[q]] \in Running
    <3>1. CASE entry'[q] = entry[q]
      BY <1>1, <2>2, <3>1, TrackedRead
    <3>2. CASE entry'[q] # entry[q]
      <4>1. q = QueryOf[c] /\ entry'[q] = c
        BY <3>2
      <4> QED
        BY <1>1, <4>1
    <3> QED
      BY <3>1, <3>2
  <2> QED
    BY <2>1, <2>2 DEF SharedFit
<1>5. FirstMapKnows'
  BY <1>1 DEF FirstMapKnows
<1>6. NobodyForgotten'
  BY <1>1 DEF NobodyForgotten
<1> QED
  BY <1>2, <1>3, <1>4, <1>5, <1>6

(* The simulation of c is over: those who wait for it are answered, and    *)
(* both maps let go of it in the same step.                                *)
LEMMA SharingSettled ==
  ASSUME SharingInv, NEW c \in Calls, NEW outcome \in {"ok", "failed"}, Settle(c, outcome)
  PROVE  SharingInv'
<1> USE KeysOfCalls DEF SharingInv, ReadTypes
<1>1. /\ UNCHANGED destroyed /\ read' = [read EXCEPT ![c] = "none"] /\ "none" \notin Running
      /\ call' = [d \in Calls |-> IF call[d] = "waiting" /\ source[d] = c THEN outcome ELSE call[d]]
      /\ source' = [d \in Calls |-> IF call[d] = "waiting" /\ source[d] = c THEN None ELSE source[d]]
  BY DEF Settle, WaitingFor, ledgerVars, Running
<1>2. /\ entry' = [q \in Queries |-> IF entry[q] = c THEN None ELSE entry[q]]
      /\ inFlightReads' = [k \in Keys |->
           IF inFlightReads[k] # None /\ source[inFlightReads[k]] = c THEN None ELSE inFlightReads[k]]
  BY DEF Settle, Unshare
<1>3. ReadTypes'
  BY <1>1, <1>2
<1>4. ReadersWait'
  BY <1>1 DEF ReadersWait
<1>5. SharedFit'
  <2>1. ASSUME NEW k \in Keys, inFlightReads'[k] # None
        PROVE  KeyOf(inFlightReads'[k]) = k /\ call'[inFlightReads'[k]] = "waiting"
    <3>1. inFlightReads'[k] = inFlightReads[k] /\ source[inFlightReads[k]] # c
          /\ inFlightReads[k] \in Calls
      BY <1>2, <2>1
    <3> QED
      BY <1>1, <2>1, <3>1, SharedRead
  <2>2. ASSUME NEW q \in Queries, entry'[q] # None
        PROVE  QueryOf[entry'[q]] = q /\ read'[entry'[q]] \in Running
    <3>1. entry'[q] = entry[q] /\ entry[q] # c /\ entry[q] \in Calls
      BY <1>2, <2>2
    <3> QED
      BY <1>1, <2>2, <3>1, TrackedRead
  <2> QED
    BY <2>1, <2>2 DEF SharedFit
<1>6. FirstMapKnows'
  BY <1>1, <1>2 DEF FirstMapKnows, ReadersWait
<1>7. NobodyForgotten'
  BY <1>1 DEF NobodyForgotten
<1> QED
  BY <1>3, <1>4, <1>5, <1>6, <1>7

LEMMA SharingStep == SharingInv /\ [Next]_vars => SharingInv'
<1> SUFFICES ASSUME SharingInv, [Next]_vars PROVE SharingInv'
  OBVIOUS
<1> USE KeysOfCalls DEF SharingInv, ReadTypes
<1>1. ASSUME NEW c \in Calls, Hit(c) PROVE SharingInv'
  <2>1. /\ call[c] = "idle" /\ call' = [call EXCEPT ![c] = "ok"]
        /\ UNCHANGED <<source, read, inFlightReads, entry, destroyed>>
    BY <1>1 DEF Hit, ledgerVars, readVars, shareVars
  <2>2. ReadTypes'
    BY <2>1
  <2>3. ASSUME NEW k \in Keys, inFlightReads'[k] # None
        PROVE  KeyOf(inFlightReads'[k]) = k /\ call'[inFlightReads'[k]] = "waiting"
    BY <2>1, <2>3, SharedRead
  <2>4. ASSUME NEW q \in Queries, entry'[q] # None
        PROVE  QueryOf[entry'[q]] = q /\ read'[entry'[q]] \in Running
    BY <2>1, <2>4, TrackedRead
  <2>5. SharedFit'
    BY <2>3, <2>4 DEF SharedFit
  <2> QED
    BY <2>1, <2>2, <2>5 DEF ReadersWait, FirstMapKnows, NobodyForgotten
<1>2. ASSUME NEW c \in Calls, ReadAlone(c) \/ StartRead(c) PROVE SharingInv'
  BY <1>2, SharingBegun DEF ReadAlone, StartRead, Miss, ledgerVars, shareVars
<1>3. ASSUME NEW c \in Calls, JoinRead(c) PROVE SharingInv'
  <2> DEFINE d == inFlightReads[KeyOf(c)]
  <2>1. d \in Calls \ WithSignal /\ KeyOf(d) = KeyOf(c) /\ call[d] = "waiting"
    <3>1. d # None /\ KeyOf(c) \in Keys
      BY <1>3 DEF JoinRead
    <3> QED
      BY <3>1, SharedRead
  <2>2. /\ source[d] \in Calls \ WithSignal /\ read[source[d]] \in Running
        /\ QueryOf[source[d]] = QueryOf[c]
    BY <2>1 DEF NobodyForgotten
  <2>3. Await(c, source[d]) /\ c \notin WithSignal /\ call[c] = "idle"
        /\ UNCHANGED <<read, entry, inFlightReads, destroyed>>
    BY <1>3 DEF JoinRead, Miss, ledgerVars, readVars, shareVars
  <2> HIDE DEF d
  <2> QED
    BY <2>2, <2>3, SharingJoined
<1>4. ASSUME NEW c \in Calls, JoinTracked(c) PROVE SharingInv'
  <2> DEFINE s == entry[QueryOf[c]]
  <2>1. s \in Calls \ WithSignal /\ QueryOf[s] = QueryOf[c] /\ read[s] \in Running
    BY <1>4 DEF JoinTracked, SharedFit
  <2>2. Await(c, s) /\ c \notin WithSignal /\ call[c] = "idle"
        /\ UNCHANGED <<read, entry, destroyed>> /\ inFlightReads[KeyOf(c)] = None
        /\ inFlightReads' = [inFlightReads EXCEPT ![KeyOf(c)] = c]
    BY <1>4 DEF JoinTracked, Miss, ledgerVars, readVars
  <2> HIDE DEF s
  <2> QED
    BY <2>1, <2>2, SharingJoined
<1>5. ASSUME NEW c \in Calls, Succeed(c) \/ ReadFails(c) \/ Abort(c) PROVE SharingInv'
  BY <1>5, SharingSettled DEF Succeed, ReadFails, Abort, Fail
<1>6. ASSUME NEW c \in Calls, Simulate(c) \/ AttemptFails(c) \/ NextAttempt(c) PROVE SharingInv'
  <2>1. /\ UNCHANGED <<call, source, inFlightReads, entry, destroyed>>
        /\ \E to \in Running : read[c] \in Running /\ read' = [read EXCEPT ![c] = to]
    BY <1>6 DEF Simulate, AttemptFails, NextAttempt, ReadGoto, callVars, shareVars, ledgerVars, Running
  <2> QED
    BY <2>1, SharingKept
<1>7. ASSUME NEW q \in Queries, EntryAges(q) PROVE SharingInv'
  BY <1>7, SharingKept DEF EntryAges, callVars, readVars, ledgerVars
<1>8. CASE Destroy
  <2>1. /\ UNCHANGED <<call, source, read>> /\ destroyed'
        /\ inFlightReads' = [k \in Keys |-> None] /\ entry' = [q \in Queries |-> None]
    BY <1>8 DEF Destroy, callVars, readVars
  <2> QED
    BY <2>1 DEF ReadersWait, SharedFit, FirstMapKnows, NobodyForgotten
<1>9. CASE \/ \E w \in Wills : Write(w) \/ Create(w) \/ EventArrives(w)
           \/ \E S \in SUBSET Wills : BatchEnds(S)
           \/ \E q \in Queries : Expire(q)
           \/ NetworkChanges \/ UNCHANGED vars
  <2>1. UNCHANGED <<call, source, read, inFlightReads, entry, destroyed>>
    BY <1>9 DEF Write, Create, EventArrives, BatchEnds, Announce, Expire, NetworkChanges, vars,
                callVars, readVars, shareVars, ledgerVars
  <2> QED
    BY <2>1, SharingKept
<1> QED
  BY <1>1, <1>2, <1>3, <1>4, <1>5, <1>6, <1>7, <1>8, <1>9 DEF Next, ReadsNext, CallStep, ReadStep

(* Every caller that waits is waiting for a read of its query that goes    *)
(* on, and equal reads are one simulation until destroy(), whatever        *)
(* expires or is evicted meanwhile (#504, #619).                           *)
THEOREM ReadsShared == Spec => []ReadsAreShared
<1>1. SharingInv => ReadsAreShared
  <2> SUFFICES ASSUME SharingInv PROVE OneSimulation
    BY DEF SharingInv, ReadsAreShared
  <2> QED
    BY DEF SharingInv, FirstMapKnows, OneSimulation
<1> QED
  BY SharingInit, SharingStep, <1>1, PTL DEF Spec
-----------------------------------------------------------------------------
(* CacheStores.  A change under way has the lock or needs none, and what   *)
(* it has read is what localStorage holds still, or a deletion without the *)
(* lock has raced.                                                         *)
StPhases == {"idle", "waiting", "read", "opening", "transaction", "done", "swallowed", "failed"}
StUnderWay == {"read", "opening", "transaction"}

StTypes ==
  /\ stLock \in Seq(StOps)
  /\ stOp \in [StOps -> [verb : StVerbs \cup {"none"}, key : StKeys \cup {StNone}, phase : StPhases]]
  /\ stRead = [o \in StOps |-> stRead[o]]

AtHead(o) == stLock # <<>> /\ Head(stLock) = o

UnderLock ==
  \A o \in StOps : stOp[o].phase \in StUnderWay => o \in stLoose \/ AtHead(o)

ReadIsHeld ==
  \A o \in StOps : stOp[o].phase = "read" =>
    stKind = "local" /\ (stRaced \/ stRead[o] = stStore)

StoreInv == StTypes /\ UnderLock /\ ReadIsHeld /\ StoreIsSerial

LEMMA StoreInit == CacheStoresInit => StoreInv
  BY DEF CacheStoresInit, StoreInv, StTypes, UnderLock, ReadIsHeld, StoreIsSerial, StPhases, StUnderWay

LEMMA PhaseGoes ==
  ASSUME StTypes, NEW o \in StOps, NEW phase \in StPhases, StGoto(o, phase)
  PROVE  /\ stOp' \in [StOps -> [verb : StVerbs \cup {"none"}, key : StKeys \cup {StNone}, phase : StPhases]]
         /\ stOp'[o].phase = phase
         /\ \A p \in StOps : p # o => stOp'[p] = stOp[p]
<1>1. stOp[o] \in [verb : StVerbs \cup {"none"}, key : StKeys \cup {StNone}, phase : StPhases]
  BY DEF StTypes
<1> DEFINE op == [stOp[o] EXCEPT !.phase = phase]
<1>2. /\ op \in [verb : StVerbs \cup {"none"}, key : StKeys \cup {StNone}, phase : StPhases]
      /\ op.phase = phase
  BY <1>1
<1>3. stOp' = [stOp EXCEPT ![o] = op]
  BY DEF StGoto
<1> HIDE DEF op
<1> QED
  BY <1>2, <1>3 DEF StTypes

(* What is under way after a change has settled was so before, and has the *)
(* lock or needs none.                                                     *)
LEMMA StoreSettles ==
  ASSUME StoreInv, NEW o \in StOps, o \in stLoose \/ AtHead(o), UNCHANGED <<stLoose, stRead>>,
         NEW outcome \in {"done", "swallowed", "failed"}, StSettle(o, outcome)
  PROVE  /\ StTypes' /\ UnderLock'
         /\ \A p \in StOps : stOp'[p].phase = "read" => p # o /\ stOp[p].phase = "read"
<1>1. StGoto(o, outcome) /\ outcome \in StPhases \ StUnderWay
      /\ stLock' = IF o \in stLoose THEN stLock ELSE Tail(stLock)
  BY DEF StSettle, StPhases, StUnderWay
<1>2. StTypes'
  BY <1>1, PhaseGoes DEF StoreInv, StTypes, AtHead
<1>3. \A p \in StOps : stOp'[p].phase \in StUnderWay => p # o /\ stOp'[p] = stOp[p]
  BY <1>1, PhaseGoes DEF StoreInv
<1>4. UnderLock'
  BY <1>1, <1>3 DEF StoreInv, UnderLock, AtHead
<1> QED
  BY <1>2, <1>3, <1>4 DEF StUnderWay

(* It ends without an effect. *)
LEMMA StoreGivenUp ==
  ASSUME StoreInv, NEW o \in StOps, o \in stLoose \/ AtHead(o),
         UNCHANGED <<stLoose, stRead, stStore, stSerial, stRaced, stKind>>,
         NEW outcome \in {"done", "swallowed", "failed"}, StSettle(o, outcome)
  PROVE  StoreInv'
BY StoreSettles DEF StoreInv, ReadIsHeld, StoreIsSerial

(* It is carried out: when it does not race, nothing else has read.        *)
LEMMA StoreCarriedOut ==
  ASSUME StoreInv, NEW o \in StOps, o \in stLoose \/ AtHead(o),
         UNCHANGED <<stLoose, stRead, stKind>>,
         NEW document, stOp[o].phase = "read" => document = stRead[o],
         stOp[o].phase # "read" => document = stStore,
         StCarryOut(o, document)
  PROVE  StoreInv'
<1>1. /\ stStore' = StEffect(o, document) /\ stSerial' = StEffect(o, stSerial)
      /\ stRaced' = (Races(o) \/ (stRaced /\ stOp[o].verb # "clear")) /\ StSettle(o, "done")
  BY DEF StCarryOut
<1>2. /\ StTypes' /\ UnderLock'
      /\ \A p \in StOps : stOp'[p].phase = "read" => p # o /\ stOp[p].phase = "read"
  BY <1>1, StoreSettles
<1>3. ASSUME NEW p \in StOps, p # o, stOp[p].phase = "read" PROVE stKind = "local" /\ Races(o)
  <2>1. p \in stLoose \/ o \in stLoose
    BY <1>3 DEF StoreInv, UnderLock, AtHead, StUnderWay
  <2> QED
    BY <1>3, <2>1 DEF Races, StAt, StoreInv, ReadIsHeld
<1>4. ReadIsHeld'
  BY <1>1, <1>2, <1>3 DEF ReadIsHeld
<1>5. StoreIsSerial'
  <2>1. CASE Races(o)
    BY <1>1, <2>1 DEF Races, StAt, StoreInv, ReadIsHeld, StoreIsSerial
  <2>2. CASE stOp[o].verb = "clear"
    <3>1. StEffect(o, document) = StEffect(o, stSerial)
      BY <2>2 DEF StEffect
    <3> QED
      BY <1>1, <3>1 DEF StoreIsSerial
  <2>3. CASE ~Races(o) /\ stOp[o].verb # "clear"
    <3>1. CASE stRaced
      BY <1>1, <2>3, <3>1 DEF StoreInv, StoreIsSerial, ReadIsHeld
    <3>2. CASE ~stRaced
      <4>1. document = stSerial
        BY <3>2 DEF StoreInv, StoreIsSerial, ReadIsHeld
      <4> QED
        BY <1>1, <4>1 DEF StoreIsSerial
    <3> QED
      BY <3>1, <3>2
  <2> QED
    BY <2>1, <2>2, <2>3
<1> QED
  BY <1>2, <1>4, <1>5 DEF StoreInv

(* It goes on, with the lock or without need of it. *)
LEMMA StoreGoesOn ==
  ASSUME StoreInv, NEW o \in StOps, o \in stLoose \/ AtHead(o),
         NEW phase \in StUnderWay, StGoto(o, phase),
         UNCHANGED <<stStore, stSerial, stLock, stLoose, stRaced, stKind>>,
         phase = "read" => stKind = "local" /\ stRead'[o] = stStore,
         \A p \in StOps : p # o => stRead'[p] = stRead[p],
         stRead' = [p \in StOps |-> stRead'[p]]
  PROVE  StoreInv'
<1>1. phase \in StPhases
  BY DEF StPhases, StUnderWay
<1>2. StTypes'
  BY <1>1, PhaseGoes DEF StoreInv, StTypes
<1>3. stOp'[o].phase = phase /\ \A p \in StOps : p # o => stOp'[p] = stOp[p]
  BY <1>1, PhaseGoes DEF StoreInv
<1>4. UnderLock'
  BY <1>3 DEF StoreInv, UnderLock, AtHead
<1>5. ReadIsHeld'
  BY <1>3 DEF StoreInv, ReadIsHeld
<1> QED
  BY <1>2, <1>4, <1>5 DEF StoreInv, StoreIsSerial

LEMMA StoreCalled ==
  ASSUME StoreInv, NEW o \in StOps, NEW verb \in StVerbs, NEW key \in StKeys,
         stOp' = [stOp EXCEPT ![o] = [verb |-> verb, key |-> key, phase |-> "waiting"]],
         \/ stLock' = Append(stLock, o) /\ stLoose' = stLoose
         \/ stLock' = stLock /\ stLoose' = stLoose \cup {o},
         UNCHANGED <<stStore, stSerial, stRead, stRaced, stKind>>
  PROVE  StoreInv'
<1>1. StTypes'
  BY DEF StoreInv, StTypes, StPhases
<1>2. stLock # <<>> => stLock' # <<>> /\ Head(stLock') = Head(stLock)
  BY DEF StoreInv, StTypes
<1>3. \A p \in StOps : stOp'[p].phase \in StUnderWay => p # o /\ stOp'[p] = stOp[p]
  BY DEF StoreInv, StTypes, StUnderWay
<1>4. UnderLock'
  BY <1>2, <1>3 DEF StoreInv, UnderLock, AtHead
<1>5. ReadIsHeld'
  BY <1>3 DEF StoreInv, ReadIsHeld, StUnderWay
<1> QED
  BY <1>1, <1>4, <1>5 DEF StoreInv, StoreIsSerial

LEMMA StoreStep == StoreInv /\ [CacheStoresNext]_stVars => StoreInv'
<1> SUFFICES ASSUME StoreInv, [CacheStoresNext]_stVars PROVE StoreInv'
  OBVIOUS
<1>0. ASSUME NEW o \in StOps, stOp[o].phase \in StUnderWay \/ StTurn(o)
      PROVE  o \in stLoose \/ AtHead(o)
  BY <1>0 DEF StoreInv, UnderLock, StTurn, AtHead
<1>1. ASSUME NEW o \in StOps, LocalRefused(o) \/ IndexedUnavailable(o) \/ IndexedFails(o)
      PROVE  StoreInv'
  <2>1. o \in stLoose \/ AtHead(o)
    BY <1>0, <1>1 DEF LocalRefused, IndexedUnavailable, IndexedFails, StAt, StUnderWay
  <2>2. \E outcome \in {"done", "swallowed", "failed"} : StSettle(o, outcome)
    BY <1>1 DEF LocalRefused, IndexedUnavailable, IndexedFails
  <2>3. UNCHANGED <<stLoose, stRead, stStore, stSerial, stRaced, stKind>>
    BY <1>1 DEF LocalRefused, IndexedUnavailable, IndexedFails
  <2> QED
    BY <2>1, <2>2, <2>3, StoreGivenUp
<1>2. ASSUME NEW o \in StOps, StAtOnce(o) \/ LocalWritten(o) \/ IndexedCommits(o)
      PROVE  StoreInv'
  <2>1. o \in stLoose \/ AtHead(o)
    BY <1>0, <1>2 DEF StAtOnce, LocalWritten, IndexedCommits, StAt, StUnderWay
  <2>2. UNCHANGED <<stLoose, stRead, stKind>>
    BY <1>2 DEF StAtOnce, LocalWritten, IndexedCommits
  <2>3. \E document : /\ StCarryOut(o, document)
                      /\ stOp[o].phase = "read" => document = stRead[o]
                      /\ stOp[o].phase # "read" => document = stStore
    BY <1>2 DEF StAtOnce, LocalWritten, IndexedCommits, StAt
  <2> QED
    BY <2>1, <2>2, <2>3, StoreCarriedOut
<1>3. ASSUME NEW o \in StOps, LocalRead(o) PROVE StoreInv'
  BY <1>0, <1>3, StoreGoesOn DEF LocalRead, StoreInv, StTypes, StUnderWay
<1>4. ASSUME NEW o \in StOps, IndexedStart(o) \/ IndexedOpens(o) PROVE StoreInv'
  <2>1. o \in stLoose \/ AtHead(o)
    BY <1>0, <1>4 DEF IndexedStart, IndexedOpens, StAt, StUnderWay
  <2>2. \E phase \in {"opening", "transaction"} : StGoto(o, phase)
    BY <1>4 DEF IndexedStart, IndexedOpens
  <2> QED
    BY <1>4, <2>1, <2>2, StoreGoesOn DEF IndexedStart, IndexedOpens, StoreInv, StTypes, StUnderWay
<1>5. ASSUME NEW o \in StOps, NEW verb \in StVerbs, NEW key \in StKeys,
             StCall(o, verb, key) \/ StExpired(o, key)
      PROVE  StoreInv'
  BY <1>5, StoreCalled DEF StCall, StExpired, StVerbs
<1>6. CASE UNCHANGED stVars
  BY <1>6 DEF stVars, StoreInv, StTypes, UnderLock, AtHead, ReadIsHeld, StoreIsSerial
<1>7. "delete" \in StVerbs
  BY DEF StVerbs
<1> QED
  BY <1>1, <1>2, <1>3, <1>4, <1>5, <1>6, <1>7 DEF CacheStoresNext

(* The adapter holds what the changes make of it one after another: memory *)
(* and IndexedDB always, the document of localStorage unless a deletion of *)
(* an expired entry, past the lock, has raced since the last clear         *)
(* (withPersistenceLock() and invalidateExpired() of cache.ts).            *)
THEOREM StoresAreSerial == CacheStoresSpec => []StoreIsSerial
<1>1. StoreInv => StoreIsSerial
  BY DEF StoreInv
<1> QED
  BY StoreInit, StoreStep, <1>1, PTL DEF CacheStoresSpec
-----------------------------------------------------------------------------
(* HookManager.  Runs are under way one at a time, and the flag says so;   *)
(* as long as no hook of its kind is removed, a run has left exactly what  *)
(* stands in the array from its position on.                               *)
UnderWay(c) == hookRun[c].phase \in {"loop", "hook"}

RunPhases == {"idle", "loop", "hook", "refused", "proceed", "abort", "error", "recursion"}

HookTypes ==
  /\ hooks \in [HookKinds -> Seq(HookNames)]
  /\ hookRun \in [HookCalls -> [kind : HookKinds, phase : RunPhases, at : Nat]]
  /\ left \in [HookCalls -> Seq(HookNames)]
  /\ executing \in BOOLEAN

OneRun ==
  /\ executing <=> \E c \in HookCalls : UnderWay(c)
  /\ \A c, d \in HookCalls : UnderWay(c) /\ UnderWay(d) => c = d

(* The list l is what stands in the list hs after the position n. *)
RestOf(l, hs, n) ==
  /\ Len(l) = Len(hs) - n
  /\ \A i \in 1..Len(l) : l[i] = hs[n + i]

Passed(run) == IF run.phase = "loop" THEN run.at - 1 ELSE run.at

LeftIsTheRest ==
  \A c \in HookCalls : UnderWay(c) /\ c \notin shrunk =>
    /\ hookRun[c].at \in 1..(Len(hooks[hookRun[c].kind]) + 1)
    /\ RestOf(left[c], hooks[hookRun[c].kind], Passed(hookRun[c]))

ErrorsStopBefore == \A c \in HookCalls : hookRun[c].phase = "error" => hookRun[c].kind = "before"

HookInv == HookTypes /\ OneRun /\ LeftIsTheRest /\ ErrorsStopBefore

LEMMA HookInit == HooksInit => HookInv
<1> SUFFICES ASSUME HooksInit PROVE HookInv
  OBVIOUS
<1>1. HookTypes
  <2>1. [kind |-> "before", phase |-> "idle", at |-> 0] \in [kind : HookKinds, phase : RunPhases, at : Nat]
    BY DEF HookKinds, RunPhases
  <2>2. <<>> \in Seq(HookNames)
    OBVIOUS
  <2> QED
    BY <2>1, <2>2 DEF HooksInit, HookTypes
<1>2. \A c \in HookCalls : ~UnderWay(c) /\ hookRun[c].phase # "error"
  BY DEF HooksInit, UnderWay
<1> QED
  BY <1>1, <1>2 DEF HooksInit, HookInv, OneRun, LeftIsTheRest, ErrorsStopBefore

LEMMA RestGrows ==
  ASSUME NEW l \in Seq(HookNames), NEW hs \in Seq(HookNames), NEW n \in Nat, RestOf(l, hs, n),
         NEW h \in HookNames
  PROVE  RestOf(Append(l, h), Append(hs, h), n)
BY DEF RestOf

LEMMA RestShrinks ==
  ASSUME NEW l \in Seq(HookNames), NEW hs \in Seq(HookNames), NEW n \in Nat, n < Len(hs),
         RestOf(l, hs, n)
  PROVE  /\ l # <<>> /\ Head(l) = hs[n + 1]
         /\ Tail(l) \in Seq(HookNames) /\ RestOf(Tail(l), hs, n + 1)
<1>1. /\ Len(l) \in Nat /\ Len(hs) \in Nat /\ Len(l) = Len(hs) - n /\ Len(l) > 0
      /\ \A i \in 1..Len(l) : l[i] = hs[n + i]
  BY DEF RestOf
<1>2. /\ l # <<>> /\ Head(l) = l[1] /\ Tail(l) \in Seq(HookNames) /\ Len(Tail(l)) = Len(l) - 1
      /\ \A i \in 1..(Len(l) - 1) : Tail(l)[i] = l[i + 1]
  BY <1>1
<1>3. ASSUME NEW i \in 1..(Len(l) - 1) PROVE Tail(l)[i] = hs[(n + 1) + i]
  <2>1. i + 1 \in 1..Len(l) /\ n + (i + 1) = (n + 1) + i
    BY <1>1
  <2> QED
    BY <1>1, <1>2, <2>1
<1> QED
  BY <1>1, <1>2, <1>3 DEF RestOf

LEMMA HookStep == HookInv /\ [HooksNext]_hmVars => HookInv'
<1> SUFFICES ASSUME HookInv, [HooksNext]_hmVars PROVE HookInv'
  OBVIOUS
<1>1. ASSUME NEW kind \in HookKinds, NEW h \in HookNames, On(kind, h) PROVE HookInv'
  <2>1. HookTypes' /\ hookRun' = hookRun /\ executing' = executing /\ shrunk' = shrunk
    BY <1>1 DEF On, HookInv, HookTypes
  <2>2. ASSUME NEW c \in HookCalls, UnderWay(c), c \notin shrunk
        PROVE  /\ hookRun[c].at \in 1..(Len(hooks'[hookRun[c].kind]) + 1)
               /\ RestOf(left'[c], hooks'[hookRun[c].kind], Passed(hookRun[c]))
    <3>1. /\ hookRun[c].at \in 1..(Len(hooks[hookRun[c].kind]) + 1)
          /\ RestOf(left[c], hooks[hookRun[c].kind], Passed(hookRun[c]))
          /\ left[c] \in Seq(HookNames) /\ hooks[hookRun[c].kind] \in Seq(HookNames)
          /\ hookRun[c].at \in Nat /\ hookRun[c].kind \in HookKinds
      BY <2>2 DEF HookInv, HookTypes, LeftIsTheRest
    <3>2. Passed(hookRun[c]) \in Nat
      BY <3>1 DEF Passed
    <3>3. CASE hookRun[c].kind = kind
      <4>1. hooks'[kind] = Append(hooks[kind], h) /\ left'[c] = Append(left[c], h)
        BY <1>1, <2>2, <3>3 DEF On, RunsOf, UnderWay, HookInv, HookTypes
      <4>2. Len(Append(hooks[kind], h)) = Len(hooks[kind]) + 1 /\ Len(hooks[kind]) \in Nat
        BY <3>1, <3>3
      <4> QED
        BY <3>1, <3>2, <3>3, <4>1, <4>2, RestGrows
    <3>4. CASE hookRun[c].kind # kind
      <4>1. hooks'[hookRun[c].kind] = hooks[hookRun[c].kind] /\ left'[c] = left[c]
        BY <1>1, <3>1, <3>4 DEF On, RunsOf, HookInv, HookTypes
      <4> QED
        BY <3>1, <4>1
    <3> QED
      BY <3>3, <3>4
  <2> QED
    BY <2>1, <2>2 DEF HookInv, OneRun, UnderWay, LeftIsTheRest, ErrorsStopBefore
<1>2. ASSUME NEW kind \in HookKinds, NEW h \in HookNames, Off(kind, h) PROVE HookInv'
  <2>1. \A l \in Seq(HookNames) : Kept(l, HookNames \ {h}) \in Seq(HookNames)
    BY KeptIsWhatIsIn
  <2>2. HookTypes' /\ hookRun' = hookRun /\ executing' = executing
    BY <1>2, <2>1 DEF Off, HookInv, HookTypes
  <2>3. ASSUME NEW c \in HookCalls, UnderWay(c), c \notin shrunk'
        PROVE  c \notin shrunk /\ hooks'[hookRun[c].kind] = hooks[hookRun[c].kind] /\ left'[c] = left[c]
    BY <1>2, <2>3 DEF Off, RunsOf, UnderWay, HookInv, HookTypes
  <2> QED
    BY <2>2, <2>3 DEF HookInv, OneRun, UnderWay, LeftIsTheRest, ErrorsStopBefore
<1>3. CASE ClearHooks
  <2>1. HookTypes' /\ hookRun' = hookRun /\ executing' = executing
    BY <1>3 DEF ClearHooks, HookInv, HookTypes
  <2>2. \A c \in HookCalls : UnderWay(c) => c \in shrunk'
    BY <1>3 DEF ClearHooks, RunsOf, UnderWay, HookInv, HookTypes
  <2> QED
    BY <2>1, <2>2 DEF HookInv, OneRun, UnderWay, LeftIsTheRest, ErrorsStopBefore
<1>4. ASSUME NEW c \in HookCalls, NEW kind \in HookKinds, StartRun(c, kind) PROVE HookInv'
  <2>1. /\ HookTypes' /\ hooks' = hooks /\ shrunk' = shrunk /\ executing' = TRUE
        /\ ~UnderWay(c)
        /\ \A d \in HookCalls : d # c => hookRun'[d] = hookRun[d] /\ left'[d] = left[d]
        /\ hookRun'[c] = [kind |-> kind, phase |-> IF executing THEN "refused" ELSE "loop", at |-> 1]
        /\ ~executing => left'[c] = hooks[kind]
    BY <1>4 DEF StartRun, HookInv, HookTypes, RunPhases, UnderWay
  <2>2. OneRun'
    BY <2>1 DEF HookInv, OneRun, UnderWay
  <2>3. ~executing => hooks[kind] \in Seq(HookNames) /\ RestOf(left'[c], hooks[kind], 0)
    BY <2>1 DEF HookInv, HookTypes, RestOf
  <2>4. LeftIsTheRest'
    <3> SUFFICES ASSUME NEW d \in HookCalls, UnderWay(d)', d \notin shrunk'
                 PROVE  /\ hookRun'[d].at \in 1..(Len(hooks'[hookRun'[d].kind]) + 1)
                        /\ RestOf(left'[d], hooks'[hookRun'[d].kind], Passed(hookRun'[d]))
      BY DEF LeftIsTheRest
    <3>1. CASE d = c
      <4>1. ~executing /\ hookRun'[c].phase = "loop" /\ hookRun'[c].at = 1 /\ hookRun'[c].kind = kind
        BY <2>1, <3>1 DEF UnderWay
      <4>2. Passed(hookRun'[c]) = 0 /\ Len(hooks[kind]) \in Nat
        BY <2>3, <4>1 DEF Passed
      <4> QED
        BY <2>1, <2>3, <3>1, <4>1, <4>2
    <3>2. CASE d # c
      BY <2>1, <3>2 DEF HookInv, LeftIsTheRest, UnderWay
    <3> QED
      BY <3>1, <3>2
  <2>5. ErrorsStopBefore'
    BY <2>1 DEF HookInv, ErrorsStopBefore
  <2> QED
    BY <2>1, <2>2, <2>4, <2>5 DEF HookInv
<1>5. ASSUME NEW c \in HookCalls, UnderWay(c), NEW outcome \in RunPhases \ {"loop", "hook"},
             outcome = "error" => hookRun[c].kind = "before",
             EndRun(c, outcome), hooks' = hooks
      PROVE  HookInv'
  <2>1. /\ HookTypes' /\ shrunk' = shrunk \ {c} /\ executing' = FALSE
        /\ \A d \in HookCalls : d # c => hookRun'[d] = hookRun[d] /\ left'[d] = left[d]
        /\ hookRun'[c].phase = outcome /\ hookRun'[c].kind = hookRun[c].kind
    <3>1. hookRun[c] \in [kind : HookKinds, phase : RunPhases, at : Nat] /\ <<>> \in Seq(HookNames)
      BY DEF HookInv, HookTypes
    <3>2. [hookRun[c] EXCEPT !.phase = outcome] \in [kind : HookKinds, phase : RunPhases, at : Nat]
      BY <1>5, <3>1
    <3>3. /\ hookRun' = [hookRun EXCEPT ![c] = [hookRun[c] EXCEPT !.phase = outcome]]
          /\ left' = [left EXCEPT ![c] = <<>>] /\ shrunk' = shrunk \ {c} /\ executing' = FALSE
      BY <1>5 DEF EndRun
    <3>4. HookTypes'
      BY <1>5, <3>1, <3>2, <3>3 DEF HookInv, HookTypes
    <3> QED
      BY <3>1, <3>3, <3>4 DEF HookInv, HookTypes
  <2>2. \A d \in HookCalls : ~UnderWay(d)'
    BY <1>5, <2>1 DEF HookInv, OneRun, UnderWay
  <2>3. ErrorsStopBefore'
    BY <1>5, <2>1 DEF HookInv, ErrorsStopBefore
  <2> QED
    BY <2>1, <2>2, <2>3 DEF HookInv, OneRun, LeftIsTheRest
<1>6. ASSUME NEW c \in HookCalls, CallHook(c) PROVE HookInv'
  <2> DEFINE run == hookRun[c]
             hs == hooks[run.kind]
  <2>1. run \in [kind : HookKinds, phase : RunPhases, at : Nat] /\ hs \in Seq(HookNames)
        /\ left[c] \in Seq(HookNames)
    BY DEF HookInv, HookTypes
  <2>2. /\ run.phase = "loop" /\ run.at <= Len(hs) /\ UNCHANGED <<hooks, executing, shrunk>>
        /\ \A d \in HookCalls : d # c => hookRun'[d] = hookRun[d] /\ left'[d] = left[d]
        /\ hookRun'[c].phase = "hook" /\ hookRun'[c].kind = run.kind /\ hookRun'[c].at = run.at
        /\ left'[c] = IF left[c] = <<>> THEN left[c] ELSE Tail(left[c])
    BY <1>6 DEF CallHook, HookInv, HookTypes
  <2>3. HookTypes'
    <3>1. left'[c] \in Seq(HookNames)
      BY <2>1, <2>2
    <3> QED
      BY <1>6, <3>1 DEF CallHook, HookInv, HookTypes, RunPhases
  <2>4. OneRun' /\ ErrorsStopBefore'
    BY <2>2 DEF HookInv, OneRun, ErrorsStopBefore, UnderWay
  <2>5. ASSUME c \notin shrunk
        PROVE  run.at \in 1..(Len(hs) + 1) /\ RestOf(left'[c], hs, run.at)
    <3>1. run.at \in 1..(Len(hs) + 1) /\ RestOf(left[c], hs, run.at - 1)
      BY <2>2, <2>5 DEF HookInv, LeftIsTheRest, UnderWay, Passed
    <3> HIDE DEF hs, run
    <3>2. run.at - 1 \in Nat /\ run.at - 1 < Len(hs) /\ (run.at - 1) + 1 = run.at
      BY <2>1, <2>2, <3>1
    <3>3. left[c] # <<>> /\ RestOf(Tail(left[c]), hs, (run.at - 1) + 1)
      BY <2>1, <3>1, <3>2, RestShrinks
    <3> QED
      BY <2>2, <3>1, <3>2, <3>3
  <2>6. LeftIsTheRest'
    <3> SUFFICES ASSUME NEW d \in HookCalls, UnderWay(d)', d \notin shrunk'
                 PROVE  /\ hookRun'[d].at \in 1..(Len(hooks'[hookRun'[d].kind]) + 1)
                        /\ RestOf(left'[d], hooks'[hookRun'[d].kind], Passed(hookRun'[d]))
      BY DEF LeftIsTheRest
    <3>1. CASE d = c
      BY <2>2, <2>5, <3>1 DEF Passed
    <3>2. CASE d # c
      BY <2>2, <3>2 DEF HookInv, LeftIsTheRest, UnderWay
    <3> QED
      BY <3>1, <3>2
  <2> QED
    BY <2>3, <2>4, <2>6 DEF HookInv
<1>7. ASSUME NEW c \in HookCalls, hookRun[c].phase = "hook", Advance(c), hooks' = hooks PROVE HookInv'
  <2>1. /\ HookTypes' /\ UNCHANGED <<hooks, executing, shrunk, left>>
        /\ \A d \in HookCalls : d # c => hookRun'[d] = hookRun[d]
        /\ hookRun'[c].phase = "loop" /\ hookRun'[c].kind = hookRun[c].kind
        /\ hookRun'[c].at = hookRun[c].at + 1 /\ hookRun[c].at \in Nat
    <3> DEFINE looping == [hookRun[c] EXCEPT !.phase = "loop"]
               next == [looping EXCEPT !.at = hookRun[c].at + 1]
    <3>1. hookRun[c] \in [kind : HookKinds, phase : RunPhases, at : Nat]
      BY DEF HookInv, HookTypes
    <3>2. /\ next \in [kind : HookKinds, phase : RunPhases, at : Nat]
          /\ next.phase = "loop" /\ next.kind = hookRun[c].kind /\ next.at = hookRun[c].at + 1
      <4>1. /\ looping \in [kind : HookKinds, phase : RunPhases, at : Nat]
            /\ looping.phase = "loop" /\ looping.kind = hookRun[c].kind
        BY <3>1 DEF RunPhases
      <4> HIDE DEF looping
      <4> QED
        BY <3>1, <4>1
    <3>3. hookRun' = [hookRun EXCEPT ![c] = next] /\ UNCHANGED <<hooks, executing, shrunk, left>>
      <4>1. [hookRun[c] EXCEPT !.phase = "loop", !.at = @ + 1] = next
        BY <3>1
      <4> QED
        BY <1>7, <4>1 DEF Advance
    <3> HIDE DEF next
    <3>4. HookTypes'
      BY <3>2, <3>3 DEF HookInv, HookTypes
    <3> QED
      BY <3>1, <3>2, <3>3, <3>4 DEF HookInv, HookTypes
  <2>2. OneRun' /\ ErrorsStopBefore'
    BY <1>7, <2>1 DEF HookInv, OneRun, ErrorsStopBefore, UnderWay
  <2>3. ASSUME c \notin shrunk
        PROVE  /\ hookRun'[c].at \in 1..(Len(hooks[hookRun[c].kind]) + 1)
               /\ RestOf(left[c], hooks[hookRun[c].kind], hookRun[c].at)
    <3>1. /\ hookRun[c].at \in 1..(Len(hooks[hookRun[c].kind]) + 1)
          /\ RestOf(left[c], hooks[hookRun[c].kind], hookRun[c].at)
      BY <1>7, <2>3 DEF HookInv, LeftIsTheRest, UnderWay, Passed
    <3>2. Len(left[c]) \in Nat /\ Len(hooks[hookRun[c].kind]) \in Nat
      BY DEF HookInv, HookTypes
    <3>3. hookRun[c].at <= Len(hooks[hookRun[c].kind])
      BY <2>1, <3>1, <3>2 DEF RestOf
    <3> QED
      BY <2>1, <3>1, <3>2, <3>3
  <2>4. LeftIsTheRest'
    <3> SUFFICES ASSUME NEW d \in HookCalls, UnderWay(d)', d \notin shrunk'
                 PROVE  /\ hookRun'[d].at \in 1..(Len(hooks'[hookRun'[d].kind]) + 1)
                        /\ RestOf(left'[d], hooks'[hookRun'[d].kind], Passed(hookRun'[d]))
      BY DEF LeftIsTheRest
    <3>1. CASE d = c
      <4>1. Passed(hookRun'[c]) = hookRun[c].at
        BY <2>1 DEF Passed
      <4> QED
        BY <2>1, <2>3, <3>1, <4>1
    <3>2. CASE d # c
      BY <2>1, <3>2 DEF HookInv, LeftIsTheRest, UnderWay
    <3> QED
      BY <3>1, <3>2
  <2> QED
    BY <2>1, <2>2, <2>4 DEF HookInv
<1>8. ASSUME NEW c \in HookCalls, RunEnds(c) \/ (\E outcome \in {"abort", "error"} : HookStops(c, outcome))
      PROVE  HookInv'
  BY <1>5, <1>8 DEF RunEnds, HookStops, UnderWay, RunPhases
<1>9. ASSUME NEW c \in HookCalls, HookReturns(c) \/ (\E recursion \in BOOLEAN : HookThrows(c, recursion))
      PROVE  HookInv'
  BY <1>5, <1>7, <1>9 DEF HookReturns, HookThrows, AfterThrow, UnderWay, RunPhases
<1>10. CASE UNCHANGED hmVars
  BY <1>10 DEF hmVars, HookInv, HookTypes, OneRun, LeftIsTheRest, ErrorsStopBefore, UnderWay
<1> QED
  BY <1>1, <1>2, <1>3, <1>4, <1>6, <1>8, <1>9, <1>10 DEF HooksNext

(* Unless a hook is removed meanwhile, a run calls what was registered     *)
(* before it or during it, once each and in order, and ends when it has;   *)
(* the flag is set exactly while a run is under way (runBeforeInvoke() and *)
(* runAfterInvoke() of hooks.ts).                                          *)
THEOREM HooksRunOnce == HooksSpec => EveryHookOnce
<1> DEFINE Step ==
      /\ executing <=> \E c \in HookCalls : hookRun[c].phase \in {"loop", "hook"}
      /\ \A c \in HookCalls :
           /\ c \notin shrunk => CallsTheNext(c)
           /\ hookRun'[c].kind = "after" => hookRun'[c].phase # "error"
<1>1. ASSUME HookInv, HookInv' PROVE Step
  <2>1. ASSUME NEW c \in HookCalls, c \notin shrunk PROVE CallsTheNext(c)
    <3> DEFINE hs == hooks[hookRun[c].kind]
    <3>1. hs \in Seq(HookNames) /\ left[c] \in Seq(HookNames) /\ Len(hs) \in Nat /\ Len(left[c]) \in Nat
          /\ hookRun[c].at \in Nat
      BY <1>1 DEF HookInv, HookTypes
    <3>2. ASSUME hookRun[c].phase = "loop"
          PROVE  /\ hookRun[c].at \in 1..(Len(hs) + 1)
                 /\ RestOf(left[c], hs, hookRun[c].at - 1)
      BY <1>1, <2>1, <3>2 DEF HookInv, LeftIsTheRest, UnderWay, Passed
    <3>3. ASSUME CallHook(c) PROVE left[c] # <<>> /\ hs[hookRun[c].at] = Head(left[c])
      <4>1. hookRun[c].phase = "loop" /\ hookRun[c].at <= Len(hs)
        BY <3>3 DEF CallHook
      <4>2. PICK n \in Nat : hookRun[c].at = n + 1 /\ n < Len(hs) /\ RestOf(left[c], hs, n)
        <5>1. hookRun[c].at - 1 \in Nat /\ hookRun[c].at = (hookRun[c].at - 1) + 1
              /\ hookRun[c].at - 1 < Len(hs)
          BY <3>1, <3>2, <4>1
        <5> QED
          BY <3>2, <4>1, <5>1
      <4> HIDE DEF hs
      <4> QED
        BY <3>1, <4>2, RestShrinks
    <3>4. ASSUME RunEnds(c) PROVE left[c] = <<>>
      <4>1. hookRun[c].phase = "loop" /\ hookRun[c].at > Len(hs)
        BY <3>4 DEF RunEnds
      <4>2. hookRun[c].at \in 1..(Len(hs) + 1) /\ Len(left[c]) = Len(hs) - (hookRun[c].at - 1)
        BY <3>2, <4>1 DEF RestOf
      <4> HIDE DEF hs
      <4>3. Len(left[c]) = 0
        BY <3>1, <4>1, <4>2
      <4> QED
        BY <3>1, <4>3
    <3> QED
      BY <3>3, <3>4 DEF CallsTheNext
  <2> QED
    BY <1>1, <2>1 DEF HookInv, OneRun, UnderWay, ErrorsStopBefore
<1>2. HookInv /\ [HooksNext]_hmVars => HookInv'
  BY HookStep
<1>3. HookInv /\ HookInv' => [Step]_hmVars
  BY <1>1
<1>4. EveryHookOnce <=> [][Step]_hmVars
  BY PTL DEF EveryHookOnce
<1> QED
  BY HookInit, <1>2, <1>3, <1>4, PTL DEF HooksSpec
=============================================================================
