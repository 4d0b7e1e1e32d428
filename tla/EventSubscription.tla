------------------------- MODULE EventSubscription -------------------------
(***************************************************************************)
(* SoroWillClient.subscribeToEvents(): a WebSocket that may open, hang,    *)
(* fail or drop, the fall back to polling, the polling loop with its       *)
(* cursor, a listener that may throw or unsubscribe while it is called, and *)
(* an onError that may throw.                                              *)
(* The promise of subscribeToEvents() and the handle it resolves to are    *)
(* the `handle`.  The names start with Sub where other modules of the      *)
(* client, composed in MCServices, have the same idea.                     *)
(*                                                                         *)
(* External: the contract's events, numbered in ledger order; a socket     *)
(* that streams them in order once it was sent the subscription; a node    *)
(* that answers getEvents with those after the cursor, and where they end, *)
(* which nextCursor, an optional field, may leave out.                     *)
(***************************************************************************)
EXTENDS Naturals, Sequences

CONSTANTS
  MaxEvents,   (* Bound: events emitted.                                   *)
  Wanted,      (* Events whose type passes options.eventTypes.             *)
  PageSize,    (* Option pageSize.                                         *)
  MaxThrows,   (* Bound: throws of onError that are not isolated.          *)
  MaxBare,     (* Bound: pages without nextCursor.                         *)
  Transports   (* Option transport with what is configured: "socket" when  *)
               (* a WebSocket is used, "polling" when none is.             *)

ASSUME EventSubscriptionAssumption ==
  /\ MaxEvents \in Nat
  /\ Wanted \subseteq 1..MaxEvents
  /\ PageSize \in Nat \ {0}
  /\ MaxThrows \in Nat /\ MaxBare \in Nat
  /\ Transports \subseteq {"socket", "polling"}

VARIABLES
  emitted,    (* External: events on the ledger.                           *)
  handle,     (* "pending", the transport of the handle returned, or       *)
              (* "rejected" when the promise was.                          *)
  socket,     (* The WebSocket: "none", "connecting", "open", "gone".      *)
  streaming,  (* External: the server of the socket has the subscription.  *)
  streamed,   (* External: the last event it has sent.                     *)
  settled,    (* The variables of the promise executor.                    *)
  closed,
  polling,    (* The loop: "off", "fetching", "delivering", "timer".       *)
  stopped,    (* closed of startPollingSubscription().                     *)
  cursor,     (* Its cursor.                                               *)
  nextCursor, (* The cursor the answer at hand came with.                  *)
  batch,      (* Events received, not yet passed to the listener.          *)
  delivered,  (* What the listener was called with.                        *)
  throws,     (* History: throws of onError that cut a batch, or the fall   *)
              (* back, short.                                              *)
  bare        (* History: pages that came without nextCursor.              *)

socketVars == <<socket, streaming, streamed, settled, closed>>
pollVars == <<polling, stopped, cursor, nextCursor>>
mishaps == <<throws, bare>>
subVars == <<emitted, handle, socketVars, pollVars, batch, delivered, mishaps>>

SubscriptionInit ==
  /\ emitted = 0
  /\ handle = "pending"
  /\ socket \in {IF t = "socket" THEN "connecting" ELSE "none" : t \in Transports}
  /\ streaming = FALSE
  /\ streamed = 0
  /\ settled = (socket = "none")
  /\ closed = FALSE
  /\ polling = IF socket = "none" THEN "fetching" ELSE "off"
  /\ stopped = FALSE
  /\ cursor = 0
  /\ nextCursor = 0
  /\ batch = <<>>
  /\ delivered = <<>>
  /\ throws = 0 /\ bare = 0

(* The listener is called between two turns of the event loop. *)
Turn == batch = <<>>

EventEmitted ==
  /\ emitted < MaxEvents
  /\ emitted' = emitted + 1
  /\ UNCHANGED <<handle, socketVars, pollVars, batch, delivered, mishaps>>
-----------------------------------------------------------------------------
(* The WebSocket.                                                          *)

(* The socket opens: the subscription is sent and the promise resolved. *)
SocketOpens ==
  /\ Turn
  /\ socket = "connecting" /\ ~settled
  /\ socket' = "open"
  /\ settled' = TRUE
  /\ streaming' = TRUE
  /\ handle' = "websocket"
  /\ UNCHANGED <<emitted, streamed, closed, pollVars, batch, delivered, mishaps>>

(* It opens when the promise has settled: the handler ignores it. *)
SocketOpensLate ==
  /\ Turn
  /\ socket = "connecting" /\ settled
  /\ socket' = "open"
  /\ UNCHANGED <<emitted, handle, streaming, streamed, settled, closed, pollVars, batch,
                 delivered, mishaps>>

(* The promise falls back to polling; the first poll starts at once. *)
FallBack ==
  /\ settled' = TRUE
  /\ polling' = "fetching"
  /\ UNCHANGED <<emitted, handle, streaming, streamed, stopped, cursor, nextCursor, batch,
                 delivered, mishaps>>

(* The connect timer: the socket is asked to close, which it may outlive. *)
ConnectTimeout ==
  /\ Turn
  /\ socket = "connecting" /\ ~settled
  /\ FallBack
  /\ UNCHANGED <<socket, closed>>

(* onError throws in the connect timer: nothing falls back to polling, and  *)
(* the promise is never settled.                                           *)
TimeoutThrows ==
  /\ Turn
  /\ socket = "connecting" /\ ~settled
  /\ throws < MaxThrows
  /\ settled' = TRUE
  /\ throws' = throws + 1
  /\ UNCHANGED <<emitted, handle, socket, streaming, streamed, closed, pollVars, batch,
                 delivered, bare>>

(* onerror before the promise has settled. *)
SocketFails ==
  /\ Turn
  /\ socket = "connecting" /\ ~settled
  /\ FallBack
  /\ socket' = "gone"
  /\ UNCHANGED closed

(* onclose before the promise has settled. *)
SocketClosesEarly ==
  /\ Turn
  /\ socket = "connecting" /\ ~settled
  /\ FallBack
  /\ socket' = "gone"
  /\ closed' = TRUE

(* onerror or onclose afterwards: the subscription is over, not polled. *)
SocketDrops ==
  /\ Turn
  /\ socket \in {"connecting", "open"} /\ settled
  /\ socket' = "gone"
  /\ streaming' = FALSE
  /\ closed' = TRUE
  /\ UNCHANGED <<emitted, handle, streamed, settled, pollVars, batch, delivered, mishaps>>

(* A message with the events of the stream up to n; the handler drops it    *)
(* when the subscription is closed.                                        *)
SocketMessage(n) ==
  /\ Turn
  /\ socket = "open" /\ streaming /\ ~closed
  /\ n \in (streamed + 1)..emitted
  /\ batch' = [i \in 1..(n - streamed) |-> streamed + i]
  /\ streamed' = n
  /\ UNCHANGED <<emitted, handle, socket, streaming, settled, closed, pollVars, delivered, mishaps>>
-----------------------------------------------------------------------------
(* Polling.                                                                *)

(* The node's answer: the events after the cursor, a page at most. *)
Page == [i \in 1..(IF emitted - cursor < PageSize THEN emitted - cursor ELSE PageSize)
           |-> cursor + i]

(* The first poll is awaited before the handle is handed out. *)
PollOver(outcome) ==
  /\ polling' = IF stopped THEN "off" ELSE "timer"
  /\ handle' = IF handle = "pending" THEN outcome ELSE handle

PollEnds == PollOver("polling")

(* onError was called outside of what isolates the listener: when it       *)
(* throws there, poll() rejects, with its timer set.                       *)
PollRejects == PollOver("polling") \/ PollOver("rejected")

(* The answer to getEvents, with nextCursor or without. *)
PollAnswered(given) ==
  /\ Turn
  /\ polling = "fetching"
  /\ ~given => Page # <<>> /\ bare < MaxBare
  /\ IF Page = <<>> \/ stopped
     THEN PollEnds /\ UNCHANGED <<batch>>
     ELSE /\ batch' = Page
          /\ polling' = "delivering"
          /\ UNCHANGED handle
  /\ nextCursor' = IF given THEN cursor + Len(Page) ELSE cursor
  /\ bare' = IF given THEN bare ELSE bare + 1
  /\ UNCHANGED <<emitted, socketVars, stopped, cursor, delivered, throws>>

(* Mutant: the cursor is moved past what may not have been received. *)
FailsAndSkips ==
  /\ Turn
  /\ polling = "fetching"
  /\ PollEnds
  /\ cursor' = cursor + Len(Page)
  /\ UNCHANGED <<emitted, socketVars, stopped, nextCursor, batch, delivered, mishaps>>

(* Mutant: the next poll is set up only after a good one. *)
FailsForGood ==
  /\ Turn
  /\ polling = "fetching"
  /\ polling' = "off"
  /\ handle' = IF handle = "pending" THEN "polling" ELSE handle
  /\ UNCHANGED <<emitted, socketVars, stopped, cursor, nextCursor, batch, delivered, mishaps>>

(* An HTTP status, a JSON-RPC error, no answer until the timeout: onError. *)
PollFails ==
  /\ Turn
  /\ polling = "fetching"
  /\ PollRejects
  /\ UNCHANGED <<emitted, socketVars, stopped, cursor, nextCursor, batch, delivered, mishaps>>

PollAgain ==
  /\ Turn
  /\ polling = "timer"
  /\ polling' = "fetching"
  /\ UNCHANGED <<emitted, handle, socketVars, stopped, cursor, nextCursor, batch, delivered, mishaps>>
-----------------------------------------------------------------------------
(* Delivery, and the caller.                                               *)

IsClosed == IF handle = "websocket" THEN closed ELSE stopped

(* unsubscribe(): the socket is closed, or the timer cleared; of the batch *)
(* nothing more is delivered.                                              *)
Unsubscribe ==
  /\ IF handle = "websocket"
     THEN closed' = TRUE /\ socket' = "gone" /\ streaming' = FALSE /\ UNCHANGED <<stopped, polling>>
     ELSE /\ stopped' = TRUE
          /\ polling' = IF polling = "timer" THEN "off" ELSE polling
          /\ UNCHANGED <<closed, socket, streaming>>
  /\ batch' = <<>>

(* The listener is called with the next event; it returns or throws, which *)
(* the loop isolates, or unsubscribes.                                     *)
CallListener ==
  /\ batch # <<>>
  /\ delivered' = IF Head(batch) \in Wanted THEN Append(delivered, Head(batch)) ELSE delivered
  /\ \/ /\ batch' = Tail(batch)
        /\ UNCHANGED <<closed, socket, streaming, stopped, polling>>
     \/ Head(batch) \in Wanted /\ handle # "pending" /\ Unsubscribe
  /\ UNCHANGED <<emitted, handle, streamed, settled, cursor, nextCursor, mishaps>>

(* The listener throws, and onError, told of it, throws: what is left of    *)
(* the batch is dropped.  The poll goes on as one that failed, with the    *)
(* cursor where it was; a message of the socket is over.                   *)
OnErrorThrows ==
  /\ batch # <<>> /\ Head(batch) \in Wanted
  /\ throws < MaxThrows
  /\ throws' = throws + 1
  /\ delivered' = Append(delivered, Head(batch))
  /\ batch' = <<>>
  /\ IF polling = "delivering" THEN PollRejects ELSE UNCHANGED <<polling, handle>>
  /\ UNCHANGED <<emitted, socketVars, stopped, cursor, nextCursor, bare>>

(* The page is through: only now the cursor moves, if it was given one. *)
PageDone ==
  /\ Turn
  /\ polling = "delivering"
  /\ PollEnds
  /\ cursor' = nextCursor
  /\ UNCHANGED <<emitted, socketVars, stopped, nextCursor, batch, delivered, mishaps>>

CallerUnsubscribes ==
  /\ Turn
  /\ handle # "pending" /\ ~IsClosed
  /\ Unsubscribe
  /\ UNCHANGED <<emitted, handle, streamed, settled, cursor, nextCursor, delivered, mishaps>>
-----------------------------------------------------------------------------
SubscriptionNext ==
  \/ EventEmitted
  \/ SocketOpens \/ SocketOpensLate \/ ConnectTimeout \/ TimeoutThrows \/ SocketFails
  \/ SocketClosesEarly \/ SocketDrops
  \/ \E n \in 1..MaxEvents : SocketMessage(n)
  \/ \E given \in BOOLEAN : PollAnswered(given)
  \/ PollFails \/ PollAgain \/ CallListener \/ OnErrorThrows \/ PageDone
  \/ CallerUnsubscribes

(* The timers fire and requests end; the caller and the ledger owe nothing. *)
SubscriptionFairness ==
  /\ WF_subVars(ConnectTimeout \/ TimeoutThrows)
  /\ WF_subVars(CallListener)
  /\ WF_subVars(PageDone)
  /\ WF_subVars(PollAgain)
  /\ WF_subVars(PollFails \/ \E given \in BOOLEAN : PollAnswered(given))

(* What the outside owes: a node that is asked again and again answers at   *)
(* some time with nextCursor, and the server of an open socket sends what  *)
(* it has.                                                                 *)
ProvidersAnswer ==
  /\ SF_subVars(PollAnswered(TRUE))
  /\ WF_subVars(\E n \in 1..MaxEvents : SocketMessage(n))

SubscriptionSpec ==
  SubscriptionInit /\ [][SubscriptionNext]_subVars /\ SubscriptionFairness /\ ProvidersAnswer
-----------------------------------------------------------------------------
(* Through timeouts, failed polls, a throwing listener and the change of   *)
(* transport the listener gets the wanted events and no others, in order:  *)
(* each once, as long as no page came without nextCursor and onError did   *)
(* not throw; without a gap even then, when the events are polled; and     *)
(* never twice from a socket.                                              *)
EachEventOnce ==
  \A i \in DOMAIN delivered :
    /\ delivered[i] \in Wanted
    /\ handle # "websocket" \/ throws = 0 =>
         \A e \in Wanted : e < delivered[i] => \E j \in 1..(i - 1) : delivered[j] = e
    /\ handle = "websocket" \/ (throws = 0 /\ bare = 0) =>
         \A j \in 1..(i - 1) : delivered[j] < delivered[i]

(* Every wanted event reaches the listener, however the socket and the     *)
(* polls fail on the way, unless the subscription has been closed, or      *)
(* onError threw where nothing is asked for again: at a message of the     *)
(* socket, or before the fall back to polling.                             *)
EventsArrive ==
  \A e \in Wanted :
    emitted >= e ~> \/ IsClosed
                    \/ throws > 0 /\ polling = "off"
                    \/ \E i \in DOMAIN delivered : delivered[i] = e
-----------------------------------------------------------------------------
(* What the documentation says and the code does not do.                   *)

(* "Isolate listener failures per event so a throwing listener neither     *)
(* stalls cursor progress nor causes the same events to be redelivered"    *)
(* (startPollingSubscription), and nextCursor is optional.                 *)
NoneIsRedelivered == \A i, j \in DOMAIN delivered : delivered[i] = delivered[j] => i = j

(* "@returns A handle that can be used to close the subscription": what is *)
(* polled can be closed.                                                   *)
PollsCanBeClosed == polling = "timer" => handle = "polling"
=============================================================================
