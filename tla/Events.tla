------------------------------- MODULE Events -------------------------------
(***************************************************************************)
(* The event stream of the dashboard: the broker (agent/events.py), the    *)
(* listener that forwards its messages, the connection manager and the     *)
(* handlers of /ws/telemetry (dashboard.py), under either entry point.     *)
(*                                                                         *)
(* Everything runs in one event loop.  An action is what runs between two  *)
(* awaits that can suspend; the locks of the broker and of its queue are   *)
(* never contended, so publish is one action.  The list of connections is  *)
(* iterated by position across the sends, while handlers append to it and  *)
(* remove from it, as a Python list is.                                    *)
(***************************************************************************)
EXTENDS Integers, FiniteSets, SequencesExt

CONSTANTS
    Clients,      \* connections, each of which is opened at most once
    MaxMessages   \* bound on the messages that are published

ASSUME EventsAssumption ==
    IsFiniteSet(Clients) /\ MaxMessages \in Nat

VARIABLES
    published,    \* messages are numbered from 1
    subscribed,   \* the queue of the listener is in _subscribers
    queue,        \* that queue
    listener,     \* "waiting" for a message or "sending" one around
    message,      \* the message of the broadcast
    position,     \* of the iterator of the list
    awaited,      \* {c} while send_json to c is awaited, else {}
    dead,         \* the connections that failed in this broadcast
    active,       \* active_connections
    handler,      \* of each connection
    open,         \* the connections whose peer is there
    received,     \* what each peer got
    due,          \* history: published while it was listed, and neither
                  \* received yet nor broadcast past it
    present,      \* history: connected when the broadcast began
    departures    \* history: removals by handlers during the broadcast

broker == <<published, subscribed, queue>>
loop == <<listener, message, position, awaited, dead>>
history == <<due, present, departures>>
vars == <<broker, loop, active, handler, open, received, history>>

\* startup_event subscribes the listener before the server accepts anybody,
\* unless main.py has put a lifespan of its own in its place.
Init ==
    /\ published = 0 /\ queue = <<>>
    /\ subscribed \in BOOLEAN
    /\ listener = "waiting" /\ message = 0 /\ position = 0
    /\ awaited = {} /\ dead = {} /\ active = <<>> /\ open = {}
    /\ handler = [c \in Clients |-> "none"]
    /\ received = [c \in Clients |-> <<>>]
    /\ due = [c \in Clients |-> {}] /\ present = {} /\ departures = 0

-----------------------------------------------------------------------------
(* The handlers. *)

\* Fault: the newest connection is served first.
Connect_InFront(c) ==
    /\ handler[c] = "none"
    /\ handler' = [handler EXCEPT ![c] = "receiving"]
    /\ open' = open \cup {c}
    /\ active' = <<c>> \o active
    /\ UNCHANGED <<broker, loop, received, history>>

\* The key is checked and the handshake awaited; nobody sees the connection
\* before it is listed.
Connect(c) ==
    /\ handler[c] = "none"
    /\ handler' = [handler EXCEPT ![c] = "receiving"]
    /\ open' = open \cup {c}
    /\ active' = Append(active, c)
    /\ UNCHANGED <<broker, loop, received, history>>

\* What a peer has got and is owed no longer matters when it has gone.
Goes(c) == /\ open' = open \ {c}
           /\ received' = [received EXCEPT ![c] = <<>>]
           /\ due' = [due EXCEPT ![c] = {}]
           /\ UNCHANGED <<broker, loop, active, present, departures>>

Leaves(c) == c \in open /\ Goes(c) /\ UNCHANGED handler

\* WebSocketDisconnect: disconnect removes the connection if it is listed.
Disconnect(c) ==
    /\ handler[c] = "receiving" /\ c \notin open
    /\ handler' = [handler EXCEPT ![c] = "ended"]
    /\ active' = RemoveFirst(active, c)
    /\ departures' = IF listener = "sending" /\ c \in Range(active)
                     THEN departures + 1 ELSE departures
    /\ UNCHANGED <<broker, loop, open, received, due, present>>

\* Another exception, as receive_text raises for a binary frame: the handler
\* ends, the server closes the socket, and the connection stays listed.
HandlerFails(c) ==
    /\ handler[c] = "receiving" /\ c \in open
    /\ handler' = [handler EXCEPT ![c] = "ended"]
    /\ Goes(c)

-----------------------------------------------------------------------------
(* The broker and the listener. *)

\* EventBroker.publish: into the queue of every subscriber, which is at most
\* the listener's.
Publish ==
    /\ published < MaxMessages
    /\ published' = published + 1
    /\ queue' = IF subscribed THEN Append(queue, published') ELSE queue
    /\ due' = [c \in Clients |->
                 IF c \in Range(active) \cap open THEN due[c] \cup {published'} ELSE due[c]]
    /\ UNCHANGED <<subscribed, loop, active, handler, open, received, present, departures>>

\* queue.get returns and broadcast begins.
TakesMessage ==
    /\ listener = "waiting" /\ queue # <<>>
    /\ message' = Head(queue) /\ queue' = Tail(queue)
    /\ listener' = "sending" /\ position' = 1
    /\ present' = Range(active)
    /\ UNCHANGED <<published, subscribed, awaited, dead, active, handler, open, received,
                   due, departures>>

\* The iterator has another connection, and send_json is awaited.
SendBegins ==
    /\ listener = "sending" /\ awaited = {} /\ position <= Len(active)
    /\ awaited' = {active[position]} /\ position' = position + 1
    /\ UNCHANGED <<broker, listener, message, dead, active, handler, open, received, history>>

\* Fault: an exception of send_json ends the listener.
SendRaises_Uncaught ==
    \E c \in awaited :
        /\ awaited' = {} /\ listener' = "ended"
        /\ UNCHANGED <<broker, message, position, dead, active, handler, open, received, history>>

\* Fault: a connection that failed is removed in the middle of the iteration.
SendRaises_Removes ==
    \E c \in awaited :
        /\ awaited' = {} /\ active' = RemoveFirst(active, c)
        /\ UNCHANGED <<broker, listener, message, position, dead, handler, open, received, history>>

\* Any exception, also one that has nothing to do with the peer.
SendRaises ==
    \E c \in awaited :
        /\ awaited' = {} /\ dead' = dead \cup {c}
        /\ UNCHANGED <<broker, listener, message, position, active, handler, open, received, history>>

\* The peer has the message; or it has gone, the handler has not heard of
\* it, and the message is lost without an exception.
SendReturns ==
    \E c \in awaited :
        /\ c \in open \/ handler[c] = "receiving"
        /\ awaited' = {}
        /\ received' = IF c \in open THEN [received EXCEPT ![c] = Append(@, message)]
                       ELSE received
        /\ due' = [due EXCEPT ![c] = @ \ {message}]
        /\ UNCHANGED <<broker, listener, message, position, dead, active, handler, open,
                       present, departures>>

\* The connections that the iterator has gone past without a send.
Skipped == {c \in (present \cap Range(active) \cap open) \ dead :
               message \notin Range(received[c])}

Exhausted == listener = "sending" /\ awaited = {} /\ position > Len(active)

\* list with the members of gone removed, one after the other.
Without(list, gone) ==
    LET stay == {k \in DOMAIN list : list[k] \notin gone}
        place(k) == Cardinality({j \in stay : j <= k})
    IN  [n \in 1 .. Cardinality(stay) |-> list[CHOOSE k \in stay : place(k) = n]]

\* Those that failed are disconnected: a peer that is still there is owed
\* nothing from now on, for its socket stays open and no message goes to it.
BroadcastEnds ==
    /\ Exhausted
    /\ listener' = "waiting" /\ message' = 0 /\ position' = 0
    /\ dead' = {} /\ present' = {} /\ departures' = 0
    /\ active' = Without(active, dead)
    /\ due' = [c \in Clients |-> IF c \in dead THEN {}
                                ELSE IF c \in Skipped THEN due[c] \ {message} ELSE due[c]]
    /\ UNCHANGED <<broker, awaited, handler, open, received>>

Listener == TakesMessage \/ SendBegins \/ SendRaises \/ SendReturns \/ BroadcastEnds

Next == \/ \E c \in Clients : Connect(c) \/ Leaves(c) \/ Disconnect(c) \/ HandlerFails(c)
        \/ Publish
        \/ Listener

Spec == Init /\ [][Next]_vars

\* The listener is scheduled, and a send ends: uvicorn's keep-alive closes a
\* connection whose peer does not answer its pings.
FairSpec == Spec /\ WF_vars(Listener)

-----------------------------------------------------------------------------
(* Properties. *)

\* Every variable has its type; nobody is listed twice.
TypeOK ==
    /\ published \in 0 .. MaxMessages /\ subscribed \in BOOLEAN
    /\ queue \in Seq(1 .. MaxMessages)
    /\ listener \in {"waiting", "sending"} /\ message \in 0 .. MaxMessages
    /\ position \in 0 .. Cardinality(Clients) + 1
    /\ {awaited, dead, open, present} \subseteq SUBSET Clients
    /\ IsInjective(active) /\ Range(active) \subseteq Clients
    /\ handler \in [Clients -> {"none", "receiving", "ended"}]
    /\ \A c \in Clients : Range(received[c]) \cup due[c] \subseteq 1 .. published
    /\ departures \in 0 .. Cardinality(Clients)

\* A connection that is there before and after a broadcast is skipped only
\* because another one was removed under the iterator: at most one peer
\* misses a message for each handler that disconnected meanwhile.
MissesAreDepartures == Exhausted => Cardinality(Skipped) <= departures

\* dashboard.py, "Forward EventBroker events to WebSocket clients", README.md,
\* "provides real-time telemetry over WebSockets": a peer gets each message once
\* and in the order of publication, while others come and go in the middle of a
\* broadcast; and when nothing is left to
\* send, each peer that is still there has everything that was published
\* since it is connected, but for what a departure made the iterator skip, and
\* unless a send to it has failed.
\* (Where the listener is subscribed: main.py:94 leaves it out.)
EventsAreForwarded ==
    /\ TypeOK
    /\ \A c \in Clients : \A j, k \in DOMAIN received[c] :
           j < k => received[c][j] < received[c][k]
    /\ (subscribed /\ listener = "waiting" /\ queue = <<>>) =>
           \A c \in open : due[c] = {}

\* The listener gets to the end of its queue, whoever fails.
ListenerCatchesUp == (queue # <<>>) ~> (queue = <<>> /\ listener = "waiting")
=============================================================================
