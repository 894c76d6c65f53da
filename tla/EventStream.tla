---------------------------- MODULE EventStream ----------------------------
(***************************************************************************)
(* The event pipeline of ht812_api: EventStore (events.py), the queue that *)
(* all streams of /events/stream share (events_router.py), and the list of *)
(* events each client keeps (web/src/App.tsx).                             *)
(*                                                                         *)
(* Event number n is the n-th one published.  A step of a stream ends when *)
(* it has handed an event to the client; keepalives are left out.          *)
(***************************************************************************)
EXTENDS Naturals, Sequences

CONSTANTS
    Clients,     \* programs that read the stream: dashboards, watch_events.py
    StoreSize,   \* events the store keeps
    ReplayLimit, \* events a new stream begins with
    ViewSize,    \* events a client keeps
    MaxEvents,   \* bound: events published
    MaxConnects  \* bound: streams opened

ASSUME SizesAssumption  == /\ StoreSize \in Nat \ {0}
                           /\ ReplayLimit \in 1 .. StoreSize
                           /\ ViewSize \in Nat \ {0}
ASSUME BoundsAssumption == MaxEvents \in Nat /\ MaxConnects \in Nat

VARIABLES
    published,  \* number of events published
    store,      \* EventStore._events
    queue,      \* app.state.event_queue
    stream,     \* the stream of each client: none, replay or live
    replay,     \* what it has still to replay
    dead,       \* streams whose client is gone and that do not know it yet
    view,       \* the events the client keeps, oldest first
    joined,     \* history: the last event published before its stream opened
    opened,     \* history: clients that ever had a stream
    lost,       \* history: events handed to a dead stream
    connects

server  == <<published, store, queue>>
history == <<joined, opened, lost>>
vars    == <<published, store, queue, stream, replay, dead, view, joined, opened,
             lost, connects>>

\* Mutant of LastOf: nothing is dropped.
Untrimmed(s, n) == s

\* The last n elements of s.
LastOf(s, n) == IF Len(s) <= n THEN s ELSE SubSeq(s, Len(s) - n + 1, Len(s))

Init ==
    /\ published = 0
    /\ store = <<>>
    /\ queue = <<>>
    /\ stream = [c \in Clients |-> "none"]
    /\ replay = [c \in Clients |-> <<>>]
    /\ dead = 0
    /\ view = [c \in Clients |-> <<>>]
    /\ joined = [c \in Clients |-> 0]
    /\ opened = {}
    /\ lost = {}
    /\ connects = 0

\* POST /events, the poller or a DTMF handler: store the event, then queue it.
\* The queue has no bound, so put() does not suspend in between.
Publish ==
    /\ published < MaxEvents
    /\ published' = published + 1
    /\ store' = LastOf(Append(store, published + 1), StoreSize)
    /\ queue' = Append(queue, published + 1)
    /\ UNCHANGED <<stream, replay, dead, view, history, connects>>

\* GET /events/stream: the stream begins with a copy of the last events.
Connect(c) ==
    /\ connects < MaxConnects
    /\ connects' = connects + 1
    /\ stream[c] = "none"
    /\ stream' = [stream EXCEPT ![c] = "replay"]
    /\ replay' = [replay EXCEPT ![c] = LastOf(store, ReplayLimit)]
    /\ joined' = [joined EXCEPT ![c] = published]
    /\ opened' = opened \union {c}
    /\ UNCHANGED <<server, dead, view, lost>>

\* The list without event e, which it holds at most once.
Without(v, e) ==
    IF \A k \in DOMAIN v : v[k] # e
    THEN v
    ELSE LET i == CHOOSE k \in DOMAIN v : v[k] = e
         IN  SubSeq(v, 1, i - 1) \o SubSeq(v, i + 1, Len(v))

\* Mutant of Show: an event the client has is listed again.
ShowTwice(v, e) == LastOf(Append(v, e), ViewSize)

\* onmessage: an event the client has already moves to the end.
Show(v, e) == LastOf(Append(Without(v, e), e), ViewSize)

\* Mutant of Replay: the store is read again and again.
ReplayForever(c) ==
    /\ stream[c] = "replay"
    /\ IF replay[c] = <<>>
       THEN /\ replay' = [replay EXCEPT ![c] = LastOf(store, ReplayLimit)]
            /\ UNCHANGED view
       ELSE /\ replay' = [replay EXCEPT ![c] = Tail(@)]
            /\ view' = [view EXCEPT ![c] = Show(@, Head(replay[c]))]
    /\ UNCHANGED <<server, stream, dead, history, connects>>

\* The stream sends the next event of its copy; after the last one it is live.
Replay(c) ==
    /\ stream[c] = "replay"
    /\ IF replay[c] = <<>>
       THEN /\ stream' = [stream EXCEPT ![c] = "live"]
            /\ UNCHANGED <<replay, view>>
       ELSE /\ replay' = [replay EXCEPT ![c] = Tail(@)]
            /\ view' = [view EXCEPT ![c] = Show(@, Head(replay[c]))]
            /\ UNCHANGED stream
    /\ UNCHANGED <<server, dead, history, connects>>

\* A live stream whose client is connected takes the next event of the queue.
Deliver(c) ==
    /\ stream[c] = "live"
    /\ queue # <<>>
    /\ queue' = Tail(queue)
    /\ view' = [view EXCEPT ![c] = Show(@, Head(queue))]
    /\ UNCHANGED <<published, store, stream, replay, dead, history, connects>>

\* The client closes its connection, or loses it; the server does not know yet.
Leave(c) ==
    /\ stream[c] # "none"
    /\ stream' = [stream EXCEPT ![c] = "none"]
    /\ replay' = [replay EXCEPT ![c] = <<>>]
    /\ dead' = dead + 1
    /\ UNCHANGED <<server, view, history, connects>>

\* A stream that does not know its client is gone takes an event all the same.
DeliverToDead ==
    /\ dead > 0
    /\ queue # <<>>
    /\ queue' = Tail(queue)
    /\ lost' = lost \union {Head(queue)}
    /\ UNCHANGED <<published, store, stream, replay, dead, view, joined, opened,
                   connects>>

\* is_disconnected() is true, or the stream is cancelled: it ends.
Notice ==
    /\ dead > 0
    /\ dead' = dead - 1
    /\ UNCHANGED <<server, stream, replay, view, history, connects>>

-----------------------------------------------------------------------------
Serve(c) == Replay(c) \/ Deliver(c)

Next ==
    \/ Publish
    \/ \E c \in Clients : Connect(c) \/ Serve(c) \/ Leave(c)
    \/ DeliverToDead
    \/ Notice

Spec == Init /\ [][Next]_vars

\* The event loop runs every stream, and a closed connection is noticed.
FairSpec == Spec /\ WF_vars(Notice) /\ \A c \in Clients : WF_vars(Serve(c))

-----------------------------------------------------------------------------
(* Properties.                                                             *)

Numbers == 1 .. MaxEvents

\* The variables keep the values the server and the clients give them.
TypeOK ==
    /\ published \in 0 .. MaxEvents
    /\ store \in Seq(Numbers) /\ Len(store) <= StoreSize
    /\ queue \in Seq(Numbers)
    /\ stream \in [Clients -> {"none", "replay", "live"}]
    /\ replay \in [Clients -> Seq(Numbers)]
    /\ dead \in 0 .. MaxConnects
    /\ view \in [Clients -> Seq(Numbers)]
    /\ \A c \in Clients : Len(view[c]) <= ViewSize
    /\ joined \in [Clients -> 0 .. MaxEvents]
    /\ opened \subseteq Clients
    /\ lost \subseteq Numbers
    /\ connects \in 0 .. MaxConnects

\* The events that a client is due from its stream: the replay, and all since.
Due(c) == published - joined[c] + (IF joined[c] < ReplayLimit THEN joined[c] ELSE ReplayLimit)

\* A dashboard that reads the stream alone shows, once the queue is drained, the
\* events it is due in order, each once and without a gap: the replay, the backlog
\* of the queue and what was published meanwhile fit together, and so they do
\* after a reconnect.  (Older events may be out of order: a replay that breaks off
\* has moved some of them to the end.)
SettledView ==
    \A c \in Clients :
        opened = {c} /\ lost = {} /\ stream[c] = "live" /\ queue = <<>> =>
            LastOf(view[c], Due(c)) =
                LastOf(LastOf([n \in 1 .. published |-> n], ViewSize), Due(c))

\* The queue is drained while somebody reads: as long as a client stays, every
\* event leaves the queue.
QueueDrains ==
    \A c \in Clients : <>[](stream[c] # "none") => <>[](queue = <<>>)
=============================================================================
