------------------------------- MODULE IVRApp -------------------------------
(***************************************************************************)
(* The IVR application (ari_app/ivr_ari.py): the dispatcher of Stasis      *)
(* events, one IVRSession with its task per channel, and Asterisk as the   *)
(* application can observe it.                                             *)
(*                                                                         *)
(* A step of a task runs from one await to the next.  Consecutive awaits   *)
(* that touch nothing shared (publishing events, starting a recording,     *)
(* playing a sound that is not a prompt) are one program location.  The    *)
(* digit a caller presses is chosen when a menu acts on it; until then it  *)
(* is its number in the order of the caller's presses.                     *)
(***************************************************************************)
EXTENDS Naturals, Sequences, FiniteSets

CONSTANTS
    Inbound,     \* channels on which calls arrive
    Outbound,    \* channels that dialling an endpoint creates
    NoChannel,   \* a session has dialled nobody
    MaxRetries,  \* MAX_RETRIES
    MaxDigits,   \* bound: digits pressed on each channel
    MaxDrops     \* bound: times the websocket to Asterisk is lost

Channels == Inbound \union Outbound

ASSUME ChannelsAssumption == /\ Inbound \intersect Outbound = {}
                             /\ NoChannel \notin Channels
ASSUME BoundsAssumption   == /\ MaxRetries \in Nat \ {0}
                             /\ MaxDigits \in [Channels -> Nat]
                             /\ MaxDrops \in Nat

VARIABLES
    \* Asterisk
    chan,        \* each channel: none, ringing, stasis, hanging (up) or gone
    pressed,     \* digits pressed on it so far
    bridged,     \* the channels in the bridge its session created
    wire,        \* events sent and not yet received, oldest first
    connected,   \* the websocket is up
    drops,       \* times it went down
    \* the application
    handling,    \* the dispatcher awaits inside the handler of this event
    starting,    \* channels whose on_stasis_start awaits its publish
    sessions,    \* IVRApp._sessions
    pc,          \* where the session's task is
    menu, retries,
    fut,         \* the session's digit future
    got,         \* the digit it was resolved with
    bridge,      \* the session holds a bridge (_bridge_id)
    peer,        \* the channel the session dialled
    \* history
    last,        \* the last digit a menu acted on
    unheard,     \* channels that ended while no event could be received
    refused      \* channels for which ARI lost a request: to hang up or to join

asterisk == <<chan, pressed, bridged, wire, connected, drops>>
dispatcher == <<handling, starting, sessions>>
tasks    == <<pc, menu, retries, fut, got, bridge, peer>>
history  == <<last, unheard, refused>>
vars     == <<chan, pressed, bridged, wire, connected, drops, handling, starting,
              sessions, pc, menu, retries, fut, got, bridge, peer, last, unheard,
              refused>>

Menus     == {"main", "sales", "support"}
Digits    == {"0", "1", "2", "8", "#", "other"}
EventType == {"StasisStart", "ChannelDtmfReceived", "ChannelHangupRequest",
              "ChannelDestroyed"}
Events    == [type : EventType, channel : Channels, digit : Nat]

Event(t, c)   == [type |-> t, channel |-> c, digit |-> 0]
DtmfEvent(c)  == [type |-> "ChannelDtmfReceived", channel |-> c,
                  digit |-> pressed[c] + 1]

Live(c) == chan[c] \in {"ringing", "stasis"}

-----------------------------------------------------------------------------
(* Asterisk.                                                               *)

\* Asterisk sends an event; without a websocket nobody ever receives it.
Emit(e) == wire' = IF connected THEN Append(wire, e) ELSE wire

\* A call from the HT812 enters the Stasis application.
Arrive(c) ==
    /\ c \in Inbound
    /\ chan[c] = "none"
    /\ connected
    /\ chan' = [chan EXCEPT ![c] = "stasis"]
    /\ Emit(Event("StasisStart", c))
    /\ UNCHANGED <<pressed, bridged, connected, drops, dispatcher, tasks,
                   history>>

\* The party dialled answers: its channel enters the application too, with no
\* arguments, since dial_endpoint passes no appArgs.
Answer(c) ==
    /\ chan[c] = "ringing"
    /\ connected
    /\ chan' = [chan EXCEPT ![c] = "stasis"]
    /\ Emit(Event("StasisStart", c))
    /\ UNCHANGED <<pressed, bridged, connected, drops, dispatcher, tasks,
                   history>>

\* The party at the end of channel c presses a key.
Press(c) ==
    /\ chan[c] = "stasis"
    /\ pressed[c] < MaxDigits[c]
    /\ pressed' = [pressed EXCEPT ![c] = @ + 1]
    /\ Emit(DtmfEvent(c))
    /\ UNCHANGED <<chan, bridged, connected, drops, dispatcher, tasks, history>>

\* The party hangs up, or does not answer.
HangUp(c) ==
    /\ Live(c)
    /\ chan' = [chan EXCEPT ![c] = "hanging"]
    /\ Emit(Event("ChannelHangupRequest", c))
    /\ UNCHANGED <<pressed, bridged, connected, drops, dispatcher, tasks,
                   history>>

\* Asterisk tears the channel down; it leaves its bridge.
Destroy(c) ==
    /\ chan[c] = "hanging"
    /\ chan' = [chan EXCEPT ![c] = "gone"]
    /\ bridged' = [b \in Channels |-> bridged[b] \ {c}]
    /\ Emit(Event("ChannelDestroyed", c))
    /\ unheard' = IF connected THEN unheard ELSE unheard \union {c}
    /\ UNCHANGED <<pressed, connected, drops, dispatcher, tasks, last, refused>>

\* The websocket is lost, with the events that had not reached the application.
Drop ==
    /\ connected
    /\ drops < MaxDrops
    /\ drops' = drops + 1
    /\ connected' = FALSE
    /\ \E n \in 0 .. Len(wire) :
          /\ wire' = SubSeq(wire, 1, n)
          /\ unheard' = unheard \union
                {wire[i].channel : i \in {k \in n + 1 .. Len(wire) :
                                             wire[k].type = "ChannelDestroyed"}}
    /\ UNCHANGED <<chan, pressed, bridged, dispatcher, tasks, last, refused>>

-----------------------------------------------------------------------------
(* The dispatcher.                                                         *)

\* run() reconnects once it has read what the lost connection left behind.
Reconnect ==
    /\ ~connected
    /\ wire = <<>>
    /\ handling = {}
    /\ connected' = TRUE
    /\ UNCHANGED <<chan, pressed, bridged, wire, drops, dispatcher, tasks,
                   history>>

\* The next event of type t is taken once the handler before it has returned.
Take(t) ==
    /\ handling = {}
    /\ wire # <<>>
    /\ Head(wire).type \in t
    /\ wire' = Tail(wire)

\* StasisStart: on_stasis_start runs as a task and awaits its publish.  The test
\* of event.args skips nothing, no channel of ours has any.
DispatchStart ==
    /\ Take({"StasisStart"})
    /\ starting' = starting \union {Head(wire).channel}
    /\ UNCHANGED <<chan, pressed, bridged, connected, drops, handling, sessions,
                   tasks, history>>

\* The publish is over: the session is registered and its task created.
StartSession(c) ==
    /\ c \in starting
    /\ starting' = starting \ {c}
    /\ sessions' = sessions \union {c}
    /\ pc' = [pc EXCEPT ![c] = "begin"]
    /\ UNCHANGED <<asterisk, handling, menu, retries, fut, got, bridge, peer,
                   history>>

\* A digit for a channel with a session is published before it is delivered; a
\* digit for any other channel is dropped.
DispatchDtmf ==
    /\ Take({"ChannelDtmfReceived"})
    /\ handling' = IF Head(wire).channel \in sessions THEN {Head(wire)} ELSE {}
    /\ UNCHANGED <<chan, pressed, bridged, connected, drops, starting, sessions,
                   tasks, history>>

\* deliver_digit: only a future that is still pending takes the digit.
DeliverDigit ==
    /\ \E e \in handling :
          /\ e.type = "ChannelDtmfReceived"
          /\ handling' = handling \ {e}
          /\ IF fut[e.channel] = "pending"
             THEN /\ fut' = [fut EXCEPT ![e.channel] = "done"]
                  /\ got' = [got EXCEPT ![e.channel] = e.digit]
             ELSE UNCHANGED <<fut, got>>
    /\ UNCHANGED <<asterisk, starting, sessions, pc, menu, retries, bridge, peer,
                   history>>

\* Mutant of DispatchHangup: the session is looked up and not popped.
DispatchHangupKeeps ==
    /\ Take({"ChannelHangupRequest", "ChannelDestroyed"})
    /\ handling' = {Head(wire)}
    /\ LET c == Head(wire).channel IN
          fut' = IF c \in sessions /\ fut[c] = "pending"
                 THEN [fut EXCEPT ![c] = "cancelled"] ELSE fut
    /\ UNCHANGED <<chan, pressed, bridged, connected, drops, starting, sessions, pc,
                   menu, retries, got, bridge, peer, history>>

\* on_hangup, for a hangup request and for the destruction alike: forget the
\* session and cancel the digit it waits for, then publish channel_destroyed.
DispatchHangup ==
    /\ Take({"ChannelHangupRequest", "ChannelDestroyed"})
    /\ handling' = {Head(wire)}
    /\ LET c == Head(wire).channel IN
          /\ sessions' = sessions \ {c}
          /\ fut' = IF c \in sessions /\ fut[c] = "pending"
                    THEN [fut EXCEPT ![c] = "cancelled"] ELSE fut
    /\ UNCHANGED <<chan, pressed, bridged, connected, drops, starting, pc, menu,
                   retries, got, bridge, peer, history>>

\* The publish of channel_destroyed is over.
HangupPublished ==
    /\ \E e \in handling : /\ e.type # "ChannelDtmfReceived"
                           /\ handling' = handling \ {e}
    /\ UNCHANGED <<asterisk, starting, sessions, tasks, history>>

-----------------------------------------------------------------------------
(* The task of a session.                                                  *)

\* Mutant of Collect: one future serves all prompts, resolved once and for all.
CollectReuse(c, m, r) ==
    /\ menu' = [menu EXCEPT ![c] = m]
    /\ retries' = [retries EXCEPT ![c] = r]
    /\ fut' = [fut EXCEPT ![c] = IF got[c] = 0 THEN "pending" ELSE "done"]
    /\ pc' = [pc EXCEPT ![c] = "prompt"]

\* _collect_digit: make the future, then await the start of the prompt.
Collect(c, m, r) ==
    /\ menu' = [menu EXCEPT ![c] = m]
    /\ retries' = [retries EXCEPT ![c] = r]
    /\ fut' = [fut EXCEPT ![c] = "pending"]
    /\ pc' = [pc EXCEPT ![c] = "prompt"]

\* Go on to location l without collecting a digit.
GoTo(c, l) ==
    /\ pc' = [pc EXCEPT ![c] = l]
    /\ UNCHANGED <<menu, retries, fut>>

\* Mutants of Enter: a retry too many; a call that is not hung up.
EnterOnceMore(c, m, r) ==
    IF r <= MaxRetries THEN Collect(c, m, r)
    ELSE IF m = "main" THEN GoTo(c, "cleanup")
    ELSE Collect(c, "main", 0)

EnterNoCleanup(c, m, r) ==
    IF r < MaxRetries THEN Collect(c, m, r)
    ELSE IF m = "main" THEN GoTo(c, "ended")
    ELSE Collect(c, "main", 0)

\* Enter menu m for the r-th retry: too many retries end the call in the main
\* menu and lead back to the main menu from the others.
Enter(c, m, r) ==
    IF r < MaxRetries THEN Collect(c, m, r)
    ELSE IF m = "main" THEN GoTo(c, "cleanup")
    ELSE Collect(c, "main", 0)

\* run: answered, call_start and the dialled digits published, recording.
Begin(c) ==
    /\ pc[c] = "begin"
    /\ Enter(c, "main", 0)
    /\ UNCHANGED <<asterisk, dispatcher, got, bridge, peer, history>>

\* The await of the digit ends: the future leaves _digit_futures.
Digit(c) ==
    /\ fut[c] = "done"
    /\ pc' = [pc EXCEPT ![c] = "act"]
    /\ last' = [last EXCEPT ![c] = got[c]]
    /\ fut' = [fut EXCEPT ![c] = "none"]
    /\ UNCHANGED <<menu, retries>>

Cancelled(c) ==
    /\ fut[c] = "cancelled"
    /\ pc' = [pc EXCEPT ![c] = "ended"]
    /\ fut' = [fut EXCEPT ![c] = "none"]
    /\ UNCHANGED <<menu, retries, last>>

\* The prompt plays: wait for the digit unless it is already there, or cancelled.
Prompted(c) ==
    /\ pc[c] = "prompt"
    /\ \/ fut[c] = "pending" /\ GoTo(c, "wait") /\ UNCHANGED last
       \/ Digit(c)
       \/ Cancelled(c)
    /\ UNCHANGED <<asterisk, dispatcher, got, bridge, peer, unheard, refused>>

\* The task resumes with the digit, or with the cancellation.
Resume(c) ==
    /\ pc[c] = "wait"
    /\ Digit(c) \/ Cancelled(c)
    /\ UNCHANGED <<asterisk, dispatcher, got, bridge, peer, unheard, refused>>

\* Mutant of Timeout: the task waits for a digit without a timeout.
TimeoutNever(c) == FALSE /\ pc[c] = "wait" /\ UNCHANGED vars

\* DIGIT_TIMEOUT: the main menu says goodbye, the others return to it.  The timer
\* may also win against a digit or a cancellation in the same turn of the loop.
Timeout(c) ==
    /\ pc[c] = "wait"
    /\ IF menu[c] = "main"
       THEN /\ pc' = [pc EXCEPT ![c] = "cleanup"]
            /\ fut' = [fut EXCEPT ![c] = "none"]
            /\ UNCHANGED <<menu, retries>>
       ELSE Collect(c, "main", 0)
    /\ UNCHANGED <<asterisk, dispatcher, got, bridge, peer, history>>

\* The digit has been published and forwarded; the menu acts on it.
ActMain(c, d) ==
    CASE d = "1" -> Enter(c, "sales", 0)
      [] d = "2" -> Enter(c, "support", 0)
      [] d = "0" -> GoTo(c, "bridge")
      [] d = "8" -> GoTo(c, "cleanup")
      [] d = "#" -> Enter(c, "main", retries[c])
      [] OTHER   -> Enter(c, "main", retries[c] + 1)

ActSubmenu(c, d) ==
    CASE d \in {"1", "2"} -> GoTo(c, "bridge")
      [] d = "0"          -> Enter(c, "main", 0)
      [] OTHER            -> Enter(c, menu[c], retries[c] + 1)

Act(c) ==
    /\ pc[c] = "act"
    /\ \E d \in Digits : IF menu[c] = "main" THEN ActMain(c, d) ELSE ActSubmenu(c, d)
    /\ UNCHANGED <<asterisk, dispatcher, got, bridge, peer, history>>

\* Mutant of CreateBridge: the result is not looked at.
CreateBridgeUnchecked(c) ==
    /\ pc[c] = "bridge"
    /\ bridge' \in {bridge, [bridge EXCEPT ![c] = TRUE]}
    /\ GoTo(c, "dial")
    /\ UNCHANGED <<asterisk, dispatcher, got, peer, history>>

\* _connect_endpoint: create the bridge, or give the call up.
CreateBridge(c) ==
    /\ pc[c] = "bridge"
    /\ \/ /\ bridge' = [bridge EXCEPT ![c] = TRUE]
          /\ GoTo(c, "dial")
       \/ /\ UNCHANGED bridge
          /\ GoTo(c, "cleanup")
    /\ UNCHANGED <<asterisk, dispatcher, got, peer, history>>

\* Dial the endpoint: Asterisk returns a channel at once, and rings.  Without an
\* answer to the request, which may yet have made Asterisk ring, the bridge is
\* destroyed and the call given up.
Dial(c) ==
    /\ pc[c] = "dial"
    /\ \E rung \in SUBSET {o \in Outbound : chan[o] = "none"} :
          /\ chan' = [o \in Channels |-> IF o \in rung THEN "ringing" ELSE chan[o]]
          /\ \/ /\ \E o \in rung : peer' = [peer EXCEPT ![c] = o]
                /\ GoTo(c, "join")
                /\ UNCHANGED bridge
             \/ /\ bridge' = [bridge EXCEPT ![c] = FALSE]
                /\ GoTo(c, "cleanup")
                /\ UNCHANGED peer
    /\ UNCHANGED <<pressed, bridged, wire, connected, drops, dispatcher, got, history>>

\* Add channel m to the bridge of c.  Only a channel in the Stasis application can
\* enter a bridge, and it leaves the one it was in; add_to_bridge returns nothing,
\* also when Asterisk did not take the request in three attempts.
Add(c, m) ==
    \/ /\ bridged' = IF chan[m] = "stasis"
                     THEN [b \in Channels |-> IF b = c THEN bridged[b] \union {m}
                                                       ELSE bridged[b] \ {m}]
                     ELSE bridged
       /\ UNCHANGED refused
    \/ /\ UNCHANGED bridged
       /\ refused' = refused \union {m}

JoinCaller(c) ==
    /\ pc[c] = "join"
    /\ Add(c, c)
    /\ GoTo(c, "join_peer")
    /\ UNCHANGED <<chan, pressed, wire, connected, drops, dispatcher, got, bridge,
                   peer, last, unheard>>

JoinPeer(c) ==
    /\ pc[c] = "join_peer"
    /\ Add(c, peer[c])
    /\ GoTo(c, "announce")
    /\ UNCHANGED <<chan, pressed, wire, connected, drops, dispatcher, got, bridge,
                   peer, last, unheard>>

\* The event "Bridge connected to ..." is published and the task ends.
Announce(c) ==
    /\ pc[c] = "announce"
    /\ GoTo(c, "ended")
    /\ UNCHANGED <<asterisk, dispatcher, got, bridge, peer, history>>

\* _cleanup: the channel is hung up, unless it is already or Asterisk does not
\* take the request in three attempts.  No session that comes here holds a bridge
\* for it to destroy.
Cleanup(c) ==
    /\ pc[c] = "cleanup"
    /\ \/ /\ Live(c)
          /\ chan' = [chan EXCEPT ![c] = "hanging"]
          /\ Emit(Event("ChannelHangupRequest", c))
          /\ UNCHANGED refused
       \/ /\ UNCHANGED <<chan, wire>>
          /\ refused' = IF Live(c) THEN refused \union {c} ELSE refused
    /\ GoTo(c, "ended")
    /\ UNCHANGED <<pressed, bridged, connected, drops, dispatcher, got, bridge, peer,
                   last, unheard>>

-----------------------------------------------------------------------------
Init ==
    /\ chan = [c \in Channels |-> "none"]
    /\ pressed = [c \in Channels |-> 0]
    /\ bridged = [c \in Channels |-> {}]
    /\ wire = <<>>
    /\ connected = TRUE
    /\ drops = 0
    /\ handling = {}
    /\ starting = {}
    /\ sessions = {}
    /\ pc = [c \in Channels |-> "none"]
    /\ menu = [c \in Channels |-> "main"]
    /\ retries = [c \in Channels |-> 0]
    /\ fut = [c \in Channels |-> "none"]
    /\ got = [c \in Channels |-> 0]
    /\ bridge = [c \in Channels |-> FALSE]
    /\ peer = [c \in Channels |-> NoChannel]
    /\ last = [c \in Channels |-> 0]
    /\ unheard = {}
    /\ refused = {}

Dispatch == \/ Reconnect \/ DispatchStart \/ DispatchDtmf \/ DeliverDigit
              \/ DispatchHangup \/ HangupPublished

Task(c) == \/ StartSession(c) \/ Begin(c) \/ Prompted(c) \/ Resume(c) \/ Timeout(c)
           \/ Act(c) \/ CreateBridge(c) \/ Dial(c) \/ JoinCaller(c) \/ JoinPeer(c)
           \/ Announce(c) \/ Cleanup(c)

Party(c) == Arrive(c) \/ Answer(c) \/ Press(c) \/ HangUp(c)

Next == \/ Dispatch
        \/ \E c \in Channels : Task(c) \/ Party(c) \/ Destroy(c)
        \/ Drop

Spec == Init /\ [][Next]_vars

\* The event loop runs every ready task, ARI and the event bus answer within
\* their timeouts, the digit timer fires, and Asterisk completes a hangup.
Fairness == /\ WF_vars(Dispatch)
            /\ \A c \in Channels : WF_vars(Task(c)) /\ WF_vars(Destroy(c))

FairSpec == Spec /\ Fairness

-----------------------------------------------------------------------------
(* Properties.                                                             *)

Locations == {"none", "begin", "prompt", "wait", "act", "bridge", "dial", "join",
              "join_peer", "announce", "cleanup", "ended"}

\* The variables keep the values the application and Asterisk give them.
TypeOK ==
    /\ chan \in [Channels -> {"none", "ringing", "stasis", "hanging", "gone"}]
    /\ pressed \in [Channels -> Nat]
    /\ bridged \in [Channels -> SUBSET Channels]
    /\ wire \in Seq(Events)
    /\ connected \in BOOLEAN
    /\ drops \in Nat
    /\ handling \in SUBSET Events
    /\ starting \in SUBSET Channels
    /\ sessions \in SUBSET Channels
    /\ pc \in [Channels -> Locations]
    /\ menu \in [Channels -> Menus]
    /\ retries \in [Channels -> 0 .. MaxRetries - 1]
    /\ fut \in [Channels -> {"none", "pending", "done", "cancelled"}]
    /\ got \in [Channels -> Nat]
    /\ bridge \in [Channels -> BOOLEAN]
    /\ peer \in [Channels -> Outbound \union {NoChannel}]
    /\ last \in [Channels -> Nat]
    /\ unheard \in SUBSET Channels
    /\ refused \in SUBSET Channels

\* No menu acts on a digit twice, or on one pressed before another it has
\* already acted on (dispatch awaits on_dtmf).
DigitsInOrder ==
    [][\A c \in Channels : pc'[c] = "act" /\ pc[c] # "act" => last'[c] > last[c]]_vars

\* A task that ends leaves no caller in limbo: the call is hung up or in a bridge,
\* unless Asterisk lost the request (_connect_endpoint, _cleanup).
NoLimbo ==
    \A c \in Channels : pc[c] = "ended" /\ chan[c] = "stasis" =>
        c \in refused \/ \E b \in Channels : c \in bridged[b]

\* No session is left with a bridge and nobody dialled for it: from its dialling on it
\* holds a bridge exactly when it remembers the id of a party it dialled, which may be
\* gone by then (the error path of _connect_endpoint).
BridgeHasLeg ==
    \A c \in Channels : pc[c] # "dial" => (bridge[c] <=> peer[c] # NoChannel)

\* Whatever the task was doing when its channel went away, it ends (DIGIT_TIMEOUT
\* and the timeouts of the HTTP clients; the hangup handler ends it only when it
\* awaits a digit).
TaskEnds == \A c \in Channels :
                pc[c] # "none" /\ chan[c] = "gone" ~> pc[c] = "ended"

\* A registered session whose channel is destroyed is forgotten, provided the
\* destruction is heard (on_hangup).
SessionForgotten ==
    \A c \in Channels :
        c \in sessions /\ Event("ChannelDestroyed", c) \in
                             {wire[i] : i \in 1 .. Len(wire)}
            ~> c \notin sessions \/ c \in unheard
=============================================================================
