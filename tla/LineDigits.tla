----------------------------- MODULE LineDigits -----------------------------
(***************************************************************************)
(* What becomes of a digit.  A digit keyed in on a phone, dialled with a   *)
(* call, sent over ARI or clicked on the web keypad is reported to the     *)
(* event store by several publishers that know nothing of each other: the  *)
(* dispatcher of the IVR application (the raw digit), the task of the      *)
(* session (the digit a menu acts on, and the copy it forwards to line 2)  *)
(* and the DTMF routes of the API.                                         *)
(*                                                                         *)
(* The digits of a channel are numbered in the order Asterisk reports      *)
(* them, those dialled with the call first; which key it was matters only  *)
(* to the menu, which chooses when it acts.  The store is kept as one      *)
(* sequence per channel: no property compares the digits of two channels.  *)
(* Events that are not about digits are not kept.  Bridging and retries    *)
(* are the matter of IVRApp.                                               *)
(***************************************************************************)
EXTENDS Naturals, Sequences, FiniteSets

CONSTANTS
    Calls,       \* channels of calls from the HT812
    Legs,        \* channels of parties a menu dials
    StasisLeg,   \* the halves of the Local channel that
    FarLeg,      \*   simulate_call_flow.py originates
    NoChannel,
    Handset,     \* the line of the phone at the end of a channel, or NoLine
    Caller,      \* the line whose number the channel carries as its caller
    Dialled,     \* number of digits a call was placed with (dialed_exten)
    Senders,     \* POST /dtmf/send requests and runs of send_dtmf_to_ivr.py
    Steps,       \* digits a script sends, one after the other
    MaxKeys,     \* bound: digits keyed in on each channel
    MaxActors,   \* bound: calls, clicks and scripts of one behaviour, together
    MaxFaults    \* bound: HTTP exchanges that fail

Lines    == {"1", "2"}
NoLine   == "none"
AnyLine  == "any"
Channels == Calls \union Legs \union {StasisLeg, FarLeg}
InStasis == Channels \ {FarLeg}     \* the channels that get a session

ASSUME ChannelsAssumption ==
    /\ NoChannel \notin Channels
    /\ Calls \intersect Legs = {}
    /\ StasisLeg # FarLeg
    /\ {StasisLeg, FarLeg} \intersect (Calls \union Legs) = {}
    /\ "dispatcher" \notin Channels
ASSUME LinesAssumption ==
    /\ Handset \in [Channels -> Lines \union {NoLine}]
    /\ Handset[StasisLeg] = NoLine /\ Handset[FarLeg] = NoLine
    /\ Caller \in [Channels -> Lines]
    /\ Dialled \in [Channels -> Nat]
ASSUME BoundsAssumption ==
    /\ MaxKeys \in [Channels -> Nat]
    /\ {Steps, MaxActors, MaxFaults} \subseteq Nat
    /\ Steps > 0

VARIABLES
    \* Asterisk
    chan,       \* each channel: none, new (not yet in Stasis), up or gone
    keyed,      \* digits reported on it so far
    inbox,      \* events on the websocket of the IVR application
    \* the IVR application
    sessions,   \* IVRApp._sessions
    pc, menu,   \* where the task of a session is, and in which menu
    fut,        \* its digit future: none, waiting or set
    digit,      \* the digit the task works on, or the future is set to
    handling,   \* the dispatcher awaits the publish of this digit's event
    post,       \* each publisher's POST /events
    \* the API
    log,        \* the digit events of each channel in the store, oldest first
    late,       \* events whose publisher gave up before they were stored
    ask,        \* the senders: stage, line, channel found, digits left, sent
    actors,     \* calls, clicks and scripts so far
    \* simulate_call_flow.py
    script,     \* where it is, the half it injects into, the digits left
    feed,       \* events of its channel on its websocket
    \* history
    lost,       \* events that will never be stored
    faults,
    sent        \* digits ARI put on a channel for each sender

asterisk == <<chan, keyed, inbox>>
tasks    == <<sessions, pc, menu, fut, digit, handling>>
ivr      == <<tasks, post>>
api      == <<log, late, ask, actors>>
tool     == <<script, feed>>
history  == <<lost, faults, sent>>
vars     == <<chan, keyed, inbox, sessions, pc, menu, fut, digit, handling,
              post, log, late, ask, actors, script, feed, lost,
              faults, sent>>

Dispatcher == "dispatcher"
Publishers == InStasis \union {Dispatcher}

\* The events about a digit, in the order in which it causes them.
Stage  == [dialed |-> 0, raw |-> 1, menu |-> 2, sub |-> 2, route |-> 3,
           forwarded |-> 4]
Event(s, n) == [stage |-> s, n |-> n, late |-> FALSE]
Events == [stage : DOMAIN Stage, n : Nat, late : BOOLEAN]

NoPost == [status |-> "none", channel |-> NoChannel, event |-> Event("raw", 0)]
Post(c, e) == [status |-> "sent", channel |-> c, event |-> e]

\* Where simulate_call_flow.py is while it reads its websocket.
Listening == {"waiting", "injecting", "spent"}

EventTypes == {"StasisStart", "ChannelDtmfReceived", "ChannelDestroyed"}
AriEvent(t, c, n) == [type |-> t, channel |-> c, n |-> n]

NoAsk == [at |-> "idle", line |-> "1", channel |-> NoChannel, ok |-> 0, left |-> 0]

Exists(c) == chan[c] \in {"new", "up"}

-----------------------------------------------------------------------------
(* Asterisk.                                                               *)

\* Every websocket of the application gets the event; the script's may not be
\* open yet, and it skips the events of other channels.
Emit(e) ==
    /\ inbox' = Append(inbox, e)
    /\ feed' = IF script.at \in Listening /\ e.channel = StasisLeg
               THEN Append(feed, e.type) ELSE feed

NewActor == actors < MaxActors /\ actors' = actors + 1

\* A phone places a call, or a party that a menu dialled answers; it has the
\* number of the one who called as its caller (dial_endpoint).
Arrive(c) ==
    /\ \/ c \in Calls /\ chan[c] = "none" /\ NewActor
       \/ /\ c \in Legs /\ chan[c] = "none" /\ NewActor
          /\ \E p \in InStasis : pc[p] = "bridged" /\ Caller[p] = Caller[c]
       \/ c = StasisLeg /\ chan[c] = "new" /\ actors' = actors
    /\ chan' = [chan EXCEPT ![c] = "up"]
    /\ keyed' = [keyed EXCEPT ![c] = Dialled[c]]
    /\ Emit(AriEvent("StasisStart", c, 0))
    /\ UNCHANGED <<ivr, log, late, ask, script, history>>

\* Asterisk receives a digit on channel c.
Report(c) ==
    /\ keyed' = [keyed EXCEPT ![c] = @ + 1]
    /\ Emit(AriEvent("ChannelDtmfReceived", c, keyed[c] + 1))

\* A key of the phone at the end of c is pressed.
Key(c) ==
    /\ chan[c] = "up"
    /\ Handset[c] # NoLine
    /\ keyed[c] < Dialled[c] + MaxKeys[c]
    /\ Report(c)
    /\ UNCHANGED <<chan, ivr, api, script, history>>

\* The halves of the Local channel end together.
Ended(c) == IF c \in {StasisLeg, FarLeg} THEN {StasisLeg, FarLeg} ELSE {c}

End(c) ==
    IF Exists(c)
    THEN /\ chan' = [d \in Channels |-> IF d \in Ended(c) THEN "gone" ELSE chan[d]]
         /\ Emit(AriEvent("ChannelDestroyed", c, 0))
    ELSE UNCHANGED <<chan, inbox, feed>>

HangUp(c) ==
    /\ c # FarLeg
    /\ chan[c] = "up"
    /\ End(c)
    /\ UNCHANGED <<keyed, ivr, api, script, history>>

\* A digit sent to channel c goes to whoever is at its other end: the phone, or
\* for the far half of a Local channel the half in Stasis, which receives it.
Inject(c) ==
    IF c = FarLeg /\ chan[StasisLeg] = "up"
    THEN Report(StasisLeg)
    ELSE UNCHANGED <<keyed, inbox, feed>>

-----------------------------------------------------------------------------
(* The event store, as its publishers see it.                              *)

\* POST /events stores the event; the answer lets the publisher go on.
Store(p) ==
    /\ post[p].status = "sent"
    /\ log' = [log EXCEPT ![post[p].channel] = Append(@, post[p].event)]
    /\ post' = [post EXCEPT ![p].status = "answered"]
    /\ UNCHANGED <<asterisk, tasks, late, ask, actors, tool, history>>

\* The exchange fails or takes longer than 3 s.  publish swallows that: the
\* event is lost, or stored at some later time.
GiveUp(p) ==
    /\ post[p].status = "sent"
    /\ faults < MaxFaults
    /\ faults' = faults + 1
    /\ post' = [post EXCEPT ![p].status = "answered"]
    /\ LET e == <<post[p].channel, post[p].event>> IN
          \/ lost' = lost \union {e} /\ late' = late
          \/ late' = late \union {e} /\ lost' = lost
    /\ UNCHANGED <<asterisk, tasks, log, ask, actors, tool, sent>>

StoreLate(e) ==
    /\ log' = [log EXCEPT ![e[1]] = Append(@, [e[2] EXCEPT !.late = TRUE])]
    /\ late' = late \ {e}
    /\ UNCHANGED <<asterisk, ivr, ask, actors, tool, history>>

-----------------------------------------------------------------------------
(* The dispatcher of the IVR application.                                  *)

\* Mutant of OnDtmf: the digit is delivered first and published afterwards.
OnDtmfEager(e) ==
    IF e.channel \in sessions
    THEN /\ handling' = TRUE
         /\ post' = [post EXCEPT ![Dispatcher] = Post(e.channel, Event("raw", e.n))]
         /\ IF fut[e.channel] = "waiting"
            THEN /\ fut' = [fut EXCEPT ![e.channel] = "set"]
                 /\ digit' = [digit EXCEPT ![e.channel] = e.n]
            ELSE UNCHANGED <<fut, digit>>
         /\ UNCHANGED <<sessions, pc, menu>>
    ELSE UNCHANGED ivr

\* on_dtmf publishes the raw digit, if the channel has a session.
OnDtmf(e) ==
    IF e.channel \in sessions
    THEN /\ handling' = TRUE
         /\ post' = [post EXCEPT ![Dispatcher] = Post(e.channel, Event("raw", e.n))]
         /\ UNCHANGED <<sessions, pc, menu, fut, digit>>
    ELSE UNCHANGED ivr

\* Mutant of OnHangup: the whole task is cancelled, wherever it is.
OnHangupCancelTask(e) ==
    /\ sessions' = sessions \ {e.channel}
    /\ fut' = [fut EXCEPT ![e.channel] = "none"]
    /\ pc' = [pc EXCEPT ![e.channel] = IF e.channel \in sessions THEN "done" ELSE @]
    /\ post' = [post EXCEPT ![e.channel] = NoPost]
    /\ UNCHANGED <<menu, digit, handling>>

\* on_hangup forgets the session and cancels a future that is still awaited,
\* which ends the task; elsewhere the task goes on.
OnHangup(e) ==
    /\ sessions' = sessions \ {e.channel}
    /\ IF e.channel \in sessions /\ fut[e.channel] = "waiting"
       THEN /\ fut' = [fut EXCEPT ![e.channel] = "none"]
            /\ pc' = [pc EXCEPT ![e.channel] = "done"]
       ELSE UNCHANGED <<fut, pc>>
    /\ UNCHANGED <<menu, digit, handling, post>>

\* A StasisStart is handled by a task of its own.
OnStasisStart(e) ==
    /\ pc' = [pc EXCEPT ![e.channel] = "entering"]
    /\ UNCHANGED <<sessions, menu, fut, digit, handling, post>>

Dispatch ==
    /\ ~handling
    /\ inbox # <<>>
    /\ inbox' = Tail(inbox)
    /\ LET e == Head(inbox) IN
          \/ e.type = "StasisStart" /\ OnStasisStart(e)
          \/ e.type = "ChannelDtmfReceived" /\ OnDtmf(e)
          \/ e.type = "ChannelDestroyed" /\ OnHangup(e)
    /\ UNCHANGED <<chan, keyed, api, tool, history>>

\* The raw digit is published: it is delivered to the future there is now.
DeliverDigit ==
    /\ handling
    /\ post[Dispatcher].status = "answered"
    /\ handling' = FALSE
    /\ post' = [post EXCEPT ![Dispatcher] = NoPost]
    /\ LET c == post[Dispatcher].channel IN
          IF fut[c] = "waiting"
          THEN /\ fut' = [fut EXCEPT ![c] = "set"]
               /\ digit' = [digit EXCEPT ![c] = post[Dispatcher].event.n]
          ELSE UNCHANGED <<fut, digit>>
    /\ UNCHANGED <<asterisk, sessions, pc, menu, api, tool, history>>

-----------------------------------------------------------------------------
(* The task of a session.                                                  *)

\* The task of channel c publishes an event about its digit n and waits for it.
Publish(c, s, n) ==
    /\ post' = [post EXCEPT ![c] = Post(c, Event(s, n))]
    /\ pc' = [pc EXCEPT ![c] = s]
    /\ digit' = [digit EXCEPT ![c] = n]

\* The menu plays its prompt and waits for a digit.
Prompt(c, m) ==
    /\ pc' = [pc EXCEPT ![c] = "prompt"]
    /\ menu' = [menu EXCEPT ![c] = m]
    /\ fut' = [fut EXCEPT ![c] = "waiting"]
    /\ post' = [post EXCEPT ![c] = NoPost]

\* The session is registered and its task publishes the digits dialled with the
\* call, which it does for line 1 only, and goes to the menu.
Enter(c) ==
    /\ pc[c] = "entering"
    /\ sessions' = sessions \union {c}
    /\ IF Caller[c] = "1" /\ Dialled[c] > 0
       THEN Publish(c, "dialed", 1) /\ UNCHANGED <<menu, fut>>
       ELSE Prompt(c, "main") /\ UNCHANGED digit
    /\ UNCHANGED <<asterisk, handling, api, tool, history>>

\* The menu has a digit: it publishes it.
TakeDigit(c) ==
    /\ pc[c] = "prompt"
    /\ fut[c] = "set"
    /\ fut' = [fut EXCEPT ![c] = "none"]
    /\ Publish(c, IF menu[c] = "main" THEN "menu" ELSE "sub", digit[c])
    /\ UNCHANGED <<asterisk, sessions, menu, handling, api, tool, history>>

\* _cleanup hangs the channel up; the task is over.
Finish(c) ==
    /\ pc' = [pc EXCEPT ![c] = "done"]
    /\ fut' = [fut EXCEPT ![c] = "none"]
    /\ post' = [post EXCEPT ![c] = NoPost]
    /\ End(c)
    /\ UNCHANGED menu

NoDigit(c) ==
    /\ pc[c] = "prompt"
    /\ fut[c] = "waiting"
    /\ \/ menu[c] = "main" /\ Finish(c)
       \/ menu[c] = "sub" /\ Prompt(c, "main") /\ UNCHANGED <<chan, inbox, feed>>
    /\ UNCHANGED <<keyed, sessions, digit, handling, api, script, history>>

\* What a menu may do with a digit: stay or change, dial, or end the call.
Act(c) ==
    \/ \E m \in {"main", "sub"} :
          Prompt(c, m) /\ UNCHANGED <<chan, inbox, feed>>
    \/ /\ pc' = [pc EXCEPT ![c] = "bridged"]
       /\ post' = [post EXCEPT ![c] = NoPost]
       /\ UNCHANGED <<menu, fut, chan, inbox, feed>>
    \/ Finish(c)

\* _forward_digit_to_line2: a route event, then a dtmf event for line 2.
Forward(c) == Publish(c, "route", digit[c]) /\ UNCHANGED <<menu, fut, chan, inbox, feed>>

\* The task goes on after a publish.
GoOn(c) ==
    /\ post[c].status = "answered"
    /\ \/ pc[c] = "dialed" /\ Forward(c)
       \/ /\ pc[c] \in {"menu", "sub"}
          /\ IF pc[c] = "menu" /\ Caller[c] = "1"
             THEN Forward(c)
             ELSE Act(c) /\ UNCHANGED digit
       \/ /\ pc[c] = "route"
          /\ Publish(c, "forwarded", digit[c])
          /\ UNCHANGED <<menu, fut, chan, inbox, feed>>
       \/ /\ pc[c] = "forwarded"
          /\ IF digit[c] < Dialled[c]
             THEN /\ Publish(c, "dialed", digit[c] + 1)
                  /\ UNCHANGED <<menu, fut, chan, inbox, feed>>
             ELSE /\ IF digit[c] = Dialled[c]
                     THEN Prompt(c, "main") /\ UNCHANGED <<chan, inbox, feed>>
                     ELSE Act(c)
                  /\ UNCHANGED digit
    /\ UNCHANGED <<keyed, sessions, handling, api, script, history>>

-----------------------------------------------------------------------------
(* The DTMF routes.                                                        *)

\* POST /dtmf/simulate: nothing else runs between the events it stores.  They
\* are kept under NoChannel.
Simulate(l) ==
    /\ NewActor
    /\ LET n == Len(log[NoChannel]) + 1 IN
       log' = [log EXCEPT ![NoChannel] = @ \o
                 IF l = "1" THEN <<Event("raw", n), Event("route", n),
                                   Event("forwarded", n)>>
                 ELSE <<Event("raw", n)>>]
    /\ UNCHANGED <<asterisk, ivr, late, ask, tool, history>>

\* POST /dtmf/send asks ARI for the channels of a line.
AskSend(r, l) ==
    /\ ask[r].at = "idle"
    /\ NewActor
    /\ ask' = [ask EXCEPT ![r] = [NoAsk EXCEPT !.at = "listing", !.line = l, !.left = 1]]
    /\ UNCHANGED <<asterisk, ivr, log, late, tool, history>>

\* So does send_dtmf_to_ivr.py, which takes any channel and has more digits.
ListChannels(r) ==
    /\ ask[r].at = "idle"
    /\ NewActor
    /\ ask' = [ask EXCEPT ![r] = [NoAsk EXCEPT !.at = "listing", !.line = AnyLine,
                                               !.left = Steps]]
    /\ UNCHANGED <<asterisk, ivr, log, late, tool, history>>

\* The channels that match a line: by caller, or by the name of the endpoint.
Matching(l) ==
    {c \in Channels : Exists(c) /\ (l = AnyLine \/ Caller[c] = l \/ Handset[c] = l)}

\* find_active_channel_for_line takes the first that matches, in whatever order
\* ARI lists them.
Find(r) ==
    /\ ask[r].at = "listing"
    /\ \E c \in Matching(ask[r].line) :
          ask' = [ask EXCEPT ![r].at = "sending", ![r].channel = c]
    /\ UNCHANGED <<asterisk, ivr, log, late, actors, tool, history>>

\* There is none, or ARI does not answer: the route reports an error.
NotFound(r) ==
    /\ ask[r].at = "listing"
    /\ \/ Matching(ask[r].line) = {} /\ faults' = faults
       \/ faults < MaxFaults /\ faults' = faults + 1
    /\ ask' = [ask EXCEPT ![r].at = "reported"]
    /\ UNCHANGED <<asterisk, ivr, log, late, actors, tool, lost, sent>>

\* Asterisk gets the digit: the channel may have ended since it was listed.
SendDigit(r) ==
    /\ ask[r].at = "sending"
    /\ LET c == ask[r].channel IN
          IF Exists(c)
          THEN /\ Inject(c)
               /\ sent' = [sent EXCEPT ![r] = @ + 1]
               /\ ask' = [ask EXCEPT ![r].at = "done"]
          ELSE /\ ask' = [ask EXCEPT ![r].at = "failed"]
               /\ UNCHANGED <<keyed, inbox, feed, sent>>
    /\ UNCHANGED <<chan, ivr, log, late, actors, script, lost, faults>>

\* The answer reaches the sender; one that is lost counts as a failure.
Answered(r) ==
    \/ ask[r].at \in {"done", "failed"} /\ faults' = faults
    \/ ask[r].at = "done" /\ faults < MaxFaults /\ faults' = faults + 1

\* Mutant of ReportSend: a request that failed is sent once more.
ReportSendRetry(r) ==
    /\ Answered(r)
    /\ ask[r].line # AnyLine
    /\ LET good == ask[r].at = "done" /\ faults' = faults IN
       ask' = [ask EXCEPT ![r].at = IF good THEN "reported" ELSE "sending",
                          ![r].ok = IF good THEN 1 ELSE 0]
    /\ UNCHANGED <<asterisk, ivr, log, late, actors, tool, lost, sent>>

\* The route reports what became of the digit.
ReportSend(r) ==
    /\ Answered(r)
    /\ ask[r].line # AnyLine
    /\ ask' = [ask EXCEPT ![r].at = "reported", ![r].left = 0,
                          ![r].ok = IF ask[r].at = "done" /\ faults' = faults
                                    THEN 1 ELSE 0]
    /\ UNCHANGED <<asterisk, ivr, log, late, actors, tool, lost, sent>>

\* Mutant of NextDigit: the script goes one digit too far.
NextDigitPastEnd(r) ==
    /\ Answered(r)
    /\ ask[r].line = AnyLine
    /\ ask' = [ask EXCEPT ![r].at = IF ask[r].left = 0 THEN "reported" ELSE "sending",
                          ![r].left = @ - 1,
                          ![r].ok = IF ask[r].at = "done" /\ faults' = faults
                                    THEN @ + 1 ELSE @]
    /\ UNCHANGED <<asterisk, ivr, log, late, actors, tool, lost, sent>>

\* The script goes on with its next digit, also after an error status, but a
\* request without an answer ends it.
NextDigit(r) ==
    /\ Answered(r)
    /\ ask[r].line = AnyLine
    /\ LET lostAnswer == faults' # faults
           left == IF lostAnswer THEN 0 ELSE ask[r].left - 1 IN
       ask' = [ask EXCEPT ![r].at = IF left = 0 THEN "reported" ELSE "sending",
                          ![r].left = left,
                          ![r].ok = IF ask[r].at = "done" /\ ~lostAnswer
                                    THEN @ + 1 ELSE @]
    /\ UNCHANGED <<asterisk, ivr, log, late, actors, tool, lost, sent>>

-----------------------------------------------------------------------------
(* simulate_call_flow.py.                                                  *)

Fault == faults < MaxFaults /\ faults' = faults + 1

\* It ends in the middle, and does not hang its call up.
Cut == script' = [script EXCEPT !.at = "done", !.cut = TRUE]

\* It originates a Local channel into the application.  Asterisk may not be
\* reached, or refuse; or the answer is lost, and the script ends although
\* there is a call.
Originate ==
    /\ script.at = "idle"
    /\ NewActor
    /\ \/ /\ script' = [script EXCEPT !.at = "created"]
          /\ chan' = [chan EXCEPT ![StasisLeg] = "new", ![FarLeg] = "up"]
          /\ faults' = faults
       \/ /\ Fault
          /\ script' = [script EXCEPT !.at = "done"]
          /\ chan' = chan
       \/ /\ Fault
          /\ Cut
          /\ chan' = [chan EXCEPT ![StasisLeg] = "new", ![FarLeg] = "up"]
    /\ UNCHANGED <<keyed, inbox, ivr, log, late, ask, feed, lost, sent>>

\* Only then does it open its websocket, which may fail: the StasisStart may be
\* past by that time.
Connect ==
    /\ script.at = "created"
    /\ \/ script' = [script EXCEPT !.at = "waiting"] /\ faults' = faults
       \/ Fault /\ Cut
    /\ UNCHANGED <<asterisk, ivr, api, feed, lost, sent>>

\* Mutant of OutOfTime: the script stops without hanging up.
OutOfTimeLeave ==
    /\ script' = [script EXCEPT !.at = "done"]
    /\ UNCHANGED <<chan, inbox, feed, faults>>

\* Past the deadline it hangs up, and does not notice when that fails.
OutOfTime ==
    \/ /\ script' = [script EXCEPT !.at = "done"]
       /\ End(StasisLeg)
       /\ faults' = faults
    \/ Fault /\ Cut /\ UNCHANGED <<chan, inbox, feed>>

\* At the StasisStart the script looks for the far half, and injects into the
\* half it knows when it does not find it.
StartInjecting ==
    /\ script.at = "waiting"
    /\ faults' = faults \/ Fault
    /\ script' = [script EXCEPT !.at = "injecting",
                                !.target = IF faults' = faults /\ Exists(FarLeg)
                                           THEN FarLeg ELSE StasisLeg]

\* An event of its channel.  The deadline is looked at after these events only.
Hear ==
    /\ script.at \in Listening
    /\ feed # <<>>
    /\ \/ /\ feed' = Tail(feed)
          /\ UNCHANGED <<chan, inbox>>
          /\ \/ Head(feed) = "StasisStart" /\ StartInjecting
             \/ Head(feed) = "ChannelDtmfReceived" /\ UNCHANGED <<script, faults>>
             \/ /\ Head(feed) = "ChannelDestroyed"
                /\ script' = [script EXCEPT !.at = "done"]
                /\ faults' = faults
       \/ Head(feed) # "ChannelDestroyed" /\ OutOfTime
    /\ UNCHANGED <<keyed, ivr, api, lost, sent>>

\* The task that injects: a digit after each wait, and at the end the hang-up.
InjectNext ==
    /\ script.at = "injecting"
    /\ IF script.left > 0
       THEN /\ script' = [script EXCEPT !.left = @ - 1]
            /\ IF Exists(script.target) THEN Inject(script.target)
               ELSE UNCHANGED <<keyed, inbox, feed>>
            /\ chan' = chan
       ELSE /\ script' = [script EXCEPT !.at = "spent"]
            /\ End(StasisLeg)
            /\ keyed' = keyed
    /\ UNCHANGED <<ivr, api, history>>

\* A request of the task fails, which ends the task and nothing else; or the
\* websocket closes or the script is interrupted, which ends it.
ScriptFault ==
    /\ Fault
    /\ \/ script.at = "injecting" /\ script' = [script EXCEPT !.at = "spent"]
       \/ script.at \in Listening /\ Cut
    /\ UNCHANGED <<asterisk, ivr, api, feed, lost, sent>>

-----------------------------------------------------------------------------
Init ==
    /\ chan = [c \in Channels |-> "none"]
    /\ keyed = [c \in Channels |-> 0]
    /\ inbox = <<>>
    /\ sessions = {}
    /\ pc = [c \in InStasis |-> "none"]
    /\ menu = [c \in InStasis |-> "main"]
    /\ fut = [c \in InStasis |-> "none"]
    /\ digit = [c \in InStasis |-> 0]
    /\ handling = FALSE
    /\ post = [p \in Publishers |-> NoPost]
    /\ log = [c \in InStasis \union {NoChannel} |-> <<>>]
    /\ late = {}
    /\ ask = [r \in Senders |-> NoAsk]
    /\ actors = 0
    /\ script = [at |-> "idle", target |-> FarLeg, left |-> Steps, cut |-> FALSE]
    /\ feed = <<>>
    /\ lost = {}
    /\ faults = 0
    /\ sent = [r \in Senders |-> 0]

Task(c) == Enter(c) \/ TakeDigit(c) \/ NoDigit(c) \/ GoOn(c)
Posting(p) == Store(p) \/ GiveUp(p)
Sender(r) ==
    \/ ListChannels(r) \/ \E l \in Lines : AskSend(r, l)
    \/ Find(r) \/ NotFound(r) \/ SendDigit(r) \/ ReportSend(r) \/ NextDigit(r)

Next ==
    \/ \E c \in Channels : Arrive(c) \/ Key(c) \/ HangUp(c)
    \/ Dispatch \/ DeliverDigit
    \/ \E c \in InStasis : Task(c)
    \/ \E p \in Publishers : Posting(p)
    \/ \E e \in late : StoreLate(e)
    \/ \E l \in Lines : Simulate(l)
    \/ \E r \in Senders : Sender(r)
    \/ Originate \/ Connect \/ Hear \/ InjectNext \/ ScriptFault

Spec == Init /\ [][Next]_vars

-----------------------------------------------------------------------------
(* Properties.                                                             *)

TypeOK ==
    /\ chan \in [Channels -> {"none", "new", "up", "gone"}]
    /\ keyed \in [Channels -> Nat]
    /\ inbox \in Seq([type : EventTypes, channel : InStasis, n : Nat])
    /\ sessions \subseteq InStasis
    /\ pc \in [InStasis -> {"none", "entering", "prompt", "bridged", "done"}
                             \union DOMAIN Stage]
    /\ menu \in [InStasis -> {"main", "sub"}]
    /\ fut \in [InStasis -> {"none", "waiting", "set"}]
    /\ digit \in [InStasis -> Nat]
    /\ handling \in BOOLEAN
    /\ post \in [Publishers -> [status : {"none", "sent", "answered"},
                                channel : InStasis \union {NoChannel}, event : Events]]
    /\ log \in [InStasis \union {NoChannel} -> Seq(Events)]
    /\ late \union lost \subseteq InStasis \X Events
    /\ ask \in [Senders -> [at : {"idle", "listing", "sending", "done", "failed", "reported"},
                            line : Lines \union {AnyLine}, ok : Nat, left : Nat,
                            channel : Channels \union {NoChannel}]]
    /\ script.at \in {"idle", "created", "done"} \union Listening
    /\ feed \in Seq(EventTypes)
    /\ {actors, faults} \subseteq Nat
    /\ sent \in [Senders -> Nat]

Before(x, y) ==
    \/ x.n = y.n /\ Stage[x.stage] < Stage[y.stage]
    \/ x.n < y.n /\ Stage[x.stage] = Stage[y.stage]

\* The events of a channel tell what happened in the order in which it
\* happened, whichever publishers they come from: a digit is reported raw
\* before a menu acts on it, its copy for line 2 last, and the digits of each
\* kind in the order they were keyed in.  Only an event whose publisher had
\* given up on it may come late (publish, ivr_ari.py:154-185, called from the
\* dispatcher and from the tasks of the sessions).
EventsInOrder ==
    \A c \in DOMAIN log : \A i, j \in DOMAIN log[c] :
        i < j /\ ~log[c][j].late => ~Before(log[c][j], log[c][i])

\* A request to send a digit puts it on a channel once, and the digits reported
\* as sent were sent, whatever became of the channel or of the answer between
\* listing, sending and reporting (dtmf_router.py:86-121).
SentAsReported ==
    \A r \in Senders :
        /\ ask[r].ok <= sent[r]
        /\ sent[r] <= IF ask[r].line = AnyLine THEN Steps ELSE 1

\* When simulate_call_flow.py stops there is no call of its own left, unless it
\* was cut short: the answer to its originate was lost, its websocket could not
\* be opened or closed, it was interrupted, or its hang-up at the deadline
\* failed.  In those cases nothing in it ends the call.  Otherwise, wherever the
\* injection, a hang-up of another, the deadline or a failed request of the task
\* meet, and also when the originate is refused, no call is left
\* (simulate_call_flow.py:136-213).
ScriptEndsCall == script.at = "done" /\ ~script.cut => ~Exists(StasisLeg)

Fate(c, s, n) ==
    \/ \E i \in DOMAIN log[c] : log[c][i].stage = s /\ log[c][i].n = n
    \/ <<c, Event(s, n)>> \in late \union lost

\* A digit that the main menu takes on a call of line 1, or that the call was
\* dialled with, is not dropped on its way to line 2, even if the caller hangs
\* up meanwhile: the task is still at work on it, or the copy for line 2 was
\* published; only a publish that failed can keep it from being shown there
\* (_forward_digit_to_line2, ivr_ari.py:446-479).
NoDigitDropped ==
    \A c \in {d \in InStasis : Caller[d] = "1"} :
        \A n \in 1 .. keyed[c] :
            \/ \A s \in {"dialed", "menu"} : ~Fate(c, s, n)
            \/ Fate(c, "forwarded", n)
            \/ digit[c] = n /\ pc[c] \in {"dialed", "menu", "route", "forwarded"}

-----------------------------------------------------------------------------
(* What comments and documents say and the code does not do.               *)

\* ivr_ari.py:456-457, "Only Line 1 (caller 1001) drives this; Line 2's own
\* digits are not re-forwarded (no loop)": the leg that a menu dials to line 2
\* for a call of line 1 has the number of line 1 as its caller, so the digits
\* keyed in on line 2 are forwarded to line 2.
OwnDigitsNotForwarded ==
    \A c \in InStasis : Handset[c] = "2" =>
        \A i \in DOMAIN log[c] : log[c][i].stage # "forwarded"
=============================================================================
