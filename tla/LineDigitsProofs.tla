--------------------------- MODULE LineDigitsProofs ---------------------------
(***************************************************************************)
(* Proofs about LineDigits, for any channels, lines, senders and bounds.   *)
(*                                                                         *)
(* The steps of Asterisk, of the senders and of simulate_call_flow.py are  *)
(* summed up by what they do to the channels and to the websockets (Moves, *)
(* Shifts), and those of a task by where it goes (Goes).  Every part of    *)
(* the invariant is then kept for these few kinds of step: TasksInv and    *)
(* Starts for the tasks, DueInv for the digits under way to line 2, AskInv *)
(* for the senders, ScriptInv for the script, and, on top of these,        *)
(* OrderInv for the order in which the store gets the events.              *)
(***************************************************************************)
EXTENDS LineDigits, SequenceTheorems, TLAPS

ChanStates == {"none", "new", "up", "gone"}
AriEvents  == [type : EventTypes, channel : InStasis, n : Nat]
Working    == {"dialed", "menu", "sub", "route", "forwarded"}
Posts      == [status : {"none", "sent", "answered"},
               channel : InStasis \union {NoChannel}, event : Events]
Asks       == [at : {"idle", "listing", "sending", "done", "failed", "reported"},
               line : Lines \union {AnyLine}, channel : Channels \union {NoChannel},
               ok : Nat, left : Nat]
Runs       == {"idle", "created", "done"} \union Listening

-----------------------------------------------------------------------------
(* Channels and the events about them.                                     *)

\* The half of the script's channel in Stasis is one of the channels there, and the
\* dispatcher is none.
LEMMA TheLegs ==
    /\ StasisLeg \in InStasis /\ FarLeg \in Channels /\ FarLeg \notin InStasis
    /\ InStasis \subseteq Channels /\ NoChannel \notin InStasis
    /\ Dispatcher \in Publishers /\ InStasis \subseteq Publishers
    /\ Dispatcher \notin InStasis
    /\ Calls \union Legs \union {StasisLeg} \subseteq InStasis
BY ChannelsAssumption DEF InStasis, Channels, Publishers, Dispatcher

AsteriskTyped ==
    /\ chan \in [Channels -> ChanStates]
    /\ keyed \in [Channels -> Nat]
    /\ inbox \in Seq(AriEvents)
    /\ feed \in Seq(EventTypes)

\* The websockets get nothing new; or one event, and the script's gets it too when it
\* is about its channel and the script listens.
Quiet == UNCHANGED <<inbox, feed>>

Sent(e) ==
    /\ inbox' = Append(inbox, e)
    /\ \/ feed' = feed
       \/ /\ script.at \in Listening /\ e.channel = StasisLeg
          /\ feed' = Append(feed, e.type)

\* An event that is emitted is sent to the websockets.
LEMMA EmitSent ==
    ASSUME NEW e, Emit(e)
    PROVE  Sent(e)
BY DEF Emit, Sent

\* The websockets carry events only.
LEMMA SentTyped ==
    ASSUME AsteriskTyped, NEW e \in AriEvents, Sent(e)
    PROVE  inbox' \in Seq(AriEvents) /\ feed' \in Seq(EventTypes)
<1>1. e.type \in EventTypes
  BY DEF AriEvents
<1>2. /\ Append(inbox, e) \in Seq(AriEvents)
      /\ Append(feed, e.type) \in Seq(EventTypes)
  BY <1>1, AppendProperties DEF AsteriskTyped
<1>3. QED
  BY <1>2 DEF Sent, AsteriskTyped

\* A channel only goes from one state to a later one.
Later ==
    \A c \in Channels :
        /\ chan[c] \in {"up", "gone"} => chan'[c] \in {"up", "gone"}
        /\ chan[c] = "gone" => chan'[c] = "gone"
        /\ chan[c] # "none" => chan'[c] # "none"

\* What a step tells of the channels: nothing, or one event that is so.
Tells ==
    \/ Quiet
    \/ \E e \in AriEvents :
          /\ Sent(e)
          /\ e.type = "StasisStart" => /\ chan[e.channel] \in {"none", "new"}
                                       /\ chan'[e.channel] = "up"
          /\ e.type = "ChannelDestroyed" => chan'[e.channel] = "gone"
          /\ e.type = "ChannelDtmfReceived" => /\ chan[e.channel] = "up" /\ chan' = chan
                                               /\ e.n = keyed[e.channel] + 1
                                               /\ keyed'[e.channel] = e.n

\* The count of a channel that is up grows from the digits it was dialled with.
Counts ==
    \A c \in InStasis : chan'[c] = "up" =>
        \/ chan[c] = "up" /\ keyed[c] <= keyed'[c]
        \/ chan[c] \in {"none", "new"} /\ Dialled[c] <= keyed'[c]

Shifts ==
    /\ chan' \in [Channels -> ChanStates] /\ keyed' \in [Channels -> Nat]
    /\ Later /\ Counts /\ Tells

\* But for simulate_call_flow.py itself, nobody brings its channel into being.
Away == chan[StasisLeg] = "none" /\ chan[FarLeg] = "none"

Moves == Shifts /\ (Away => Away')

\* Asterisk keeps its type.
LEMMA ShiftsTyped ==
    ASSUME AsteriskTyped, Shifts
    PROVE  AsteriskTyped'
<1>1. CASE Quiet
  BY <1>1 DEF AsteriskTyped, Shifts, Quiet
<1>2. CASE \E e \in AriEvents : Sent(e)
  BY <1>2, SentTyped DEF AsteriskTyped, Shifts
<1>3. QED
  BY <1>1, <1>2 DEF Shifts, Tells

\* Nothing happens on any channel.
LEMMA StillMoves ==
    ASSUME AsteriskTyped, UNCHANGED <<chan, keyed, inbox, feed>>
    PROVE  Moves
<1>1. \A c \in InStasis : keyed[c] \in Nat
  BY TheLegs DEF AsteriskTyped
<1>2. Counts
  BY <1>1 DEF Counts
<1>3. QED
  BY <1>2 DEF AsteriskTyped, Moves, Shifts, Away, Later, Tells, Quiet

\* A channel ends.
LEMMA EndMoves ==
    ASSUME AsteriskTyped, NEW c \in InStasis, End(c), keyed' = keyed
    PROVE  Moves /\ (chan[c] # "none" => chan'[c] = "gone")
<1>1. CASE ~Exists(c)
  <2>1. UNCHANGED <<chan, inbox, feed>>
    BY <1>1 DEF End
  <2>2. chan[c] \in ChanStates
    BY TheLegs DEF AsteriskTyped
  <2>3. QED
    BY <1>1, <2>1, <2>2, StillMoves DEF Exists, ChanStates
<1>2. CASE Exists(c)
  <2>1. /\ chan' = [d \in Channels |-> IF d \in Ended(c) THEN "gone" ELSE chan[d]]
        /\ Sent(AriEvent("ChannelDestroyed", c, 0))
    BY <1>2, EmitSent DEF End
  <2>2. c \in Ended(c) /\ c \in Channels
    BY TheLegs DEF Ended
  <2>3. /\ AriEvent("ChannelDestroyed", c, 0) \in AriEvents
        /\ AriEvent("ChannelDestroyed", c, 0).type = "ChannelDestroyed"
        /\ AriEvent("ChannelDestroyed", c, 0).channel = c
    BY DEF AriEvent, AriEvents, EventTypes
  <2>4. chan' \in [Channels -> ChanStates] /\ Later /\ chan'[c] = "gone"
    BY <2>1, <2>2 DEF AsteriskTyped, ChanStates, Later
  <2>5. Tells
    BY <2>1, <2>3, <2>4 DEF Tells
  <2>6. Away => Away'
    BY <1>2, <2>1, TheLegs DEF Away, Exists, Ended
  <2>7. \A d \in InStasis : chan'[d] = "up" => chan[d] = "up" /\ keyed[d] \in Nat
    BY <2>1, TheLegs DEF AsteriskTyped
  <2>8. Counts
    BY <2>7 DEF Counts
  <2>9. QED
    BY <2>4, <2>5, <2>6, <2>8 DEF Moves, Shifts, AsteriskTyped
<1>3. QED
  BY <1>1, <1>2

\* A digit is reported.
LEMMA ReportMoves ==
    ASSUME AsteriskTyped, NEW c \in InStasis, chan[c] = "up", Report(c), chan' = chan
    PROVE  Moves
<1>1. keyed[c] \in Nat /\ keyed[c] + 1 \in Nat
  BY TheLegs DEF AsteriskTyped
<1>2. Sent(AriEvent("ChannelDtmfReceived", c, keyed[c] + 1))
  BY EmitSent DEF Report
<1>3. /\ AriEvent("ChannelDtmfReceived", c, keyed[c] + 1) \in AriEvents
      /\ AriEvent("ChannelDtmfReceived", c, keyed[c] + 1).type = "ChannelDtmfReceived"
      /\ AriEvent("ChannelDtmfReceived", c, keyed[c] + 1).channel = c
      /\ AriEvent("ChannelDtmfReceived", c, keyed[c] + 1).n = keyed[c] + 1
  BY <1>1 DEF AriEvent, AriEvents, EventTypes
<1>4. keyed' \in [Channels -> Nat] /\ keyed'[c] = keyed[c] + 1
  BY <1>1, TheLegs DEF Report, AsteriskTyped
<1>5. Tells
  BY <1>2, <1>3, <1>4 DEF Tells
<1>6. \A d \in InStasis : keyed[d] \in Nat /\ keyed[d] <= keyed'[d]
  BY <1>1, TheLegs DEF Report, AsteriskTyped
<1>7. Counts
  BY <1>6 DEF Counts
<1>8. QED
  BY <1>4, <1>5, <1>7 DEF Moves, Shifts, Away, Later, AsteriskTyped

\* A digit is injected: the half in Stasis receives it, if that is where it goes.
LEMMA InjectMoves ==
    ASSUME AsteriskTyped, NEW c \in Channels, Inject(c), chan' = chan
    PROVE  Moves
BY ReportMoves, StillMoves, TheLegs DEF Inject

\* A call or a leg comes into the application.
LEMMA ArriveMoves ==
    ASSUME AsteriskTyped, NEW c \in Channels, Arrive(c)
    PROVE  Moves
<1>1. c \in InStasis /\ chan[c] \in {"none", "new"} /\ Dialled[c] \in Nat
  BY TheLegs, LinesAssumption DEF Arrive
<1>2. /\ chan' = [chan EXCEPT ![c] = "up"]
      /\ keyed' = [keyed EXCEPT ![c] = Dialled[c]]
      /\ Sent(AriEvent("StasisStart", c, 0))
  BY EmitSent DEF Arrive
<1>3. /\ AriEvent("StasisStart", c, 0) \in AriEvents
      /\ AriEvent("StasisStart", c, 0).type = "StasisStart"
      /\ AriEvent("StasisStart", c, 0).channel = c
  BY <1>1 DEF AriEvent, AriEvents, EventTypes
<1>4. chan' \in [Channels -> ChanStates] /\ keyed' \in [Channels -> Nat] /\ Later
      /\ chan'[c] = "up"
  BY <1>1, <1>2 DEF AsteriskTyped, ChanStates, Later
<1>5. Away => Away'
  <2> SUFFICES ASSUME Away PROVE Away'
    OBVIOUS
  <2>1. c \in Calls \union Legs
    BY DEF Arrive, Away
  <2>2. c # StasisLeg /\ c # FarLeg
    BY <2>1, ChannelsAssumption
  <2>3. QED
    BY <1>2, <2>2, TheLegs DEF Away, AsteriskTyped
<1>6. \A d \in InStasis : /\ keyed[d] \in Nat
                          /\ d = c => keyed'[d] = Dialled[c]
                          /\ d # c => chan'[d] = chan[d] /\ keyed'[d] = keyed[d]
  BY <1>2, TheLegs DEF AsteriskTyped
<1>7. Counts
  BY <1>1, <1>6 DEF Counts
<1>8. Tells
  BY <1>1, <1>2, <1>3, <1>4 DEF Tells
<1>9. QED
  BY <1>4, <1>5, <1>7, <1>8 DEF Moves, Shifts

-----------------------------------------------------------------------------
(* The tasks of the sessions.                                              *)

TasksTyped ==
    /\ sessions \subseteq InStasis
    /\ pc \in [InStasis -> {"none", "entering", "prompt", "bridged", "done"} \union DOMAIN Stage]
    /\ menu \in [InStasis -> {"main", "sub"}]
    /\ fut \in [InStasis -> {"none", "waiting", "set"}]
    /\ digit \in [InStasis -> Nat]
    /\ post \in [Publishers -> Posts]

\* The future of a session is gone when its task leaves the prompt.
Leaves(c) ==
    \/ fut' = [fut EXCEPT ![c] = "none"]
    \/ fut' = fut /\ pc[c] # "prompt"

\* A task publishes an event, or it is in a menu, in a bridge or over, with nothing on
\* its way.
Publishes(c, s, n) == Publish(c, s, n) /\ menu' = menu /\ Leaves(c)

Rests(c) ==
    /\ digit' = digit
    /\ \/ \E m \in {"main", "sub"} : Prompt(c, m)
       \/ /\ \E l \in {"bridged", "done"} : pc' = [pc EXCEPT ![c] = l]
          /\ post' = [post EXCEPT ![c] = NoPost]
          /\ menu' = menu
          /\ Leaves(c)

\* What a task does next, by where it is.
Goes(c) ==
    \/ pc[c] = "entering" /\ (Rests(c) \/ (Dialled[c] > 0 /\ Publishes(c, "dialed", 1)))
    \/ /\ pc[c] = "prompt"
       /\ \/ Rests(c)
          \/ fut[c] = "set" /\ \E s \in {"menu", "sub"} : Publishes(c, s, digit[c])
    \/ /\ post[c].status = "answered"
       /\ \/ pc[c] = "dialed" /\ Publishes(c, "route", digit[c])
          \/ pc[c] = "menu" /\ Caller[c] = "1" /\ Publishes(c, "route", digit[c])
          \/ pc[c] = "menu" /\ Caller[c] # "1" /\ Rests(c)
          \/ pc[c] = "sub" /\ Rests(c)
          \/ pc[c] = "route" /\ Publishes(c, "forwarded", digit[c])
          \/ /\ pc[c] = "forwarded"
             /\ Rests(c) \/ (digit[c] < Dialled[c] /\ Publishes(c, "dialed", digit[c] + 1))

TaskFrame == UNCHANGED <<keyed, handling, api, script, history>>

\* A task that cleans up is over, and its channel with it.
LEMMA FinishRests ==
    ASSUME AsteriskTyped, NEW c \in InStasis, Finish(c), digit' = digit, keyed' = keyed
    PROVE  Rests(c) /\ Moves
BY EndMoves DEF Finish, Rests, Leaves

\* What a menu does leaves nothing on its way.
LEMMA ActRests ==
    ASSUME AsteriskTyped, NEW c \in InStasis, Act(c), digit' = digit, keyed' = keyed,
           pc[c] # "prompt"
    PROVE  Rests(c) /\ Moves
<1>1. CASE \E m \in {"main", "sub"} : Prompt(c, m) /\ UNCHANGED <<chan, inbox, feed>>
  <2>1. Rests(c)
    BY <1>1 DEF Rests
  <2>2. UNCHANGED <<chan, keyed, inbox, feed>>
    BY <1>1
  <2>3. QED
    BY <2>1, <2>2, StillMoves
<1>2. CASE /\ pc' = [pc EXCEPT ![c] = "bridged"]
           /\ post' = [post EXCEPT ![c] = NoPost]
           /\ UNCHANGED <<menu, fut, chan, inbox, feed>>
  BY <1>2, StillMoves DEF Rests, Leaves
<1>3. CASE Finish(c)
  BY <1>3, FinishRests
<1>4. QED
  BY <1>1, <1>2, <1>3 DEF Act

\* Every step of a task is one of those.
LEMMA TaskGoes ==
    ASSUME AsteriskTyped, TasksTyped, NEW c \in InStasis, Task(c)
    PROVE  /\ Goes(c) /\ Moves /\ TaskFrame
           /\ sessions' = sessions \/ sessions' = sessions \union {c}
<1>1. CASE Enter(c)
  <2>1. /\ UNCHANGED <<chan, keyed, inbox, feed>> /\ TaskFrame /\ pc[c] = "entering"
        /\ sessions' = sessions \union {c}
    BY <1>1 DEF Enter, asterisk, tool, TaskFrame
  <2>2. (Dialled[c] > 0 /\ Publishes(c, "dialed", 1)) \/ Rests(c)
    <3>1. CASE Dialled[c] > 0 /\ Publish(c, "dialed", 1) /\ UNCHANGED <<menu, fut>>
      BY <2>1, <3>1 DEF Publishes, Leaves
    <3>2. CASE Prompt(c, "main") /\ UNCHANGED digit
      BY <3>2 DEF Rests
    <3>3. QED
      BY <1>1, <3>1, <3>2 DEF Enter
  <2>3. QED
    BY <2>1, <2>2, StillMoves DEF Goes
<1>2. CASE TakeDigit(c)
  <2>1. UNCHANGED <<chan, keyed, inbox, feed, sessions>> /\ TaskFrame /\ pc[c] = "prompt"
        /\ fut[c] = "set"
    BY <1>2 DEF TakeDigit, asterisk, tool, TaskFrame
  <2>2. \E s \in {"menu", "sub"} : Publishes(c, s, digit[c])
    BY <1>2 DEF TakeDigit, Publishes, Leaves
  <2>3. QED
    BY <2>1, <2>2, StillMoves DEF Goes
<1>3. CASE NoDigit(c)
  <2>1. pc[c] = "prompt" /\ UNCHANGED <<keyed, sessions, digit>> /\ TaskFrame
    BY <1>3 DEF NoDigit, TaskFrame
  <2>2. Rests(c) /\ Moves
    <3>1. CASE Finish(c)
      BY <2>1, <3>1, FinishRests
    <3>2. CASE Prompt(c, "main") /\ UNCHANGED <<chan, inbox, feed>>
      BY <2>1, <3>2, StillMoves DEF Rests
    <3>3. QED
      BY <1>3, <3>1, <3>2 DEF NoDigit
  <2>3. QED
    BY <2>1, <2>2 DEF Goes
<1>4. CASE GoOn(c)
  <2>1. post[c].status = "answered" /\ UNCHANGED <<keyed, sessions>> /\ TaskFrame
    BY <1>4 DEF GoOn, TaskFrame
  <2>2. ASSUME NEW s, NEW n, Publish(c, s, n), UNCHANGED <<menu, fut, chan, inbox, feed>>,
               pc[c] # "prompt"
        PROVE  Publishes(c, s, n) /\ Moves
    BY <2>1, <2>2, StillMoves DEF Publishes, Leaves
  <2>3. CASE pc[c] = "dialed"
    <3>1. Forward(c)
      BY <1>4, <2>3 DEF GoOn
    <3>2. QED
      BY <2>1, <2>2, <2>3, <3>1 DEF Forward, Goes
  <2>4. CASE pc[c] = "menu" /\ Caller[c] = "1"
    <3>1. Forward(c)
      BY <1>4, <2>4 DEF GoOn
    <3>2. QED
      BY <2>1, <2>2, <2>4, <3>1 DEF Forward, Goes
  <2>5. CASE pc[c] = "sub" \/ (pc[c] = "menu" /\ Caller[c] # "1")
    <3>1. Act(c) /\ digit' = digit
      BY <1>4, <2>5 DEF GoOn
    <3>2. Rests(c) /\ Moves
      BY <2>1, <2>5, <3>1, ActRests
    <3>3. QED
      BY <2>1, <2>5, <3>2 DEF Goes
  <2>6. CASE pc[c] = "route"
    <3>1. Publish(c, "forwarded", digit[c]) /\ UNCHANGED <<menu, fut, chan, inbox, feed>>
      BY <1>4, <2>6 DEF GoOn
    <3>2. QED
      BY <2>1, <2>2, <2>6, <3>1 DEF Goes
  <2>7. CASE pc[c] = "forwarded"
    <3>1. \/ /\ digit[c] < Dialled[c] /\ Publish(c, "dialed", digit[c] + 1)
             /\ UNCHANGED <<menu, fut, chan, inbox, feed>>
          \/ digit' = digit /\ Prompt(c, "main") /\ UNCHANGED <<chan, inbox, feed>>
          \/ digit' = digit /\ Act(c)
      BY <1>4, <2>7 DEF GoOn
    <3>2. CASE /\ digit[c] < Dialled[c] /\ Publish(c, "dialed", digit[c] + 1)
               /\ UNCHANGED <<menu, fut, chan, inbox, feed>>
      BY <2>1, <2>2, <2>7, <3>2 DEF Goes
    <3>3. CASE digit' = digit /\ Prompt(c, "main") /\ UNCHANGED <<chan, inbox, feed>>
      <4>1. Rests(c)
        BY <3>3 DEF Rests
      <4>2. QED
        BY <2>1, <2>7, <3>3, <4>1, StillMoves DEF Goes
    <3>4. CASE digit' = digit /\ Act(c)
      <4>1. Rests(c) /\ Moves
        BY <2>1, <2>7, <3>4, ActRests
      <4>2. QED
        BY <2>1, <2>7, <4>1 DEF Goes
    <3>5. QED
      BY <3>1, <3>2, <3>3, <3>4
  <2>8. QED
    BY <1>4, <2>3, <2>4, <2>5, <2>6, <2>7 DEF GoOn
<1>5. QED
  BY <1>1, <1>2, <1>3, <1>4 DEF Task

-----------------------------------------------------------------------------
(* What the tasks and the dispatcher are publishing.                       *)

\* The dispatcher publishes raw digits.
RawOnly ==
    post[Dispatcher].status # "none" =>
        /\ post[Dispatcher].channel \in InStasis
        /\ post[Dispatcher].event.stage = "raw" /\ post[Dispatcher].event.late = FALSE

\* A task publishes the event of the place it is at, about its digit, and nothing when
\* it is at none; it awaits a digit at its prompt only.
AtWork ==
    \A c \in InStasis :
        /\ pc[c] \in Working => /\ post[c].status \in {"sent", "answered"}
                                /\ post[c].channel = c
                                /\ post[c].event = Event(pc[c], digit[c])
        /\ pc[c] \notin Working => post[c].status = "none"
        /\ fut[c] # "none" => pc[c] = "prompt"
        /\ pc[c] # "raw"

TasksInv == TasksTyped /\ RawOnly /\ AtWork

\* The events and the posts of this module are events and posts.
LEMMA EventsTyped ==
    /\ \A s \in Working \union {"raw"}, n \in Nat : Event(s, n) \in Events
    /\ \A s, n : /\ Event(s, n).stage = s /\ Event(s, n).n = n
                 /\ Event(s, n).late = FALSE
    /\ NoPost \in Posts /\ NoPost.status = "none"
    /\ \A c \in InStasis, e \in Events :
          /\ Post(c, e) \in Posts
          /\ Post(c, e).status = "sent" /\ Post(c, e).channel = c /\ Post(c, e).event = e
<1>1. DOMAIN Stage = Working \union {"raw"}
  BY DEF Stage, Working
<1>2. /\ \A s \in Working \union {"raw"}, n \in Nat : Event(s, n) \in Events
      /\ \A s, n : /\ Event(s, n).stage = s /\ Event(s, n).n = n
                   /\ Event(s, n).late = FALSE
  BY <1>1 DEF Event, Events
<1>3. NoPost \in Posts /\ NoPost.status = "none"
  <2>1. 0 \in Nat /\ Event("raw", 0) \in Events
    BY <1>2
  <2>2. QED
    BY <2>1 DEF NoPost, Posts
<1>4. QED
  BY <1>2, <1>3 DEF Post, Posts

\* The stages are the places at which a task publishes, and the raw digit.
LEMMA StagesAre == DOMAIN Stage = Working \union {"raw"}
BY DEF Stage, Working

\* The task of c goes on; nobody else's does.
LEMMA RestsKeeps ==
    ASSUME TasksInv, NEW c \in InStasis, Rests(c),
           sessions' = sessions \/ sessions' = sessions \union {c}
    PROVE  TasksInv'
<1> USE TheLegs, StagesAre
<1>1. CASE \E m \in {"main", "sub"} : Prompt(c, m)
  <2>1. PICK m \in {"main", "sub"} : Prompt(c, m)
    BY <1>1
  <2>2. TasksTyped'
    BY <2>1, EventsTyped DEF Rests, Prompt, TasksInv, TasksTyped
  <2>3. RawOnly'
    BY <2>1 DEF Prompt, TasksInv, TasksTyped, RawOnly
  <2>4. AtWork'
    BY <2>1, EventsTyped DEF Rests, Prompt, TasksInv, TasksTyped, AtWork, Working
  <2>5. QED
    BY <2>2, <2>3, <2>4 DEF TasksInv
<1>2. CASE ~ \E m \in {"main", "sub"} : Prompt(c, m)
  <2>1. PICK l \in {"bridged", "done"} : pc' = [pc EXCEPT ![c] = l]
    BY <1>2 DEF Rests
  <2>2. /\ post' = [post EXCEPT ![c] = NoPost] /\ menu' = menu /\ digit' = digit
        /\ Leaves(c)
    BY <1>2 DEF Rests
  <2>3. fut' = [fut EXCEPT ![c] = "none"]
    BY <2>2 DEF Leaves, TasksInv, TasksTyped, AtWork
  <2>4. TasksTyped'
    BY <2>1, <2>2, <2>3, EventsTyped DEF TasksInv, TasksTyped
  <2>5. RawOnly'
    BY <2>2 DEF TasksInv, TasksTyped, RawOnly
  <2>6. AtWork'
    BY <2>1, <2>2, <2>3, EventsTyped DEF TasksInv, TasksTyped, AtWork, Working
  <2>7. QED
    BY <2>4, <2>5, <2>6 DEF TasksInv
<1>3. QED
  BY <1>1, <1>2

\* The task of c publishes an event.
LEMMA PublishesKeeps ==
    ASSUME TasksInv, NEW c \in InStasis, NEW s \in Working, NEW n \in Nat, Publishes(c, s, n),
           sessions' = sessions \/ sessions' = sessions \union {c}
    PROVE  TasksInv'
<1> USE TheLegs, StagesAre
<1>1. /\ post' = [post EXCEPT ![c] = Post(c, Event(s, n))]
      /\ pc' = [pc EXCEPT ![c] = s]
      /\ digit' = [digit EXCEPT ![c] = n]
      /\ menu' = menu /\ Leaves(c)
  BY DEF Publishes, Publish
<1>2. fut' = [fut EXCEPT ![c] = "none"]
  BY <1>1 DEF Leaves, TasksInv, TasksTyped, AtWork
<1>3. TasksTyped'
  BY <1>1, <1>2, EventsTyped DEF TasksInv, TasksTyped
<1>4. RawOnly'
  BY <1>1 DEF TasksInv, TasksTyped, RawOnly
<1>5. AtWork'
  BY <1>1, <1>2, <1>3, EventsTyped DEF TasksInv, TasksTyped, AtWork, Working
<1>6. QED
  BY <1>3, <1>4, <1>5 DEF TasksInv

\* Every step of a task is one or the other.
LEMMA TaskKeeps ==
    ASSUME AsteriskTyped, TasksInv, NEW c \in InStasis, Task(c)
    PROVE  TasksInv'
<1>1. /\ Goes(c)
      /\ sessions' = sessions \/ sessions' = sessions \union {c}
  BY TaskGoes DEF TasksInv
<1>2. 1 \in Nat /\ digit[c] \in Nat /\ digit[c] + 1 \in Nat
  BY DEF TasksInv, TasksTyped
<1>3. Rests(c) \/ \E s \in Working, n \in Nat : Publishes(c, s, n)
  BY <1>1, <1>2 DEF Goes, Working
<1>4. QED
  BY <1>1, <1>3, RestsKeeps, PublishesKeeps

\* An exchange with the event store ends.
LEMMA PostingKeeps ==
    ASSUME TasksInv, NEW p \in Publishers, Posting(p)
    PROVE  TasksInv'
<1>1. /\ post[p].status = "sent"
      /\ post' = [post EXCEPT ![p].status = "answered"]
      /\ UNCHANGED tasks
  BY DEF Posting, Store, GiveUp
<1>2. PICK q \in Posts : /\ q.status = "answered" /\ q.channel = post[p].channel
                         /\ q.event = post[p].event
                         /\ post' = [post EXCEPT ![p] = q]
  <2>1. post[p] \in Posts
    BY DEF TasksInv, TasksTyped
  <2>2. [post[p] EXCEPT !.status = "answered"] \in Posts
    BY <2>1 DEF Posts
  <2>3. QED
    BY <1>1, <2>1, <2>2 DEF Posts
<1>3. post'[p] = q /\ \A r \in Publishers : r # p => post'[r] = post[r]
  BY <1>2 DEF TasksInv, TasksTyped
<1>4. TasksTyped'
  BY <1>1, <1>2 DEF tasks, TasksInv, TasksTyped
<1>5. RawOnly'
  <2>1. CASE p = Dispatcher
    BY <1>1, <1>2, <1>3, <2>1 DEF TasksInv, RawOnly
  <2>2. CASE p # Dispatcher
    BY <1>3, <2>2, TheLegs DEF TasksInv, RawOnly
  <2>3. QED
    BY <2>1, <2>2
<1>6. AtWork'
  BY <1>1, <1>2, <1>3, TheLegs DEF tasks, TasksInv, AtWork
<1>7. QED
  BY <1>4, <1>5, <1>6 DEF TasksInv

\* A digit is delivered to a task that awaits one.
LEMMA DeliverKeeps ==
    ASSUME TasksInv, DeliverDigit
    PROVE  TasksInv'
<1> DEFINE c == post[Dispatcher].channel
           n == post[Dispatcher].event.n
<1> USE TheLegs
<1>1. /\ post[Dispatcher].status = "answered"
      /\ post' = [post EXCEPT ![Dispatcher] = NoPost]
      /\ \/ fut[c] = "waiting" /\ fut' = [fut EXCEPT ![c] = "set"]
            /\ digit' = [digit EXCEPT ![c] = n]
         \/ UNCHANGED <<fut, digit>>
      /\ UNCHANGED <<sessions, pc, menu>>
  BY DEF DeliverDigit
<1>2. c \in InStasis /\ n \in Nat
  <2>1. post[Dispatcher] \in Posts
    BY DEF TasksInv, TasksTyped
  <2>2. QED
    BY <1>1, <2>1 DEF TasksInv, RawOnly, Posts, Events
<1> HIDE DEF c, n
<1>3. TasksTyped'
  BY <1>1, <1>2, EventsTyped DEF TasksInv, TasksTyped
<1>4. RawOnly'
  BY <1>1, EventsTyped DEF TasksInv, TasksTyped, RawOnly
<1>5. AtWork'
  BY <1>1, <1>2 DEF TasksInv, TasksTyped, AtWork, Working
<1>6. QED
  BY <1>3, <1>4, <1>5 DEF TasksInv

\* An event is dispatched; a start that is dispatched is the first of its channel.
LEMMA DispatchKeeps ==
    ASSUME AsteriskTyped, TasksInv, Dispatch,
           Head(inbox).type = "StasisStart" => pc[Head(inbox).channel] = "none"
    PROVE  TasksInv'
<1> DEFINE e == Head(inbox)
<1> USE TheLegs, StagesAre
<1>1. inbox # <<>> /\ e \in AriEvents
  BY HeadTailProperties DEF Dispatch, AsteriskTyped
<1>2. \/ e.type = "StasisStart" /\ OnStasisStart(e)
      \/ e.type = "ChannelDtmfReceived" /\ OnDtmf(e)
      \/ e.type = "ChannelDestroyed" /\ OnHangup(e)
  BY DEF Dispatch
<1>3. e.channel \in InStasis /\ e.n \in Nat
  BY <1>1 DEF AriEvents
<1>4. e.type = "StasisStart" => pc[e.channel] = "none"
  OBVIOUS
<1> HIDE DEF e
<1>5. CASE OnStasisStart(e) /\ e.type = "StasisStart"
  <2>1. /\ pc' = [pc EXCEPT ![e.channel] = "entering"]
        /\ UNCHANGED <<sessions, menu, fut, digit, post>>
    BY <1>5 DEF OnStasisStart
  <2>2. TasksTyped' /\ RawOnly'
    BY <1>3, <2>1 DEF TasksInv, TasksTyped, RawOnly
  <2>3. AtWork'
    BY <1>3, <1>4, <1>5, <2>1 DEF TasksInv, TasksTyped, AtWork, Working
  <2>4. QED
    BY <2>2, <2>3 DEF TasksInv
<1>6. CASE OnDtmf(e)
  <2>1. CASE e.channel \in sessions
    <3>1. /\ post' = [post EXCEPT ![Dispatcher] = Post(e.channel, Event("raw", e.n))]
          /\ UNCHANGED <<sessions, pc, menu, fut, digit>>
      BY <1>6, <2>1 DEF OnDtmf
    <3>2. TasksTyped' /\ RawOnly'
      <4>1. PICK q \in Posts : /\ post' = [post EXCEPT ![Dispatcher] = q]
                               /\ q.channel = e.channel /\ q.event.stage = "raw"
                               /\ q.event.late = FALSE
        <5>1. /\ Event("raw", e.n) \in Events /\ Event("raw", e.n).stage = "raw"
              /\ Event("raw", e.n).late = FALSE
          BY <1>3, EventsTyped
        <5>2. /\ Post(e.channel, Event("raw", e.n)) \in Posts
              /\ Post(e.channel, Event("raw", e.n)).channel = e.channel
              /\ Post(e.channel, Event("raw", e.n)).event = Event("raw", e.n)
          BY <1>3, <5>1, EventsTyped
        <5>3. QED
          BY <3>1, <5>1, <5>2
      <4>2. QED
        BY <1>3, <3>1, <4>1 DEF TasksInv, TasksTyped, RawOnly
    <3>3. AtWork'
      BY <3>1 DEF TasksInv, TasksTyped, AtWork
    <3>4. QED
      BY <3>2, <3>3 DEF TasksInv
  <2>2. CASE e.channel \notin sessions
    BY <1>6, <2>2 DEF OnDtmf, ivr, tasks, TasksInv, TasksTyped, RawOnly, AtWork
  <2>3. QED
    BY <2>1, <2>2
<1>7. CASE OnHangup(e)
  <2>1. /\ UNCHANGED <<menu, digit, post>>
        /\ sessions' = sessions \ {e.channel}
        /\ \/ /\ fut[e.channel] = "waiting"
              /\ fut' = [fut EXCEPT ![e.channel] = "none"]
              /\ pc' = [pc EXCEPT ![e.channel] = "done"]
           \/ UNCHANGED <<fut, pc>>
    BY <1>7 DEF OnHangup
  <2>2. TasksTyped' /\ RawOnly'
    BY <1>3, <2>1 DEF TasksInv, TasksTyped, RawOnly
  <2>3. AtWork'
    BY <1>3, <2>1 DEF TasksInv, TasksTyped, AtWork, Working
  <2>4. QED
    BY <2>2, <2>3 DEF TasksInv
<1>8. QED
  BY <1>2, <1>5, <1>6, <1>7

-----------------------------------------------------------------------------
(* simulate_call_flow.py and its channel.                                  *)

ScriptTyped ==
    script \in [at : Runs, target : {FarLeg, StasisLeg}, left : Nat, cut : BOOLEAN]

\* The channel is there from its origination until the script stops; the script hears
\* of its end when it has ended; and when the script stops without being cut short its
\* channel has ended, or was never made.
CallEnds ==
    /\ script.at = "idle" => Away
    /\ script.at \notin {"idle", "done"} => chan[StasisLeg] # "none"
    /\ script.at \in {"idle", "created"} => feed = <<>>
    /\ \A i \in 1 .. Len(feed) : feed[i] = "ChannelDestroyed" => chan[StasisLeg] = "gone"
    /\ script.at = "done" /\ ~script.cut => Away \/ chan[StasisLeg] = "gone"

ScriptInv == ScriptTyped /\ CallEnds

\* The elements of a sequence to which something was appended,
LEMMA AppendCases ==
    ASSUME NEW S, NEW s \in Seq(S), NEW e \in S
    PROVE  /\ Len(s) \in Nat
           /\ \A i \in 1 .. Len(Append(s, e)) :
                 \/ i \in 1 .. Len(s) /\ Append(s, e)[i] = s[i]
                 \/ i = Len(s) + 1 /\ Append(s, e)[i] = e
           /\ \A i \in 1 .. Len(s) : i \in 1 .. Len(Append(s, e)) /\ Append(s, e)[i] = s[i]
           /\ Len(s) + 1 \in 1 .. Len(Append(s, e)) /\ Append(s, e)[Len(s) + 1] = e
<1>1. /\ Len(Append(s, e)) = Len(s) + 1
      /\ \A i \in 1 .. Len(s) : Append(s, e)[i] = s[i]
      /\ Append(s, e)[Len(s) + 1] = e
  BY AppendProperties
<1>2. Len(s) \in Nat
  BY LenProperties
<1>3. QED
  BY <1>1, <1>2

\* and of one whose head was taken.
LEMMA TailCases ==
    ASSUME NEW S, NEW s \in Seq(S), s # <<>>
    PROVE  /\ \A i \in 1 .. Len(Tail(s)) : i \in Nat /\ i + 1 \in 1 .. Len(s)
                                            /\ Tail(s)[i] = s[i + 1]
           /\ 1 \in 1 .. Len(s) /\ s[1] = Head(s)
           /\ Tail(s) \in Seq(S) /\ Head(s) \in S
<1>1. Len(s) \in Nat /\ Len(s) > 0
  BY LenProperties, EmptySeq
<1>2. /\ Head(s) = s[1] /\ Head(s) \in S /\ Tail(s) \in Seq(S)
      /\ Len(Tail(s)) = Len(s) - 1
      /\ \A i \in 1 .. Len(Tail(s)) : Tail(s)[i] = s[i + 1]
  BY HeadTailProperties
<1>3. \A i \in 1 .. Len(s) - 1 : i \in Nat /\ i + 1 \in 1 .. Len(s)
  BY <1>1
<1>4. QED
  BY <1>1, <1>2, <1>3

\* Events reach the script only as they are sent.
LEMMA FeedTrue ==
    ASSUME AsteriskTyped, CallEnds, Shifts
    PROVE  /\ \A i \in 1 .. Len(feed') : feed'[i] = "ChannelDestroyed" => chan'[StasisLeg] = "gone"
           /\ script.at \notin Listening => feed' = feed
<1>1. chan[StasisLeg] = "gone" => chan'[StasisLeg] = "gone"
  BY TheLegs DEF Shifts, Later
<1>2. CASE Quiet
  BY <1>1, <1>2 DEF CallEnds, Quiet
<1>3. CASE ~Quiet
  <2>1. PICK e \in AriEvents : Sent(e) /\ (e.type = "ChannelDestroyed" => chan'[e.channel] = "gone")
    BY <1>3 DEF Shifts, Tells
  <2>2. CASE feed' = feed
    BY <1>1, <2>2 DEF CallEnds
  <2>3. CASE feed' # feed
    <3>1. script.at \in Listening /\ e.channel = StasisLeg /\ feed' = Append(feed, e.type)
      BY <2>1, <2>3 DEF Sent
    <3>2. e.type \in EventTypes
      BY DEF AriEvents
    <3>3. \A i \in 1 .. Len(feed') : \/ i \in 1 .. Len(feed) /\ feed'[i] = feed[i]
                                     \/ feed'[i] = e.type
      BY <3>1, <3>2, AppendCases DEF AsteriskTyped
    <3>4. QED
      BY <1>1, <2>1, <3>1, <3>3 DEF CallEnds
  <2>4. QED
    BY <2>2, <2>3
<1>4. QED
  BY <1>2, <1>3

\* While others are at work.
LEMMA ScriptWatches ==
    ASSUME AsteriskTyped, ScriptInv, Moves, script' = script
    PROVE  ScriptInv'
<1>1. chan[StasisLeg] # "none" => chan'[StasisLeg] # "none"
  BY TheLegs DEF Moves, Shifts, Later
<1>2. chan[StasisLeg] = "gone" => chan'[StasisLeg] = "gone"
  BY TheLegs DEF Moves, Shifts, Later
<1>3. CallEnds'
  BY <1>1, <1>2, FeedTrue DEF ScriptInv, CallEnds, Moves, Listening
<1>4. ScriptTyped'
  BY DEF ScriptInv, ScriptTyped
<1>5. QED
  BY <1>3, <1>4 DEF ScriptInv

\* The steps of the script.
LEMMA ScriptKeeps ==
    ASSUME AsteriskTyped, ScriptInv, Originate \/ Connect \/ Hear \/ InjectNext \/ ScriptFault
    PROVE  ScriptInv' /\ AsteriskTyped'
           /\ (Shifts \/ (UNCHANGED <<chan, keyed, inbox>>))
<1> USE TheLegs
<1>0. /\ script \in [at : Runs, target : {FarLeg, StasisLeg}, left : Nat, cut : BOOLEAN]
      /\ {"idle", "created", "done", "waiting", "injecting", "spent"} \subseteq Runs
      /\ Listening = {"waiting", "injecting", "spent"}
      /\ chan \in [Channels -> ChanStates]
  BY DEF ScriptInv, ScriptTyped, Runs, Listening, AsteriskTyped
<1>1. CASE Originate
  <2>1. /\ script.at = "idle" /\ UNCHANGED <<keyed, inbox, feed>>
        /\ \/ /\ script' = [script EXCEPT !.at = "created"] \/ Cut
              /\ chan' = [chan EXCEPT ![StasisLeg] = "new", ![FarLeg] = "up"]
           \/ script' = [script EXCEPT !.at = "done"] /\ chan' = chan
    BY <1>1 DEF Originate
  <2>2. Away /\ feed = <<>>
    BY <2>1 DEF ScriptInv, CallEnds
  <2>3. CASE /\ script' = [script EXCEPT !.at = "created"] \/ Cut
             /\ chan' = [chan EXCEPT ![StasisLeg] = "new", ![FarLeg] = "up"]
    <3>1. chan' \in [Channels -> ChanStates] /\ Later /\ chan'[StasisLeg] = "new"
      BY <1>0, <2>2, <2>3 DEF ChanStates, Later, Away
    <3>2. \A d \in InStasis : /\ d = StasisLeg => chan'[d] = "new"
                              /\ d # StasisLeg => chan'[d] = chan[d]
                              /\ keyed'[d] = keyed[d] /\ keyed[d] \in Nat
      BY <1>0, <2>1, <2>3, <3>1 DEF AsteriskTyped
    <3>3. Counts
      BY <3>2 DEF Counts
    <3>4. Shifts
      BY <2>1, <3>1, <3>3 DEF Shifts, Tells, Quiet, AsteriskTyped
    <3>5. script'.at = "created" \/ (script'.at = "done" /\ script'.cut = TRUE)
      BY <1>0, <2>3 DEF Cut
    <3>6. ScriptTyped'
      BY <1>0, <2>3 DEF ScriptTyped, Cut
    <3>7. CallEnds'
      BY <2>1, <2>2, <3>1, <3>5, EmptySeq DEF CallEnds
    <3>8. QED
      BY <3>4, <3>6, <3>7, ShiftsTyped DEF ScriptInv
  <2>4. CASE script' = [script EXCEPT !.at = "done"] /\ chan' = chan
    <3>1. script'.at = "done" /\ ScriptTyped'
      BY <1>0, <2>4 DEF ScriptTyped
    <3>2. CallEnds'
      BY <2>1, <2>2, <2>4, <3>1, EmptySeq DEF CallEnds, Away
    <3>3. QED
      BY <2>1, <2>4, <3>1, <3>2 DEF ScriptInv, AsteriskTyped
  <2>5. QED
    BY <2>1, <2>3, <2>4
<1>2. CASE Connect
  <2>1. /\ script.at = "created" /\ UNCHANGED <<chan, keyed, inbox, feed>>
        /\ script' = [script EXCEPT !.at = "waiting"] \/ Cut
    BY <1>2 DEF Connect, asterisk
  <2>2. /\ script'.at = "waiting" \/ (script'.at = "done" /\ script'.cut = TRUE)
        /\ ScriptTyped'
    BY <1>0, <2>1 DEF ScriptTyped, Cut
  <2>3. CallEnds'
    BY <2>1, <2>2 DEF ScriptInv, CallEnds
  <2>4. QED
    BY <2>1, <2>2, <2>3 DEF ScriptInv, AsteriskTyped
<1>3. ASSUME script.at \in Listening, End(StasisLeg), keyed' = keyed
      PROVE  Shifts /\ chan'[StasisLeg] = "gone"
  BY <1>0, <1>3, EndMoves DEF Moves, ScriptInv, CallEnds
<1>4. ASSUME script.at \in Listening, Shifts,
             script'.at \in Listening \/ (script'.at = "done" /\ script'.cut = TRUE)
                \/ (script'.at = "done" /\ chan'[StasisLeg] = "gone")
      PROVE  CallEnds'
  <2>1. chan'[StasisLeg] # "none"
    BY <1>0, <1>4 DEF Shifts, Later, ScriptInv, CallEnds
  <2>2. QED
    BY <1>0, <1>4, <2>1, FeedTrue DEF ScriptInv, CallEnds
<1>5. CASE Hear
  <2>1. script.at \in Listening /\ feed # <<>> /\ UNCHANGED keyed
    BY <1>5 DEF Hear
  <2>2. CASE feed' = Tail(feed) /\ UNCHANGED <<chan, inbox>>
             /\ \/ Head(feed) = "StasisStart" /\ StartInjecting
                \/ Head(feed) = "ChannelDtmfReceived" /\ UNCHANGED <<script, faults>>
                \/ /\ Head(feed) = "ChannelDestroyed"
                   /\ script' = [script EXCEPT !.at = "done"]
    <3>1. /\ feed' \in Seq(EventTypes)
          /\ \A i \in 1 .. Len(feed') : i + 1 \in 1 .. Len(feed) /\ feed'[i] = feed[i + 1]
          /\ 1 \in 1 .. Len(feed) /\ feed[1] = Head(feed)
      BY <2>1, <2>2, TailCases DEF AsteriskTyped
    <3>2. /\ ScriptTyped'
          /\ script'.at \in Listening \/ (script'.at = "done" /\ Head(feed) = "ChannelDestroyed")
      <4>1. CASE StartInjecting
        <5>1. \E t \in {FarLeg, StasisLeg} :
                  script' = [script EXCEPT !.at = "injecting", !.target = t]
          BY <4>1 DEF StartInjecting
        <5>2. QED
          BY <1>0, <5>1 DEF ScriptTyped
      <4>2. CASE script' = script
        BY <1>0, <2>1, <4>2 DEF ScriptTyped
      <4>3. CASE Head(feed) = "ChannelDestroyed" /\ script' = [script EXCEPT !.at = "done"]
        BY <1>0, <4>3 DEF ScriptTyped
      <4>4. QED
        BY <2>2, <4>1, <4>2, <4>3
    <3>3. Head(feed) = "ChannelDestroyed" => chan[StasisLeg] = "gone"
      BY <3>1 DEF ScriptInv, CallEnds
    <3>4. chan[StasisLeg] # "none"
      BY <1>0, <2>1 DEF ScriptInv, CallEnds
    <3>5. \A i \in 1 .. Len(feed') : feed'[i] = "ChannelDestroyed" => chan'[StasisLeg] = "gone"
      BY <2>2, <3>1 DEF ScriptInv, CallEnds
    <3>6. CallEnds'
      BY <1>0, <2>2, <3>2, <3>3, <3>4, <3>5 DEF CallEnds
    <3>7. QED
      BY <2>1, <2>2, <3>1, <3>2, <3>6 DEF ScriptInv, AsteriskTyped
  <2>3. CASE OutOfTime
    <3>1. CASE script' = [script EXCEPT !.at = "done"] /\ End(StasisLeg)
      <4>1. Shifts /\ chan'[StasisLeg] = "gone"
        BY <1>3, <2>1, <3>1
      <4>2. script'.at = "done" /\ ScriptTyped'
        BY <1>0, <3>1 DEF ScriptTyped
      <4>3. QED
        BY <1>4, <2>1, <4>1, <4>2, ShiftsTyped DEF ScriptInv
    <3>2. CASE Cut /\ UNCHANGED <<chan, inbox, feed>>
      <4>1. Shifts
        BY <2>1, <3>2, StillMoves DEF Moves
      <4>2. script'.at = "done" /\ script'.cut = TRUE /\ ScriptTyped'
        BY <1>0, <3>2 DEF ScriptTyped, Cut
      <4>3. QED
        BY <1>4, <2>1, <4>1, <4>2, ShiftsTyped DEF ScriptInv
    <3>3. QED
      BY <2>3, <3>1, <3>2 DEF OutOfTime, Cut
  <2>4. QED
    BY <1>5, <2>2, <2>3 DEF Hear
<1>6. CASE InjectNext
  <2>1. script.at = "injecting"
    BY <1>6 DEF InjectNext
  <2>2. CASE script.left > 0
    <3>1. /\ script' = [script EXCEPT !.left = @ - 1] /\ chan' = chan
          /\ Inject(script.target) \/ UNCHANGED <<keyed, inbox, feed>>
      BY <1>6, <2>2 DEF InjectNext
    <3>2. Shifts
      BY <1>0, <3>1, InjectMoves, StillMoves DEF Moves
    <3>3. script'.at = "injecting" /\ ScriptTyped'
      <4>1. script.left - 1 \in Nat
        BY <1>0, <2>2
      <4>2. QED
        BY <1>0, <2>1, <3>1, <4>1 DEF ScriptTyped
    <3>4. QED
      BY <1>0, <1>4, <2>1, <3>2, <3>3, ShiftsTyped DEF ScriptInv
  <2>3. CASE ~(script.left > 0)
    <3>1. script' = [script EXCEPT !.at = "spent"] /\ End(StasisLeg) /\ keyed' = keyed
      BY <1>6, <2>3 DEF InjectNext
    <3>2. Shifts
      BY <1>0, <1>3, <2>1, <3>1
    <3>3. script'.at = "spent" /\ ScriptTyped'
      BY <1>0, <3>1 DEF ScriptTyped
    <3>4. QED
      BY <1>0, <1>4, <2>1, <3>2, <3>3, ShiftsTyped DEF ScriptInv
  <2>4. QED
    BY <2>2, <2>3
<1>7. CASE ScriptFault
  <2>1. /\ UNCHANGED <<chan, keyed, inbox, feed>> /\ script.at \in Listening
        /\ script' = [script EXCEPT !.at = "spent"] \/ Cut
    BY <1>0, <1>7 DEF ScriptFault, asterisk, Cut
  <2>2. Shifts
    BY <2>1, StillMoves DEF Moves
  <2>3. /\ ScriptTyped'
        /\ script'.at = "spent" \/ (script'.at = "done" /\ script'.cut = TRUE)
    BY <1>0, <2>1 DEF ScriptTyped, Cut
  <2>4. QED
    BY <1>0, <1>4, <2>1, <2>2, <2>3, ShiftsTyped DEF ScriptInv
<1>8. QED
  BY <1>1, <1>2, <1>5, <1>6, <1>7

-----------------------------------------------------------------------------
(* Sessions begin once.                                                    *)

\* A start on its way is that of a channel in the application, whose task has not
\* begun, and the only one of that channel.
Starts ==
    /\ \A i \in 1 .. Len(inbox) : inbox[i].type = "StasisStart" =>
          /\ chan[inbox[i].channel] \in {"up", "gone"}
          /\ pc[inbox[i].channel] = "none"
    /\ \A i, j \in 1 .. Len(inbox) :
          inbox[i].type = "StasisStart" /\ inbox[j].type = "StasisStart" /\ i # j
          => inbox[i].channel # inbox[j].channel
    /\ \A c \in InStasis : pc[c] # "none" => chan[c] \in {"up", "gone"}

\* Each event on the way to the application is about a channel with a session.
LEMMA InboxTyped ==
    ASSUME AsteriskTyped
    PROVE  \A i \in 1 .. Len(inbox) : inbox[i] \in AriEvents /\ inbox[i].channel \in InStasis
<1>1. \A i \in 1 .. Len(inbox) : inbox[i] \in AriEvents
  BY ElementOfSeq DEF AsteriskTyped
<1>2. QED
  BY <1>1 DEF AriEvents

\* No task begins.
Continues == \A c \in InStasis : pc'[c] = "none" <=> pc[c] = "none"

\* Whoever does not begin a task may add a start of a channel that had none.
LEMMA StartsKept ==
    ASSUME AsteriskTyped, Starts, Continues, Shifts \/ UNCHANGED <<chan, inbox>>
    PROVE  Starts'
<1>1. \A i \in 1 .. Len(inbox) : inbox[i] \in AriEvents /\ inbox[i].channel \in InStasis
  BY InboxTyped
<1>2. \A c \in InStasis : chan[c] \in {"up", "gone"} => chan'[c] \in {"up", "gone"}
  BY TheLegs DEF Shifts, Later
<1>3. \A c \in InStasis : pc'[c] # "none" => chan'[c] \in {"up", "gone"}
  BY <1>2 DEF Starts, Continues
<1>4. CASE inbox' = inbox
  BY <1>1, <1>2, <1>3, <1>4 DEF Starts, Continues
<1>5. CASE inbox' # inbox
  <2>1. PICK e \in AriEvents :
            /\ inbox' = Append(inbox, e)
            /\ e.type = "StasisStart" => /\ chan[e.channel] \in {"none", "new"}
                                         /\ chan'[e.channel] = "up"
    BY <1>5 DEF Shifts, Tells, Quiet, Sent
  <2>2. \A i \in 1 .. Len(inbox') : \/ i \in 1 .. Len(inbox) /\ inbox'[i] = inbox[i]
                                    \/ i = Len(inbox) + 1 /\ inbox'[i] = e
    BY <2>1, AppendCases DEF AsteriskTyped
  <2>3. e.channel \in InStasis
    BY DEF AriEvents
  <2>4. e.type = "StasisStart" => /\ chan'[e.channel] \in {"up", "gone"}
                                  /\ pc[e.channel] = "none" /\ pc'[e.channel] = "none"
                                  /\ chan[e.channel] \notin {"up", "gone"}
    BY <2>1, <2>3 DEF Starts, Continues
  <2>5. \A i \in 1 .. Len(inbox) : inbox[i].type = "StasisStart" =>
            /\ chan'[inbox[i].channel] \in {"up", "gone"}
            /\ pc'[inbox[i].channel] = "none"
            /\ e.type = "StasisStart" => inbox[i].channel # e.channel
    BY <1>1, <1>2, <2>4 DEF Starts, Continues
  <2>6. \A i \in 1 .. Len(inbox') : inbox'[i].type = "StasisStart" =>
            /\ chan'[inbox'[i].channel] \in {"up", "gone"}
            /\ pc'[inbox'[i].channel] = "none"
    BY <2>2, <2>4, <2>5
  <2>7. \A i, j \in 1 .. Len(inbox') :
            inbox'[i].type = "StasisStart" /\ inbox'[j].type = "StasisStart" /\ i # j
            => inbox'[i].channel # inbox'[j].channel
    <3> SUFFICES ASSUME NEW i \in 1 .. Len(inbox'), NEW j \in 1 .. Len(inbox'), i # j,
                        inbox'[i].type = "StasisStart", inbox'[j].type = "StasisStart"
                 PROVE  inbox'[i].channel # inbox'[j].channel
      OBVIOUS
    <3>1. CASE i \in 1 .. Len(inbox) /\ j \in 1 .. Len(inbox) /\ inbox'[i] = inbox[i]
               /\ inbox'[j] = inbox[j]
      BY <3>1 DEF Starts
    <3>2. CASE i \in 1 .. Len(inbox) /\ inbox'[i] = inbox[i] /\ inbox'[j] = e
      BY <2>5, <3>2
    <3>3. CASE j \in 1 .. Len(inbox) /\ inbox'[j] = inbox[j] /\ inbox'[i] = e
      BY <2>5, <3>3
    <3>4. QED
      BY <2>2, <3>1, <3>2, <3>3
  <2>8. QED
    BY <1>3, <2>6, <2>7 DEF Starts
<1>6. QED
  BY <1>4, <1>5

\* The task of a channel begins when its start is dispatched, and only then.
LEMMA DispatchStarts ==
    ASSUME AsteriskTyped, TasksInv, Starts, Dispatch
    PROVE  /\ Starts' /\ AsteriskTyped'
           /\ Head(inbox).type = "StasisStart" => pc[Head(inbox).channel] = "none"
<1> DEFINE e == Head(inbox)
<1>1. /\ \A i \in 1 .. Len(Tail(inbox)) : i \in Nat /\ i + 1 \in 1 .. Len(inbox)
                                          /\ Tail(inbox)[i] = inbox[i + 1]
      /\ 1 \in 1 .. Len(inbox) /\ inbox[1] = e
      /\ Tail(inbox) \in Seq(AriEvents) /\ e \in AriEvents
  BY TailCases DEF Dispatch, AsteriskTyped
<1>2. /\ inbox' = Tail(inbox) /\ UNCHANGED <<chan, keyed, feed>>
      /\ \/ e.type = "StasisStart" /\ OnStasisStart(e)
         \/ e.type = "ChannelDtmfReceived" /\ OnDtmf(e)
         \/ e.type = "ChannelDestroyed" /\ OnHangup(e)
  BY DEF Dispatch, tool
<1>3. e.channel \in InStasis
  BY <1>1 DEF AriEvents
<1>4. e.type = "StasisStart" => pc[e.channel] = "none" /\ chan[e.channel] \in {"up", "gone"}
  BY <1>1 DEF Starts
<1>5. AsteriskTyped'
  BY <1>1, <1>2 DEF AsteriskTyped
<1> HIDE DEF e
<1>6. \A c \in InStasis : \/ pc'[c] = "none" <=> pc[c] = "none"
                          \/ c = e.channel /\ e.type = "StasisStart"
  <2>1. pc \in [InStasis -> {"none", "entering", "prompt", "bridged", "done"}
                              \union DOMAIN Stage]
    BY DEF TasksInv, TasksTyped
  <2>2. CASE e.type = "StasisStart" /\ OnStasisStart(e)
    BY <1>3, <2>1, <2>2 DEF OnStasisStart
  <2>3. CASE OnDtmf(e)
    BY <2>3 DEF OnDtmf, ivr, tasks
  <2>4. CASE OnHangup(e)
    <3>1. CASE pc' = pc
      BY <3>1
    <3>2. CASE fut[e.channel] = "waiting" /\ pc' = [pc EXCEPT ![e.channel] = "done"]
      <4>1. pc[e.channel] = "prompt"
        BY <1>3, <3>2 DEF TasksInv, AtWork
      <4>2. QED
        BY <1>3, <2>1, <3>2, <4>1
    <3>3. QED
      BY <2>4, <3>1, <3>2 DEF OnHangup
  <2>5. QED
    BY <1>2, <2>2, <2>3, <2>4
<1>7. \A i \in 1 .. Len(inbox') : /\ i + 1 \in 1 .. Len(inbox) /\ inbox'[i] = inbox[i + 1]
                                  /\ i + 1 # 1 /\ inbox[i + 1].channel \in InStasis
  <2>1. \A i \in 1 .. Len(inbox) : inbox[i].channel \in InStasis
    BY InboxTyped
  <2>2. QED
    BY <1>1, <1>2, <2>1
<1>8. \A i \in 1 .. Len(inbox') : inbox'[i].type = "StasisStart" =>
          /\ chan'[inbox'[i].channel] \in {"up", "gone"}
          /\ pc'[inbox'[i].channel] = "none"
  <2> SUFFICES ASSUME NEW i \in 1 .. Len(inbox'), inbox'[i].type = "StasisStart"
               PROVE  /\ chan'[inbox'[i].channel] \in {"up", "gone"}
                      /\ pc'[inbox'[i].channel] = "none"
    OBVIOUS
  <2> DEFINE k == i + 1
  <2>1. k \in 1 .. Len(inbox) /\ inbox'[i] = inbox[k] /\ k # 1 /\ inbox[k].channel \in InStasis
    BY <1>7
  <2> HIDE DEF k
  <2>2. /\ chan[inbox[k].channel] \in {"up", "gone"} /\ pc[inbox[k].channel] = "none"
        /\ e.type = "StasisStart" => inbox[k].channel # e.channel
    BY <1>1, <2>1 DEF Starts
  <2>3. QED
    BY <1>2, <1>6, <2>1, <2>2
<1>9. \A i, j \in 1 .. Len(inbox') :
          inbox'[i].type = "StasisStart" /\ inbox'[j].type = "StasisStart" /\ i # j
          => inbox'[i].channel # inbox'[j].channel
  <2> SUFFICES ASSUME NEW i \in 1 .. Len(inbox'), NEW j \in 1 .. Len(inbox'), i # j,
                      inbox'[i].type = "StasisStart", inbox'[j].type = "StasisStart"
               PROVE  inbox'[i].channel # inbox'[j].channel
    OBVIOUS
  <2>1. i + 1 # j + 1
    OBVIOUS
  <2>2. QED
    BY <1>7, <2>1 DEF Starts
<1>10. \A c \in InStasis : pc'[c] # "none" => chan'[c] \in {"up", "gone"}
  BY <1>2, <1>4, <1>6 DEF Starts
<1>11. QED
  BY <1>4, <1>5, <1>8, <1>9, <1>10 DEF Starts, e

-----------------------------------------------------------------------------
(* What became of a digit.                                                 *)

StoreTyped ==
    /\ log \in [InStasis \union {NoChannel} -> Seq(Events)]
    /\ late \subseteq InStasis \X Events /\ lost \subseteq InStasis \X Events

\* Only the store marks an event as late.
Plain == \A e \in late : e[2].late = FALSE

Carrying == {"dialed", "menu", "route", "forwarded"}

\* A publish that is over left its event somewhere; a digit that was dialled with the
\* call or taken by the main menu is under way to line 2, or was published for it.
Due ==
    /\ \A c \in InStasis : post[c].status = "answered" => Fate(c, pc[c], digit[c])
    /\ \A c \in InStasis : Caller[c] = "1" =>
          \A n \in Nat : Fate(c, "dialed", n) \/ Fate(c, "menu", n) =>
              \/ Fate(c, "forwarded", n)
              \/ digit[c] = n /\ pc[c] \in Carrying

DueInv == StoreTyped /\ Plain /\ Due

\* Nothing is published, and each task stays as it is, has nothing to carry, goes on
\* with its digit, or is done with it.
LEMMA DueKept ==
    ASSUME DueInv, UNCHANGED <<log, late, lost>>,
           \A c \in InStasis :
              \/ pc'[c] = pc[c] /\ digit'[c] = digit[c] /\ post'[c] = post[c]
              \/ /\ post'[c].status # "answered"
                 /\ \/ pc[c] \notin Carrying
                    \/ Caller[c] # "1"
                    \/ pc'[c] \in Carrying /\ digit'[c] = digit[c]
                    \/ Fate(c, "forwarded", digit[c])
    PROVE  DueInv'
<1>1. \A c \in InStasis : \A s, n : Fate(c, s, n)' <=> Fate(c, s, n)
  BY DEF Fate
<1>2. \A c \in InStasis : post'[c].status = "answered" => Fate(c, pc[c], digit[c])'
  BY <1>1 DEF DueInv, Due
<1>3. \A c \in InStasis : Caller[c] = "1" =>
          \A n \in Nat : Fate(c, "dialed", n)' \/ Fate(c, "menu", n)' =>
              Fate(c, "forwarded", n)' \/ (digit'[c] = n /\ pc'[c] \in Carrying)
  BY <1>1 DEF DueInv, Due
<1>4. Due'
  BY <1>2, <1>3 DEF Due
<1>5. QED
  BY <1>4 DEF DueInv, StoreTyped, Plain

\* What was stored for a channel is what was stored before and the new event.
LEMMA AppendLogs ==
    ASSUME NEW q \in Seq(Events), NEW e \in Events, NEW s, NEW n
    PROVE  (\E i \in DOMAIN Append(q, e) : Append(q, e)[i].stage = s /\ Append(q, e)[i].n = n)
           <=> \/ \E i \in DOMAIN q : q[i].stage = s /\ q[i].n = n
               \/ e.stage = s /\ e.n = n
<1>1. DOMAIN q = 1 .. Len(q) /\ DOMAIN Append(q, e) = 1 .. Len(Append(q, e))
  BY LenProperties, AppendProperties
<1>2. /\ \A i \in 1 .. Len(Append(q, e)) :
            \/ i \in 1 .. Len(q) /\ Append(q, e)[i] = q[i]
            \/ i = Len(q) + 1 /\ Append(q, e)[i] = e
      /\ \A i \in 1 .. Len(q) : i \in 1 .. Len(Append(q, e)) /\ Append(q, e)[i] = q[i]
      /\ Len(q) + 1 \in 1 .. Len(Append(q, e)) /\ Append(q, e)[Len(q) + 1] = e
  BY AppendCases
<1> HIDE DEF Events
<1>3. QED
  BY <1>1, <1>2


\* A task goes on.
LEMMA TaskDue ==
    ASSUME TasksInv, DueInv, NEW c \in InStasis, Goes(c), UNCHANGED <<log, late, lost>>
    PROVE  DueInv'
<1>1. \A d \in InStasis : d # c =>
          pc'[d] = pc[d] /\ digit'[d] = digit[d] /\ post'[d] = post[d]
  <2>1. \/ Rests(c)
        \/ \E s, n : Publish(c, s, n)
    BY DEF Goes, Publishes
  <2>2. /\ pc' = [pc EXCEPT ![c] = pc'[c]] /\ digit' = [digit EXCEPT ![c] = digit'[c]]
        /\ post' = [post EXCEPT ![c] = post'[c]]
    BY <2>1, TheLegs DEF Rests, Publish, Prompt, TasksInv, TasksTyped
  <2>3. QED
    BY <2>2, TheLegs DEF TasksInv, TasksTyped
<1>2. post'[c].status # "answered"
  <2>1. CASE Rests(c)
    <3>1. post' = [post EXCEPT ![c] = NoPost]
      BY <2>1 DEF Rests, Prompt
    <3>2. QED
      BY <3>1, TheLegs, EventsTyped DEF TasksInv, TasksTyped
  <2>2. CASE \E s, n : Publishes(c, s, n)
    <3>1. PICK s, n : post' = [post EXCEPT ![c] = Post(c, Event(s, n))]
      BY <2>2 DEF Publishes, Publish
    <3>2. Post(c, Event(s, n)).status = "sent"
      BY DEF Post
    <3>3. QED
      BY <3>1, <3>2, TheLegs DEF TasksInv, TasksTyped
  <2>3. QED
    BY <2>1, <2>2 DEF Goes
<1>3. ASSUME NEW s \in Carrying, Publishes(c, s, digit[c])
      PROVE  pc'[c] \in Carrying /\ digit'[c] = digit[c]
  BY <1>3 DEF Publishes, Publish, TasksInv, TasksTyped
<1>4. \/ pc[c] \notin Carrying
      \/ Caller[c] # "1"
      \/ pc'[c] \in Carrying /\ digit'[c] = digit[c]
      \/ Fate(c, "forwarded", digit[c])
  <2>1. CASE pc[c] \in {"entering", "prompt", "sub"}
    BY <2>1 DEF Carrying
  <2>2. CASE Publishes(c, "route", digit[c]) \/ Publishes(c, "forwarded", digit[c])
    BY <1>3, <2>2 DEF Carrying
  <2>3. CASE pc[c] = "forwarded" /\ post[c].status = "answered"
    BY <2>3 DEF DueInv, Due
  <2>4. QED
    BY <2>1, <2>2, <2>3 DEF Goes
<1>5. QED
  BY <1>1, <1>2, <1>4, DueKept

\* The one event whose publish ends is stored, lost or late.
LEMMA PostingFate ==
    ASSUME TasksInv, StoreTyped, Plain, NEW p \in Publishers, Posting(p)
    PROVE  /\ StoreTyped' /\ Plain'
           /\ \A c \in InStasis : \A s, n : Fate(c, s, n)' <=>
                 \/ Fate(c, s, n)
                 \/ /\ post[p].channel = c /\ post[p].event.stage = s
                    /\ post[p].event.n = n
<1> DEFINE d == post[p].channel
           e == post[p].event
<1>1. d \in InStasis /\ e \in Events /\ e.late = FALSE
  <2>1. post[p] \in Posts /\ post[p].status = "sent"
    BY DEF TasksInv, TasksTyped, Posting, Store, GiveUp
  <2>2. CASE p = Dispatcher
    BY <2>1, <2>2 DEF TasksInv, RawOnly, Posts
  <2>3. CASE p # Dispatcher
    <3>1. p \in InStasis /\ pc[p] \in Working
      BY <2>1, <2>3 DEF TasksInv, AtWork, Publishers
    <3>2. d = p /\ e = Event(pc[p], digit[p])
      BY <3>1 DEF TasksInv, AtWork
    <3>3. QED
      BY <2>1, <3>1, <3>2, EventsTyped DEF Posts
  <2>4. QED
    BY <2>2, <2>3
<1>2. \/ log' = [log EXCEPT ![d] = Append(@, e)] /\ UNCHANGED <<late, lost>>
      \/ log' = log /\ lost' = lost \union {<<d, e>>} /\ late' = late
      \/ log' = log /\ late' = late \union {<<d, e>>} /\ lost' = lost
  BY DEF Posting, Store, GiveUp, history
<1> HIDE DEF d, e
<1>3. \A s, n : Event(s, n) = e <=> e.stage = s /\ e.n = n
  BY <1>1 DEF Event, Events
<1>4. CASE log' = [log EXCEPT ![d] = Append(@, e)] /\ UNCHANGED <<late, lost>>
  <2>1. log[d] \in Seq(Events) /\ Append(log[d], e) \in Seq(Events)
    BY <1>1, AppendProperties DEF StoreTyped
  <2>2. StoreTyped' /\ Plain'
    BY <1>4, <2>1 DEF StoreTyped, Plain
  <2>3. log'[d] = Append(log[d], e) /\ \A c \in InStasis : c # d => log'[c] = log[c]
    BY <1>1, <1>4 DEF StoreTyped
  <2>4. \A s, n : (\E i \in DOMAIN log'[d] : log'[d][i].stage = s /\ log'[d][i].n = n) <=>
            \/ \E i \in DOMAIN log[d] : log[d][i].stage = s /\ log[d][i].n = n
            \/ e.stage = s /\ e.n = n
    BY <1>1, <2>1, <2>3, AppendLogs
  <2>5. QED
    BY <1>4, <2>2, <2>3, <2>4 DEF Fate, d, e
<1>5. CASE log' = log /\ lost' = lost \union {<<d, e>>} /\ late' = late
  <2>1. StoreTyped' /\ Plain'
    BY <1>1, <1>5 DEF StoreTyped, Plain
  <2>2. \A c, s, n : <<c, Event(s, n)>> \in (late \union lost)' <=>
            \/ <<c, Event(s, n)>> \in late \union lost
            \/ c = d /\ Event(s, n) = e
    BY <1>5
  <2>3. QED
    BY <1>3, <1>5, <2>1, <2>2 DEF Fate, d, e
<1>6. CASE log' = log /\ late' = late \union {<<d, e>>} /\ lost' = lost
  <2>1. StoreTyped' /\ Plain'
    BY <1>1, <1>6 DEF StoreTyped, Plain
  <2>2. \A c, s, n : <<c, Event(s, n)>> \in (late \union lost)' <=>
            \/ <<c, Event(s, n)>> \in late \union lost
            \/ c = d /\ Event(s, n) = e
    BY <1>6
  <2>3. QED
    BY <1>3, <1>6, <2>1, <2>2 DEF Fate, d, e
<1>7. QED
  BY <1>2, <1>4, <1>5, <1>6

\* So it is either none of the digits under way, or that of its task.
LEMMA PostingDue ==
    ASSUME TasksInv, DueInv, NEW p \in Publishers, Posting(p)
    PROVE  DueInv'
<1>1. /\ post[p].status = "sent" /\ UNCHANGED <<pc, digit>>
      /\ \A q \in Publishers : q # p => post'[q] = post[q]
  BY DEF Posting, Store, GiveUp, tasks, TasksInv, TasksTyped
<1>2. /\ StoreTyped' /\ Plain'
      /\ \A c \in InStasis : \A s, n : Fate(c, s, n)' <=>
            \/ Fate(c, s, n)
            \/ /\ post[p].channel = c /\ post[p].event.stage = s
               /\ post[p].event.n = n
  BY PostingFate DEF DueInv
<1>3. CASE p = Dispatcher
  <2>1. post[p].event.stage = "raw"
    BY <1>1, <1>3 DEF TasksInv, RawOnly
  <2>2. \A c \in InStasis : \A s, n : s # "raw" => (Fate(c, s, n)' <=> Fate(c, s, n))
    BY <1>2, <2>1
  <2>3. \A c \in InStasis : /\ post'[c] = post[c]
                            /\ Fate(c, pc[c], digit[c]) => Fate(c, pc[c], digit[c])'
    BY <1>1, <1>2, <1>3, TheLegs
  <2>4. Due'
    BY <1>1, <2>2, <2>3 DEF DueInv, Due
  <2>5. QED
    BY <1>2, <2>4 DEF DueInv
<1>4. CASE p # Dispatcher
  <2>1. p \in InStasis /\ pc[p] \in Working
    BY <1>1, <1>4 DEF TasksInv, AtWork, Publishers
  <2>2. post[p].channel = p /\ post[p].event = Event(pc[p], digit[p])
    BY <2>1 DEF TasksInv, AtWork
  <2>3. \A c \in InStasis : \A s, n : Fate(c, s, n)' <=>
            Fate(c, s, n) \/ (c = p /\ s = pc[p] /\ n = digit[p])
    BY <1>2, <2>2, EventsTyped
  <2>4. \A c \in InStasis : post'[c].status = "answered" => Fate(c, pc[c], digit[c])'
    <3> SUFFICES ASSUME NEW c \in InStasis, post'[c].status = "answered"
                 PROVE  Fate(c, pc[c], digit[c])'
      OBVIOUS
    <3>1. pc'[c] = pc[c] /\ digit'[c] = digit[c]
      BY <1>1
    <3>2. Fate(c, pc[c], digit[c]) \/ c = p
      BY <1>1, TheLegs DEF DueInv, Due
    <3>3. QED
      BY <1>1, <1>2, <2>2, <3>2, EventsTyped DEF Fate
  <2>5. \A c \in InStasis : Caller[c] = "1" =>
            \A n \in Nat : Fate(c, "dialed", n)' \/ Fate(c, "menu", n)' =>
                Fate(c, "forwarded", n)' \/ (digit'[c] = n /\ pc'[c] \in Carrying)
    BY <1>1, <2>3 DEF DueInv, Due, Carrying
  <2>6. Due'
    BY <2>4, <2>5 DEF Due
  <2>7. QED
    BY <1>2, <2>6 DEF DueInv
<1>5. QED
  BY <1>3, <1>4


\* An event its publisher gave up on is stored, marked as late.
LEMMA LateFate ==
    ASSUME TasksInv, DueInv, NEW x \in late, StoreLate(x)
    PROVE  /\ StoreTyped' /\ Plain'
           /\ \A c \in InStasis : \A s, n : Fate(c, s, n)' <=> Fate(c, s, n)
           /\ \E d \in InStasis, f \in Events :
                 f.late = TRUE /\ log' = [log EXCEPT ![d] = Append(@, f)]
<1> DEFINE d == x[1]
           e == x[2]
           f == [x[2] EXCEPT !.late = TRUE]
<1>1. /\ d \in InStasis /\ e \in Events /\ e.late = FALSE /\ x = <<d, e>>
      /\ f \in Events /\ f.stage = e.stage /\ f.n = e.n /\ f.late = TRUE
  <2>1. x \in InStasis \X Events /\ e.late = FALSE
    BY DEF DueInv, StoreTyped, Plain
  <2>2. d \in InStasis /\ e \in Events /\ x = <<d, e>>
    BY <2>1
  <2>3. f \in Events /\ f.stage = e.stage /\ f.n = e.n /\ f.late = TRUE
    BY <2>2 DEF Events
  <2>4. QED
    BY <2>1, <2>2, <2>3
<1>2. /\ log' = [log EXCEPT ![d] = Append(@, f)] /\ late' = late \ {x} /\ lost' = lost
      /\ UNCHANGED <<pc, digit, post>>
  BY DEF StoreLate, history, ivr, tasks
<1>3. \A c, s, n : <<c, Event(s, n)>> = x <=> c = d /\ e.stage = s /\ e.n = n
  BY <1>1 DEF Event, Events
<1> HIDE DEF d, e, f
<1>4. log[d] \in Seq(Events) /\ Append(log[d], f) \in Seq(Events)
  BY <1>1, AppendProperties DEF DueInv, StoreTyped
<1>5. StoreTyped' /\ Plain'
  BY <1>2, <1>4 DEF DueInv, StoreTyped, Plain
<1>6. log'[d] = Append(log[d], f) /\ \A c \in InStasis : c # d => log'[c] = log[c]
  BY <1>1, <1>2 DEF DueInv, StoreTyped
<1>7. \A s, n : (\E i \in DOMAIN log'[d] : log'[d][i].stage = s /\ log'[d][i].n = n) <=>
          \/ \E i \in DOMAIN log[d] : log[d][i].stage = s /\ log[d][i].n = n
          \/ e.stage = s /\ e.n = n
  <2>1. \A s, n : (\E i \in DOMAIN Append(log[d], f) :
                      Append(log[d], f)[i].stage = s /\ Append(log[d], f)[i].n = n) <=>
            \/ \E i \in DOMAIN log[d] : log[d][i].stage = s /\ log[d][i].n = n
            \/ f.stage = s /\ f.n = n
    BY <1>1, <1>4, AppendLogs
  <2>2. QED
    BY <1>1, <1>6, <2>1
<1>8. \A c, s, n : <<c, Event(s, n)>> \in late \union lost <=>
          \/ <<c, Event(s, n)>> \in (late \union lost)'
          \/ c = d /\ e.stage = s /\ e.n = n
  BY <1>2, <1>3
<1>9. \A c \in InStasis : \A s, n : Fate(c, s, n)' <=> Fate(c, s, n)
  <2> SUFFICES ASSUME NEW c \in InStasis, NEW s, NEW n
               PROVE  Fate(c, s, n)' <=> Fate(c, s, n)
    OBVIOUS
  <2>1. CASE c = d
    BY <1>2, <1>7, <1>8, <2>1 DEF Fate
  <2>2. CASE c # d
    BY <1>2, <1>6, <1>8, <2>2 DEF Fate
  <2>3. QED
    BY <2>1, <2>2
<1>10. QED
  BY <1>1, <1>2, <1>5, <1>9

\* The digits under way do not change by that.
LEMMA StoreLateDue ==
    ASSUME TasksInv, DueInv, NEW x \in late, StoreLate(x)
    PROVE  DueInv'
<1>1. /\ StoreTyped' /\ Plain'
      /\ \A c \in InStasis : \A s, n : Fate(c, s, n)' <=> Fate(c, s, n)
  BY LateFate
<1>2. UNCHANGED <<pc, digit, post>>
  BY DEF StoreLate, ivr, tasks
<1>3. Due'
  BY <1>1, <1>2 DEF DueInv, Due
<1>4. QED
  BY <1>1, <1>3 DEF DueInv

\* The keypad of the page stores events of no channel.
LEMMA SimulateDue ==
    ASSUME DueInv, NEW l \in Lines, Simulate(l)
    PROVE  DueInv'
<1> DEFINE n == Len(log[NoChannel]) + 1
           add == IF l = "1" THEN <<Event("raw", n), Event("route", n), Event("forwarded", n)>>
                             ELSE <<Event("raw", n)>>
<1>1. n \in Nat /\ log[NoChannel] \in Seq(Events)
  BY LenProperties DEF DueInv, StoreTyped
<1>2. /\ log' = [log EXCEPT ![NoChannel] = @ \o add]
      /\ UNCHANGED <<late, lost, pc, digit, post>>
  BY DEF Simulate, ivr, tasks, history
<1> HIDE DEF n
<1>3. add \in Seq(Events)
  <2>1. /\ Event("raw", n) \in Events /\ Event("route", n) \in Events
        /\ Event("forwarded", n) \in Events
    BY <1>1, EventsTyped DEF Working
  <2>2. QED
    BY <2>1
<1> HIDE DEF add
<1>4. log[NoChannel] \o add \in Seq(Events)
  BY <1>1, <1>3, ConcatProperties
<1>5. StoreTyped' /\ Plain'
  BY <1>2, <1>4 DEF DueInv, StoreTyped, Plain
<1>6. \A c \in InStasis : \A s, m : Fate(c, s, m)' <=> Fate(c, s, m)
  BY <1>2, TheLegs DEF Fate, DueInv, StoreTyped
<1>7. Due'
  BY <1>2, <1>6 DEF DueInv, Due
<1>8. QED
  BY <1>5, <1>7 DEF DueInv

\* The dispatcher changes the place or the digit of a task only where it has nothing to
\* carry.
LEMMA DispatcherDue ==
    ASSUME AsteriskTyped, TasksInv, Starts, DueInv, Dispatch \/ DeliverDigit
    PROVE  DueInv'
<1> USE TheLegs
<1>1. UNCHANGED <<log, late, lost>>
  BY DEF Dispatch, DeliverDigit, api, history
<1>2. CASE Dispatch
  <2> DEFINE e == Head(inbox)
  <2>1. e.channel \in InStasis
    <3>1. e \in AriEvents
      BY <1>2, HeadTailProperties DEF Dispatch, AsteriskTyped
    <3>2. QED
      BY <3>1 DEF AriEvents
  <2>2. \/ e.type = "StasisStart" /\ OnStasisStart(e)
        \/ OnDtmf(e)
        \/ OnHangup(e)
    BY <1>2 DEF Dispatch
  <2>3. e.type = "StasisStart" => pc[e.channel] = "none"
    BY <1>2, DispatchStarts
  <2> HIDE DEF e
  <2>4. \A c \in InStasis : /\ pc[c] \notin Working => post[c].status # "answered"
                            /\ fut[c] = "waiting" => pc[c] = "prompt"
    BY DEF TasksInv, AtWork
  <2>5. CASE e.type = "StasisStart" /\ OnStasisStart(e)
    <3>1. pc' = [pc EXCEPT ![e.channel] = "entering"] /\ digit' = digit /\ post' = post
      BY <2>5 DEF OnStasisStart
    <3>2. post[e.channel].status # "answered" /\ pc[e.channel] \notin Carrying
      BY <2>1, <2>3, <2>4, <2>5 DEF Working, Carrying
    <3>3. \A c \in InStasis : c # e.channel => pc'[c] = pc[c]
      BY <3>1 DEF TasksInv, TasksTyped
    <3>4. QED
      BY <1>1, <3>1, <3>2, <3>3, DueKept
  <2>6. CASE OnDtmf(e)
    <3>1. /\ pc' = pc /\ digit' = digit
          /\ post' = post \/ \E q : post' = [post EXCEPT ![Dispatcher] = q]
      BY <2>6 DEF OnDtmf, ivr, tasks
    <3>2. \A c \in InStasis : post'[c] = post[c]
      BY <3>1 DEF TasksInv, TasksTyped
    <3>3. QED
      BY <1>1, <3>1, <3>2, DueKept
  <2>7. CASE OnHangup(e)
    <3>1. /\ digit' = digit /\ post' = post
          /\ \/ fut[e.channel] = "waiting" /\ pc' = [pc EXCEPT ![e.channel] = "done"]
             \/ pc' = pc
      BY <2>7 DEF OnHangup
    <3>2. \A c \in InStasis :
              \/ pc'[c] = pc[c]
              \/ post[c].status # "answered" /\ pc[c] \notin Carrying
      <4>1. CASE pc' = pc
        BY <4>1
      <4>2. CASE fut[e.channel] = "waiting" /\ pc' = [pc EXCEPT ![e.channel] = "done"]
        <5>1. pc[e.channel] = "prompt" /\ post[e.channel].status # "answered"
          BY <2>1, <2>4, <4>2 DEF Working
        <5>2. QED
          BY <2>1, <4>2, <5>1 DEF TasksInv, TasksTyped, Carrying
      <4>3. QED
        BY <3>1, <4>1, <4>2
    <3>3. QED
      BY <1>1, <3>1, <3>2, DueKept
  <2>8. QED
    BY <2>2, <2>5, <2>6, <2>7
<1>3. CASE DeliverDigit
  <2> DEFINE d == post[Dispatcher].channel
  <2>1. /\ pc' = pc /\ post' = [post EXCEPT ![Dispatcher] = NoPost]
        /\ \/ fut[d] = "waiting" /\ \E n : digit' = [digit EXCEPT ![d] = n]
           \/ digit' = digit
        /\ post[Dispatcher].status = "answered"
    BY <1>3 DEF DeliverDigit
  <2>2. d \in InStasis
    BY <2>1 DEF TasksInv, RawOnly
  <2> HIDE DEF d
  <2>3. \A c \in InStasis : post'[c] = post[c]
    BY <2>1 DEF TasksInv, TasksTyped
  <2>4. \A c \in InStasis :
            \/ digit'[c] = digit[c]
            \/ post[c].status # "answered" /\ pc[c] \notin Carrying
    <3>1. CASE digit' = digit
      BY <3>1
    <3>2. CASE fut[d] = "waiting" /\ \E n : digit' = [digit EXCEPT ![d] = n]
      <4>1. pc[d] = "prompt" /\ post[d].status # "answered"
        BY <2>2, <3>2 DEF TasksInv, AtWork, Working
      <4>2. QED
        BY <2>2, <3>2, <4>1 DEF TasksInv, TasksTyped, Carrying
    <3>3. QED
      BY <2>1, <3>1, <3>2
  <2>5. QED
    BY <1>1, <2>1, <2>3, <2>4, DueKept
<1>4. QED
  BY <1>2, <1>3

-----------------------------------------------------------------------------
(* What the senders report.                                                *)

\* How many digits a sender has to send, and what holds of its count and its report.
Total(a) == IF a.line = AnyLine THEN Steps ELSE 1

Fair(a, m) ==
    /\ a.at \in {"idle", "listing"} => m = 0 /\ a.ok = 0
    /\ a.at = "listing" => a.left = Total(a)
    /\ a.at \in {"sending", "failed"} =>
          a.left >= 1 /\ m + a.left <= Total(a) /\ a.ok <= m
    /\ a.at = "done" => a.left >= 1 /\ m + a.left <= Total(a) + 1 /\ a.ok + 1 <= m
    /\ a.at \in {"sending", "done", "failed"} => a.channel \in Channels
    /\ a.at = "reported" => a.ok <= m /\ m <= Total(a)

AskInv ==
    /\ ask \in [Senders -> Asks]
    /\ sent \in [Senders -> Nat]
    /\ \A r \in Senders : Fair(ask[r], sent[r])

\* One sender goes on.
LEMMA AskStep ==
    ASSUME AskInv, NEW r \in Senders, NEW a \in Asks, NEW m \in Nat, Fair(a, m),
           ask' = [ask EXCEPT ![r] = a], sent' = [sent EXCEPT ![r] = m]
    PROVE  AskInv'
<1>1. ask' \in [Senders -> Asks] /\ sent' \in [Senders -> Nat]
  BY DEF AskInv
<1>2. \A x \in Senders : Fair(ask'[x], sent'[x])
  BY DEF AskInv
<1>3. QED
  BY <1>1, <1>2 DEF AskInv

\* Every step of a sender.
LEMMA SenderKeeps ==
    ASSUME AskInv, NEW r \in Senders, Sender(r)
    PROVE  AskInv'
<1> DEFINE a == ask[r]
           m == sent[r]
<1>1. /\ a \in Asks /\ m \in Nat /\ Fair(a, m)
      /\ Total(a) \in Nat /\ Total(a) >= 1
      /\ a.left \in Nat /\ a.ok \in Nat
  <2>1. a \in Asks /\ m \in Nat /\ Fair(a, m)
    BY DEF AskInv
  <2>2. Steps \in Nat /\ Steps > 0
    BY BoundsAssumption
  <2>3. QED
    BY <2>1, <2>2 DEF Total, Asks
<1>2. sent = [sent EXCEPT ![r] = m] /\ NoAsk \in Asks
  BY TheLegs DEF AskInv, NoAsk, Asks, Lines
<1>3. ASSUME NEW b \in Asks, NEW k \in Nat, Fair(b, k), ask' = [ask EXCEPT ![r] = b],
             sent' = [sent EXCEPT ![r] = k]
      PROVE  AskInv'
  BY <1>3, AskStep
<1> HIDE DEF a, m
<1>4. CASE \E l \in Lines : AskSend(r, l)
  <2>1. PICK l \in Lines : AskSend(r, l)
    BY <1>4
  <2> DEFINE b == [NoAsk EXCEPT !.at = "listing", !.line = l, !.left = 1]
  <2>2. a.at = "idle" /\ ask' = [ask EXCEPT ![r] = b] /\ sent' = sent
    BY <2>1 DEF AskSend, history, a
  <2>3. /\ b \in Asks /\ b.at = "listing" /\ b.line = l /\ b.left = 1 /\ b.ok = 0
        /\ l # AnyLine
    BY DEF NoAsk, Asks, Lines, AnyLine
  <2> HIDE DEF b
  <2>4. m = 0
    BY <1>1, <2>2 DEF Fair
  <2>5. Fair(b, m)
    BY <2>3, <2>4 DEF Fair, Total
  <2>6. QED
    BY <1>1, <1>2, <1>3, <2>2, <2>3, <2>5
<1>5. CASE ListChannels(r)
  <2> DEFINE b == [NoAsk EXCEPT !.at = "listing", !.line = AnyLine, !.left = Steps]
  <2>1. a.at = "idle" /\ ask' = [ask EXCEPT ![r] = b] /\ sent' = sent
    BY <1>5 DEF ListChannels, history, a
  <2>2. b \in Asks /\ b.at = "listing" /\ b.line = AnyLine /\ b.left = Steps /\ b.ok = 0
    BY BoundsAssumption DEF NoAsk, Asks, Lines, AnyLine
  <2> HIDE DEF b
  <2>3. m = 0
    BY <1>1, <2>1 DEF Fair
  <2>4. Fair(b, m)
    BY <2>2, <2>3 DEF Fair, Total
  <2>5. QED
    BY <1>1, <1>2, <1>3, <2>1, <2>2, <2>4
<1>6. CASE Find(r)
  <2>1. PICK c \in Channels :
            ask' = [ask EXCEPT ![r] = [a EXCEPT !.at = "sending", !.channel = c]]
    BY <1>6 DEF Find, Matching, AskInv, a
  <2> DEFINE b == [a EXCEPT !.at = "sending", !.channel = c]
  <2>2. a.at = "listing" /\ sent' = sent
    BY <1>6 DEF Find, history, a
  <2>3. /\ b \in Asks /\ b.at = "sending" /\ b.line = a.line /\ b.left = a.left /\ b.ok = a.ok
        /\ b.channel = c
    BY <1>1 DEF Asks
  <2> HIDE DEF b
  <2>4. Fair(b, m)
    BY <1>1, <2>2, <2>3 DEF Fair, Total
  <2>5. QED
    BY <1>1, <1>2, <1>3, <2>1, <2>2, <2>3, <2>4 DEF b
<1>7. CASE NotFound(r)
  <2> DEFINE b == [a EXCEPT !.at = "reported"]
  <2>1. a.at = "listing" /\ ask' = [ask EXCEPT ![r] = b] /\ sent' = sent
    BY <1>7 DEF NotFound, AskInv, a
  <2>2. b \in Asks /\ b.at = "reported" /\ b.line = a.line /\ b.ok = a.ok
    BY <1>1 DEF Asks
  <2> HIDE DEF b
  <2>3. Fair(b, m)
    BY <1>1, <2>1, <2>2 DEF Fair, Total
  <2>4. QED
    BY <1>1, <1>2, <1>3, <2>1, <2>2, <2>3
<1>8. CASE SendDigit(r)
  <2>1. a.at = "sending"
    BY <1>8 DEF SendDigit, a
  <2>2. CASE Exists(ask[r].channel)
    <3> DEFINE b == [a EXCEPT !.at = "done"]
    <3>1. ask' = [ask EXCEPT ![r] = b] /\ sent' = [sent EXCEPT ![r] = m + 1]
      BY <1>8, <2>2 DEF SendDigit, AskInv, a, m
    <3>2. /\ b \in Asks /\ b.at = "done" /\ b.line = a.line /\ b.left = a.left /\ b.ok = a.ok
          /\ b.channel = a.channel
      BY <1>1 DEF Asks
    <3> HIDE DEF b
    <3>3. Fair(b, m + 1) /\ m + 1 \in Nat
      BY <1>1, <2>1, <3>2 DEF Fair, Total
    <3>4. QED
      BY <1>3, <3>1, <3>2, <3>3
  <2>3. CASE ~Exists(ask[r].channel)
    <3> DEFINE b == [a EXCEPT !.at = "failed"]
    <3>1. ask' = [ask EXCEPT ![r] = b] /\ sent' = sent
      BY <1>8, <2>3 DEF SendDigit, AskInv, a
    <3>2. /\ b \in Asks /\ b.at = "failed" /\ b.line = a.line /\ b.left = a.left /\ b.ok = a.ok
          /\ b.channel = a.channel
      BY <1>1 DEF Asks
    <3> HIDE DEF b
    <3>3. Fair(b, m)
      BY <1>1, <2>1, <3>2 DEF Fair, Total
    <3>4. QED
      BY <1>1, <1>2, <1>3, <3>1, <3>2, <3>3
  <2>4. QED
    BY <2>2, <2>3
<1>9. CASE ReportSend(r)
  <2>1. PICK o \in {0, 1} :
            /\ ask' = [ask EXCEPT ![r] = [a EXCEPT !.at = "reported", !.left = 0, !.ok = o]]
            /\ o = 1 => a.at = "done"
    <3> DEFINE o == IF a.at = "done" /\ faults' = faults THEN 1 ELSE 0
    <3>1. ask' = [ask EXCEPT ![r] = [a EXCEPT !.at = "reported", !.left = 0, !.ok = o]]
      BY <1>9 DEF ReportSend, AskInv, a
    <3>2. o \in {0, 1} /\ (o = 1 => a.at = "done")
      OBVIOUS
    <3> HIDE DEF o
    <3>3. QED
      BY <3>1, <3>2
  <2> DEFINE b == [a EXCEPT !.at = "reported", !.left = 0, !.ok = o]
  <2>2. a.at \in {"done", "failed"} /\ a.line # AnyLine /\ sent' = sent
    BY <1>9 DEF ReportSend, Answered, a
  <2>3. b \in Asks /\ b.at = "reported" /\ b.line = a.line /\ b.ok = o
    <3>1. o \in Nat /\ 0 \in Nat
      OBVIOUS
    <3>2. QED
      BY <1>1, <3>1 DEF Asks
  <2> HIDE DEF b
  <2>4. Fair(b, m)
    BY <1>1, <2>1, <2>2, <2>3 DEF Fair, Total
  <2>5. QED
    BY <1>1, <1>2, <1>3, <2>1, <2>2, <2>3, <2>4 DEF b
<1>10. CASE NextDigit(r)
  <2>1. a.at \in {"done", "failed"} /\ a.line = AnyLine /\ sent' = sent
    BY <1>10 DEF NextDigit, Answered, a
  <2>2. PICK k, o, w :
            /\ ask' = [ask EXCEPT ![r] = [a EXCEPT !.at = w, !.left = k, !.ok = o]]
            /\ k \in {0, a.left - 1}
            /\ w = IF k = 0 THEN "reported" ELSE "sending"
            /\ o = a.ok \/ (o = a.ok + 1 /\ a.at = "done")
    <3> DEFINE k == IF faults' # faults THEN 0 ELSE a.left - 1
               o == IF a.at = "done" /\ ~(faults' # faults) THEN a.ok + 1 ELSE a.ok
               w == IF k = 0 THEN "reported" ELSE "sending"
    <3>1. ask' = [ask EXCEPT ![r] = [a EXCEPT !.at = w, !.left = k, !.ok = o]]
      BY <1>10 DEF NextDigit, AskInv, a
    <3>2. QED
      BY <3>1
  <2> DEFINE b == [a EXCEPT !.at = w, !.left = k, !.ok = o]
  <2>3. k \in Nat /\ o \in Nat
    BY <1>1, <2>1, <2>2 DEF Fair
  <2>4. b \in Asks /\ b.at = w /\ b.line = a.line /\ b.ok = o /\ b.left = k /\ b.channel = a.channel
    BY <1>1, <2>2, <2>3 DEF Asks
  <2> HIDE DEF b
  <2>5. Fair(b, m)
    BY <1>1, <2>1, <2>2, <2>3, <2>4 DEF Fair, Total
  <2>6. QED
    BY <1>1, <1>2, <1>3, <2>1, <2>2, <2>4, <2>5 DEF b
<1>11. QED
  BY <1>4, <1>5, <1>6, <1>7, <1>8, <1>9, <1>10 DEF Sender

-----------------------------------------------------------------------------
(* The invariant and the theorems.                                         *)

Counted == actors \in Nat /\ faults \in Nat /\ handling \in BOOLEAN

LineInv ==
    /\ AsteriskTyped
    /\ TasksInv
    /\ ScriptInv
    /\ Starts
    /\ DueInv
    /\ AskInv
    /\ Counted

\* It holds at the start.
LEMMA LineInit == Init => LineInv
<1> SUFFICES ASSUME Init PROVE LineInv
  OBVIOUS
<1> USE TheLegs, EventsTyped, EmptySeq DEF Init
<1>1. AsteriskTyped
  BY DEF AsteriskTyped, ChanStates
<1>2. TasksInv
  BY DEF TasksInv, TasksTyped, RawOnly, AtWork, Working
<1>3. ScriptInv
  <2>1. ScriptTyped
    BY BoundsAssumption DEF ScriptTyped, Runs
  <2>2. CallEnds
    BY DEF CallEnds, Away
  <2>3. QED
    BY <2>1, <2>2 DEF ScriptInv
<1>4. Starts
  BY DEF Starts
<1>5. DueInv
  <2>1. StoreTyped /\ Plain
    BY DEF StoreTyped, Plain
  <2>2. \A c \in InStasis : log[c] = <<>>
    OBVIOUS
  <2>3. \A c \in InStasis : DOMAIN log[c] = {}
    BY <2>2
  <2>4. \A c \in InStasis : \A s, n : ~Fate(c, s, n)
    BY <2>2, <2>3 DEF Fate
  <2>5. \A c \in InStasis : post[c].status # "answered"
    BY DEF InStasis, Publishers
  <2>6. QED
    BY <2>1, <2>4, <2>5 DEF DueInv, Due
<1>6. AskInv
  <2>1. NoAsk \in Asks /\ NoAsk.at = "idle" /\ NoAsk.ok = 0
    BY DEF NoAsk, Asks, Lines
  <2>2. Fair(NoAsk, 0)
    BY <2>1 DEF Fair
  <2>3. QED
    BY <2>1, <2>2 DEF AskInv
<1>7. Counted
  BY DEF Counted
<1>8. QED
  BY <1>1, <1>2, <1>3, <1>4, <1>5, <1>6, <1>7 DEF LineInv

\* What others leave alone.
LEMMA IvrIdle ==
    ASSUME TasksInv, UNCHANGED ivr
    PROVE  TasksInv' /\ Continues /\ handling' = handling
BY DEF ivr, tasks, TasksInv, TasksTyped, RawOnly, AtWork, Continues

\* The same of the digits,
LEMMA DueIdle ==
    ASSUME DueInv, UNCHANGED <<pc, digit, post, log, late, lost>>
    PROVE  DueInv'
BY DueKept

\* and of the senders.
LEMMA AskIdle ==
    ASSUME AskInv, UNCHANGED <<ask, sent>>
    PROVE  AskInv'
BY DEF AskInv

\* Counters count.
LEMMA CountedStep ==
    ASSUME Counted, actors' \in {actors, actors + 1}, faults' \in {faults, faults + 1},
           handling' = handling \/ handling' \in BOOLEAN
    PROVE  Counted'
<1>1. actors' \in Nat /\ faults' \in Nat
  BY DEF Counted
<1>2. handling' \in BOOLEAN
  BY DEF Counted
<1>3. QED
  BY <1>1, <1>2 DEF Counted


\* The steps that leave the application and the store alone.
Outside ==
    /\ Shifts \/ UNCHANGED <<chan, keyed, inbox>>
    /\ UNCHANGED ivr /\ UNCHANGED <<log, late, lost>>

\* Calls and phones.
LEMMA PartyStep ==
    ASSUME LineInv, NEW c \in Channels, Arrive(c) \/ Key(c) \/ HangUp(c)
    PROVE  LineInv' /\ Outside
<1> USE DEF LineInv
<1>1. Moves
  <2>1. CASE Arrive(c)
    BY <2>1, ArriveMoves
  <2>2. CASE Key(c)
    <3>1. c \in InStasis
      BY <2>2, LinesAssumption DEF Key, InStasis
    <3>2. Report(c) /\ chan' = chan /\ chan[c] = "up"
      BY <2>2 DEF Key
    <3>3. QED
      BY <3>1, <3>2, ReportMoves
  <2>3. CASE HangUp(c)
    BY <2>3, EndMoves DEF HangUp, InStasis
  <2>4. QED
    BY <2>1, <2>2, <2>3
<1>2. UNCHANGED ivr /\ UNCHANGED <<script, log, late, lost, ask, sent, faults>>
  BY DEF Arrive, Key, HangUp, api, history
<1>3. actors' \in {actors, actors + 1}
  BY DEF Arrive, Key, HangUp, api, NewActor
<1>4. AsteriskTyped' /\ ScriptInv'
  BY <1>1, <1>2, ShiftsTyped, ScriptWatches DEF Moves
<1>5. TasksInv' /\ Continues /\ handling' = handling
  BY <1>2, IvrIdle
<1>6. Starts'
  BY <1>1, <1>5, StartsKept DEF Moves
<1>7. DueInv' /\ AskInv'
  BY <1>2, DueIdle, AskIdle DEF ivr, tasks
<1>8. Counted'
  BY <1>2, <1>3, <1>5, CountedStep
<1>9. Outside
  BY <1>1, <1>2 DEF Moves, Outside
<1>10. QED
  BY <1>4, <1>5, <1>6, <1>7, <1>8, <1>9

\* The IVR application.
LEMMA IvrStep ==
    ASSUME LineInv, Dispatch \/ DeliverDigit \/ \E c \in InStasis : Task(c)
    PROVE  LineInv'
<1> USE DEF LineInv
<1>1. CASE Dispatch
  <2>1. UNCHANGED <<chan, keyed, script, feed, ask, sent, actors, faults>>
    BY <1>1 DEF Dispatch, api, tool, history
  <2>2. /\ Starts' /\ AsteriskTyped'
        /\ Head(inbox).type = "StasisStart" => pc[Head(inbox).channel] = "none"
    BY <1>1, DispatchStarts
  <2>3. TasksInv'
    BY <1>1, <2>2, DispatchKeeps
  <2>4. ScriptInv'
    BY <2>1 DEF ScriptInv, ScriptTyped, CallEnds, Away
  <2>5. DueInv' /\ AskInv'
    BY <1>1, <2>1, DispatcherDue, AskIdle
  <2>6. handling' = handling \/ handling' \in BOOLEAN
    BY <1>1 DEF Dispatch, OnStasisStart, OnDtmf, OnHangup, ivr, tasks
  <2>7. Counted'
    BY <2>1, <2>6, CountedStep
  <2>8. QED
    BY <2>2, <2>3, <2>4, <2>5, <2>7
<1>2. CASE DeliverDigit
  <2>1. UNCHANGED <<chan, keyed, inbox, pc, script, feed, ask, sent, actors, faults>>
        /\ handling' = FALSE
    BY <1>2 DEF DeliverDigit, asterisk, api, tool, history
  <2>2. AsteriskTyped' /\ ScriptInv'
    BY <2>1 DEF AsteriskTyped, ScriptInv, ScriptTyped, CallEnds, Away
  <2>3. TasksInv'
    BY <1>2, DeliverKeeps
  <2>4. Starts'
    BY <2>1, StartsKept DEF Continues
  <2>5. DueInv' /\ AskInv'
    BY <1>2, <2>1, DispatcherDue, AskIdle
  <2>6. Counted'
    BY <2>1, CountedStep
  <2>7. QED
    BY <2>2, <2>3, <2>4, <2>5, <2>6
<1>3. CASE \E c \in InStasis : Task(c)
  <2>1. PICK c \in InStasis : Task(c)
    BY <1>3
  <2>2. Goes(c) /\ Moves /\ TaskFrame
    BY <2>1, TaskGoes DEF TasksInv
  <2>3. UNCHANGED <<handling, script, log, late, lost, ask, sent, actors, faults>>
    BY <2>2 DEF TaskFrame, api, history
  <2>4. TasksInv'
    BY <2>1, TaskKeeps
  <2>5. Continues
    <3>1. pc[c] # "none"
      BY <2>2 DEF Goes
    <3>2. \E l : l # "none" /\ pc' = [pc EXCEPT ![c] = l]
      BY <2>2 DEF Goes, Publishes, Publish, Rests, Prompt
    <3>3. QED
      BY <3>1, <3>2 DEF Continues, TasksInv, TasksTyped
  <2>6. AsteriskTyped' /\ ScriptInv'
    BY <2>2, <2>3, ShiftsTyped, ScriptWatches DEF Moves
  <2>7. Starts'
    BY <2>2, <2>5, StartsKept DEF Moves
  <2>8. DueInv' /\ AskInv'
    BY <2>2, <2>3, TaskDue, AskIdle
  <2>9. Counted'
    BY <2>3, CountedStep
  <2>10. QED
    BY <2>4, <2>6, <2>7, <2>8, <2>9
<1>4. QED
  BY <1>1, <1>2, <1>3

\* The event store, its publishers and the keypad of the page.
LEMMA StoreStep ==
    ASSUME LineInv,
           \/ \E p \in Publishers : Posting(p)
           \/ \E x \in late : StoreLate(x)
           \/ \E l \in Lines : Simulate(l)
    PROVE  LineInv'
<1> USE DEF LineInv
<1>1. UNCHANGED <<chan, keyed, inbox, pc, handling, script, feed, ask, sent>>
  BY DEF Posting, Store, GiveUp, StoreLate, Simulate, asterisk, ivr, tasks, tool, history
<1>2. actors' \in {actors, actors + 1} /\ faults' \in {faults, faults + 1}
  BY DEF Posting, Store, GiveUp, StoreLate, Simulate, NewActor, history
<1>3. AsteriskTyped' /\ ScriptInv'
  BY <1>1 DEF AsteriskTyped, ScriptInv, ScriptTyped, CallEnds, Away
<1>4. Starts'
  BY <1>1, StartsKept DEF Continues
<1>5. AskInv' /\ Counted'
  BY <1>1, <1>2, AskIdle, CountedStep
<1>6. TasksInv' /\ DueInv'
  <2>1. CASE \E p \in Publishers : Posting(p)
    BY <2>1, PostingKeeps, PostingDue
  <2>2. CASE \E x \in late : StoreLate(x)
    <3>1. UNCHANGED ivr
      BY <2>2 DEF StoreLate
    <3>2. QED
      BY <2>2, <3>1, IvrIdle, StoreLateDue
  <2>3. CASE \E l \in Lines : Simulate(l)
    <3>1. UNCHANGED ivr
      BY <2>3 DEF Simulate
    <3>2. QED
      BY <2>3, <3>1, IvrIdle, SimulateDue
  <2>4. QED
    BY <2>1, <2>2, <2>3
<1>7. QED
  BY <1>3, <1>4, <1>5, <1>6

\* A sender.
LEMMA SenderStep ==
    ASSUME LineInv, NEW r \in Senders, Sender(r)
    PROVE  LineInv' /\ Outside
<1> USE DEF LineInv
<1>1. UNCHANGED ivr /\ UNCHANGED <<chan, script, log, late, lost>>
  BY DEF Sender, ListChannels, AskSend, Find, NotFound, SendDigit, ReportSend, NextDigit,
         asterisk, tool, history
<1>2. actors' \in {actors, actors + 1} /\ faults' \in {faults, faults + 1}
  BY DEF Sender, ListChannels, AskSend, Find, NotFound, SendDigit, ReportSend, NextDigit,
         Answered, NewActor, history
<1>3. Moves
  <2>1. CASE SendDigit(r)
    <3>1. CASE Exists(ask[r].channel)
      <4>1. ask[r].channel \in Channels
        BY <2>1 DEF SendDigit, AskInv, Fair
      <4>2. Inject(ask[r].channel)
        BY <2>1, <3>1 DEF SendDigit
      <4>3. QED
        BY <1>1, <4>1, <4>2, InjectMoves
    <3>2. CASE ~Exists(ask[r].channel)
      BY <1>1, <2>1, <3>2, StillMoves DEF SendDigit
    <3>3. QED
      BY <3>1, <3>2
  <2>2. CASE ~SendDigit(r)
    <3>1. UNCHANGED <<chan, keyed, inbox, feed>>
      BY <2>2 DEF Sender, ListChannels, AskSend, Find, NotFound, ReportSend, NextDigit,
                  asterisk, tool
    <3>2. QED
      BY <3>1, StillMoves
  <2>3. QED
    BY <2>1, <2>2
<1>4. AsteriskTyped' /\ ScriptInv'
  BY <1>1, <1>3, ShiftsTyped, ScriptWatches DEF Moves
<1>5. TasksInv' /\ Continues /\ handling' = handling
  BY <1>1, IvrIdle
<1>6. Starts'
  BY <1>3, <1>5, StartsKept DEF Moves
<1>7. DueInv' /\ AskInv'
  BY <1>1, DueIdle, SenderKeeps DEF ivr, tasks
<1>8. Counted'
  BY <1>2, <1>5, CountedStep
<1>9. Outside
  BY <1>1, <1>3 DEF Moves, Outside
<1>10. QED
  BY <1>4, <1>5, <1>6, <1>7, <1>8, <1>9


\* simulate_call_flow.py.
LEMMA ScriptStep ==
    ASSUME LineInv, Originate \/ Connect \/ Hear \/ InjectNext \/ ScriptFault
    PROVE  LineInv' /\ Outside
<1> USE DEF LineInv
<1>1. UNCHANGED ivr /\ UNCHANGED <<log, late, lost, ask, sent>>
  BY DEF Originate, Connect, Hear, InjectNext, ScriptFault, api, history
<1>2. actors' \in {actors, actors + 1}
  BY DEF Originate, Connect, Hear, InjectNext, ScriptFault, api, NewActor
<1>3. faults' \in {faults, faults + 1}
  BY DEF Originate, Connect, Hear, InjectNext, ScriptFault, StartInjecting, OutOfTime, Fault,
         history
<1>4. ScriptInv' /\ AsteriskTyped' /\ (Shifts \/ UNCHANGED <<chan, keyed, inbox>>)
  BY ScriptKeeps
<1>5. TasksInv' /\ Continues /\ handling' = handling
  BY <1>1, IvrIdle
<1>6. Starts'
  BY <1>4, <1>5, StartsKept
<1>7. DueInv' /\ AskInv'
  BY <1>1, DueIdle, AskIdle DEF ivr, tasks
<1>8. Counted'
  BY <1>2, <1>3, <1>5, CountedStep
<1>9. Outside
  BY <1>1, <1>4 DEF Moves, Outside
<1>10. QED
  BY <1>4, <1>5, <1>6, <1>7, <1>8, <1>9

\* Nothing happens.
LEMMA LineStutter ==
    ASSUME LineInv, UNCHANGED vars
    PROVE  LineInv'
<1> USE DEF LineInv
<1>1. UNCHANGED ivr /\ UNCHANGED <<chan, keyed, inbox, feed, script, log, late, lost, ask, sent>>
      /\ UNCHANGED <<actors, faults>>
  BY DEF vars, ivr, tasks
<1>2. AsteriskTyped' /\ ScriptInv'
  BY <1>1 DEF AsteriskTyped, ScriptInv, ScriptTyped, CallEnds, Away
<1>3. TasksInv' /\ Continues /\ handling' = handling
  BY <1>1, IvrIdle
<1>4. Starts'
  BY <1>1, <1>3, StartsKept
<1>5. DueInv' /\ AskInv'
  BY <1>1, DueIdle, AskIdle DEF ivr, tasks
<1>6. Counted'
  BY <1>1, <1>3, CountedStep
<1>7. QED
  BY <1>2, <1>3, <1>4, <1>5, <1>6

\* All of it together, kept by every step.
LEMMA LineInvariant == Spec => []LineInv
<1>1. LineInv /\ [Next]_vars => LineInv'
  <2> SUFFICES ASSUME LineInv, [Next]_vars PROVE LineInv'
    OBVIOUS
  <2>1. CASE \E c \in Channels : Arrive(c) \/ Key(c) \/ HangUp(c)
    BY <2>1, PartyStep
  <2>2. CASE Dispatch \/ DeliverDigit \/ \E c \in InStasis : Task(c)
    BY <2>2, IvrStep
  <2>3. CASE \/ \E p \in Publishers : Posting(p)
             \/ \E e \in late : StoreLate(e)
             \/ \E l \in Lines : Simulate(l)
    BY <2>3, StoreStep
  <2>4. CASE \E r \in Senders : Sender(r)
    BY <2>4, SenderStep
  <2>5. CASE Originate \/ Connect \/ Hear \/ InjectNext \/ ScriptFault
    BY <2>5, ScriptStep
  <2>6. CASE UNCHANGED vars
    BY <2>6, LineStutter
  <2>7. QED
    BY <2>1, <2>2, <2>3, <2>4, <2>5, <2>6 DEF Next
<1>2. QED
  BY <1>1, LineInit, PTL DEF Spec

\* The variables keep the values the code and Asterisk give them, the fields of every
\* event and of every request among them (IVRApp, ivr_ari.py, and dtmf_router.py).
THEOREM Typing == Spec => []TypeOK
<1>1. LineInv => TypeOK
  <2> SUFFICES ASSUME LineInv PROVE TypeOK
    OBVIOUS
  <2>1. AsteriskTyped /\ TasksTyped /\ ScriptTyped /\ StoreTyped /\ Counted
    BY DEF LineInv, TasksInv, ScriptInv, DueInv
  <2>2. ask \in [Senders -> Asks] /\ sent \in [Senders -> Nat]
    BY DEF LineInv, AskInv
  <2>3. script.at \in Runs
    BY <2>1 DEF ScriptTyped
  <2>4. handling \in BOOLEAN
    BY <2>1 DEF Counted
  <2>5. /\ chan \in [Channels -> {"none", "new", "up", "gone"}]
        /\ keyed \in [Channels -> Nat]
        /\ inbox \in Seq([type : EventTypes, channel : InStasis, n : Nat])
        /\ feed \in Seq(EventTypes)
    BY <2>1 DEF AsteriskTyped, ChanStates, AriEvents
  <2>6. /\ late \union lost \subseteq InStasis \X Events
        /\ log \in [InStasis \union {NoChannel} -> Seq(Events)]
    BY <2>1 DEF StoreTyped
  <2>7. {actors, faults} \subseteq Nat
    BY <2>1 DEF Counted
  <2>8. ask \in [Senders -> [at : {"idle", "listing", "sending", "done", "failed", "reported"},
                             line : Lines \union {AnyLine}, ok : Nat, left : Nat,
                             channel : Channels \union {NoChannel}]]
    BY <2>2 DEF Asks
  <2>9. script.at \in {"idle", "created", "done"} \union Listening
    BY <2>3 DEF Runs
  <2>10. QED
    BY <2>1, <2>2, <2>4, <2>5, <2>6, <2>7, <2>8, <2>9 DEF TypeOK, TasksTyped, Posts
<1>2. QED
  BY <1>1, LineInvariant, PTL

\* A digit reported as sent was sent, and no request or script sends more digits than it
\* has, for any number of senders (send_dtmf in dtmf_router.py, send_dtmf_to_ivr.py).
THEOREM Reporting == Spec => []SentAsReported
<1>1. LineInv => SentAsReported
  <2> SUFFICES ASSUME LineInv, NEW r \in Senders
               PROVE  /\ ask[r].ok <= sent[r]
                      /\ sent[r] <= IF ask[r].line = AnyLine THEN Steps ELSE 1
    BY DEF SentAsReported
  <2>1. ask[r] \in Asks /\ sent[r] \in Nat /\ Fair(ask[r], sent[r])
    BY DEF LineInv, AskInv
  <2>2. Total(ask[r]) \in Nat
    BY BoundsAssumption DEF Total
  <2>3. ask[r].at \in {"idle", "listing", "sending", "done", "failed", "reported"}
        /\ ask[r].ok \in Nat /\ ask[r].left \in Nat
    BY <2>1 DEF Asks
  <2>4. ask[r].ok <= sent[r] /\ sent[r] <= Total(ask[r])
    BY <2>1, <2>2, <2>3 DEF Fair
  <2>5. QED
    BY <2>4 DEF Total
<1>2. QED
  BY <1>1, LineInvariant, PTL

\* When simulate_call_flow.py stops without being cut short by a failed exchange of its
\* own it leaves no call, however many digits it injects, whatever else happens to its
\* channel and also when its originate is refused (_run, _inject_sequence).
THEOREM Ending == Spec => []ScriptEndsCall
<1>1. LineInv => ScriptEndsCall
  BY DEF LineInv, ScriptInv, CallEnds, Away, ScriptEndsCall, Exists
<1>2. QED
  BY <1>1, LineInvariant, PTL

\* A digit dialled with a call of line 1, or taken by its main menu, is on its way to
\* line 2 or was published for it, for any number of calls, digits and faults
\* (_forward_digit_to_line2).
THEOREM Delivery == Spec => []NoDigitDropped
<1>1. LineInv => NoDigitDropped
  <2> SUFFICES ASSUME LineInv, NEW c \in InStasis, Caller[c] = "1", NEW n \in 1 .. keyed[c]
               PROVE  \/ \A s \in {"dialed", "menu"} : ~Fate(c, s, n)
                      \/ Fate(c, "forwarded", n)
                      \/ digit[c] = n /\ pc[c] \in {"dialed", "menu", "route", "forwarded"}
    BY DEF NoDigitDropped
  <2>1. n \in Nat
    OBVIOUS
  <2>2. QED
    BY <2>1 DEF LineInv, DueInv, Due, Carrying
<1>2. QED
  BY <1>1, LineInvariant, PTL

-----------------------------------------------------------------------------
(* The order of the events.                                                *)
(*                                                                         *)
(* The digits of a channel that Asterisk reports are numbered upwards, so  *)
(* those still on their way are greater than the one the task works on and *)
(* than those already published raw (SideOrder); the task publishes its    *)
(* events in order and about greater and greater digits (TaskOrder).       *)

\* The event is about a digit of channel c.
About(e, c) == e.type = "ChannelDtmfReceived" /\ e.channel = c

\* The dispatcher is publishing a digit of c.
Pending(c) == post[Dispatcher].status # "none" /\ post[Dispatcher].channel = c

\* Digit n was keyed in after the call was dialled and after the digit of the task.
Beyond(c, n) == Dialled[c] < n /\ digit[c] < n /\ (chan[c] = "up" => n <= keyed[c])

\* The digits in the inbox are new, and in order.
InboxOrder(c) ==
    /\ \A i \in 1 .. Len(inbox) : About(inbox[i], c) =>
          /\ Beyond(c, inbox[i].n)
          /\ \A m \in Nat : Fate(c, "raw", m) => m < inbox[i].n
    /\ \A i, j \in 1 .. Len(inbox) :
          i < j /\ About(inbox[i], c) /\ About(inbox[j], c) => inbox[i].n < inbox[j].n

\* The digit that is being published comes between those before and those behind.
PendingOrder(c) ==
    Pending(c) =>
        /\ Beyond(c, post[Dispatcher].event.n)
        /\ \A m \in Nat : Fate(c, "raw", m) =>
              \/ m < post[Dispatcher].event.n
              \/ m = post[Dispatcher].event.n /\ post[Dispatcher].status = "answered"
        /\ \A i \in 1 .. Len(inbox) : About(inbox[i], c) =>
              post[Dispatcher].event.n < inbox[i].n

\* The digits published raw were keyed in.
RawOrder(c) ==
    \A m \in Nat : Fate(c, "raw", m) => Dialled[c] < m /\ (chan[c] = "up" => m <= keyed[c])

\* A channel that is not in the application has no digits yet.
Unborn(c) ==
    chan[c] \in {"none", "new"} =>
        /\ \A i \in 1 .. Len(inbox) : ~About(inbox[i], c)
        /\ \A m \in Nat : ~Fate(c, "raw", m)
        /\ ~Pending(c)

\* The digits known of a channel were keyed in or dialled.
Bound(c) == chan[c] = "up" => Dialled[c] <= keyed[c] /\ digit[c] <= keyed[c]

SideOrder(c) ==
    InboxOrder(c) /\ PendingOrder(c) /\ RawOrder(c) /\ Unborn(c) /\ Bound(c)

\* What the task of c has published is about digits up to its own, and for that one
\* up to the place it is at.
TaskOrder(c) ==
    /\ \A s \in Working, m \in Nat : Fate(c, s, m) =>
          /\ m <= digit[c]
          /\ fut[c] = "set" => m < digit[c]
          /\ pc[c] \in Working /\ m = digit[c] => Stage[s] <= Stage[pc[c]]
    /\ pc[c] = "dialed" => digit[c] <= Dialled[c]
    /\ pc[c] \in {"none", "entering"} => digit[c] = 0

\* A list of events in order.
Ordered(q) ==
    \A i, j \in DOMAIN q : i < j /\ ~q[j].late => ~Before(q[j], q[i])

\* The clicks on the keypad of the page are numbered by what was stored before.
LogOrder ==
    /\ \A c \in InStasis \union {NoChannel} : Ordered(log[c])
    /\ \A i \in DOMAIN log[NoChannel] : log[NoChannel][i].n <= i

OrderInv == LogOrder /\ \A c \in InStasis : SideOrder(c) /\ TaskOrder(c)

\* The digits and counts of a channel are numbers.
LEMMA NumbersHere ==
    ASSUME LineInv, NEW c \in InStasis
    PROVE  /\ keyed[c] \in Nat /\ digit[c] \in Nat /\ Dialled[c] \in Nat
           /\ chan[c] \in ChanStates
           /\ Pending(c) => post[Dispatcher].event.n \in Nat
           /\ \A i \in 1 .. Len(inbox) : inbox[i] \in AriEvents /\ inbox[i].n \in Nat
           /\ inbox \in Seq(AriEvents) /\ Len(inbox) \in Nat
<1>1. AsteriskTyped /\ TasksTyped
  BY DEF LineInv, TasksInv
<1>2. /\ keyed[c] \in Nat /\ digit[c] \in Nat /\ Dialled[c] \in Nat
      /\ chan[c] \in ChanStates
  BY <1>1, TheLegs, LinesAssumption DEF AsteriskTyped, TasksTyped
<1>3. post[Dispatcher].event.n \in Nat
  <2>1. post[Dispatcher] \in Posts
    BY <1>1, TheLegs DEF TasksTyped
  <2>2. QED
    BY <2>1 DEF Posts, Events
<1>4. \A i \in 1 .. Len(inbox) : inbox[i] \in AriEvents
  BY <1>1, InboxTyped
<1>5. QED
  BY <1>1, <1>2, <1>3, <1>4, LenProperties DEF AriEvents, AsteriskTyped

\* The state of the channel moves on, an event about a digit reaches the inbox, and
\* the task goes on with its digit or with one that was dialled.
LEMMA SideMoves ==
    ASSUME LineInv, NEW c \in InStasis, SideOrder(c), TaskOrder(c),
           Shifts \/ UNCHANGED <<chan, keyed, inbox>>,
           UNCHANGED <<log, late, lost>>, post'[Dispatcher] = post[Dispatcher],
           digit'[c] = digit[c] \/ digit'[c] \in 0 .. Dialled[c]
    PROVE  SideOrder(c)'
<1>1. /\ keyed[c] \in Nat /\ digit[c] \in Nat /\ Dialled[c] \in Nat
      /\ chan[c] \in ChanStates
      /\ Pending(c) => post[Dispatcher].event.n \in Nat
      /\ \A i \in 1 .. Len(inbox) : inbox[i] \in AriEvents /\ inbox[i].n \in Nat
      /\ inbox \in Seq(AriEvents) /\ Len(inbox) \in Nat
  BY NumbersHere
<1>2. \A s, m : Fate(c, s, m)' <=> Fate(c, s, m)
  BY DEF Fate
<1>3. Pending(c)' <=> Pending(c)
  BY DEF Pending
<1>4. chan'[c] = "up" => \/ chan[c] = "up" /\ keyed[c] <= keyed'[c]
                         \/ chan[c] \in {"none", "new"} /\ Dialled[c] <= keyed'[c]
  BY <1>1 DEF Shifts, Counts
<1>5. chan'[c] \in {"none", "new"} => chan[c] \in {"none", "new"}
  BY <1>1, TheLegs DEF Shifts, Later, ChanStates
<1>6. keyed'[c] \in Nat /\ digit'[c] \in Nat
  BY <1>1, TheLegs DEF Shifts
<1>7. chan[c] \in {"none", "new"} => digit[c] = 0
  BY DEF LineInv, Starts, TaskOrder
<1>8. Bound(c)'
  BY <1>1, <1>4, <1>6, <1>7 DEF SideOrder, Bound
<1>9. ASSUME NEW n \in Nat, Beyond(c, n), chan[c] \notin {"none", "new"}
      PROVE  Beyond(c, n)'
  BY <1>1, <1>4, <1>6, <1>9 DEF Beyond
<1>10. RawOrder(c)'
  BY <1>1, <1>2, <1>4, <1>6 DEF SideOrder, RawOrder, Unborn
<1>11. \/ inbox' = inbox
       \/ \E e \in AriEvents :
            /\ inbox' = Append(inbox, e)
            /\ About(e, c) => chan[c] = "up" /\ e.n = keyed[c] + 1 /\ keyed'[c] = e.n
  BY DEF Shifts, Tells, Quiet, Sent, About
<1>12. ASSUME NEW i \in 1 .. Len(inbox), About(inbox[i], c)
       PROVE  /\ chan[c] \notin {"none", "new"}
              /\ Dialled[c] < inbox[i].n /\ digit'[c] < inbox[i].n
              /\ chan'[c] = "up" => inbox[i].n <= keyed'[c]
              /\ \A m \in Nat : Fate(c, "raw", m)' => m < inbox[i].n
              /\ chan[c] = "up" => inbox[i].n <= keyed[c]
  <2>1. chan[c] \notin {"none", "new"}
    BY <1>12 DEF SideOrder, Unborn
  <2>2. Beyond(c, inbox[i].n) /\ \A m \in Nat : Fate(c, "raw", m) => m < inbox[i].n
    BY <1>12 DEF SideOrder, InboxOrder
  <2>3. \A n \in Nat : Beyond(c, n) => Beyond(c, n)'
    BY <1>9, <2>1
  <2>4. Beyond(c, inbox[i].n) => (Dialled[c] < inbox[i].n /\ digit'[c] < inbox[i].n
           /\ (chan'[c] = "up" => inbox[i].n <= keyed'[c]))
    BY <1>1, <2>3 DEF Beyond
  <2>5. QED
    BY <1>2, <2>1, <2>2, <2>4 DEF Beyond
<1>13. Pending(c)' =>
         /\ chan[c] \notin {"none", "new"}
         /\ Beyond(c, post[Dispatcher].event.n)' /\ Beyond(c, post[Dispatcher].event.n)
         /\ \A m \in Nat : Fate(c, "raw", m)' =>
              \/ m < post'[Dispatcher].event.n
              \/ m = post'[Dispatcher].event.n /\ post'[Dispatcher].status = "answered"
         /\ \A i \in 1 .. Len(inbox) : About(inbox[i], c) =>
              post'[Dispatcher].event.n < inbox[i].n
  <2> SUFFICES ASSUME Pending(c)
               PROVE  /\ chan[c] \notin {"none", "new"}
                      /\ Beyond(c, post[Dispatcher].event.n)'
                      /\ Beyond(c, post[Dispatcher].event.n)
                      /\ \A m \in Nat : Fate(c, "raw", m)' =>
                            \/ m < post'[Dispatcher].event.n
                            \/ /\ m = post'[Dispatcher].event.n
                               /\ post'[Dispatcher].status = "answered"
                      /\ \A i \in 1 .. Len(inbox) : About(inbox[i], c) =>
                            post'[Dispatcher].event.n < inbox[i].n
    BY <1>3
  <2>1. chan[c] \notin {"none", "new"}
    BY DEF SideOrder, Unborn
  <2>2. PendingOrder(c)
    BY DEF SideOrder
  <2>3. Beyond(c, post[Dispatcher].event.n)
    BY <2>2 DEF PendingOrder
  <2>4. /\ Dialled[c] < post[Dispatcher].event.n
        /\ digit'[c] < post[Dispatcher].event.n
        /\ chan'[c] = "up" => post[Dispatcher].event.n <= keyed'[c]
    <3>1. \A n \in Nat : Beyond(c, n) => Beyond(c, n)'
      BY <1>9, <2>1
    <3>2. post[Dispatcher].event.n \in Nat
      BY <1>1
    <3>3. QED
      BY <2>3, <3>1, <3>2 DEF Beyond
  <2>5. Beyond(c, post[Dispatcher].event.n)'
    BY <2>4 DEF Beyond
  <2>6. QED
    BY <1>2, <2>1, <2>2, <2>3, <2>5 DEF PendingOrder
<1>14. CASE inbox' = inbox
  <2>1. InboxOrder(c)'
    BY <1>12, <1>14 DEF SideOrder, InboxOrder, Beyond
  <2>2. PendingOrder(c)'
    BY <1>13, <1>14 DEF PendingOrder
  <2>3. Unborn(c)'
    BY <1>2, <1>3, <1>5, <1>14 DEF SideOrder, Unborn
  <2>4. QED
    BY <1>8, <1>10, <2>1, <2>2, <2>3 DEF SideOrder
<1>15. CASE inbox' # inbox
  <2>1. PICK e \in AriEvents :
            /\ inbox' = Append(inbox, e)
            /\ About(e, c) => chan[c] = "up" /\ e.n = keyed[c] + 1 /\ keyed'[c] = e.n
    BY <1>11, <1>15
  <2>2. \A i \in 1 .. Len(inbox') : \/ i \in 1 .. Len(inbox) /\ inbox'[i] = inbox[i]
                                    \/ i = Len(inbox) + 1 /\ inbox'[i] = e
    BY <1>1, <2>1, AppendCases
  <2>3. ASSUME About(e, c)
        PROVE  /\ e.n \in Nat /\ e.n = keyed[c] + 1 /\ keyed'[c] = e.n /\ chan[c] = "up"
               /\ Dialled[c] < e.n /\ digit'[c] < e.n
               /\ \A m \in Nat : Fate(c, "raw", m)' => m < e.n
               /\ \A i \in 1 .. Len(inbox) : About(inbox[i], c) => inbox[i].n < e.n
               /\ Pending(c)' => post'[Dispatcher].event.n < e.n
    <3>1. chan[c] = "up" /\ e.n = keyed[c] + 1 /\ keyed'[c] = e.n /\ e.n \in Nat
      BY <1>1, <2>1, <2>3
    <3>2. Dialled[c] < e.n /\ digit'[c] < e.n
      BY <1>1, <3>1 DEF SideOrder, Bound
    <3>3. \A m \in Nat : Fate(c, "raw", m)' => m < e.n
      BY <1>1, <1>2, <3>1 DEF SideOrder, RawOrder
    <3>4. \A i \in 1 .. Len(inbox) : About(inbox[i], c) => inbox[i].n < e.n
      BY <1>1, <1>12, <3>1
    <3>5. Pending(c)' => post'[Dispatcher].event.n < e.n
      <4>1. Pending(c)' => /\ post[Dispatcher].event.n <= keyed[c]
                           /\ post[Dispatcher].event.n \in Nat
        BY <1>1, <1>3, <1>13, <3>1 DEF Beyond
      <4>2. QED
        BY <1>1, <3>1, <4>1
    <3>6. QED
      BY <3>1, <3>2, <3>3, <3>4, <3>5
  <2>4. \A i \in 1 .. Len(inbox') : About(inbox'[i], c) =>
            /\ Dialled[c] < inbox'[i].n /\ digit'[c] < inbox'[i].n
            /\ chan'[c] = "up" => inbox'[i].n <= keyed'[c]
            /\ \A m \in Nat : Fate(c, "raw", m)' => m < inbox'[i].n
            /\ Pending(c)' => post'[Dispatcher].event.n < inbox'[i].n
            /\ chan[c] \notin {"none", "new"}
    <3> SUFFICES ASSUME NEW i \in 1 .. Len(inbox'), About(inbox'[i], c)
                 PROVE  /\ Dialled[c] < inbox'[i].n /\ digit'[c] < inbox'[i].n
                        /\ chan'[c] = "up" => inbox'[i].n <= keyed'[c]
                        /\ \A m \in Nat : Fate(c, "raw", m)' => m < inbox'[i].n
                        /\ Pending(c)' => post'[Dispatcher].event.n < inbox'[i].n
                        /\ chan[c] \notin {"none", "new"}
      OBVIOUS
    <3>1. CASE i \in 1 .. Len(inbox) /\ inbox'[i] = inbox[i]
      BY <1>12, <1>13, <3>1
    <3>2. CASE inbox'[i] = e
      BY <1>1, <2>3, <3>2
    <3>3. QED
      BY <2>2, <3>1, <3>2
  <2>5. \A i, j \in 1 .. Len(inbox') :
            i < j /\ About(inbox'[i], c) /\ About(inbox'[j], c) => inbox'[i].n < inbox'[j].n
    <3> SUFFICES ASSUME NEW i \in 1 .. Len(inbox'), NEW j \in 1 .. Len(inbox'), i < j,
                        About(inbox'[i], c), About(inbox'[j], c)
                 PROVE  inbox'[i].n < inbox'[j].n
      OBVIOUS
    <3>1. i \in 1 .. Len(inbox) /\ inbox'[i] = inbox[i]
      BY <1>1, <2>2
    <3>2. CASE j \in 1 .. Len(inbox) /\ inbox'[j] = inbox[j]
      BY <3>1, <3>2 DEF SideOrder, InboxOrder
    <3>3. CASE inbox'[j] = e
      BY <2>3, <3>1, <3>3
    <3>4. QED
      BY <2>2, <3>2, <3>3
  <2>6. InboxOrder(c)'
    BY <2>4, <2>5 DEF InboxOrder, Beyond
  <2>7. PendingOrder(c)'
    BY <1>13, <2>4 DEF PendingOrder
  <2>8. Unborn(c)'
    BY <1>2, <1>3, <1>5, <2>4 DEF SideOrder, Unborn
  <2>9. QED
    BY <1>8, <1>10, <2>6, <2>7, <2>8 DEF SideOrder
<1>16. QED
  BY <1>14, <1>15

\* The places of the events about a digit.
LEMMA StageValues ==
    /\ Stage["dialed"] = 0 /\ Stage["raw"] = 1 /\ Stage["menu"] = 2 /\ Stage["sub"] = 2
    /\ Stage["route"] = 3 /\ Stage["forwarded"] = 4
    /\ \A s \in Working \union {"raw"} : Stage[s] \in 0 .. 4
    /\ \A s \in Working : Stage[s] # Stage["raw"]
BY DEF Stage, Working

\* The task of c goes on, and nobody else's.
LEMMA TaskOrderGoes ==
    ASSUME LineInv, NEW c \in InStasis, TaskOrder(c), Goes(c), UNCHANGED <<log, late, lost>>
    PROVE  TaskOrder(c)' /\ (digit'[c] = digit[c] \/ digit'[c] \in 0 .. Dialled[c])
<1>1. TasksTyped /\ AtWork /\ digit[c] \in Nat /\ Dialled[c] \in Nat
  BY NumbersHere DEF LineInv, TasksInv
<1>2. \A s, m : Fate(c, s, m)' <=> Fate(c, s, m)
  BY DEF Fate
<1>3. /\ \A s \in Working, m \in Nat : Fate(c, s, m) =>
            /\ m <= digit[c]
            /\ fut[c] = "set" => m < digit[c]
            /\ pc[c] \in Working /\ m = digit[c] => Stage[s] <= Stage[pc[c]]
      /\ pc[c] = "dialed" => digit[c] <= Dialled[c]
      /\ pc[c] \in {"none", "entering"} => digit[c] = 0
  BY DEF TaskOrder
<1>4. \A s \in Working : Stage[s] \in 0 .. 4
  BY StageValues
<1>5. CASE Rests(c)
  <2>1. digit'[c] = digit[c] /\ pc'[c] \in {"prompt", "bridged", "done"}
        /\ fut'[c] # "set"
    <3>1. fut' = [fut EXCEPT ![c] = "none"] \/ fut' = [fut EXCEPT ![c] = "waiting"]
          \/ (fut' = fut /\ pc[c] # "prompt")
      BY <1>5 DEF Rests, Prompt, Leaves
    <3>2. fut'[c] # "set"
      BY <1>1, <3>1 DEF TasksTyped, AtWork
    <3>3. QED
      BY <1>1, <1>5, <3>2 DEF Rests, Prompt, TasksTyped
  <2>2. QED
    BY <1>2, <1>3, <2>1 DEF TaskOrder, Working
<1>6. ASSUME NEW s \in Working, NEW n \in Nat, Publishes(c, s, n)
      PROVE  pc'[c] = s /\ digit'[c] = n /\ fut'[c] = "none"
  <2>1. fut' = [fut EXCEPT ![c] = "none"]
    BY <1>1, <1>6 DEF Publishes, Leaves, TasksTyped, AtWork
  <2>2. QED
    BY <1>1, <1>6, <2>1 DEF Publishes, Publish, TasksTyped
<1>7. ASSUME NEW s \in Working, NEW n \in Nat, Publishes(c, s, n),
             s = "dialed" => n <= Dialled[c],
             \A t \in Working, m \in Nat :
                Fate(c, t, m) => m <= n /\ (m = n => Stage[t] <= Stage[s])
      PROVE  TaskOrder(c)'
  <2>1. pc'[c] = s /\ digit'[c] = n /\ fut'[c] = "none"
    BY <1>6, <1>7
  <2>2. s \notin {"none", "entering"}
    BY DEF Working
  <2>3. QED
    BY <1>2, <1>7, <2>1, <2>2 DEF TaskOrder
<1>8. CASE /\ digit[c] < Dialled[c] /\ Publishes(c, "dialed", digit[c] + 1)
  <2>1. digit[c] + 1 \in 0 .. Dialled[c] /\ digit[c] + 1 \in Nat /\ "dialed" \in Working
    BY <1>1, <1>8 DEF Working
  <2>2. \A t \in Working, m \in Nat : Fate(c, t, m) => m < digit[c] + 1
    BY <1>1, <1>3
  <2>3. QED
    BY <1>6, <1>7, <1>8, <2>1, <2>2
<1>9. CASE pc[c] = "entering" /\ Dialled[c] > 0 /\ Publishes(c, "dialed", 1)
  <2>1. digit[c] = 0
    BY <1>3, <1>9
  <2>2. QED
    BY <1>1, <1>8, <1>9, <2>1
<1>10. CASE /\ pc[c] = "prompt" /\ fut[c] = "set"
            /\ \E s \in {"menu", "sub"} : Publishes(c, s, digit[c])
  <2>1. PICK s \in {"menu", "sub"} : Publishes(c, s, digit[c])
    BY <1>10
  <2>2. s \in Working /\ s # "dialed"
    BY DEF Working
  <2>3. \A t \in Working, m \in Nat : Fate(c, t, m) => m < digit[c]
    BY <1>3, <1>10
  <2>4. QED
    BY <1>1, <1>6, <1>7, <2>1, <2>2, <2>3
<1>11. CASE pc[c] \in {"dialed", "menu"} /\ Publishes(c, "route", digit[c])
  <2>1. "route" \in Working /\ pc[c] \in Working /\ Stage[pc[c]] <= 3 /\ Stage["route"] = 3
    BY <1>11, StageValues DEF Working
  <2>2. \A t \in Working, m \in Nat :
            Fate(c, t, m) => m <= digit[c] /\ (m = digit[c] => Stage[t] <= Stage["route"])
    BY <1>3, <1>4, <2>1
  <2>3. QED
    BY <1>1, <1>6, <1>7, <1>11, <2>1, <2>2
<1>12. CASE pc[c] = "route" /\ Publishes(c, "forwarded", digit[c])
  <2>1. "forwarded" \in Working /\ Stage["forwarded"] = 4
    BY StageValues DEF Working
  <2>2. \A t \in Working, m \in Nat :
            Fate(c, t, m) => m <= digit[c] /\ (m = digit[c] => Stage[t] <= Stage["forwarded"])
    BY <1>3, <1>4, <2>1
  <2>3. QED
    BY <1>1, <1>6, <1>7, <1>12, <2>1, <2>2
<1>13. digit'[c] = digit[c] \/ Publishes(c, "dialed", 1) \/ Publishes(c, "dialed", digit[c] + 1)
  <2>1. \/ Rests(c)
        \/ \E s \in Working : Publishes(c, s, digit[c])
        \/ Publishes(c, "dialed", 1) \/ Publishes(c, "dialed", digit[c] + 1)
    BY DEF Goes, Working
  <2>2. QED
    BY <1>1, <1>6, <2>1 DEF Rests
<1>14. TaskOrder(c)'
  BY <1>5, <1>8, <1>9, <1>10, <1>11, <1>12 DEF Goes
<1>15. digit'[c] = digit[c] \/ digit'[c] \in 0 .. Dialled[c]
  <2>1. 1 \in Nat /\ digit[c] + 1 \in Nat /\ "dialed" \in Working
    BY <1>1 DEF Working
  <2>2. CASE Publishes(c, "dialed", 1) /\ Dialled[c] > 0
    BY <1>1, <1>6, <2>1, <2>2
  <2>3. CASE Publishes(c, "dialed", digit[c] + 1) /\ digit[c] < Dialled[c]
    BY <1>1, <1>6, <2>1, <2>3
  <2>4. CASE \/ Rests(c)
             \/ \E s \in Working : Publishes(c, s, digit[c])
    BY <1>1, <1>6, <2>4 DEF Rests
  <2>5. QED
    BY <2>2, <2>3, <2>4 DEF Goes, Working
<1>16. QED
  BY <1>14, <1>15

\* Where nothing is published, and the task keeps its place, its digit and its future.
LEMMA TaskOrderKept ==
    ASSUME NEW c \in InStasis, TaskOrder(c), UNCHANGED <<log, late, lost>>,
           pc'[c] = pc[c], digit'[c] = digit[c], fut'[c] = fut[c]
    PROVE  TaskOrder(c)'
<1>1. \A s, m : Fate(c, s, m)' <=> Fate(c, s, m)
  BY DEF Fate
<1>2. QED
  BY <1>1 DEF TaskOrder

\* Others than the dispatcher and the store move.
LEMMA OthersOrder ==
    ASSUME LineInv, OrderInv, Shifts \/ UNCHANGED <<chan, keyed, inbox>>,
           UNCHANGED <<log, late, lost, pc, digit, fut>>,
           post'[Dispatcher] = post[Dispatcher]
    PROVE  OrderInv'
<1>1. LogOrder'
  BY DEF OrderInv, LogOrder, Ordered
<1>2. \A c \in InStasis : SideOrder(c)' /\ TaskOrder(c)'
  BY SideMoves, TaskOrderKept DEF OrderInv
<1>3. QED
  BY <1>1, <1>2 DEF OrderInv

\* A task goes on.
LEMMA TaskStepOrder ==
    ASSUME LineInv, OrderInv, NEW c \in InStasis, Task(c)
    PROVE  OrderInv'
<1>1. Goes(c) /\ Moves /\ TaskFrame
  BY TaskGoes DEF LineInv, TasksInv
<1>2. UNCHANGED <<log, late, lost>>
  BY <1>1 DEF TaskFrame, api, history
<1>3. /\ pc' = [pc EXCEPT ![c] = pc'[c]] /\ digit' = [digit EXCEPT ![c] = digit'[c]]
      /\ fut' = [fut EXCEPT ![c] = fut'[c]] /\ post' = [post EXCEPT ![c] = post'[c]]
  <2>1. \/ Rests(c)
        \/ \E s, n : Publishes(c, s, n)
    BY <1>1 DEF Goes
  <2>2. QED
    BY <2>1, TheLegs DEF Rests, Publishes, Publish, Prompt, Leaves, LineInv, TasksInv, TasksTyped
<1>4. \A d \in InStasis : d # c =>
          pc'[d] = pc[d] /\ digit'[d] = digit[d] /\ fut'[d] = fut[d]
  BY <1>3 DEF LineInv, TasksInv, TasksTyped
<1>5. post'[Dispatcher] = post[Dispatcher]
  BY <1>3, TheLegs DEF LineInv, TasksInv, TasksTyped
<1>6. TaskOrder(c)' /\ (digit'[c] = digit[c] \/ digit'[c] \in 0 .. Dialled[c])
  BY <1>1, <1>2, TaskOrderGoes DEF OrderInv
<1>7. \A d \in InStasis : TaskOrder(d)'
  BY <1>2, <1>4, <1>6, TaskOrderKept DEF OrderInv
<1>8. \A d \in InStasis : SideOrder(d)'
  BY <1>1, <1>2, <1>4, <1>5, <1>6, SideMoves DEF OrderInv, Moves
<1>9. LogOrder'
  BY <1>2 DEF OrderInv, LogOrder, Ordered
<1>10. QED
  BY <1>7, <1>8, <1>9 DEF OrderInv

\* The dispatcher takes an event: it begins or ends a task, or publishes the digit.
LEMMA DispatchOrder ==
    ASSUME LineInv, OrderInv, Dispatch
    PROVE  OrderInv'
<1> DEFINE e == Head(inbox)
<1>1. /\ \A i \in 1 .. Len(Tail(inbox)) : i \in Nat /\ i + 1 \in 1 .. Len(inbox)
                                          /\ Tail(inbox)[i] = inbox[i + 1]
      /\ 1 \in 1 .. Len(inbox) /\ inbox[1] = e /\ e \in AriEvents
  BY TailCases DEF Dispatch, LineInv, AsteriskTyped
<1>2. /\ inbox' = Tail(inbox) /\ UNCHANGED <<chan, keyed, log, late, lost>>
      /\ \/ e.type = "StasisStart" /\ OnStasisStart(e)
         \/ e.type = "ChannelDtmfReceived" /\ OnDtmf(e)
         \/ e.type = "ChannelDestroyed" /\ OnHangup(e)
  BY DEF Dispatch, api, history
<1>3. e.channel \in InStasis /\ e.n \in Nat
  BY <1>1 DEF AriEvents
<1>4. e.type = "StasisStart" => pc[e.channel] = "none"
  BY DispatchStarts DEF LineInv
<1> HIDE DEF e
<1>5. TasksTyped /\ AtWork
  BY DEF LineInv, TasksInv
<1>6. /\ digit' = digit
      /\ \A c \in InStasis :
            \/ pc'[c] = pc[c] /\ fut'[c] = fut[c]
            \/ pc'[c] = "done" /\ fut'[c] = "none"
            \/ pc[c] = "none" /\ pc'[c] = "entering" /\ fut'[c] = fut[c]
  <2>1. CASE e.type = "StasisStart" /\ OnStasisStart(e)
    BY <1>3, <1>4, <1>5, <2>1 DEF OnStasisStart, TasksTyped
  <2>2. CASE OnDtmf(e)
    BY <2>2 DEF OnDtmf, ivr, tasks
  <2>3. CASE OnHangup(e)
    BY <1>3, <1>5, <2>3 DEF OnHangup, TasksTyped
  <2>4. QED
    BY <1>2, <2>1, <2>2, <2>3
<1>7. \/ post' = post
      \/ /\ e.type = "ChannelDtmfReceived"
         /\ post' = [post EXCEPT ![Dispatcher] = Post(e.channel, Event("raw", e.n))]
  BY <1>2 DEF OnStasisStart, OnDtmf, OnHangup, ivr
<1>8. post'[Dispatcher] = post[Dispatcher]
      \/ /\ e.type = "ChannelDtmfReceived"
         /\ post'[Dispatcher].status = "sent" /\ post'[Dispatcher].channel = e.channel
         /\ post'[Dispatcher].event.n = e.n
  <2>1. CASE post' = post
    BY <2>1
  <2>2. CASE /\ e.type = "ChannelDtmfReceived"
             /\ post' = [post EXCEPT ![Dispatcher] = Post(e.channel, Event("raw", e.n))]
    <3>1. post'[Dispatcher] = Post(e.channel, Event("raw", e.n))
      BY <1>5, <2>2, TheLegs DEF TasksTyped
    <3>2. QED
      BY <2>2, <3>1 DEF Post, Event
  <2>3. QED
    BY <1>7, <2>1, <2>2
<1>9. \A c \in InStasis : \A s, m : Fate(c, s, m)' <=> Fate(c, s, m)
  BY <1>2 DEF Fate
<1>10. \A i \in 1 .. Len(inbox') : i \in Nat /\ i + 1 \in 1 .. Len(inbox)
                                   /\ inbox'[i] = inbox[i + 1]
  BY <1>1, <1>2
<1>11. ASSUME NEW c \in InStasis
       PROVE  TaskOrder(c)'
  BY <1>6, <1>9 DEF OrderInv, TaskOrder, Working
<1>12. ASSUME NEW c \in InStasis
       PROVE  SideOrder(c)'
  <2>1. SideOrder(c)
    BY DEF OrderInv
  <2>2. \A n : Beyond(c, n)' <=> Beyond(c, n)
    BY <1>2, <1>6 DEF Beyond
  <2>3. \A i \in 1 .. Len(inbox) : inbox[i].n \in Nat
    BY NumbersHere
  <2>4. /\ \A i \in 1 .. Len(inbox') : About(inbox'[i], c) =>
              /\ Beyond(c, inbox[i + 1].n) /\ About(inbox[i + 1], c)
              /\ inbox'[i].n = inbox[i + 1].n
              /\ \A m \in Nat : Fate(c, "raw", m) => m < inbox[i + 1].n
              /\ About(e, c) => e.n < inbox'[i].n
              /\ Pending(c) => post[Dispatcher].event.n < inbox'[i].n
    <3> SUFFICES ASSUME NEW i \in 1 .. Len(inbox'), About(inbox'[i], c)
                 PROVE  /\ Beyond(c, inbox[i + 1].n) /\ About(inbox[i + 1], c)
                        /\ inbox'[i].n = inbox[i + 1].n
                        /\ \A m \in Nat : Fate(c, "raw", m) => m < inbox[i + 1].n
                        /\ About(e, c) => e.n < inbox'[i].n
                        /\ Pending(c) => post[Dispatcher].event.n < inbox'[i].n
      OBVIOUS
    <3> DEFINE k == i + 1
    <3>1. k \in 1 .. Len(inbox) /\ inbox'[i] = inbox[k] /\ 1 < k
      BY <1>10
    <3> HIDE DEF k
    <3>2. About(inbox[k], c)
      BY <3>1
    <3>3. /\ Beyond(c, inbox[k].n)
          /\ \A m \in Nat : Fate(c, "raw", m) => m < inbox[k].n
      BY <2>1, <3>1, <3>2 DEF SideOrder, InboxOrder
    <3>4. About(e, c) => e.n < inbox[k].n
      BY <1>1, <2>1, <3>1, <3>2 DEF SideOrder, InboxOrder
    <3>5. Pending(c) => post[Dispatcher].event.n < inbox[k].n
      BY <2>1, <3>1, <3>2 DEF SideOrder, PendingOrder
    <3>6. QED
      BY <3>1, <3>2, <3>3, <3>4, <3>5 DEF k
  <2>5. InboxOrder(c)'
    <3>1. \A i \in 1 .. Len(inbox') : About(inbox'[i], c) =>
              /\ Dialled[c] < inbox'[i].n /\ digit'[c] < inbox'[i].n
              /\ chan'[c] = "up" => inbox'[i].n <= keyed'[c]
              /\ \A m \in Nat : Fate(c, "raw", m)' => m < inbox'[i].n
      BY <1>2, <1>6, <1>9, <2>4 DEF Beyond
    <3>2. \A i, j \in 1 .. Len(inbox') :
              i < j /\ About(inbox'[i], c) /\ About(inbox'[j], c) => inbox'[i].n < inbox'[j].n
      <4> SUFFICES ASSUME NEW i \in 1 .. Len(inbox'), NEW j \in 1 .. Len(inbox'), i < j,
                          About(inbox'[i], c), About(inbox'[j], c)
                   PROVE  inbox'[i].n < inbox'[j].n
        OBVIOUS
      <4> DEFINE k == i + 1
                 l == j + 1
      <4>1. /\ k \in 1 .. Len(inbox) /\ l \in 1 .. Len(inbox) /\ k < l
            /\ inbox'[i] = inbox[k] /\ inbox'[j] = inbox[l]
        BY <1>10
      <4> HIDE DEF k, l
      <4>2. QED
        BY <2>1, <4>1 DEF SideOrder, InboxOrder
    <3>3. QED
      BY <3>1, <3>2 DEF InboxOrder, Beyond
  <2>6. CASE post'[Dispatcher] = post[Dispatcher]
    <3>1. Pending(c)' <=> Pending(c)
      BY <2>6 DEF Pending
    <3>2. Pending(c) => Beyond(c, post[Dispatcher].event.n)'
      BY <1>2, <1>6, <2>1, <2>6 DEF SideOrder, PendingOrder, Beyond
    <3>3. PendingOrder(c)'
      BY <1>9, <2>1, <2>4, <2>6, <3>1, <3>2 DEF SideOrder, PendingOrder
    <3>4. Unborn(c)'
      BY <1>2, <1>9, <1>10, <2>1, <3>1 DEF SideOrder, Unborn
    <3>5. RawOrder(c)' /\ Bound(c)'
      BY <1>2, <1>6, <1>9, <2>1 DEF SideOrder, RawOrder, Bound
    <3>6. QED
      BY <2>5, <3>3, <3>4, <3>5 DEF SideOrder
  <2>7. CASE /\ e.type = "ChannelDtmfReceived"
             /\ post'[Dispatcher].status = "sent" /\ post'[Dispatcher].channel = e.channel
             /\ post'[Dispatcher].event.n = e.n
    <3>1. Pending(c)' => About(e, c)
      BY <2>7 DEF Pending, About
    <3>2. About(e, c) => /\ Beyond(c, e.n)
                         /\ \A m \in Nat : Fate(c, "raw", m) => m < e.n
                         /\ chan[c] \notin {"none", "new"}
      BY <1>1, <2>1 DEF SideOrder, InboxOrder, Unborn
    <3>3. Pending(c)' => Beyond(c, post[Dispatcher].event.n)'
      BY <1>2, <1>6, <2>7, <3>1, <3>2 DEF Beyond
    <3>4. PendingOrder(c)'
      BY <1>9, <2>4, <2>7, <3>1, <3>2, <3>3 DEF PendingOrder
    <3>5. Unborn(c)'
      BY <1>2, <1>9, <1>10, <2>1, <3>1, <3>2 DEF SideOrder, Unborn
    <3>6. RawOrder(c)' /\ Bound(c)'
      BY <1>2, <1>6, <1>9, <2>1 DEF SideOrder, RawOrder, Bound
    <3>7. QED
      BY <2>5, <3>4, <3>5, <3>6 DEF SideOrder
  <2>8. QED
    BY <1>8, <2>6, <2>7
<1>13. LogOrder'
  BY <1>2 DEF OrderInv, LogOrder, Ordered
<1>14. QED
  BY <1>11, <1>12, <1>13 DEF OrderInv

\* The digit that was published is given to the task, if it awaits one.
LEMMA DeliverOrder ==
    ASSUME LineInv, OrderInv, DeliverDigit
    PROVE  OrderInv'
<1> DEFINE c == post[Dispatcher].channel
           n == post[Dispatcher].event.n
<1>1. /\ post[Dispatcher].status = "answered" /\ post' = [post EXCEPT ![Dispatcher] = NoPost]
      /\ \/ /\ fut[c] = "waiting" /\ fut' = [fut EXCEPT ![c] = "set"]
            /\ digit' = [digit EXCEPT ![c] = n]
         \/ UNCHANGED <<fut, digit>>
      /\ UNCHANGED <<chan, keyed, inbox, pc, log, late, lost>>
  BY DEF DeliverDigit, asterisk, api, history
<1>2. c \in InStasis /\ n \in Nat /\ Pending(c)
  <2>1. c \in InStasis
    BY <1>1 DEF LineInv, TasksInv, RawOnly
  <2>2. Pending(c)
    BY <1>1 DEF Pending
  <2>3. QED
    BY <2>1, <2>2, NumbersHere
<1>3. /\ SideOrder(c) /\ Dialled[c] < n /\ digit[c] < n /\ (chan[c] = "up" => n <= keyed[c])
      /\ \A i \in 1 .. Len(inbox) : About(inbox[i], c) => n < inbox[i].n
  BY <1>2 DEF OrderInv, SideOrder, PendingOrder, Beyond
<1>4. TasksTyped /\ AtWork
  BY DEF LineInv, TasksInv
<1> HIDE DEF c, n
<1>5. \A d \in InStasis : ~Pending(d)'
  <2>1. post'[Dispatcher] = NoPost
    BY <1>1, <1>4, TheLegs DEF TasksTyped
  <2>2. QED
    BY <2>1 DEF Pending, NoPost
<1>6. \A d \in InStasis : \A s, m : Fate(d, s, m)' <=> Fate(d, s, m)
  BY <1>1 DEF Fate
<1>7. \A d \in InStasis : \/ digit'[d] = digit[d] /\ fut'[d] = fut[d]
                          \/ d = c /\ digit'[d] = n /\ fut[d] = "waiting"
  BY <1>1, <1>2, <1>4 DEF TasksTyped
<1>8. ASSUME NEW d \in InStasis
      PROVE  SideOrder(d)'
  <2>1. SideOrder(d) /\ digit[d] \in Nat
    BY NumbersHere DEF OrderInv
  <2>2. \A i \in 1 .. Len(inbox) : About(inbox[i], d) => digit'[d] < inbox[i].n
    BY <1>3, <1>7, <2>1 DEF SideOrder, InboxOrder, Beyond
  <2>3. InboxOrder(d)'
    BY <1>1, <1>6, <2>1, <2>2 DEF SideOrder, InboxOrder, Beyond
  <2>4. PendingOrder(d)' /\ Unborn(d)'
    BY <1>1, <1>5, <1>6, <2>1 DEF SideOrder, PendingOrder, Unborn
  <2>5. RawOrder(d)' /\ Bound(d)'
    BY <1>1, <1>3, <1>6, <1>7, <2>1 DEF SideOrder, RawOrder, Bound
  <2>6. QED
    BY <2>3, <2>4, <2>5 DEF SideOrder
<1>9. ASSUME NEW d \in InStasis
      PROVE  TaskOrder(d)'
  <2>1. TaskOrder(d)
    BY DEF OrderInv
  <2>2. CASE digit'[d] = digit[d] /\ fut'[d] = fut[d]
    BY <1>1, <2>1, <2>2, TaskOrderKept
  <2>3. CASE d = c /\ digit'[d] = n /\ fut[d] = "waiting"
    <3>1. pc[d] = "prompt"
      BY <1>4, <2>3 DEF AtWork
    <3>2. \A s \in Working, m \in Nat : Fate(d, s, m) => m < n
      <4>1. digit[d] \in Nat /\ digit[d] < n
        BY <1>3, <2>3, NumbersHere
      <4>2. \A s \in Working, m \in Nat : Fate(d, s, m) => m <= digit[d]
        BY <2>1 DEF TaskOrder
      <4>3. QED
        BY <1>2, <4>1, <4>2
    <3>3. pc'[d] = "prompt"
      BY <1>1, <3>1
    <3>4. \A s \in Working, m \in Nat : Fate(d, s, m)' => m < digit'[d] /\ m <= digit'[d]
      BY <1>2, <1>6, <2>3, <3>2
    <3>5. QED
      BY <3>3, <3>4 DEF TaskOrder, Working
  <2>4. QED
    BY <1>7, <2>2, <2>3
<1>10. LogOrder'
  BY <1>1 DEF OrderInv, LogOrder, Ordered
<1>11. QED
  BY <1>8, <1>9, <1>10 DEF OrderInv

\* What is published.
LEMMA PostEvent ==
    ASSUME LineInv, NEW p \in Publishers, Posting(p)
    PROVE  /\ post[p].status = "sent" /\ post[p].channel \in InStasis /\ post[p].event \in Events
           /\ post'[p].status = "answered" /\ post'[p].channel = post[p].channel
           /\ post'[p].event = post[p].event
           /\ \A q \in Publishers : q # p => post'[q] = post[q]
           /\ UNCHANGED <<chan, keyed, inbox, pc, digit, fut>>
           /\ \/ log' = log
              \/ log' = [log EXCEPT ![post[p].channel] = Append(@, post[p].event)]
           /\ \/ p = Dispatcher /\ post[p].event.stage = "raw"
              \/ /\ p \in InStasis /\ pc[p] \in Working
                 /\ post[p].channel = p /\ post[p].event = Event(pc[p], digit[p])
<1>1. TasksInv /\ post[p] \in Posts /\ post \in [Publishers -> Posts]
  BY DEF LineInv, TasksInv, TasksTyped
<1>2. /\ post[p].status = "sent" /\ post' = [post EXCEPT ![p].status = "answered"]
      /\ UNCHANGED <<chan, keyed, inbox, pc, digit, fut>>
      /\ \/ log' = log
         \/ log' = [log EXCEPT ![post[p].channel] = Append(@, post[p].event)]
  BY DEF Posting, Store, GiveUp, asterisk, tasks
<1>3. /\ post'[p].status = "answered" /\ post'[p].channel = post[p].channel
      /\ post'[p].event = post[p].event
      /\ \A q \in Publishers : q # p => post'[q] = post[q]
  BY <1>1, <1>2 DEF Posts
<1>4. \/ p = Dispatcher /\ post[p].event.stage = "raw" /\ post[p].channel \in InStasis
      \/ /\ p \in InStasis /\ pc[p] \in Working
         /\ post[p].channel = p /\ post[p].event = Event(pc[p], digit[p])
  BY <1>1, <1>2, TheLegs DEF TasksInv, RawOnly, AtWork, Publishers
<1>5. post[p].event \in Events
  BY <1>1 DEF Posts
<1>6. QED
  BY <1>2, <1>3, <1>4, <1>5

\* A list stays in order when the event that is added is late, or comes before none.
LEMMA OrderedAppend ==
    ASSUME NEW q \in Seq(Events), NEW e \in Events, Ordered(q),
           e.late = TRUE \/ \A i \in DOMAIN q : ~Before(e, q[i])
    PROVE  Ordered(Append(q, e))
<1>1. DOMAIN q = 1 .. Len(q) /\ DOMAIN Append(q, e) = 1 .. Len(Append(q, e))
  BY LenProperties, AppendProperties
<1>2. /\ Len(q) \in Nat
      /\ \A i \in 1 .. Len(Append(q, e)) :
            \/ i \in 1 .. Len(q) /\ Append(q, e)[i] = q[i]
            \/ i = Len(q) + 1 /\ Append(q, e)[i] = e
  BY AppendCases
<1> HIDE DEF Events
<1> SUFFICES ASSUME NEW i \in 1 .. Len(Append(q, e)), NEW j \in 1 .. Len(Append(q, e)), i < j,
                    ~Append(q, e)[j].late
             PROVE  ~Before(Append(q, e)[j], Append(q, e)[i])
  BY <1>1 DEF Ordered
<1>3. i \in 1 .. Len(q) /\ Append(q, e)[i] = q[i]
  BY <1>2
<1>4. CASE j \in 1 .. Len(q) /\ Append(q, e)[j] = q[j]
  BY <1>1, <1>3, <1>4 DEF Ordered
<1>5. CASE Append(q, e)[j] = e
  BY <1>1, <1>3, <1>5
<1>6. QED
  BY <1>2, <1>4, <1>5

\* Every event of a channel tells the fate of a digit.
LEMMA LogFate ==
    ASSUME LineInv, NEW c \in InStasis, NEW i \in DOMAIN log[c]
    PROVE  /\ log[c][i] \in Events /\ log[c][i].n \in Nat
           /\ log[c][i].stage \in Working \union {"raw"}
           /\ Fate(c, log[c][i].stage, log[c][i].n)
<1>1. log[c] \in Seq(Events)
  BY DEF LineInv, DueInv, StoreTyped
<1>2. log[c][i] \in Events
  BY <1>1, ElementOfSeq, LenProperties
<1>3. log[c][i].n \in Nat /\ log[c][i].stage \in Working \union {"raw"}
  BY <1>2, StagesAre DEF Events
<1>4. QED
  BY <1>2, <1>3 DEF Fate

\* An event that is published comes before none that is stored.
LEMMA PostIsLast ==
    ASSUME LineInv, OrderInv, NEW p \in Publishers, Posting(p)
    PROVE  \A i \in DOMAIN log[post[p].channel] :
              ~Before(post[p].event, log[post[p].channel][i])
<1> DEFINE c == post[p].channel
           e == post[p].event
<1>1. /\ post[p].status = "sent" /\ c \in InStasis /\ e \in Events
      /\ \/ p = Dispatcher /\ e.stage = "raw"
         \/ p \in InStasis /\ pc[p] \in Working /\ c = p /\ e = Event(pc[p], digit[p])
  BY PostEvent
<1>2. SideOrder(c) /\ TaskOrder(c) /\ digit[c] \in Nat /\ Dialled[c] \in Nat
  BY <1>1, NumbersHere DEF OrderInv
<1>3. p = Dispatcher => Pending(c)
  BY <1>1 DEF Pending
<1> SUFFICES ASSUME NEW i \in DOMAIN log[c] PROVE ~Before(e, log[c][i])
  OBVIOUS
<1> DEFINE x == log[c][i]
<1>4. x \in Events /\ x.n \in Nat /\ x.stage \in Working \union {"raw"} /\ Fate(c, x.stage, x.n)
  BY <1>1, LogFate
<1>5. e.n \in Nat
  BY <1>1 DEF Events
<1>6. CASE p = Dispatcher
  <2>1. e.stage = "raw"
    BY <1>1, <1>6, TheLegs
  <2>2. PendingOrder(c) /\ Pending(c)
    BY <1>2, <1>3, <1>6 DEF SideOrder
  <2>3. digit[c] < e.n /\ \A m \in Nat : Fate(c, "raw", m) => m < e.n
    BY <1>1, <1>6, <2>2 DEF PendingOrder, Beyond
  <2> HIDE DEF c, e
  <2>4. CASE x.stage = "raw"
    <3>1. x.n < e.n
      BY <1>4, <2>3, <2>4
    <3>2. QED
      BY <1>4, <1>5, <2>1, <2>4, <3>1, StageValues DEF Before
  <2>5. CASE x.stage \in Working
    <3>1. x.n <= digit[c]
      BY <1>2, <1>4, <2>5 DEF TaskOrder
    <3>2. x.n < e.n
      BY <1>2, <1>4, <1>5, <2>3, <3>1
    <3>3. Stage[x.stage] # Stage[e.stage]
      BY <2>1, <2>5, StageValues
    <3>4. QED
      BY <1>4, <1>5, <3>2, <3>3 DEF Before
  <2>6. QED
    BY <1>4, <2>4, <2>5
<1>7. CASE p # Dispatcher
  <2>1. pc[c] \in Working /\ e.stage = pc[c] /\ e.n = digit[c]
    BY <1>1, <1>7, EventsTyped
  <2> HIDE DEF c, e
  <2>2. CASE x.stage \in Working
    <3>1. x.n <= digit[c] /\ (x.n = digit[c] => Stage[x.stage] <= Stage[pc[c]])
      BY <1>2, <1>4, <2>1, <2>2 DEF TaskOrder
    <3>2. Stage[x.stage] \in 0 .. 4 /\ Stage[pc[c]] \in 0 .. 4
      BY <2>1, <2>2, StageValues
    <3>3. QED
      BY <1>2, <1>4, <2>1, <3>1, <3>2 DEF Before
  <2>3. CASE x.stage = "raw"
    <3>1. Dialled[c] < x.n
      BY <1>2, <1>4, <2>3 DEF SideOrder, RawOrder
    <3>2. Stage[pc[c]] # Stage["raw"] /\ Stage[pc[c]] \in 0 .. 4
      BY <2>1, StageValues
    <3>3. Stage[pc[c]] < 1 => pc[c] = "dialed"
      BY <2>1, StageValues DEF Working
    <3>4. pc[c] = "dialed" => digit[c] < x.n
      BY <1>2, <1>4, <3>1 DEF TaskOrder
    <3>5. QED
      BY <1>2, <1>4, <2>1, <2>3, <3>2, <3>3, <3>4, StageValues DEF Before
  <2>4. QED
    BY <1>4, <2>2, <2>3
<1>8. QED
  BY <1>6, <1>7

\* An event is published.
LEMMA PostingOrder ==
    ASSUME LineInv, OrderInv, NEW p \in Publishers, Posting(p)
    PROVE  OrderInv'
<1> DEFINE d == post[p].channel
           e == post[p].event
<1>1. /\ post[p].status = "sent" /\ d \in InStasis /\ e \in Events
      /\ post'[p].status = "answered" /\ post'[p].channel = d /\ post'[p].event = e
      /\ \A q \in Publishers : q # p => post'[q] = post[q]
      /\ UNCHANGED <<chan, keyed, inbox, pc, digit, fut>>
      /\ \/ log' = log
         \/ log' = [log EXCEPT ![d] = Append(@, e)]
      /\ \/ p = Dispatcher /\ e.stage = "raw"
         \/ /\ p \in InStasis /\ pc[p] \in Working
            /\ d = p /\ e = Event(pc[p], digit[p])
  BY PostEvent
<1>2. \A c \in InStasis : \A s, m : Fate(c, s, m)' <=>
          Fate(c, s, m) \/ (d = c /\ e.stage = s /\ e.n = m)
  BY PostingFate DEF LineInv, DueInv
<1>3. \A i \in DOMAIN log[d] : ~Before(e, log[d][i])
  BY PostIsLast
<1>4. e.n \in Nat
  BY <1>1 DEF Events
<1>5. p = Dispatcher => Pending(d) /\ e = post[Dispatcher].event
  BY <1>1 DEF Pending
<1>6. p # Dispatcher => /\ p \in InStasis /\ d = p /\ e.stage = pc[p] /\ e.n = digit[p]
                        /\ pc[p] \in Working
  BY <1>1, EventsTyped
<1>7. log \in [InStasis \union {NoChannel} -> Seq(Events)]
  BY DEF LineInv, DueInv, StoreTyped
<1> HIDE DEF d, e
<1>8. LogOrder'
  <2>1. CASE log' = log
    BY <2>1 DEF OrderInv, LogOrder, Ordered
  <2>2. CASE log' = [log EXCEPT ![d] = Append(@, e)]
    <3>1. /\ log'[d] = Append(log[d], e)
          /\ \A c \in InStasis \union {NoChannel} : c # d => log'[c] = log[c]
      BY <1>1, <1>7, <2>2
    <3>2. log[d] \in Seq(Events) /\ Ordered(log[d])
      BY <1>1, <1>7 DEF OrderInv, LogOrder
    <3>3. Ordered(Append(log[d], e))
      BY <1>1, <1>3, <3>2, OrderedAppend
    <3>4. \A c \in InStasis \union {NoChannel} : Ordered(log'[c])
      BY <3>1, <3>3 DEF OrderInv, LogOrder
    <3>5. \A c \in InStasis \union {NoChannel} : Ordered(log[c])'
      BY <3>4 DEF Ordered
    <3>6. log'[NoChannel] = log[NoChannel]
      BY <1>1, <3>1, TheLegs
    <3>7. \A i \in DOMAIN log[NoChannel]' : log'[NoChannel][i].n <= i
      BY <3>6 DEF OrderInv, LogOrder
    <3>8. QED
      BY <3>5, <3>7 DEF LogOrder
  <2>3. QED
    BY <1>1, <2>1, <2>2
<1>9. ASSUME NEW c \in InStasis
      PROVE  TaskOrder(c)'
  <2>1. TaskOrder(c) /\ digit[c] \in Nat
    BY NumbersHere DEF OrderInv
  <2>2. CASE p = Dispatcher
    <3>1. e.stage = "raw"
      BY <1>1, <2>2, TheLegs
    <3>2. \A s \in Working : \A m : Fate(c, s, m)' <=> Fate(c, s, m)
      BY <1>2, <3>1 DEF Working
    <3>3. QED
      BY <1>1, <2>1, <3>2 DEF TaskOrder
  <2>3. CASE p # Dispatcher
    <3>1. fut[p] = "none"
      <4>1. fut[p] \in {"none", "waiting", "set"} /\ (fut[p] # "none" => pc[p] = "prompt")
        BY <1>6, <2>3 DEF LineInv, TasksInv, TasksTyped, AtWork
      <4>2. QED
        BY <1>6, <2>3, <4>1 DEF Working
    <3>2. \A s \in Working, m \in Nat : Fate(c, s, m)' =>
              \/ Fate(c, s, m)
              \/ c = p /\ s = pc[c] /\ m = digit[c]
      BY <1>2, <1>6, <2>3
    <3>3. pc[p] \in Working /\ Stage[pc[p]] \in 0 .. 4
      BY <1>6, <2>3, StageValues
    <3>4. \A s \in Working, m \in Nat : Fate(c, s, m)' =>
              /\ m <= digit[c]
              /\ fut[c] = "set" => m < digit[c]
              /\ pc[c] \in Working /\ m = digit[c] => Stage[s] <= Stage[pc[c]]
      <4> SUFFICES ASSUME NEW s \in Working, NEW m \in Nat, Fate(c, s, m)'
                   PROVE  /\ m <= digit[c]
                          /\ fut[c] = "set" => m < digit[c]
                          /\ pc[c] \in Working /\ m = digit[c] => Stage[s] <= Stage[pc[c]]
        OBVIOUS
      <4>1. CASE Fate(c, s, m)
        BY <2>1, <4>1 DEF TaskOrder
      <4>2. CASE c = p /\ s = pc[c] /\ m = digit[c]
        BY <2>1, <3>1, <3>3, <4>2
      <4>3. QED
        BY <3>2, <4>1, <4>2
    <3>5. QED
      BY <1>1, <2>1, <3>4 DEF TaskOrder
  <2>4. QED
    BY <2>2, <2>3
<1>10. ASSUME NEW c \in InStasis
       PROVE  SideOrder(c)'
  <2>1. SideOrder(c)
    BY DEF OrderInv
  <2>2. /\ Pending(c)' <=> Pending(c)
        /\ post'[Dispatcher].event = post[Dispatcher].event
        /\ p # Dispatcher => post'[Dispatcher] = post[Dispatcher]
        /\ p = Dispatcher => post'[Dispatcher].status = "answered"
    BY <1>1, TheLegs DEF Pending, d, e
  <2>3. \A m \in Nat : Fate(c, "raw", m)' =>
            Fate(c, "raw", m) \/ (p = Dispatcher /\ c = d /\ m = e.n)
    BY <1>2, <1>6 DEF Working
  <2>4. p = Dispatcher /\ c = d =>
            /\ Pending(c) /\ Dialled[c] < e.n /\ (chan[c] = "up" => e.n <= keyed[c])
            /\ \A i \in 1 .. Len(inbox) : About(inbox[i], c) => e.n < inbox[i].n
    BY <1>5, <2>1 DEF SideOrder, PendingOrder, Beyond
  <2>5. InboxOrder(c)'
    BY <1>1, <2>1, <2>3, <2>4 DEF SideOrder, InboxOrder, Beyond
  <2>6. PendingOrder(c)'
    <3>1. Pending(c) => /\ Beyond(c, post[Dispatcher].event.n)'
                        /\ \A i \in 1 .. Len(inbox) : About(inbox[i], c) =>
                              post'[Dispatcher].event.n < inbox[i].n
      BY <1>1, <2>1, <2>2 DEF SideOrder, PendingOrder, Beyond
    <3>2. Pending(c) => \A m \in Nat : Fate(c, "raw", m)' =>
              \/ m < post'[Dispatcher].event.n
              \/ m = post'[Dispatcher].event.n /\ post'[Dispatcher].status = "answered"
      <4>1. CASE p = Dispatcher
        BY <1>5, <2>1, <2>2, <2>3, <4>1 DEF SideOrder, PendingOrder
      <4>2. CASE p # Dispatcher
        BY <2>1, <2>2, <2>3, <4>2 DEF SideOrder, PendingOrder
      <4>3. QED
        BY <4>1, <4>2
    <3>3. QED
      BY <1>1, <2>2, <3>1, <3>2 DEF PendingOrder
  <2>7. RawOrder(c)'
    BY <1>1, <2>1, <2>3, <2>4 DEF SideOrder, RawOrder
  <2>8. Unborn(c)'
    BY <1>1, <2>1, <2>2, <2>3, <2>4 DEF SideOrder, Unborn
  <2>9. Bound(c)'
    BY <1>1, <2>1 DEF SideOrder, Bound
  <2>10. QED
    BY <2>5, <2>6, <2>7, <2>8, <2>9 DEF SideOrder
<1>11. QED
  BY <1>8, <1>9, <1>10 DEF OrderInv

\* An event its publisher gave up on is stored: it may come late.
LEMMA LateOrder ==
    ASSUME LineInv, OrderInv, NEW x \in late, StoreLate(x)
    PROVE  OrderInv'
<1>1. /\ \A c \in InStasis : \A s, n : Fate(c, s, n)' <=> Fate(c, s, n)
      /\ \E d \in InStasis, f \in Events :
            f.late = TRUE /\ log' = [log EXCEPT ![d] = Append(@, f)]
  BY LateFate DEF LineInv
<1>2. UNCHANGED <<chan, keyed, inbox, pc, fut, digit, post>>
  BY DEF StoreLate, asterisk, ivr, tasks
<1>3. PICK d \in InStasis, f \in Events :
          f.late = TRUE /\ log' = [log EXCEPT ![d] = Append(@, f)]
  BY <1>1
<1>4. log \in [InStasis \union {NoChannel} -> Seq(Events)]
  BY DEF LineInv, DueInv, StoreTyped
<1>5. LogOrder'
  <2>1. log'[d] = Append(log[d], f)
        /\ \A c \in InStasis \union {NoChannel} : c # d => log'[c] = log[c]
    BY <1>3, <1>4
  <2>2. log[d] \in Seq(Events) /\ Ordered(log[d])
    BY <1>4 DEF OrderInv, LogOrder
  <2>3. Ordered(Append(log[d], f))
    BY <1>3, <2>2, OrderedAppend
  <2>4. \A c \in InStasis \union {NoChannel} : Ordered(log'[c])
    BY <2>1, <2>3 DEF OrderInv, LogOrder
  <2>5. \A c \in InStasis \union {NoChannel} : Ordered(log[c])'
    BY <2>4 DEF Ordered
  <2>6. log'[NoChannel] = log[NoChannel]
    BY <2>1, TheLegs
  <2>7. \A i \in DOMAIN log[NoChannel]' : log'[NoChannel][i].n <= i
    BY <2>6 DEF OrderInv, LogOrder
  <2>8. QED
    BY <2>5, <2>7 DEF LogOrder
<1>6. ASSUME NEW c \in InStasis
      PROVE  SideOrder(c)' /\ TaskOrder(c)'
  <2>1. SideOrder(c) /\ TaskOrder(c)
    BY DEF OrderInv
  <2>2. TaskOrder(c)'
    BY <1>1, <1>2, <2>1 DEF TaskOrder
  <2>3. InboxOrder(c)' /\ PendingOrder(c)'
    BY <1>1, <1>2, <2>1 DEF SideOrder, InboxOrder, PendingOrder, Pending, Beyond
  <2>4. RawOrder(c)' /\ Unborn(c)' /\ Bound(c)'
    BY <1>1, <1>2, <2>1 DEF SideOrder, RawOrder, Unborn, Bound, Pending
  <2>5. QED
    BY <2>2, <2>3, <2>4 DEF SideOrder
<1>7. QED
  BY <1>5, <1>6 DEF OrderInv

\* A click on the keypad of the page stores events numbered beyond those before it, in
\* the order of their stages.
LEMMA ClickOrder ==
    ASSUME NEW q \in Seq(Events), Ordered(q), \A i \in DOMAIN q : q[i].n <= i,
           NEW add \in Seq(Events), Ordered(add),
           \A k \in DOMAIN add : add[k].n = Len(q) + 1
    PROVE  /\ Ordered(q \o add)
           /\ \A i \in DOMAIN (q \o add) : (q \o add)[i].n <= i
<1>1. /\ Len(q) \in Nat /\ Len(add) \in Nat
      /\ DOMAIN q = 1 .. Len(q) /\ DOMAIN add = 1 .. Len(add)
      /\ DOMAIN (q \o add) = 1 .. Len(q) + Len(add)
      /\ \A i \in 1 .. Len(q) + Len(add) :
            (q \o add)[i] = IF i <= Len(q) THEN q[i] ELSE add[i - Len(q)]
  BY LenProperties, ConcatProperties
<1>2. \A i \in 1 .. Len(q) : q[i].n \in Nat /\ q[i].n <= i
  <2>1. \A i \in 1 .. Len(q) : q[i] \in Events
    BY ElementOfSeq
  <2>2. QED
    BY <1>1, <2>1 DEF Events
<1> HIDE DEF Events
<1>3. \A i \in DOMAIN (q \o add) :
          \/ i \in 1 .. Len(q) /\ (q \o add)[i] = q[i]
          \/ i - Len(q) \in 1 .. Len(add) /\ (q \o add)[i] = add[i - Len(q)] /\ i > Len(q)
  BY <1>1
<1>4. \A i \in DOMAIN (q \o add) : (q \o add)[i].n <= i
  <2> SUFFICES ASSUME NEW i \in DOMAIN (q \o add) PROVE (q \o add)[i].n <= i
    OBVIOUS
  <2>1. CASE i \in 1 .. Len(q) /\ (q \o add)[i] = q[i]
    BY <1>2, <2>1
  <2>2. CASE i - Len(q) \in 1 .. Len(add) /\ (q \o add)[i] = add[i - Len(q)] /\ i > Len(q)
    BY <1>1, <2>2
  <2>3. QED
    BY <1>3, <2>1, <2>2
<1>5. Ordered(q \o add)
  <2> SUFFICES ASSUME NEW i \in DOMAIN (q \o add), NEW j \in DOMAIN (q \o add), i < j,
                      ~(q \o add)[j].late
               PROVE  ~Before((q \o add)[j], (q \o add)[i])
    BY DEF Ordered
  <2>1. CASE j \in 1 .. Len(q) /\ (q \o add)[j] = q[j]
    <3>1. i \in 1 .. Len(q) /\ (q \o add)[i] = q[i]
      BY <1>1, <1>3, <2>1
    <3>2. QED
      BY <1>1, <2>1, <3>1 DEF Ordered
  <2>2. CASE /\ j - Len(q) \in 1 .. Len(add) /\ (q \o add)[j] = add[j - Len(q)]
             /\ i \in 1 .. Len(q) /\ (q \o add)[i] = q[i]
    <3>1. (q \o add)[j].n = Len(q) + 1 /\ (q \o add)[i].n \in Nat
          /\ (q \o add)[i].n < Len(q) + 1
      BY <1>1, <1>2, <2>2
    <3>2. QED
      BY <1>1, <3>1 DEF Before
  <2>3. CASE /\ j - Len(q) \in 1 .. Len(add) /\ (q \o add)[j] = add[j - Len(q)]
             /\ i - Len(q) \in 1 .. Len(add) /\ (q \o add)[i] = add[i - Len(q)]
    <3> DEFINE k == i - Len(q)
               l == j - Len(q)
    <3>1. k \in 1 .. Len(add) /\ l \in 1 .. Len(add) /\ k < l
      BY <1>1, <2>3
    <3>2. (q \o add)[i] = add[k] /\ (q \o add)[j] = add[l]
      BY <2>3
    <3> HIDE DEF k, l
    <3>3. QED
      BY <1>1, <3>1, <3>2 DEF Ordered
  <2>4. QED
    BY <1>3, <2>1, <2>2, <2>3
<1>6. QED
  BY <1>4, <1>5

\* The keypad of the page is used.
LEMMA SimulateOrder ==
    ASSUME LineInv, OrderInv, NEW l \in Lines, Simulate(l)
    PROVE  OrderInv'
<1> DEFINE q == log[NoChannel]
           n == Len(q) + 1
           add == IF l = "1" THEN <<Event("raw", n), Event("route", n), Event("forwarded", n)>>
                             ELSE <<Event("raw", n)>>
<1>1. n \in Nat /\ q \in Seq(Events) /\ log \in [InStasis \union {NoChannel} -> Seq(Events)]
  BY LenProperties DEF LineInv, DueInv, StoreTyped
<1>2. /\ log' = [log EXCEPT ![NoChannel] = @ \o add]
      /\ UNCHANGED <<chan, keyed, inbox, pc, fut, digit, post, late, lost>>
  BY DEF Simulate, asterisk, ivr, tasks, history
<1> HIDE DEF n
<1>3. add \in Seq(Events) /\ Ordered(add) /\ \A k \in DOMAIN add : add[k].n = n
  <2>1. /\ Event("raw", n) \in Events /\ Event("route", n) \in Events
        /\ Event("forwarded", n) \in Events
    BY <1>1, EventsTyped DEF Working
  <2>2. /\ Event("raw", n).n = n /\ Event("route", n).n = n /\ Event("forwarded", n).n = n
        /\ Event("raw", n).stage = "raw" /\ Event("route", n).stage = "route"
        /\ Event("forwarded", n).stage = "forwarded"
    BY EventsTyped
  <2>3. /\ ~Before(Event("route", n), Event("raw", n))
        /\ ~Before(Event("forwarded", n), Event("raw", n))
        /\ ~Before(Event("forwarded", n), Event("route", n))
    BY <1>1, <2>2, StageValues DEF Before
  <2> HIDE DEF Event, Events
  <2>4. CASE l = "1"
    <3>1. add = <<Event("raw", n), Event("route", n), Event("forwarded", n)>>
      BY <2>4
    <3> HIDE DEF add
    <3>2. /\ add \in Seq(Events) /\ DOMAIN add = 1 .. 3
          /\ add[1] = Event("raw", n) /\ add[2] = Event("route", n)
          /\ add[3] = Event("forwarded", n)
      BY <2>1, <3>1
    <3>3. \A k \in DOMAIN add : add[k].n = n
      BY <2>2, <3>2
    <3>4. Ordered(add)
      BY <2>3, <3>2 DEF Ordered
    <3>5. QED
      BY <3>2, <3>3, <3>4
  <2>5. CASE l # "1"
    <3>1. add = <<Event("raw", n)>>
      BY <2>5
    <3> HIDE DEF add
    <3>2. add \in Seq(Events) /\ DOMAIN add = 1 .. 1 /\ add[1] = Event("raw", n)
      BY <2>1, <3>1
    <3>3. \A k \in DOMAIN add : add[k].n = n
      BY <2>2, <3>2
    <3>4. Ordered(add)
      BY <3>2 DEF Ordered
    <3>5. QED
      BY <3>2, <3>3, <3>4
  <2>6. QED
    BY <2>4, <2>5
<1> HIDE DEF add
<1>4. Ordered(q) /\ \A i \in DOMAIN q : q[i].n <= i
  BY DEF OrderInv, LogOrder
<1>5. Ordered(q \o add) /\ \A i \in DOMAIN (q \o add) : (q \o add)[i].n <= i
  BY <1>1, <1>3, <1>4, ClickOrder DEF n
<1>6. log'[NoChannel] = q \o add /\ \A c \in InStasis : log'[c] = log[c]
  BY <1>1, <1>2, TheLegs
<1> HIDE DEF q
<1>7. LogOrder'
  <2>1. \A c \in InStasis \union {NoChannel} : Ordered(log'[c])
    BY <1>5, <1>6 DEF OrderInv, LogOrder
  <2>2. \A c \in InStasis \union {NoChannel} : Ordered(log[c])'
    BY <2>1 DEF Ordered
  <2>3. \A i \in DOMAIN log[NoChannel]' : log'[NoChannel][i].n <= i
    BY <1>5, <1>6
  <2>4. QED
    BY <2>2, <2>3 DEF LogOrder
<1>8. ASSUME NEW c \in InStasis
      PROVE  SideOrder(c)' /\ TaskOrder(c)'
  <2>1. SideOrder(c) /\ TaskOrder(c)
    BY DEF OrderInv
  <2>2. \A s, m : Fate(c, s, m)' <=> Fate(c, s, m)
    BY <1>2, <1>6 DEF Fate
  <2>3. TaskOrder(c)'
    BY <1>2, <2>1, <2>2 DEF TaskOrder
  <2>4. InboxOrder(c)' /\ PendingOrder(c)'
    BY <1>2, <2>1, <2>2 DEF SideOrder, InboxOrder, PendingOrder, Pending, Beyond
  <2>5. RawOrder(c)' /\ Unborn(c)' /\ Bound(c)'
    BY <1>2, <2>1, <2>2 DEF SideOrder, RawOrder, Unborn, Bound, Pending
  <2>6. QED
    BY <2>3, <2>4, <2>5 DEF SideOrder
<1>9. QED
  BY <1>7, <1>8 DEF OrderInv

\* No digits yet.
LEMMA OrderInit == Init => OrderInv
<1> SUFFICES ASSUME Init PROVE OrderInv
  OBVIOUS
<1>1. \A c \in InStasis \union {NoChannel} : log[c] = <<>>
  BY DEF Init
<1>2. DOMAIN <<>> = {} /\ Len(<<>>) = 0
  BY LenProperties, EmptySeq
<1>3. LogOrder
  BY <1>1, <1>2 DEF LogOrder, Ordered
<1>4. \A c \in InStasis : \A s, n : ~Fate(c, s, n)
  BY <1>1, <1>2 DEF Fate, Init
<1>5. \A c \in InStasis : ~Pending(c)
  BY TheLegs, EventsTyped DEF Init, Pending
<1>6. \A c \in InStasis : /\ chan[c] = "none" /\ digit[c] = 0 /\ pc[c] = "none"
  BY TheLegs DEF Init
<1>7. inbox = <<>> /\ 1 .. Len(inbox) = {}
  BY <1>2 DEF Init
<1>8. ASSUME NEW c \in InStasis
      PROVE  SideOrder(c) /\ TaskOrder(c)
  <2>1. InboxOrder(c) /\ PendingOrder(c) /\ RawOrder(c)
    BY <1>4, <1>5, <1>7 DEF InboxOrder, PendingOrder, RawOrder
  <2>2. Unborn(c) /\ Bound(c)
    BY <1>4, <1>5, <1>6, <1>7 DEF Unborn, Bound
  <2>3. TaskOrder(c)
    BY <1>4, <1>6 DEF TaskOrder
  <2>4. QED
    BY <2>1, <2>2, <2>3 DEF SideOrder
<1>9. QED
  BY <1>3, <1>8 DEF OrderInv

\* Every step keeps the order.
LEMMA OrderStep ==
    ASSUME LineInv, OrderInv, [Next]_vars
    PROVE  OrderInv'
<1>1. ASSUME Outside
      PROVE  OrderInv'
  BY <1>1, OthersOrder DEF Outside, ivr, tasks
<1>2. CASE \E c \in Channels : Arrive(c) \/ Key(c) \/ HangUp(c)
  BY <1>1, <1>2, PartyStep
<1>3. CASE Dispatch \/ DeliverDigit
  BY <1>3, DispatchOrder, DeliverOrder
<1>4. CASE \E c \in InStasis : Task(c)
  BY <1>4, TaskStepOrder
<1>5. CASE \E p \in Publishers : Posting(p)
  BY <1>5, PostingOrder
<1>6. CASE \E e \in late : StoreLate(e)
  BY <1>6, LateOrder
<1>7. CASE \E l \in Lines : Simulate(l)
  BY <1>7, SimulateOrder
<1>8. CASE \E r \in Senders : Sender(r)
  BY <1>1, <1>8, SenderStep
<1>9. CASE Originate \/ Connect \/ Hear \/ InjectNext \/ ScriptFault
  BY <1>1, <1>9, ScriptStep
<1>10. CASE UNCHANGED vars
  <2>1. UNCHANGED <<chan, keyed, inbox, ivr, log, late, lost>>
    BY <1>10 DEF vars, ivr, tasks
  <2>2. QED
    BY <1>1, <2>1 DEF Outside
<1>11. QED
  BY <1>2, <1>3, <1>4, <1>5, <1>6, <1>7, <1>8, <1>9, <1>10 DEF Next

\* The events of a channel tell what happened in the order in which it happened, for any
\* number of calls, digits, senders and faults: what the dispatcher and the task of a
\* session publish about a digit comes raw first and forwarded last, and the digits of
\* each kind in the order they were keyed in (publish, on_dtmf, run_call).
THEOREM Ordering == Spec => []EventsInOrder
<1>1. LineInv /\ OrderInv => EventsInOrder
  <2>1. LineInv => DOMAIN log = InStasis \union {NoChannel}
    BY DEF LineInv, DueInv, StoreTyped
  <2>2. QED
    BY <2>1 DEF OrderInv, LogOrder, Ordered, EventsInOrder
<1>2. LineInv /\ OrderInv /\ [Next]_vars => OrderInv'
  BY OrderStep
<1>3. QED
  BY <1>1, <1>2, OrderInit, LineInvariant, PTL DEF Spec

=============================================================================
