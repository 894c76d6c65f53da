----------------------------- MODULE IVRAppProofs -----------------------------
(***************************************************************************)
(* Proofs about IVRApp, for any channels and any bounds.                   *)
(***************************************************************************)
EXTENDS IVRApp, SequenceTheorems, TLAPS

Hangups == {"ChannelHangupRequest", "ChannelDestroyed"}

-----------------------------------------------------------------------------
(* The wire.                                                               *)

\* What is on the wire after a step was there before, k places behind; or it is e,
\* at the end.
Kept(k) ==
    /\ wire' \in Seq(Events)
    /\ \A i \in 1 .. Len(wire') : i + k \in 1 .. Len(wire) /\ wire'[i] = wire[i + k]

Sent(e) ==
    /\ wire' \in Seq(Events)
    /\ \A i \in 1 .. Len(wire') : \/ i \in 1 .. Len(wire) /\ wire'[i] = wire[i]
                                  \/ i = Len(wire) + 1 /\ wire'[i] = e

\* A wire nobody touches keeps its events.
LEMMA WireStays ==
    ASSUME wire \in Seq(Events), wire' = wire
    PROVE  Kept(0)
<1>1. \A i \in 1 .. Len(wire) : i + 0 = i
  BY LenProperties
<1>2. QED
  BY <1>1 DEF Kept

\* Asterisk sends an event, or nobody hears it.
LEMMA EmitSends ==
    ASSUME wire \in Seq(Events), NEW e \in Events, Emit(e)
    PROVE  Kept(0) \/ Sent(e)
<1>1. CASE ~connected
  BY <1>1, WireStays DEF Emit
<1>2. CASE connected
  <2>1. wire' = Append(wire, e)
    BY <1>2 DEF Emit
  <2>2. /\ Append(wire, e) \in Seq(Events)
        /\ Len(Append(wire, e)) = Len(wire) + 1
        /\ \A i \in 1 .. Len(wire) : Append(wire, e)[i] = wire[i]
        /\ Append(wire, e)[Len(wire) + 1] = e
    BY AppendProperties
  <2>3. Len(wire) \in Nat
    BY LenProperties
  <2>4. QED
    BY <2>1, <2>2, <2>3 DEF Sent
<1>3. QED
  BY <1>1, <1>2

\* The event that is taken was the first.
LEMMA TakeKeeps ==
    ASSUME wire \in Seq(Events), NEW t, Take(t)
    PROVE  /\ Kept(1)
           /\ 1 \in 1 .. Len(wire) /\ wire[1] = Head(wire)
           /\ Head(wire) \in Events /\ Head(wire).type \in t
<1>1. wire # <<>> /\ wire' = Tail(wire) /\ Head(wire).type \in t
  BY DEF Take
<1>2. Len(wire) \in Nat /\ Len(wire) > 0
  BY <1>1, LenProperties, EmptySeq
<1>3. /\ Head(wire) = wire[1] /\ Head(wire) \in Events
      /\ Tail(wire) \in Seq(Events)
      /\ Len(Tail(wire)) = Len(wire) - 1
      /\ \A i \in 1 .. Len(Tail(wire)) : Tail(wire)[i] = wire[i + 1]
  BY <1>1, HeadTailProperties
<1>4. \A i \in 1 .. Len(wire) - 1 : i + 1 \in 1 .. Len(wire)
  BY <1>2
<1>5. QED
  BY <1>1, <1>2, <1>3, <1>4 DEF Kept

\* What the lost connection cuts off leaves the rest in its place.
LEMMA CutKeeps ==
    ASSUME wire \in Seq(Events), NEW n \in 0 .. Len(wire), wire' = SubSeq(wire, 1, n)
    PROVE  Kept(0)
<1>1. Len(wire) \in Nat /\ n \in Int /\ 1 \in Int /\ n <= Len(wire)
  BY LenProperties
<1>2. \A i \in 1 .. n : wire[i] \in Events
  BY <1>1, ElementOfSeq
<1>3. /\ wire' \in Seq(Events)
      /\ Len(wire') = IF 1 <= n THEN n - 1 + 1 ELSE 0
      /\ \A i \in 1 .. n - 1 + 1 : wire'[i] = wire[1 + i - 1]
  BY <1>1, <1>2, SubSeqProperties
<1>4. Len(wire') = n
  BY <1>1, <1>3
<1>5. \A i \in 1 .. n : i \in 1 .. n - 1 + 1 /\ 1 + i - 1 = i /\ i + 0 = i /\ i \in 1 .. Len(wire)
  BY <1>1
<1>6. QED
  BY <1>3, <1>4, <1>5 DEF Kept

-----------------------------------------------------------------------------
(* Types.                                                                  *)

\* The types in parts, apart from those of the truth values.
AsteriskTyped ==
    /\ chan \in [Channels -> {"none", "ringing", "stasis", "hanging", "gone"}]
    /\ pressed \in [Channels -> Nat]
    /\ bridged \in [Channels -> SUBSET Channels]
    /\ wire \in Seq(Events)
    /\ drops \in Nat
    /\ handling \in SUBSET Events
    /\ starting \in SUBSET Channels
    /\ sessions \in SUBSET Channels

TasksTyped ==
    /\ pc \in [Channels -> Locations]
    /\ menu \in [Channels -> Menus]
    /\ retries \in [Channels -> 0 .. MaxRetries - 1]
    /\ fut \in [Channels -> {"none", "pending", "done", "cancelled"}]
    /\ got \in [Channels -> Nat]
    /\ peer \in [Channels -> Outbound \union {NoChannel}]
    /\ last \in [Channels -> Nat]
    /\ unheard \in SUBSET Channels
    /\ refused \in SUBSET Channels

Truths == connected \in BOOLEAN /\ bridge \in [Channels -> BOOLEAN]

Typed == AsteriskTyped /\ TasksTyped /\ Truths

\* Entering a menu is collecting a digit, or going to the cleanup.
LEMMA EnterMoves ==
    ASSUME NEW c \in Channels, NEW m \in Menus, NEW r \in Nat, Enter(c, m, r)
    PROVE  \/ \E n \in Menus, k \in 0 .. MaxRetries - 1 : Collect(c, n, k)
           \/ GoTo(c, "cleanup")
<1>1. 0 \in 0 .. MaxRetries - 1 /\ "main" \in Menus /\ (r < MaxRetries => r \in 0 .. MaxRetries - 1)
  BY BoundsAssumption DEF Menus
<1>2. CASE r < MaxRetries
  <2>1. Collect(c, m, r)
    BY <1>2 DEF Enter
  <2>2. QED
    BY <1>1, <1>2, <2>1
<1>3. CASE ~(r < MaxRetries)
  BY <1>1, <1>3 DEF Enter
<1>4. QED
  BY <1>2, <1>3

\* Acting on a digit enters a menu, ends the call or connects it.
LEMMA ActMoves ==
    ASSUME Typed, NEW c \in Channels, Act(c)
    PROVE  \/ \E n \in Menus, k \in 0 .. MaxRetries - 1 : Collect(c, n, k)
           \/ GoTo(c, "cleanup")
           \/ GoTo(c, "bridge")
<1>1. /\ menu[c] \in Menus /\ retries[c] \in Nat /\ retries[c] + 1 \in Nat /\ 0 \in Nat
      /\ {"main", "sales", "support"} \subseteq Menus
  BY BoundsAssumption DEF Typed, TasksTyped, Menus
<1>2. PICK d \in Digits : IF menu[c] = "main" THEN ActMain(c, d) ELSE ActSubmenu(c, d)
  BY DEF Act
<1>3. \/ \E m \in Menus, r \in Nat : Enter(c, m, r)
      \/ GoTo(c, "cleanup")
      \/ GoTo(c, "bridge")
  <2>1. CASE menu[c] = "main"
    <3>1. \/ Enter(c, "sales", 0) \/ Enter(c, "support", 0)
          \/ Enter(c, "main", retries[c]) \/ Enter(c, "main", retries[c] + 1)
          \/ GoTo(c, "cleanup") \/ GoTo(c, "bridge")
      BY <1>2, <2>1, Zenon DEF ActMain
    <3>2. QED
      BY <1>1, <3>1
  <2>2. CASE menu[c] # "main"
    <3>1. \/ GoTo(c, "bridge") \/ Enter(c, "main", 0) \/ Enter(c, menu[c], retries[c] + 1)
      BY <1>2, <2>2, Zenon DEF ActSubmenu
    <3>2. QED
      BY <1>1, <3>1
  <2>3. QED
    BY <2>1, <2>2
<1>4. QED
  BY <1>3, EnterMoves

\* The steps of a task between its start and its end that leave the wire and the
\* states of the channels alone.
Inner(c) == \/ Begin(c) \/ Prompted(c) \/ Resume(c) \/ Timeout(c) \/ Act(c)
            \/ CreateBridge(c) \/ JoinCaller(c) \/ JoinPeer(c) \/ Announce(c)

Idles == UNCHANGED <<chan, pressed, wire, connected, drops, handling, starting, sessions,
                     got, peer, unheard>>

\* The task of c goes to location l.
Goes(c, l) == l \in Locations \ {"none"} /\ pc' = [pc EXCEPT ![c] = l]

\* Inner steps leave Asterisk and the dispatcher alone and lead from one place of the
\* task to another.
LEMMA InnerIdles ==
    ASSUME Typed, NEW c \in Channels, Inner(c)
    PROVE  Idles /\ pc[c] \notin {"none", "ended"} /\ \E l : Goes(c, l)
<1>1. ASSUME NEW m, NEW r, Collect(c, m, r) PROVE Goes(c, "prompt")
  BY <1>1 DEF Collect, Goes, Locations
<1>2. ASSUME NEW l \in Locations \ {"none"}, GoTo(c, l) PROVE Goes(c, l)
  BY <1>2 DEF GoTo, Goes
<1>3. {"prompt", "wait", "act", "bridge", "dial", "join", "join_peer", "announce",
       "cleanup", "ended"} \subseteq Locations \ {"none"}
  BY DEF Locations
<1>4. ASSUME Digit(c) \/ Cancelled(c) PROVE \E l : Goes(c, l)
  BY <1>3, <1>4 DEF Digit, Cancelled, Goes
<1>5. CASE Begin(c)
  <2>1. (\E n \in Menus, k \in 0 .. MaxRetries - 1 : Collect(c, n, k)) \/ GoTo(c, "cleanup")
    BY <1>5, EnterMoves DEF Begin, Menus
  <2>2. Idles /\ pc[c] = "begin"
    BY <1>5 DEF Begin, Idles, asterisk, dispatcher, history
  <2>3. QED
    BY <1>1, <1>2, <1>3, <2>1, <2>2
<1>6. CASE Prompted(c) \/ Resume(c)
  <2>1. Idles /\ pc[c] \in {"prompt", "wait"}
    BY <1>6 DEF Prompted, Resume, Idles, asterisk, dispatcher
  <2>2. GoTo(c, "wait") \/ Digit(c) \/ Cancelled(c)
    BY <1>6 DEF Prompted, Resume
  <2>3. QED
    BY <1>2, <1>3, <1>4, <2>1, <2>2
<1>7. CASE Timeout(c)
  <2>1. Idles /\ pc[c] = "wait"
    BY <1>7 DEF Timeout, Idles, asterisk, dispatcher, history
  <2>2. pc' = [pc EXCEPT ![c] = "cleanup"] \/ Collect(c, "main", 0)
    BY <1>7 DEF Timeout
  <2>3. QED
    BY <1>1, <1>3, <2>1, <2>2 DEF Goes
<1>8. CASE Act(c)
  <2>1. Idles /\ pc[c] = "act"
    BY <1>8 DEF Act, Idles, asterisk, dispatcher, history
  <2>2. QED
    BY <1>1, <1>2, <1>3, <1>8, <2>1, ActMoves
<1>9. CASE CreateBridge(c)
  <2>1. Idles /\ pc[c] = "bridge" /\ (GoTo(c, "dial") \/ GoTo(c, "cleanup"))
    BY <1>9 DEF CreateBridge, Idles, asterisk, dispatcher, history
  <2>2. QED
    BY <1>2, <1>3, <2>1
<1>10. CASE JoinCaller(c) \/ JoinPeer(c) \/ Announce(c)
  <2>1. /\ Idles /\ pc[c] \in {"join", "join_peer", "announce"}
        /\ GoTo(c, "join_peer") \/ GoTo(c, "announce") \/ GoTo(c, "ended")
    BY <1>10 DEF JoinCaller, JoinPeer, Announce, Idles, asterisk, dispatcher, history
  <2>2. QED
    BY <1>2, <1>3, <2>1
<1>11. QED
  BY <1>5, <1>6, <1>7, <1>8, <1>9, <1>10 DEF Inner

\* What an inner step does to the menu and the digit that is awaited.
Listens(c) ==
    \/ \E n \in Menus, k \in 0 .. MaxRetries - 1 : Collect(c, n, k) /\ last' = last
    \/ /\ UNCHANGED <<menu, retries>>
       /\ \/ UNCHANGED <<fut, last>>
          \/ fut' = [fut EXCEPT ![c] = "none"] /\ last' = last
          \/ Digit(c)

\* An inner step is Collect, an awaited digit, or neither.
LEMMA InnerListens ==
    ASSUME Typed, NEW c \in Channels, Inner(c)
    PROVE  Listens(c)
<1>1. "main" \in Menus /\ 0 \in 0 .. MaxRetries - 1 /\ 0 \in Nat
  BY BoundsAssumption DEF Menus
<1>2. CASE Begin(c)
  <2>1. (\E n \in Menus, k \in 0 .. MaxRetries - 1 : Collect(c, n, k)) \/ GoTo(c, "cleanup")
    BY <1>1, <1>2, EnterMoves DEF Begin
  <2>2. last' = last
    BY <1>2 DEF Begin, history
  <2>3. QED
    BY <2>1, <2>2 DEF Listens, GoTo
<1>3. CASE Prompted(c) \/ Resume(c)
  <2>1. (GoTo(c, "wait") /\ last' = last) \/ Digit(c) \/ Cancelled(c)
    BY <1>3 DEF Prompted, Resume
  <2>2. QED
    BY <2>1 DEF Listens, GoTo, Digit, Cancelled
<1>4. CASE Timeout(c)
  BY <1>1, <1>4 DEF Timeout, history, Listens
<1>5. CASE Act(c)
  <2>1. last' = last
    BY <1>5 DEF Act, history
  <2>2. QED
    BY <1>5, <2>1, ActMoves DEF Listens, GoTo
<1>6. CASE CreateBridge(c) \/ JoinCaller(c) \/ JoinPeer(c) \/ Announce(c)
  BY <1>6 DEF CreateBridge, JoinCaller, JoinPeer, Announce, GoTo, history, Listens
<1>7. QED
  BY <1>2, <1>3, <1>4, <1>5, <1>6 DEF Inner

\* A session has a bridge from before it dials, and a peer from after.
Legs ==
    \A c \in Channels :
        /\ pc[c] \in {"none", "begin", "prompt", "wait", "act", "bridge", "cleanup"}
              => bridge[c] = FALSE /\ peer[c] = NoChannel
        /\ pc[c] = "dial" => bridge[c] = TRUE /\ peer[c] = NoChannel
        /\ pc[c] \in {"join", "join_peer", "announce"} => bridge[c] = TRUE /\ peer[c] \in Outbound
        /\ pc[c] = "ended" => (bridge[c] = TRUE <=> peer[c] # NoChannel)

\* Channel m was put into the bridge of c, or Asterisk was asked in vain.
Joins(c, m) ==
    /\ m \in Channels
    /\ \/ bridged' = bridged /\ (m \in refused' \/ chan[m] # "stasis")
       \/ bridged' = [b \in Channels |-> IF b = c THEN bridged[b] \union {m}
                                                   ELSE bridged[b] \ {m}]
    /\ refused' = refused \/ refused' = refused \union {m}

\* Adding a channel is joining, whether Asterisk takes the request or not.
LEMMA AddJoins ==
    ASSUME NEW c \in Channels, NEW m \in Channels, Add(c, m)
    PROVE  Joins(c, m)
BY DEF Add, Joins

\* What an inner step does to bridges.
LEMMA InnerBridges ==
    ASSUME Typed, Legs, NEW c \in Channels, Inner(c)
    PROVE  UNCHANGED <<bridged, refused>> \/ \E m : Joins(c, m)
<1>1. CASE JoinCaller(c)
  BY <1>1, AddJoins DEF JoinCaller
<1>2. CASE JoinPeer(c)
  <2>1. peer[c] \in Channels
    BY <1>2 DEF JoinPeer, Legs, Channels
  <2>2. QED
    BY <1>2, <2>1, AddJoins DEF JoinPeer
<1>3. CASE ~JoinCaller(c) /\ ~JoinPeer(c)
  BY <1>3 DEF Inner, Begin, Prompted, Resume, Timeout, Act, CreateBridge, Announce,
              asterisk, history
<1>4. QED
  BY <1>1, <1>2, <1>3

-----------------------------------------------------------------------------
(* Every step keeps the types.                                             *)

\* The events that are sent.
LEMMA ChannelEvents ==
    ASSUME NEW c \in Channels
    PROVE  /\ \A t \in EventType : Event(t, c) \in Events
           /\ \A t : Event(t, c).type = t /\ Event(t, c).channel = c
           /\ pressed[c] \in Nat => DtmfEvent(c) \in Events
           /\ DtmfEvent(c).type = "ChannelDtmfReceived" /\ DtmfEvent(c).channel = c
           /\ DtmfEvent(c).digit = pressed[c] + 1
           /\ {"StasisStart", "ChannelDtmfReceived"} \union Hangups = EventType
BY DEF Event, DtmfEvent, Events, EventType, Hangups

\* Every step is one of those above, or changes one channel in its type.
LEMMA TypedStep == Typed /\ Legs /\ [Next]_vars => Typed'
<1> SUFFICES ASSUME Typed, Legs, [Next]_vars PROVE Typed'
  OBVIOUS
<1>0. wire \in Seq(Events)
  BY DEF Typed, AsteriskTyped
<1>1. ASSUME NEW c \in Channels, Inner(c) PROVE Typed'
  <2>1. Idles /\ \E l : Goes(c, l)
    BY <1>1, InnerIdles
  <2>2. Listens(c)
    BY <1>1, InnerListens
  <2>3. UNCHANGED <<bridged, refused>> \/ \E m : Joins(c, m)
    BY <1>1, InnerBridges
  <2>4. bridge' = bridge \/ bridge' = [bridge EXCEPT ![c] = TRUE]
    BY <1>1 DEF Inner, Begin, Prompted, Resume, Timeout, Act, CreateBridge, JoinCaller,
                JoinPeer, Announce
  <2>5. AsteriskTyped'
    BY <2>1, <2>3 DEF Typed, AsteriskTyped, Idles, Joins
  <2>6. TasksTyped'
    <3>1. pc' \in [Channels -> Locations] /\ got' = got /\ peer' = peer /\ unheard' = unheard
      BY <2>1 DEF Typed, TasksTyped, Idles, Goes
    <3>2. refused' \in SUBSET Channels
      BY <2>3 DEF Typed, TasksTyped, Joins
    <3>3. /\ menu' \in [Channels -> Menus]
          /\ retries' \in [Channels -> 0 .. MaxRetries - 1]
          /\ fut' \in [Channels -> {"none", "pending", "done", "cancelled"}]
          /\ last' \in [Channels -> Nat]
      BY <2>2 DEF Typed, TasksTyped, Listens, Collect, Digit
    <3>4. QED
      BY <3>1, <3>2, <3>3 DEF Typed, TasksTyped
  <2>7. Truths'
    BY <2>1, <2>4 DEF Typed, Truths, Idles
  <2>8. QED
    BY <2>5, <2>6, <2>7 DEF Typed
<1>2. CASE Reconnect \/ HangupPublished \/ DeliverDigit
  <2>1. AsteriskTyped'
    BY <1>2 DEF Reconnect, HangupPublished, DeliverDigit, dispatcher, asterisk,
                Typed, AsteriskTyped
  <2>2. TasksTyped'
    BY <1>2 DEF Reconnect, HangupPublished, DeliverDigit, tasks, history, dispatcher,
                Typed, AsteriskTyped, TasksTyped, Events
  <2>3. connected' \in {connected, TRUE} /\ bridge' = bridge
    BY <1>2 DEF Reconnect, HangupPublished, DeliverDigit, asterisk, tasks
  <2>4. QED
    BY <2>1, <2>2, <2>3 DEF Typed, Truths
<1>3. CASE DispatchStart \/ DispatchDtmf \/ DispatchHangup
  <2>1. PICK t : Take(t)
    BY <1>3 DEF DispatchStart, DispatchDtmf, DispatchHangup
  <2>2. wire' \in Seq(Events) /\ Head(wire) \in Events /\ Head(wire).channel \in Channels
    BY <1>0, <2>1, TakeKeeps DEF Kept, Events
  <2>3. AsteriskTyped'
    BY <1>3, <2>2 DEF DispatchStart, DispatchDtmf, DispatchHangup, tasks,
                      Typed, AsteriskTyped
  <2>4. TasksTyped'
    <3>1. fut' \in [Channels -> {"none", "pending", "done", "cancelled"}]
      BY <1>3, <2>2 DEF DispatchStart, DispatchDtmf, DispatchHangup, tasks,
                        Typed, TasksTyped
    <3>2. QED
      BY <1>3, <3>1 DEF DispatchStart, DispatchDtmf, DispatchHangup, tasks, history,
                        Typed, TasksTyped
  <2>5. UNCHANGED <<connected, bridge>>
    BY <1>3 DEF DispatchStart, DispatchDtmf, DispatchHangup, tasks
  <2>6. QED
    BY <2>3, <2>4, <2>5 DEF Typed, Truths
<1>4. ASSUME NEW c \in Channels, StartSession(c) PROVE Typed'
  <2>1. AsteriskTyped'
    BY <1>4 DEF StartSession, asterisk, Typed, AsteriskTyped
  <2>2. TasksTyped'
    BY <1>4 DEF StartSession, history, Typed, TasksTyped, Locations
  <2>3. UNCHANGED <<connected, bridge>>
    BY <1>4 DEF StartSession, asterisk
  <2>4. QED
    BY <2>1, <2>2, <2>3 DEF Typed, Truths
<1>5. ASSUME NEW c \in Channels, Dial(c) PROVE Typed'
  <2>1. AsteriskTyped'
    BY <1>5 DEF Dial, dispatcher, Typed, AsteriskTyped
  <2>2. TasksTyped'
    BY <1>5 DEF Dial, GoTo, history, Typed, TasksTyped, Locations
  <2>3. connected' = connected /\ bridge' \in {bridge, [bridge EXCEPT ![c] = FALSE]}
    BY <1>5 DEF Dial
  <2>4. QED
    BY <2>1, <2>2, <2>3 DEF Typed, Truths
<1>6. ASSUME NEW c \in Channels, Cleanup(c) PROVE Typed'
  <2>1. wire' \in Seq(Events)
    BY <1>0, <1>6, EmitSends, ChannelEvents DEF Cleanup, Kept, Sent, Hangups
  <2>2. AsteriskTyped'
    BY <1>6, <2>1 DEF Cleanup, dispatcher, Typed, AsteriskTyped
  <2>3. TasksTyped'
    BY <1>6 DEF Cleanup, GoTo, Typed, TasksTyped, Locations
  <2>4. UNCHANGED <<connected, bridge>>
    BY <1>6 DEF Cleanup
  <2>5. QED
    BY <2>2, <2>3, <2>4 DEF Typed, Truths
<1>7. ASSUME NEW c \in Channels, Party(c) \/ Destroy(c) PROVE Typed'
  <2>1. \E e \in Events : Emit(e)
    <3>1. pressed[c] \in Nat
      BY DEF Typed, AsteriskTyped
    <3>2. QED
      BY <1>7, <3>1, ChannelEvents DEF Party, Arrive, Answer, Press, HangUp, Destroy, Hangups
  <2>2. wire' \in Seq(Events)
    BY <1>0, <2>1, EmitSends DEF Kept, Sent
  <2>3. AsteriskTyped'
    <3>1. chan' \in [Channels -> {"none", "ringing", "stasis", "hanging", "gone"}]
      BY <1>7 DEF Party, Arrive, Answer, Press, HangUp, Destroy, Typed, AsteriskTyped
    <3>2. pressed' \in [Channels -> Nat]
      <4>1. pressed' = pressed \/ pressed' = [pressed EXCEPT ![c] = @ + 1]
        BY <1>7 DEF Party, Arrive, Answer, Press, HangUp, Destroy
      <4>2. QED
        BY <4>1 DEF Typed, AsteriskTyped
    <3>3. bridged' \in [Channels -> SUBSET Channels]
      BY <1>7 DEF Party, Arrive, Answer, Press, HangUp, Destroy, Typed, AsteriskTyped
    <3>4. UNCHANGED <<drops, handling, starting, sessions>>
      BY <1>7 DEF Party, Arrive, Answer, Press, HangUp, Destroy, dispatcher
    <3>5. QED
      BY <2>2, <3>1, <3>2, <3>3, <3>4 DEF Typed, AsteriskTyped
  <2>4. TasksTyped'
    <3>1. UNCHANGED <<tasks, last, refused>> /\ unheard' \in SUBSET Channels
      BY <1>7 DEF Party, Arrive, Answer, Press, HangUp, Destroy, history, Typed, TasksTyped
    <3>2. QED
      BY <3>1 DEF tasks, Typed, TasksTyped
  <2>5. UNCHANGED <<connected, bridge>>
    BY <1>7 DEF Party, Arrive, Answer, Press, HangUp, Destroy, tasks
  <2>6. QED
    BY <2>3, <2>4, <2>5 DEF Typed, Truths
<1>8. CASE Drop
  <2>1. PICK n \in 0 .. Len(wire) :
            /\ wire' = SubSeq(wire, 1, n)
            /\ unheard' = unheard \union
                 {wire[i].channel : i \in {k \in n + 1 .. Len(wire) :
                                              wire[k].type = "ChannelDestroyed"}}
    BY <1>8 DEF Drop
  <2>2. wire' \in Seq(Events)
    BY <1>0, <2>1, CutKeeps DEF Kept
  <2>3. \A i \in n + 1 .. Len(wire) : wire[i].channel \in Channels
    <3>1. \A i \in 1 .. Len(wire) : wire[i] \in Events
      BY <1>0, ElementOfSeq
    <3>2. \A i \in n + 1 .. Len(wire) : i \in 1 .. Len(wire)
      BY <1>0, LenProperties
    <3>3. QED
      BY <3>1, <3>2 DEF Events
  <2>4. unheard' \in SUBSET Channels
    BY <2>1, <2>3 DEF Typed, TasksTyped
  <2>5. AsteriskTyped'
    BY <1>8, <2>2 DEF Drop, dispatcher, Typed, AsteriskTyped
  <2>6. TasksTyped'
    BY <1>8, <2>4 DEF Drop, tasks, Typed, TasksTyped
  <2>7. connected' = FALSE /\ bridge' = bridge
    BY <1>8 DEF Drop, tasks
  <2>8. QED
    BY <2>5, <2>6, <2>7 DEF Typed, Truths
<1>9. CASE UNCHANGED vars
  BY <1>9 DEF vars, Typed, AsteriskTyped, TasksTyped, Truths
<1>10. QED
  BY <1>1, <1>2, <1>3, <1>4, <1>5, <1>6, <1>7, <1>8, <1>9 DEF Next, Dispatch, Task, Inner

-----------------------------------------------------------------------------
(* Channels come into the application once.                                *)

\* What the events on the wire say is so, and a channel whose start is still on its
\* way has no session, nor another start on its way.
WireTrue ==
    /\ \A i \in 1 .. Len(wire) :
          /\ wire[i].type = "StasisStart" =>
                /\ chan[wire[i].channel] \notin {"none", "ringing"}
                /\ wire[i].channel \notin starting
                /\ pc[wire[i].channel] = "none"
          /\ wire[i].type \in Hangups => chan[wire[i].channel] \in {"hanging", "gone"}
    /\ \A i, j \in 1 .. Len(wire) :
          /\ wire[i].type = "StasisStart" /\ wire[j].type = "StasisStart"
          /\ wire[i].channel = wire[j].channel
          => i = j

TasksTrue ==
    \A c \in Channels :
        /\ c \in starting => pc[c] = "none"
        /\ c \in starting \/ pc[c] # "none" => chan[c] \notin {"none", "ringing"}
        /\ fut[c] = "cancelled" => chan[c] \in {"hanging", "gone"}

Entered == WireTrue /\ TasksTrue

\* Channels only go from one state to a later one.
Later ==
    \A c \in Channels :
        /\ chan[c] \notin {"none", "ringing"} => chan'[c] \notin {"none", "ringing"}
        /\ chan[c] \in {"hanging", "gone"} => chan'[c] \in {"hanging", "gone"}

\* Nothing starts, and no task begins.
NoStart ==
    /\ starting' = starting
    /\ \A c \in Channels : pc'[c] = "none" <=> pc[c] = "none"

\* What is on the wire are events, of our channels.
LEMMA EventsOnWire ==
    ASSUME wire \in Seq(Events)
    PROVE  \A i \in 1 .. Len(wire) : wire[i] \in Events /\ wire[i].channel \in Channels
<1>1. \A i \in 1 .. Len(wire) : wire[i] \in Events
  BY ElementOfSeq
<1>2. \A e \in Events : e.channel \in Channels
  BY DEF Events
<1>3. QED
  BY <1>1, <1>2

\* Events that stay on the wire stay true.
LEMMA WireTrueKept ==
    ASSUME Typed, WireTrue, NEW k \in Nat, Kept(k), Later, NoStart
    PROVE  WireTrue'
<1>1. \A i \in 1 .. Len(wire) : wire[i].channel \in Channels
  BY EventsOnWire DEF Typed, AsteriskTyped
<1>2. \A i \in 1 .. Len(wire') : i \in Nat
  BY LenProperties DEF Kept
<1>3. \A i, j \in Nat : i + k = j + k => i = j
  OBVIOUS
<1>4. ASSUME NEW i \in 1 .. Len(wire')
      PROVE  /\ wire'[i].type = "StasisStart" =>
                   /\ chan'[wire'[i].channel] \notin {"none", "ringing"}
                   /\ wire'[i].channel \notin starting'
                   /\ pc'[wire'[i].channel] = "none"
             /\ wire'[i].type \in Hangups => chan'[wire'[i].channel] \in {"hanging", "gone"}
  BY <1>1 DEF WireTrue, Kept, Later, NoStart
<1>5. ASSUME NEW i \in 1 .. Len(wire'), NEW j \in 1 .. Len(wire'),
             wire'[i].type = "StasisStart", wire'[j].type = "StasisStart",
             wire'[i].channel = wire'[j].channel
      PROVE  i = j
  BY <1>2, <1>3, <1>5 DEF WireTrue, Kept
<1>6. QED
  BY <1>4, <1>5 DEF WireTrue

\* And a new one is true when it is sent.
LEMMA WireTrueSent ==
    ASSUME Typed, WireTrue, Later, NoStart,
           NEW c \in Channels, NEW e \in Events, e.channel = c, Sent(e),
           e.type = "StasisStart" => /\ chan[c] \in {"none", "ringing"}
                                     /\ chan'[c] \notin {"none", "ringing"}
                                     /\ c \notin starting /\ pc[c] = "none",
           e.type \in Hangups => chan'[c] \in {"hanging", "gone"}
    PROVE  WireTrue'
<1>1. \A i \in 1 .. Len(wire) : wire[i].channel \in Channels
  BY EventsOnWire DEF Typed, AsteriskTyped
<1>2. "StasisStart" \notin Hangups
  BY DEF Hangups
<1>3. ASSUME NEW i \in 1 .. Len(wire')
      PROVE  /\ wire'[i].type = "StasisStart" =>
                   /\ chan'[wire'[i].channel] \notin {"none", "ringing"}
                   /\ wire'[i].channel \notin starting'
                   /\ pc'[wire'[i].channel] = "none"
             /\ wire'[i].type \in Hangups => chan'[wire'[i].channel] \in {"hanging", "gone"}
  BY <1>1 DEF WireTrue, Sent, Later, NoStart
<1>4. ASSUME NEW i \in 1 .. Len(wire'), NEW j \in 1 .. Len(wire'),
             wire'[i].type = "StasisStart", wire'[j].type = "StasisStart",
             wire'[i].channel = wire'[j].channel
      PROVE  i = j
  BY <1>4 DEF WireTrue, Sent
<1>5. QED
  BY <1>3, <1>4 DEF WireTrue

\* Every step keeps the story of the channels straight.
LEMMA EnteredStep == Typed /\ Legs /\ Entered /\ [Next]_vars => Entered'
<1> SUFFICES ASSUME Typed, Legs, WireTrue, TasksTrue, [Next]_vars PROVE Entered'
  BY DEF Entered
<1>0. wire \in Seq(Events) /\ 0 \in Nat /\ 1 \in Nat
  BY DEF Typed, AsteriskTyped
<1>1. ASSUME chan' = chan PROVE Later
  BY <1>1 DEF Later
<1>2. ASSUME starting' = starting, pc' = pc PROVE NoStart
  BY <1>2 DEF NoStart
<1>3. ASSUME NEW c \in Channels, Inner(c) PROVE Entered'
  <2>1. Idles /\ pc[c] # "none"
    BY <1>3, InnerIdles
  <2>2. PICK l : Goes(c, l)
    BY <1>3, InnerIdles
  <2>3. NoStart /\ Later
    BY <1>1, <2>1, <2>2 DEF Idles, Goes, NoStart, Typed, TasksTyped
  <2>4. WireTrue'
    BY <1>0, <2>1, <2>3, WireStays, WireTrueKept DEF Idles
  <2>5. \A d \in Channels : fut'[d] = "cancelled" => fut[d] = "cancelled"
    <3>1. Listens(c)
      BY <1>3, InnerListens
    <3>2. QED
      BY <3>1 DEF Listens, Collect, Digit, Typed, TasksTyped
  <2>6. TasksTrue'
    BY <2>1, <2>3, <2>5 DEF TasksTrue, NoStart, Idles
  <2>7. QED
    BY <2>4, <2>6 DEF Entered
<1>4. CASE Reconnect \/ HangupPublished \/ DeliverDigit
  <2>1. UNCHANGED <<chan, wire, starting, pc>>
    BY <1>4 DEF Reconnect, HangupPublished, DeliverDigit, asterisk, dispatcher, tasks
  <2>2. \A d \in Channels : fut'[d] = "cancelled" => fut[d] = "cancelled"
    BY <1>4 DEF Reconnect, HangupPublished, DeliverDigit, tasks, Typed, TasksTyped
  <2>3. WireTrue'
    BY <1>0, <1>1, <1>2, <2>1, WireStays, WireTrueKept
  <2>4. QED
    BY <2>1, <2>2, <2>3 DEF Entered, TasksTrue
<1>5. CASE DispatchDtmf \/ DispatchHangup
  <2>1. PICK t : Take(t)
    BY <1>5 DEF DispatchDtmf, DispatchHangup
  <2>2. UNCHANGED <<chan, starting, pc>>
    BY <1>5 DEF DispatchDtmf, DispatchHangup, tasks
  <2>3. WireTrue'
    BY <1>0, <1>1, <1>2, <2>1, <2>2, TakeKeeps, WireTrueKept
  <2>4. \A d \in Channels : fut'[d] = "cancelled" => chan[d] \in {"hanging", "gone"}
    <3>1. CASE DispatchDtmf
      BY <3>1 DEF DispatchDtmf, tasks, TasksTrue
    <3>2. CASE DispatchHangup
      <4>1. chan[Head(wire).channel] \in {"hanging", "gone"}
        <5>1. Take(Hangups)
          BY <3>2 DEF DispatchHangup, Hangups
        <5>2. 1 \in 1 .. Len(wire) /\ wire[1] = Head(wire) /\ Head(wire).type \in Hangups
          BY <1>0, <5>1, TakeKeeps
        <5>3. QED
          BY <5>2 DEF WireTrue
      <4>2. QED
        BY <3>2, <4>1 DEF DispatchHangup, TasksTrue, Typed, TasksTyped
    <3>3. QED
      BY <1>5, <3>1, <3>2
  <2>5. QED
    BY <2>2, <2>3, <2>4 DEF Entered, TasksTrue
<1>6. CASE DispatchStart
  <2> DEFINE h == Head(wire).channel
  <2>1. Take({"StasisStart"}) /\ starting' = starting \union {h}
        /\ UNCHANGED <<chan, pc, fut>>
    BY <1>6 DEF DispatchStart, tasks
  <2>2. /\ Kept(1) /\ 1 \in 1 .. Len(wire) /\ wire[1] = Head(wire)
        /\ Head(wire).type = "StasisStart" /\ Head(wire) \in Events
    BY <1>0, <2>1, TakeKeeps
  <2>3. chan[h] \notin {"none", "ringing"} /\ pc[h] = "none"
    BY <2>2 DEF WireTrue
  <2>4. \A i \in 1 .. Len(wire') : i + 1 # 1 /\ i \in Nat
    BY <2>2, LenProperties DEF Kept
  <2>5. \A i \in 1 .. Len(wire') : wire'[i].type = "StasisStart" => wire'[i].channel # h
    BY <2>2, <2>4 DEF WireTrue, Kept
  <2>6. \A i, j \in Nat : i + 1 = j + 1 => i = j
    OBVIOUS
  <2> HIDE DEF h
  <2>7. WireTrue'
    <3>1. ASSUME NEW i \in 1 .. Len(wire')
          PROVE  /\ wire'[i].type = "StasisStart" =>
                       /\ chan'[wire'[i].channel] \notin {"none", "ringing"}
                       /\ wire'[i].channel \notin starting'
                       /\ pc'[wire'[i].channel] = "none"
                 /\ wire'[i].type \in Hangups => chan'[wire'[i].channel] \in {"hanging", "gone"}
      BY <2>1, <2>2, <2>5 DEF WireTrue, Kept
    <3>2. ASSUME NEW i \in 1 .. Len(wire'), NEW j \in 1 .. Len(wire'),
                 wire'[i].type = "StasisStart", wire'[j].type = "StasisStart",
                 wire'[i].channel = wire'[j].channel
          PROVE  i = j
      BY <2>2, <2>4, <2>6, <3>2 DEF WireTrue, Kept
    <3>3. QED
      BY <3>1, <3>2 DEF WireTrue
  <2>8. TasksTrue'
    BY <2>1, <2>3 DEF TasksTrue
  <2>9. QED
    BY <2>7, <2>8 DEF Entered
<1>7. ASSUME NEW c \in Channels, StartSession(c) PROVE Entered'
  <2>1. /\ UNCHANGED <<chan, wire, fut>> /\ c \in starting
        /\ starting' = starting \ {c}
        /\ pc' = [pc EXCEPT ![c] = "begin"]
    BY <1>7 DEF StartSession, asterisk
  <2>2. \A i \in 1 .. Len(wire) : wire[i].type = "StasisStart" => wire[i].channel # c
    BY <2>1 DEF WireTrue
  <2>3. \A d \in Channels : pc'[d] = IF d = c THEN "begin" ELSE pc[d]
    BY <2>1 DEF Typed, TasksTyped
  <2>4. \A i \in 1 .. Len(wire) : wire[i].channel \in Channels
    BY <1>0, EventsOnWire
  <2>5. WireTrue'
    BY <2>1, <2>2, <2>3, <2>4 DEF WireTrue
  <2>6. TasksTrue'
    BY <2>1, <2>3 DEF TasksTrue
  <2>7. QED
    BY <2>5, <2>6 DEF Entered
<1>8. ASSUME NEW c \in Channels, Dial(c) PROVE Entered'
  <2>1. UNCHANGED <<wire, starting, fut>> /\ pc[c] # "none"
    BY <1>8 DEF Dial, dispatcher, GoTo
  <2>2. Later /\ \A d \in Channels : chan[d] # "none" => chan'[d] = chan[d]
    BY <1>8 DEF Dial, Later, Channels
  <2>3. NoStart
    BY <1>8 DEF Dial, dispatcher, GoTo, NoStart, Typed, TasksTyped
  <2>4. WireTrue'
    BY <1>0, <2>1, <2>2, <2>3, WireStays, WireTrueKept
  <2>5. TasksTrue'
    BY <2>1, <2>2, <2>3 DEF TasksTrue, NoStart, Later
  <2>6. QED
    BY <2>4, <2>5 DEF Entered
<1>9. ASSUME NEW c \in Channels, Cleanup(c) PROVE Entered'
  <2>1. UNCHANGED <<starting, fut>> /\ NoStart
    BY <1>9 DEF Cleanup, dispatcher, GoTo, NoStart, Typed, TasksTyped
  <2>2. Later
    BY <1>9 DEF Cleanup, Live, Later, Typed, AsteriskTyped
  <2>3. WireTrue'
    <3>1. CASE UNCHANGED <<chan, wire>>
      BY <1>0, <2>1, <2>2, <3>1, WireStays, WireTrueKept
    <3>2. CASE chan' = [chan EXCEPT ![c] = "hanging"] /\ Emit(Event("ChannelHangupRequest", c))
      <4> DEFINE e == Event("ChannelHangupRequest", c)
      <4>1. e \in Events /\ e.channel = c /\ e.type = "ChannelHangupRequest"
        BY ChannelEvents DEF EventType
      <4>2. chan'[c] = "hanging"
        BY <3>2 DEF Typed, AsteriskTyped
      <4> HIDE DEF e
      <4>3. Kept(0) \/ Sent(e)
        BY <1>0, <3>2, <4>1, EmitSends DEF e
      <4>4. QED
        BY <1>0, <2>1, <2>2, <4>1, <4>2, <4>3, WireTrueKept, WireTrueSent
    <3>3. QED
      BY <1>9, <3>1, <3>2 DEF Cleanup
  <2>4. TasksTrue'
    BY <2>1, <2>2 DEF TasksTrue, NoStart, Later
  <2>5. QED
    BY <2>3, <2>4 DEF Entered
<1>10. ASSUME NEW c \in Channels, Party(c) \/ Destroy(c) PROVE Entered'
  <2>1. UNCHANGED <<starting, pc, fut>>
    BY <1>10 DEF Party, Arrive, Answer, Press, HangUp, Destroy, dispatcher, tasks
  <2>2. NoStart
    BY <1>2, <2>1
  <2>3. Later
    BY <1>10 DEF Party, Arrive, Answer, Press, HangUp, Destroy, Live, Later, Typed, AsteriskTyped
  <2>4. PICK e \in Events :
            /\ e.channel = c /\ Emit(e)
            /\ e.type = "StasisStart" => chan[c] \in {"none", "ringing"} /\ chan'[c] = "stasis"
            /\ e.type \in Hangups => chan'[c] \in {"hanging", "gone"}
    <3>1. CASE Arrive(c) \/ Answer(c)
      <4>1. Emit(Event("StasisStart", c)) /\ chan[c] \in {"none", "ringing"}
            /\ chan'[c] = "stasis"
        BY <3>1 DEF Arrive, Answer, Typed, AsteriskTyped
      <4>2. QED
        BY <4>1, ChannelEvents DEF EventType, Hangups
    <3>2. CASE Press(c)
      BY <3>2, ChannelEvents DEF Press, Hangups, Typed, AsteriskTyped
    <3>3. CASE HangUp(c)
      <4>1. Emit(Event("ChannelHangupRequest", c)) /\ chan'[c] = "hanging"
        BY <3>3 DEF HangUp, Typed, AsteriskTyped
      <4>2. QED
        BY <4>1, ChannelEvents DEF EventType
    <3>4. CASE Destroy(c)
      <4>1. Emit(Event("ChannelDestroyed", c)) /\ chan'[c] = "gone"
        BY <3>4 DEF Destroy, Typed, AsteriskTyped
      <4>2. QED
        BY <4>1, ChannelEvents DEF EventType
    <3>5. QED
      BY <1>10, <3>1, <3>2, <3>3, <3>4 DEF Party
  <2>5. chan[c] \in {"none", "ringing"} => c \notin starting /\ pc[c] = "none"
    BY DEF TasksTrue
  <2>6. WireTrue'
    <3>1. Kept(0) \/ Sent(e)
      BY <1>0, <2>4, EmitSends
    <3>2. e.type = "StasisStart" => chan'[c] \notin {"none", "ringing"}
      BY <2>4
    <3>3. QED
      BY <1>0, <2>2, <2>3, <2>4, <2>5, <3>1, <3>2, WireTrueKept, WireTrueSent
  <2>7. TasksTrue'
    BY <2>1, <2>3 DEF TasksTrue, Later
  <2>8. QED
    BY <2>6, <2>7 DEF Entered
<1>11. CASE Drop
  <2>1. UNCHANGED <<chan, starting, pc, fut>> /\ \E n \in 0 .. Len(wire) : wire' = SubSeq(wire, 1, n)
    BY <1>11 DEF Drop, dispatcher, tasks
  <2>2. WireTrue'
    BY <1>0, <1>1, <1>2, <2>1, CutKeeps, WireTrueKept
  <2>3. QED
    BY <2>1, <2>2 DEF Entered, TasksTrue
<1>12. CASE UNCHANGED vars
  <2>1. UNCHANGED <<chan, wire, starting, pc, fut>>
    BY <1>12 DEF vars
  <2>2. WireTrue'
    BY <2>1 DEF WireTrue
  <2>3. QED
    BY <2>1, <2>2 DEF Entered, TasksTrue
<1>13. QED
  BY <1>3, <1>4, <1>5, <1>6, <1>7, <1>8, <1>9, <1>10, <1>11, <1>12
  DEF Next, Dispatch, Task, Inner

-----------------------------------------------------------------------------
(* Bridges and peers.                                                      *)

\* The steps of a task that is not connecting anybody.
Early(c) == Begin(c) \/ Prompted(c) \/ Resume(c) \/ Timeout(c) \/ Act(c)

\* Where they lead: the task ends only when its digit was cancelled, and acts only on
\* a digit.
LEMMA EarlyPlaces ==
    ASSUME Typed, NEW c \in Channels, Early(c)
    PROVE  /\ pc[c] \in {"begin", "prompt", "wait", "act"}
           /\ UNCHANGED <<bridge, peer, bridged, refused, chan>>
           /\ \E l \in {"prompt", "wait", "act", "bridge", "cleanup", "ended"} :
                 /\ pc' = [pc EXCEPT ![c] = l]
                 /\ l = "ended" => fut[c] = "cancelled"
                 /\ l = "act" => Digit(c)
<1> DEFINE Leads == \E l \in {"prompt", "wait", "act", "bridge", "cleanup", "ended"} :
                 /\ pc' = [pc EXCEPT ![c] = l]
                 /\ l = "ended" => fut[c] = "cancelled"
                 /\ l = "act" => Digit(c)
<1>1. ASSUME NEW m, NEW r, Collect(c, m, r) PROVE Leads
  BY <1>1 DEF Collect
<1>2. ASSUME NEW l \in {"wait", "bridge", "cleanup"}, GoTo(c, l) PROVE Leads
  BY <1>2 DEF GoTo
<1>3. ASSUME Digit(c) \/ Cancelled(c) PROVE Leads
  <2>1. CASE Digit(c)
    <3>1. pc' = [pc EXCEPT ![c] = "act"]
      BY <2>1 DEF Digit
    <3>2. QED
      BY <2>1, <3>1
  <2>2. CASE Cancelled(c)
    BY <2>2 DEF Cancelled
  <2>3. QED
    BY <1>3, <2>1, <2>2
<1>4. CASE Begin(c)
  <2>1. (\E n \in Menus, k \in 0 .. MaxRetries - 1 : Collect(c, n, k)) \/ GoTo(c, "cleanup")
    BY <1>4, EnterMoves DEF Begin, Menus
  <2>2. UNCHANGED <<bridge, peer, bridged, refused, chan>> /\ pc[c] = "begin"
    BY <1>4 DEF Begin, asterisk, history
  <2>3. Leads
    BY <1>1, <1>2, <2>1
  <2>4. QED
    BY <2>2, <2>3
<1>5. CASE Prompted(c) \/ Resume(c)
  <2>1. GoTo(c, "wait") \/ Digit(c) \/ Cancelled(c)
    BY <1>5 DEF Prompted, Resume
  <2>2. UNCHANGED <<bridge, peer, bridged, refused, chan>> /\ pc[c] \in {"prompt", "wait"}
    BY <1>5 DEF Prompted, Resume, asterisk
  <2>3. Leads
    BY <1>2, <1>3, <2>1
  <2>4. QED
    BY <2>2, <2>3
<1>6. CASE Timeout(c)
  <2>1. pc' = [pc EXCEPT ![c] = "cleanup"] \/ Collect(c, "main", 0)
    BY <1>6 DEF Timeout
  <2>2. UNCHANGED <<bridge, peer, bridged, refused, chan>> /\ pc[c] = "wait"
    BY <1>6 DEF Timeout, asterisk, history
  <2>3. Leads
    BY <1>1, <2>1
  <2>4. QED
    BY <2>2, <2>3
<1>7. CASE Act(c)
  <2>1. UNCHANGED <<bridge, peer, bridged, refused, chan>> /\ pc[c] = "act"
    BY <1>7 DEF Act, asterisk, history
  <2>2. Leads
    BY <1>1, <1>2, <1>7, ActMoves
  <2>3. QED
    BY <2>1, <2>2
<1>8. QED
  BY <1>4, <1>5, <1>6, <1>7 DEF Early

\* Steps that touch no task, bridge flag or peer.
LEMMA OthersIdle ==
    ASSUME [Next]_vars
    PROVE  \/ UNCHANGED <<pc, bridge, peer>>
           \/ \E c \in Channels : Task(c)
BY DEF Next, Dispatch, Reconnect, DispatchStart, DispatchDtmf, DeliverDigit, DispatchHangup,
       HangupPublished, Party, Arrive, Answer, Press, HangUp, Destroy, Drop, tasks, vars

\* Every step keeps the bridges and peers matched.
LEMMA LegsStep == Typed /\ Legs /\ TasksTrue /\ [Next]_vars => Legs'
<1> SUFFICES ASSUME Typed, Legs, TasksTrue, [Next]_vars PROVE Legs'
  OBVIOUS
<1>0. /\ pc \in [Channels -> Locations]
      /\ peer \in [Channels -> Outbound \union {NoChannel}]
      /\ bridge \in [Channels -> BOOLEAN]
      /\ NoChannel \notin Outbound
  BY ChannelsAssumption DEF Typed, TasksTyped, Truths, Channels
<1>1. CASE UNCHANGED <<pc, bridge, peer>>
  BY <1>1 DEF Legs
<1>2. ASSUME NEW c \in Channels, Early(c) PROVE Legs'
  <2>1. pc[c] \in {"begin", "prompt", "wait", "act"} /\ UNCHANGED <<bridge, peer>>
    BY <1>2, EarlyPlaces
  <2>2. PICK l \in {"prompt", "wait", "act", "bridge", "cleanup", "ended"} :
            pc' = [pc EXCEPT ![c] = l]
    BY <1>2, EarlyPlaces
  <2>3. bridge[c] = FALSE /\ peer[c] = NoChannel
    BY <2>1 DEF Legs
  <2>4. QED
    BY <1>0, <2>1, <2>2, <2>3 DEF Legs
<1>3. ASSUME NEW c \in Channels, StartSession(c) PROVE Legs'
  <2>1. pc[c] = "none" /\ pc' = [pc EXCEPT ![c] = "begin"] /\ UNCHANGED <<bridge, peer>>
    BY <1>3 DEF StartSession, TasksTrue
  <2>2. bridge[c] = FALSE /\ peer[c] = NoChannel
    BY <2>1 DEF Legs
  <2>3. QED
    BY <1>0, <2>1, <2>2 DEF Legs
<1>4. ASSUME NEW c \in Channels, CreateBridge(c) PROVE Legs'
  <2>1. peer' = peer /\ pc[c] = "bridge"
        /\ \/ bridge' = [bridge EXCEPT ![c] = TRUE] /\ pc' = [pc EXCEPT ![c] = "dial"]
           \/ bridge' = bridge /\ pc' = [pc EXCEPT ![c] = "cleanup"]
    BY <1>4 DEF CreateBridge, GoTo
  <2>2. bridge[c] = FALSE /\ peer[c] = NoChannel
    BY <2>1 DEF Legs
  <2>3. QED
    BY <1>0, <2>1, <2>2 DEF Legs
<1>5. ASSUME NEW c \in Channels, Dial(c) PROVE Legs'
  <2>1. pc[c] = "dial"
        /\ \/ /\ \E o \in Outbound : peer' = [peer EXCEPT ![c] = o]
              /\ pc' = [pc EXCEPT ![c] = "join"] /\ bridge' = bridge
           \/ /\ bridge' = [bridge EXCEPT ![c] = FALSE]
              /\ pc' = [pc EXCEPT ![c] = "cleanup"] /\ peer' = peer
    BY <1>5 DEF Dial, GoTo
  <2>2. bridge[c] = TRUE /\ peer[c] = NoChannel
    BY <2>1 DEF Legs
  <2>3. QED
    BY <1>0, <2>1, <2>2 DEF Legs
<1>6. ASSUME NEW c \in Channels, JoinCaller(c) \/ JoinPeer(c) \/ Announce(c) PROVE Legs'
  <2>1. /\ UNCHANGED <<bridge, peer>> /\ pc[c] \in {"join", "join_peer", "announce"}
        /\ \E l \in {"join_peer", "announce", "ended"} : pc' = [pc EXCEPT ![c] = l]
    BY <1>6 DEF JoinCaller, JoinPeer, Announce, GoTo
  <2>2. bridge[c] = TRUE /\ peer[c] \in Outbound
    BY <2>1 DEF Legs
  <2>3. QED
    BY <1>0, <2>1, <2>2 DEF Legs
<1>7. ASSUME NEW c \in Channels, Cleanup(c) PROVE Legs'
  <2>1. UNCHANGED <<bridge, peer>> /\ pc[c] = "cleanup" /\ pc' = [pc EXCEPT ![c] = "ended"]
    BY <1>7 DEF Cleanup, GoTo
  <2>2. bridge[c] = FALSE /\ peer[c] = NoChannel
    BY <2>1 DEF Legs
  <2>3. QED
    BY <1>0, <2>1, <2>2 DEF Legs
<1>8. QED
  BY <1>1, <1>2, <1>3, <1>4, <1>5, <1>6, <1>7, OthersIdle DEF Task, Early

-----------------------------------------------------------------------------
(* Callers in limbo.                                                       *)

Settled(c) == c \in refused \/ \E b \in Channels : c \in bridged[b]

\* From the step that puts the caller into its bridge on, it is in one.
Joined ==
    \A c \in Channels :
        pc[c] \in {"join_peer", "announce", "ended"} /\ chan[c] = "stasis" => Settled(c)

\* Who is in a bridge stays in one when somebody joins.
LEMMA JoinsSettles ==
    ASSUME Typed, NEW c \in Channels, NEW m, Joins(c, m)
    PROVE  /\ \A d \in Channels : Settled(d) => Settled(d)'
           /\ chan[m] = "stasis" => Settled(m)'
BY DEF Joins, Settled, Typed, AsteriskTyped

\* Every step leaves callers either on their way or settled.
LEMMA JoinedStep == Typed /\ Legs /\ TasksTrue /\ Joined /\ [Next]_vars => Joined'
<1> SUFFICES ASSUME Typed, Legs, TasksTrue, Joined, [Next]_vars PROVE Joined'
  OBVIOUS
<1>0. pc \in [Channels -> Locations] /\ \A c \in Channels : pc[c] \in Locations
  BY DEF Typed, TasksTyped
<1>1. ASSUME NEW c \in Channels, Early(c) PROVE Joined'
  <2>1. pc[c] \in {"begin", "prompt", "wait", "act"} /\ UNCHANGED <<bridged, refused, chan>>
    BY <1>1, EarlyPlaces
  <2>2. PICK l \in {"prompt", "wait", "act", "bridge", "cleanup", "ended"} :
            pc' = [pc EXCEPT ![c] = l] /\ (l = "ended" => fut[c] = "cancelled")
    BY <1>1, EarlyPlaces
  <2>3. l = "ended" => chan[c] \in {"hanging", "gone"}
    BY <2>2 DEF TasksTrue
  <2>4. QED
    BY <1>0, <2>1, <2>2, <2>3 DEF Joined, Settled
<1>2. ASSUME NEW c \in Channels, StartSession(c) \/ CreateBridge(c) PROVE Joined'
  <2>1. /\ UNCHANGED <<bridged, refused, chan>>
        /\ \E l \in {"begin", "dial", "cleanup"} : pc' = [pc EXCEPT ![c] = l]
    BY <1>2 DEF StartSession, CreateBridge, GoTo, asterisk, history
  <2>2. QED
    BY <1>0, <2>1 DEF Joined, Settled
<1>3. ASSUME NEW c \in Channels, Dial(c) PROVE Joined'
  <2>1. /\ UNCHANGED <<bridged, refused>>
        /\ \E l \in {"join", "cleanup"} : pc' = [pc EXCEPT ![c] = l]
    BY <1>3 DEF Dial, GoTo, history
  <2>2. \A d \in Channels : chan'[d] = "stasis" => chan[d] = "stasis"
    BY <1>3 DEF Dial
  <2>3. QED
    BY <1>0, <2>1, <2>2 DEF Joined, Settled
<1>4. ASSUME NEW c \in Channels, JoinCaller(c) PROVE Joined'
  <2>1. chan' = chan /\ pc' = [pc EXCEPT ![c] = "join_peer"] /\ Joins(c, c)
    BY <1>4, AddJoins DEF JoinCaller, GoTo
  <2>2. /\ \A d \in Channels : Settled(d) => Settled(d)'
        /\ chan[c] = "stasis" => Settled(c)'
    BY <2>1, JoinsSettles
  <2>3. QED
    BY <1>0, <2>1, <2>2 DEF Joined
<1>5. ASSUME NEW c \in Channels, JoinPeer(c) PROVE Joined'
  <2>1. peer[c] \in Channels /\ pc[c] = "join_peer"
    BY <1>5 DEF JoinPeer, Legs, Channels
  <2>2. chan' = chan /\ pc' = [pc EXCEPT ![c] = "announce"] /\ Joins(c, peer[c])
    BY <1>5, <2>1, AddJoins DEF JoinPeer, GoTo
  <2>3. \A d \in Channels : Settled(d) => Settled(d)'
    BY <2>2, JoinsSettles
  <2>4. QED
    BY <1>0, <2>1, <2>2, <2>3 DEF Joined
<1>6. ASSUME NEW c \in Channels, Announce(c) PROVE Joined'
  <2>1. /\ UNCHANGED <<bridged, refused, chan>> /\ pc[c] = "announce"
        /\ pc' = [pc EXCEPT ![c] = "ended"]
    BY <1>6 DEF Announce, GoTo, asterisk, history
  <2>2. QED
    BY <1>0, <2>1 DEF Joined, Settled
<1>7. ASSUME NEW c \in Channels, Cleanup(c) PROVE Joined'
  <2>1. bridged' = bridged /\ pc' = [pc EXCEPT ![c] = "ended"]
        /\ \/ chan' = [chan EXCEPT ![c] = "hanging"] /\ refused' = refused
           \/ /\ chan' = chan
              /\ refused' = IF Live(c) THEN refused \union {c} ELSE refused
    BY <1>7 DEF Cleanup, GoTo
  <2>2. chan'[c] = "stasis" => c \in refused'
    BY <2>1 DEF Live, Typed, AsteriskTyped
  <2>3. \A d \in Channels : /\ Settled(d) => Settled(d)'
                            /\ d # c => pc'[d] = pc[d] /\ chan'[d] = chan[d]
    BY <1>0, <2>1 DEF Settled, Typed, AsteriskTyped
  <2>4. QED
    BY <2>2, <2>3 DEF Joined, Settled
<1>8. ASSUME NEW c \in Channels, Arrive(c) \/ Answer(c) PROVE Joined'
  <2>1. UNCHANGED <<pc, bridged, refused>> /\ chan[c] \in {"none", "ringing"}
        /\ \A d \in Channels : d # c => chan'[d] = chan[d]
    BY <1>8 DEF Arrive, Answer, tasks, history, Typed, AsteriskTyped
  <2>2. pc[c] = "none"
    BY <2>1 DEF TasksTrue
  <2>3. QED
    BY <2>1, <2>2 DEF Joined, Settled
<1>9. ASSUME NEW c \in Channels, HangUp(c) \/ Destroy(c) PROVE Joined'
  <2>1. /\ UNCHANGED <<pc, refused>> /\ chan'[c] # "stasis"
        /\ \A d \in Channels : d # c => chan'[d] = chan[d]
        /\ bridged' = bridged \/ bridged' = [b \in Channels |-> bridged[b] \ {c}]
    BY <1>9 DEF HangUp, Destroy, tasks, history, Typed, AsteriskTyped
  <2>2. QED
    BY <2>1 DEF Joined, Settled
<1>10. CASE Dispatch \/ Drop \/ (\E c \in Channels : Press(c)) \/ UNCHANGED vars
  <2>1. UNCHANGED <<pc, chan, bridged, refused>>
    BY <1>10 DEF Dispatch, Reconnect, DispatchStart, DispatchDtmf, DeliverDigit,
                 DispatchHangup, HangupPublished, Drop, Press, asterisk, tasks, history, vars
  <2>2. QED
    BY <2>1 DEF Joined, Settled
<1>11. QED
  BY <1>1, <1>2, <1>3, <1>4, <1>5, <1>6, <1>7, <1>8, <1>9, <1>10
  DEF Next, Task, Early, Party

-----------------------------------------------------------------------------
(* Digits.                                                                 *)

Dtmf(e) == e.type = "ChannelDtmfReceived"

\* From the caller's finger to the menu, later digits are behind earlier ones: on the
\* wire, in the dispatcher, in the future, and in the menu that acts on them.
WireInOrder ==
    /\ \A i \in 1 .. Len(wire) : Dtmf(wire[i]) =>
          /\ got[wire[i].channel] < wire[i].digit
          /\ wire[i].digit <= pressed[wire[i].channel]
          /\ \A h \in handling : Dtmf(h) /\ h.channel = wire[i].channel => h.digit < wire[i].digit
    /\ \A i, j \in 1 .. Len(wire) :
          i < j /\ Dtmf(wire[i]) /\ Dtmf(wire[j]) /\ wire[i].channel = wire[j].channel
             => wire[i].digit < wire[j].digit

HandInOrder ==
    /\ \A h \in handling : Dtmf(h) =>
          got[h.channel] < h.digit /\ h.digit <= pressed[h.channel]
    /\ \A g, h \in handling : g = h

FutInOrder ==
    \A c \in Channels :
        /\ last[c] <= got[c] /\ got[c] <= pressed[c]
        /\ fut[c] = "done" => last[c] < got[c]

Ordered == WireInOrder /\ HandInOrder /\ FutInOrder

\* The wire moves on, while nothing is pressed or delivered.
LEMMA WireOrderKept ==
    ASSUME Typed, WireInOrder, NEW k \in Nat, Kept(k), UNCHANGED <<got, pressed>>,
           \A h \in handling' : Dtmf(h) => h \in handling \/ (k = 1 /\ 1 \in 1 .. Len(wire) /\ h = wire[1])
    PROVE  WireInOrder'
<1>1. \A i \in 1 .. Len(wire') : i \in Nat /\ i + k \in 1 .. Len(wire) /\ wire'[i] = wire[i + k]
  BY LenProperties DEF Kept
<1>2. ASSUME NEW i \in 1 .. Len(wire'), Dtmf(wire'[i])
      PROVE  /\ got'[wire'[i].channel] < wire'[i].digit
             /\ wire'[i].digit <= pressed'[wire'[i].channel]
             /\ \A h \in handling' : Dtmf(h) /\ h.channel = wire'[i].channel
                                        => h.digit < wire'[i].digit
  <2>1. i \in Nat /\ i + k \in 1 .. Len(wire) /\ wire'[i] = wire[i + k] /\ i >= 1
    BY <1>1
  <2>2. /\ got'[wire'[i].channel] < wire'[i].digit
        /\ wire'[i].digit <= pressed'[wire'[i].channel]
    BY <1>2, <2>1 DEF WireInOrder
  <2>3. ASSUME NEW h \in handling', Dtmf(h), h.channel = wire'[i].channel
        PROVE  h.digit < wire'[i].digit
    <3>1. CASE h \in handling
      BY <1>2, <2>1, <2>3, <3>1 DEF WireInOrder
    <3>2. CASE k = 1 /\ 1 \in 1 .. Len(wire) /\ h = wire[1]
      <4>1. 1 < i + k
        BY <2>1, <3>2
      <4>2. QED
        BY <1>2, <2>1, <2>3, <3>2, <4>1 DEF WireInOrder
    <3>3. QED
      BY <2>3, <3>1, <3>2
  <2>4. QED
    BY <2>2, <2>3
<1>3. ASSUME NEW i \in 1 .. Len(wire'), NEW j \in 1 .. Len(wire'), i < j,
             Dtmf(wire'[i]), Dtmf(wire'[j]), wire'[i].channel = wire'[j].channel
      PROVE  wire'[i].digit < wire'[j].digit
  <2>1. i + k < j + k
    BY <1>1, <1>3
  <2>2. QED
    BY <1>1, <1>3, <2>1 DEF WireInOrder
<1>4. QED
  BY <1>2, <1>3 DEF WireInOrder

\* An event is sent; a digit that is sent is the last one pressed.
LEMMA WireOrderSent ==
    ASSUME Typed, Ordered, NEW c \in Channels, NEW e \in Events, e.channel = c, Sent(e),
           UNCHANGED <<got, handling>>,
           \A d \in Channels : pressed'[d] >= pressed[d] /\ pressed'[d] \in Nat,
           Dtmf(e) => e.digit = pressed[c] + 1 /\ pressed'[c] = pressed[c] + 1
    PROVE  WireInOrder'
<1>0. /\ \A i \in 1 .. Len(wire) : wire[i].channel \in Channels /\ wire[i].digit \in Nat
      /\ \A d \in Channels : pressed[d] \in Nat /\ got[d] \in Nat
      /\ \A h \in handling : h.channel \in Channels /\ h.digit \in Nat
      /\ Len(wire) \in Nat
  <2>1. \A g \in Events : g.channel \in Channels /\ g.digit \in Nat
    BY DEF Events
  <2>2. handling \subseteq Events /\ wire \in Seq(Events)
        /\ pressed \in [Channels -> Nat] /\ got \in [Channels -> Nat]
    BY DEF Typed, AsteriskTyped, TasksTyped
  <2>3. QED
    BY <2>1, <2>2, EventsOnWire, LenProperties
<1>1. ASSUME NEW i \in 1 .. Len(wire'), Dtmf(wire'[i])
      PROVE  /\ got'[wire'[i].channel] < wire'[i].digit
             /\ wire'[i].digit <= pressed'[wire'[i].channel]
             /\ \A h \in handling' : Dtmf(h) /\ h.channel = wire'[i].channel
                                        => h.digit < wire'[i].digit
  <2>1. CASE i \in 1 .. Len(wire) /\ wire'[i] = wire[i]
    <3>1. pressed'[wire[i].channel] >= pressed[wire[i].channel]
          /\ pressed'[wire[i].channel] \in Nat
      BY <1>0, <2>1
    <3>2. wire[i].digit <= pressed[wire[i].channel] /\ got[wire[i].channel] < wire[i].digit
      BY <1>1, <2>1 DEF Ordered, WireInOrder
    <3>3. wire[i].digit <= pressed'[wire[i].channel]
      BY <1>0, <2>1, <3>1, <3>2
    <3>4. QED
      BY <1>1, <2>1, <3>2, <3>3 DEF Ordered, WireInOrder
  <2>2. CASE wire'[i] = e
    <3>1. e.digit = pressed[c] + 1 /\ pressed'[c] = pressed[c] + 1
      BY <1>1, <2>2
    <3>2. got[c] < pressed[c] + 1
      BY <1>0 DEF Ordered, FutInOrder
    <3>3. \A h \in handling : Dtmf(h) /\ h.channel = c => h.digit < pressed[c] + 1
      BY <1>0 DEF Ordered, HandInOrder
    <3>4. pressed[c] + 1 <= pressed[c] + 1
      BY <1>0
    <3>5. QED
      BY <2>2, <3>1, <3>2, <3>3, <3>4
  <2>3. QED
    BY <2>1, <2>2 DEF Sent
<1>2. ASSUME NEW i \in 1 .. Len(wire'), NEW j \in 1 .. Len(wire'), i < j,
             Dtmf(wire'[i]), Dtmf(wire'[j]), wire'[i].channel = wire'[j].channel
      PROVE  wire'[i].digit < wire'[j].digit
  <2>1. i \in 1 .. Len(wire) /\ wire'[i] = wire[i]
    BY <1>0, <1>2 DEF Sent
  <2>2. CASE j \in 1 .. Len(wire) /\ wire'[j] = wire[j]
    BY <1>2, <2>1, <2>2 DEF Ordered, WireInOrder
  <2>3. CASE wire'[j] = e
    <3>1. e.digit = pressed[c] + 1 /\ wire[i].digit <= pressed[c]
      BY <1>2, <2>1, <2>3 DEF Ordered, WireInOrder
    <3>2. QED
      BY <1>0, <2>1, <2>3, <3>1
  <2>4. QED
    BY <2>2, <2>3 DEF Sent
<1>3. QED
  BY <1>1, <1>2 DEF WireInOrder

\* Every step keeps the digits in order.
LEMMA OrderedStep == Typed /\ Legs /\ Ordered /\ [Next]_vars => Ordered'
<1> SUFFICES ASSUME Typed, Legs, Ordered, [Next]_vars PROVE Ordered'
  OBVIOUS
<1>0. /\ wire \in Seq(Events) /\ handling \subseteq Events /\ 0 \in Nat /\ 1 \in Nat /\ 0 # 1
      /\ \A c \in Channels : /\ last[c] \in Nat /\ got[c] \in Nat /\ pressed[c] \in Nat
      /\ pressed \in [Channels -> Nat] /\ got \in [Channels -> Nat]
      /\ last \in [Channels -> Nat]
      /\ \A e \in Events : e.channel \in Channels /\ e.digit \in Nat
  BY DEF Typed, AsteriskTyped, TasksTyped, Events
<1>i. WireInOrder /\ HandInOrder /\ FutInOrder
  BY DEF Ordered
<1>1. ASSUME UNCHANGED <<wire, got, pressed>>, handling' \subseteq handling
      PROVE  WireInOrder' /\ HandInOrder'
  BY <1>i, <1>1 DEF WireInOrder, HandInOrder
<1>2. ASSUME UNCHANGED <<got, last>>,
             \A c \in Channels : pressed'[c] >= pressed[c] /\ pressed'[c] \in Nat,
             \A c \in Channels : fut'[c] = "done" => fut[c] = "done"
      PROVE  FutInOrder'
  BY <1>0, <1>i, <1>2 DEF FutInOrder
<1>3. \A c \in Channels : pressed[c] >= pressed[c]
  BY <1>0
<1>4. ASSUME NEW c \in Channels, Inner(c) PROVE Ordered'
  <2>1. UNCHANGED <<wire, got, pressed, handling>>
    BY <1>4, InnerIdles DEF Idles
  <2>2. FutInOrder'
    <3>1. Listens(c)
      BY <1>4, InnerListens
    <3>2. CASE Digit(c)
      <4>1. fut[c] = "done" /\ last' = [last EXCEPT ![c] = got[c]]
            /\ fut' = [fut EXCEPT ![c] = "none"]
        BY <3>2 DEF Digit
      <4>2. \A d \in Channels : /\ last'[d] = IF d = c THEN got[d] ELSE last[d]
                                /\ fut'[d] = IF d = c THEN "none" ELSE fut[d]
        BY <4>1 DEF Typed, TasksTyped
      <4>3. ASSUME NEW d \in Channels
            PROVE  /\ last'[d] <= got'[d] /\ got'[d] <= pressed'[d]
                   /\ fut'[d] = "done" => last'[d] < got'[d]
        <5>1. /\ last[d] <= got[d] /\ got[d] <= pressed[d] /\ got[d] <= got[d]
              /\ fut[d] = "done" => last[d] < got[d]
          BY <1>0, <1>i DEF FutInOrder
        <5>2. CASE d = c
          BY <2>1, <4>2, <5>1, <5>2
        <5>3. CASE d # c
          BY <2>1, <4>2, <5>1, <5>3
        <5>4. QED
          BY <5>2, <5>3
      <4>4. QED
        BY <4>3 DEF FutInOrder
    <3>3. CASE ~Digit(c)
      <4>1. last' = last /\ \A d \in Channels : fut'[d] = "done" => fut[d] = "done"
        BY <3>1, <3>3 DEF Listens, Collect, Typed, TasksTyped
      <4>2. QED
        BY <1>0, <1>2, <1>3, <2>1, <4>1
    <3>4. QED
      BY <3>2, <3>3
  <2>3. QED
    BY <1>1, <2>1, <2>2 DEF Ordered
<1>5. CASE DeliverDigit
  <2>1. PICK e \in handling :
            /\ Dtmf(e) /\ handling' = handling \ {e}
            /\ IF fut[e.channel] = "pending"
               THEN /\ fut' = [fut EXCEPT ![e.channel] = "done"]
                    /\ got' = [got EXCEPT ![e.channel] = e.digit]
               ELSE UNCHANGED <<fut, got>>
    BY <1>5 DEF DeliverDigit, Dtmf
  <2>2. UNCHANGED <<wire, pressed, last>>
    BY <1>5 DEF DeliverDigit, asterisk, history
  <2>3. CASE fut[e.channel] = "pending"
    <3> DEFINE c == e.channel
    <3>1. c \in Channels /\ e.digit \in Nat /\ got[c] < e.digit /\ e.digit <= pressed[c]
      BY <1>0, <1>i, <2>1 DEF HandInOrder
    <3>2. \A d \in Channels : /\ got'[d] = IF d = c THEN e.digit ELSE got[d]
                              /\ fut'[d] = IF d = c THEN "done" ELSE fut[d]
      BY <2>1, <2>3 DEF Typed, TasksTyped
    <3>3. handling' = {}
      BY <1>i, <2>1 DEF HandInOrder
    <3>4. WireInOrder'
      <4>1. ASSUME NEW i \in 1 .. Len(wire), Dtmf(wire[i])
            PROVE  got'[wire[i].channel] < wire[i].digit
                   /\ wire[i].digit <= pressed[wire[i].channel]
        BY <1>0, <1>i, <2>1, <3>2, <4>1, EventsOnWire DEF WireInOrder
      <4>2. QED
        BY <1>i, <2>2, <3>3, <4>1 DEF WireInOrder
    <3>5. HandInOrder'
      BY <3>3 DEF HandInOrder
    <3>6. FutInOrder'
      <4>1. last[c] < e.digit
        BY <1>0, <1>i, <3>1 DEF FutInOrder
      <4>2. QED
        BY <1>0, <1>i, <2>2, <3>1, <3>2, <4>1 DEF FutInOrder
    <3>7. QED
      BY <3>4, <3>5, <3>6 DEF Ordered
  <2>4. CASE fut[e.channel] # "pending"
    BY <1>0, <1>1, <1>2, <1>3, <2>1, <2>2, <2>4 DEF Ordered
  <2>5. QED
    BY <2>3, <2>4
<1>6. CASE DispatchStart \/ DispatchDtmf \/ DispatchHangup
  <2>1. PICK t : Take(t)
    BY <1>6 DEF DispatchStart, DispatchDtmf, DispatchHangup
  <2>2. Kept(1) /\ 1 \in 1 .. Len(wire) /\ wire[1] = Head(wire) /\ handling = {}
    BY <1>0, <2>1, TakeKeeps DEF Take
  <2>3. /\ UNCHANGED <<got, pressed, last>>
        /\ handling' = {} \/ handling' = {wire[1]}
    BY <1>6, <2>2 DEF DispatchStart, DispatchDtmf, DispatchHangup, tasks, history
  <2>4. WireInOrder'
    BY <1>0, <1>i, <2>2, <2>3, WireOrderKept
  <2>5. HandInOrder'
    BY <1>i, <2>2, <2>3 DEF HandInOrder, WireInOrder
  <2>6. \A c \in Channels : fut'[c] = "done" => fut[c] = "done"
    BY <1>6 DEF DispatchStart, DispatchDtmf, DispatchHangup, tasks, Typed, TasksTyped
  <2>7. QED
    BY <1>0, <1>2, <1>3, <2>3, <2>4, <2>5, <2>6 DEF Ordered
<1>7. CASE Reconnect \/ HangupPublished \/ \E c \in Channels : StartSession(c) \/ Dial(c)
  <2>1. UNCHANGED <<wire, got, pressed, last, fut>> /\ handling' \subseteq handling
    BY <1>7 DEF Reconnect, HangupPublished, StartSession, Dial, GoTo, asterisk, dispatcher,
                tasks, history
  <2>2. QED
    BY <1>0, <1>1, <1>2, <1>3, <2>1 DEF Ordered
<1>8. ASSUME NEW c \in Channels, Cleanup(c) \/ Party(c) \/ Destroy(c) PROVE Ordered'
  <2>1. UNCHANGED <<got, last, fut, handling>>
    BY <1>8 DEF Cleanup, GoTo, Party, Arrive, Answer, Press, HangUp, Destroy,
                dispatcher, tasks, history
  <2>2. \A d \in Channels : pressed'[d] >= pressed[d] /\ pressed'[d] \in Nat
    <3>1. pressed' = pressed \/ pressed' = [pressed EXCEPT ![c] = @ + 1]
      BY <1>8 DEF Cleanup, Party, Arrive, Answer, Press, HangUp, Destroy
    <3>2. \A n \in Nat : n >= n /\ n + 1 >= n /\ n + 1 \in Nat
      OBVIOUS
    <3>3. QED
      BY <1>0, <3>1, <3>2
  <2>3. wire' = wire \/ \E e \in Events :
            /\ e.channel = c /\ Emit(e)
            /\ Dtmf(e) => e.digit = pressed[c] + 1 /\ pressed'[c] = pressed[c] + 1
    <3>1. CASE Press(c)
      <4>1. Emit(DtmfEvent(c)) /\ pressed'[c] = pressed[c] + 1
        BY <1>0, <3>1 DEF Press
      <4>2. QED
        BY <1>0, <4>1, ChannelEvents
    <3>2. CASE ~Press(c)
      <4>1. \/ wire' = wire
            \/ \E t \in EventType \ {"ChannelDtmfReceived"} : Emit(Event(t, c))
        BY <1>8, <3>2 DEF Cleanup, Party, Arrive, Answer, HangUp, Destroy, EventType
      <4>2. QED
        BY <4>1, ChannelEvents DEF Dtmf
    <3>3. QED
      BY <3>1, <3>2
  <2>4. WireInOrder'
    <3>1. CASE wire' = wire
      <4>1. ASSUME NEW i \in 1 .. Len(wire), Dtmf(wire[i])
            PROVE  wire[i].digit <= pressed'[wire[i].channel]
        <5>1. /\ wire[i].digit <= pressed[wire[i].channel] /\ wire[i].digit \in Nat
              /\ wire[i].channel \in Channels
          BY <1>0, <1>i, <4>1, EventsOnWire DEF WireInOrder
        <5>2. QED
          BY <1>0, <2>2, <5>1
      <4>2. QED
        BY <1>i, <2>1, <3>1, <4>1 DEF WireInOrder
    <3>2. CASE wire' # wire
      <4>1. PICK e \in Events :
                /\ e.channel = c /\ Emit(e)
                /\ Dtmf(e) => e.digit = pressed[c] + 1 /\ pressed'[c] = pressed[c] + 1
        BY <2>3, <3>2
      <4>2. Sent(e)
        <5>1. wire' = Append(wire, e)
          BY <3>2, <4>1 DEF Emit
        <5>2. /\ Append(wire, e) \in Seq(Events)
              /\ Len(Append(wire, e)) = Len(wire) + 1
              /\ \A i \in 1 .. Len(wire) : Append(wire, e)[i] = wire[i]
              /\ Append(wire, e)[Len(wire) + 1] = e
          BY <1>0, AppendProperties
        <5>3. Len(wire) \in Nat
          BY <1>0, LenProperties
        <5>4. QED
          BY <5>1, <5>2, <5>3 DEF Sent
      <4>3. QED
        BY <2>1, <2>2, <4>1, <4>2, WireOrderSent
    <3>3. QED
      BY <3>1, <3>2
  <2>5. HandInOrder'
    <3>1. ASSUME NEW h \in handling, Dtmf(h) PROVE h.digit <= pressed'[h.channel]
      <4>1. /\ h.digit <= pressed[h.channel] /\ h.digit \in Nat /\ h.channel \in Channels
        BY <1>0, <1>i, <3>1 DEF HandInOrder
      <4>2. QED
        BY <1>0, <2>2, <4>1
    <3>2. QED
      BY <1>i, <2>1, <3>1 DEF HandInOrder
  <2>6. FutInOrder'
    BY <1>2, <2>1, <2>2
  <2>7. QED
    BY <2>4, <2>5, <2>6 DEF Ordered
<1>9. CASE Drop
  <2>1. /\ UNCHANGED <<got, pressed, last, fut, handling>>
        /\ \E n \in 0 .. Len(wire) : wire' = SubSeq(wire, 1, n)
    BY <1>9 DEF Drop, dispatcher, tasks
  <2>2. Kept(0)
    BY <1>0, <2>1, CutKeeps
  <2>3. WireInOrder'
    BY <1>0, <1>i, <2>1, <2>2, WireOrderKept
  <2>4. HandInOrder' /\ FutInOrder'
    BY <1>i, <2>1 DEF HandInOrder, FutInOrder
  <2>5. QED
    BY <2>3, <2>4 DEF Ordered
<1>10. CASE UNCHANGED vars
  BY <1>i, <1>10 DEF vars, Ordered, WireInOrder, HandInOrder, FutInOrder
<1>11. QED
  BY <1>4, <1>5, <1>6, <1>7, <1>8, <1>9, <1>10 DEF Next, Dispatch, Task, Inner

-----------------------------------------------------------------------------
(* The invariant and the theorems.                                         *)

IVRInv == Typed /\ Legs /\ Entered /\ Joined /\ Ordered

\* Everything is quiet when the application starts.
LEMMA IVRInit == Init => IVRInv
<1> SUFFICES ASSUME Init PROVE IVRInv
  OBVIOUS
<1>1. 0 \in Nat /\ 0 \in 0 .. MaxRetries - 1 /\ "main" \in Menus /\ "none" \in Locations
  BY BoundsAssumption DEF Menus, Locations
<1>2. wire \in Seq(Events) /\ 1 .. Len(wire) = {}
  BY EmptySeq DEF Init
<1>3. AsteriskTyped
  BY <1>1, <1>2 DEF Init, AsteriskTyped
<1>4. TasksTyped
  BY <1>1 DEF Init, TasksTyped
<1>5. Truths
  BY DEF Init, Truths
<1>6. Legs
  BY DEF Init, Legs
<1>7. Entered
  BY <1>2 DEF Init, Entered, WireTrue, TasksTrue
<1>8. Joined
  BY DEF Init, Joined
<1>9. Ordered
  <2>1. WireInOrder
    BY <1>2 DEF WireInOrder
  <2>2. HandInOrder
    BY DEF Init, HandInOrder
  <2>3. FutInOrder
    <3>1. 0 <= 0
      OBVIOUS
    <3>2. QED
      BY <3>1 DEF Init, FutInOrder
  <2>4. QED
    BY <2>1, <2>2, <2>3 DEF Ordered
<1>10. QED
  BY <1>3, <1>4, <1>5, <1>6, <1>7, <1>8, <1>9 DEF IVRInv, Typed

\* The parts of the invariant, each kept with the help of the others.
LEMMA IVRInvariant == Spec => []IVRInv
<1>1. Init => IVRInv
  BY IVRInit
<1>2. IVRInv /\ [Next]_vars => IVRInv'
  <2> SUFFICES ASSUME IVRInv, [Next]_vars PROVE IVRInv'
    OBVIOUS
  <2>1. Typed /\ Legs /\ Entered /\ TasksTrue /\ Joined /\ Ordered
    BY DEF IVRInv, Entered
  <2>2. Typed'
    BY <2>1, TypedStep
  <2>3. Legs'
    BY <2>1, LegsStep
  <2>4. Entered'
    BY <2>1, EnteredStep
  <2>5. Joined'
    BY <2>1, JoinedStep
  <2>6. Ordered'
    BY <2>1, OrderedStep
  <2>7. QED
    BY <2>2, <2>3, <2>4, <2>5, <2>6 DEF IVRInv
<1>3. QED
  BY <1>1, <1>2, PTL DEF Spec

\* The variables keep the values the application and Asterisk give them, a session's
\* retries below MAX_RETRIES among them (_sessions, _digit_futures, IVRSession).
THEOREM Typing == Spec => []TypeOK
<1>1. IVRInv => TypeOK
  BY DEF IVRInv, Typed, AsteriskTyped, TasksTyped, Truths, TypeOK
<1>2. QED
  BY <1>1, IVRInvariant, PTL

\* A caller whose task has ended is hung up or in a bridge, unless Asterisk lost the
\* request, for any number of calls and of outbound legs (_connect_endpoint, _cleanup).
THEOREM Care == Spec => []NoLimbo
<1>1. IVRInv => NoLimbo
  BY DEF IVRInv, Joined, NoLimbo, Settled
<1>2. QED
  BY <1>1, IVRInvariant, PTL

\* But while it dials, a session holds a bridge exactly when it has the id of its party
\* (_connect_endpoint destroys the bridge it cannot use).
THEOREM Pairing == Spec => []BridgeHasLeg
<1>1. IVRInv => BridgeHasLeg
  <2> SUFFICES ASSUME Typed, Legs, NEW c \in Channels, pc[c] # "dial"
               PROVE  bridge[c] <=> peer[c] # NoChannel
    BY DEF IVRInv, BridgeHasLeg
  <2>1. pc[c] \in Locations
    BY DEF Typed, TasksTyped
  <2>2. bridge[c] \in BOOLEAN
    BY DEF Typed, Truths
  <2>3. NoChannel \notin Outbound
    BY ChannelsAssumption DEF Channels
  <2>4. CASE pc[c] \in {"none", "begin", "prompt", "wait", "act", "bridge", "cleanup"}
    BY <2>4 DEF Legs
  <2>5. CASE pc[c] \in {"join", "join_peer", "announce"}
    BY <2>3, <2>5 DEF Legs
  <2>6. CASE pc[c] = "ended"
    BY <2>2, <2>6 DEF Legs
  <2>7. QED
    BY <2>1, <2>4, <2>5, <2>6 DEF Locations
<1>2. QED
  BY <1>1, IVRInvariant, PTL

\* Menus act on the digits in the order they were pressed, and on none twice: from the
\* wire through the dispatcher into the future of the session (dispatch, on_dtmf,
\* deliver_digit).
THEOREM Obedience == Spec => DigitsInOrder
<1>1. IVRInv /\ [Next]_vars =>
         [\A c \in Channels : pc'[c] = "act" /\ pc[c] # "act" => last'[c] > last[c]]_vars
  <2> SUFFICES ASSUME IVRInv, Next, NEW c \in Channels, pc'[c] = "act", pc[c] # "act"
               PROVE  last'[c] > last[c]
    OBVIOUS
  <2>1. Typed /\ FutInOrder /\ pc \in [Channels -> Locations]
        /\ last \in [Channels -> Nat] /\ got \in [Channels -> Nat]
    BY DEF IVRInv, Ordered, Typed, TasksTyped
  <2>2. PICK d \in Channels : Task(d)
    <3>1. CASE \E d \in Channels : Task(d)
      BY <3>1
    <3>2. CASE ~ \E d \in Channels : Task(d)
      <4>1. pc' = pc
        BY <3>2 DEF Next, Dispatch, Reconnect, DispatchStart, DispatchDtmf, DeliverDigit,
                    DispatchHangup, HangupPublished, Party, Arrive, Answer, Press, HangUp,
                    Destroy, Drop, tasks
      <4>2. QED
        BY <4>1
    <3>3. QED
      BY <3>1, <3>2
  <2>3. CASE Early(d)
    <3>1. PICK l : pc' = [pc EXCEPT ![d] = l] /\ (l = "act" => Digit(d))
      BY <2>1, <2>3, EarlyPlaces
    <3>2. d = c /\ l = "act"
      BY <2>1, <3>1
    <3>3. fut[c] = "done" /\ last' = [last EXCEPT ![c] = got[c]]
      BY <3>1, <3>2 DEF Digit
    <3>4. last'[c] = got[c] /\ last[c] < got[c] /\ last[c] \in Nat /\ got[c] \in Nat
      BY <2>1, <3>3 DEF FutInOrder
    <3>5. QED
      BY <3>4
  <2>4. CASE ~Early(d)
    <3>1. PICK l \in Locations \ {"act"} : pc' = [pc EXCEPT ![d] = l]
      <4>1. {"begin", "dial", "cleanup", "join", "join_peer", "announce", "ended"}
               \subseteq Locations \ {"act"}
        BY DEF Locations
      <4>2. \E l \in {"begin", "dial", "cleanup", "join", "join_peer", "announce", "ended"} :
               pc' = [pc EXCEPT ![d] = l]
        BY <2>2, <2>4 DEF Task, Early, StartSession, CreateBridge, Dial, JoinCaller,
                          JoinPeer, Announce, Cleanup, GoTo
      <4>3. QED
        BY <4>1, <4>2
    <3>2. QED
      BY <2>1, <3>1
  <2>5. QED
    BY <2>3, <2>4
<1>2. QED
  BY <1>1, IVRInvariant, PTL DEF Spec, DigitsInOrder
=============================================================================
