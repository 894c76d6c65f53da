--------------------------- MODULE FXSPollerProofs ---------------------------
(***************************************************************************)
(* Proofs about FXSPoller, for any number of ports, any firmware wording   *)
(* and any intervals and bounds.                                           *)
(***************************************************************************)
EXTENDS FXSPoller, TLAPS

Words  == OnHook \union OffHook
Stages == {"settling", "asleep", "backing_off", "reading", "stopped"}

-----------------------------------------------------------------------------
(* Readings.                                                               *)

\* _norm_hook undoes what the firmware does to a hook state.
LEMMA NormUndoesReport ==
    /\ \A h \in Hooks : Report[h] \in Words /\ Norm(Report[h]) = h
    /\ \A v \in Words : Norm(v) \in Hooks
    /\ Norm(Empty) = Empty
    /\ {None, Empty} \cap Hooks = {} /\ None # Empty
BY ReportAssumption DEF Words, Hooks, OnHook, OffHook, Norm, None, Empty

\* What is recorded, of a port that has the reading v.
LEMMA RecordedValue ==
    ASSUME NEW p \in Ports, vals[p] \in Words \union {Empty},
           last[p] \in Hooks \union {None, Empty}
    PROVE  /\ Recorded(p) \in {last[p], Norm(vals[p])}
           /\ Recorded(p) \in Hooks \union {Empty}
           /\ last[p] = None => Recorded(p) = Norm(vals[p])
           /\ last[p] = Empty => Recorded(p) = Empty
           /\ last[p] \in Hooks => Recorded(p) \in Hooks
           /\ last[p] # None /\ Recorded(p) # last[p] =>
                 vals[p] # Empty /\ Recorded(p) = Norm(vals[p]) /\ last[p] # Empty
           /\ last[p] \in Hooks /\ vals[p] # Empty => Recorded(p) = Norm(vals[p])
<1>1. /\ vals[p] # Empty => Norm(vals[p]) \in Hooks
      /\ vals[p] = Empty => Norm(vals[p]) = Empty
  BY NormUndoesReport
<1>2. None \notin Hooks /\ Empty \notin Hooks /\ None # Empty
  BY NormUndoesReport
<1>3. QED
  BY <1>1, <1>2 DEF Recorded

-----------------------------------------------------------------------------
(* Types.                                                                  *)

\* The types at the start.
LEMMA TypedInit == Init => TypeOK
<1> SUFFICES ASSUME Init PROVE TypeOK
  OBVIOUS
<1>1. held \in BOOLEAN
  BY DEF Init
<1>2. backoff \in PollInterval .. MaxBackoff /\ key \in 1 .. 2 * NumPorts + 1
  BY TimesAssumption, PortsAssumption DEF Init
<1>3. strikes \in 0 .. MaxStrikes /\ lockLeft \in 0 .. LockTime /\ faults \in 0 .. MaxFaults
  BY TimesAssumption, BoundsAssumption DEF Init
<1>4. flips \in [Ports -> 0 .. MaxFlips] /\ emitted \in [Ports -> Nat]
  BY BoundsAssumption DEF Init
<1>5. QED
  BY <1>1, <1>2, <1>3, <1>4 DEF Init, TypeOK

\* What the poller, the device and the history have for types.
PollerTyped ==
    /\ stage \in Stages
    /\ backoff \in PollInterval .. MaxBackoff
    /\ key \in 1 .. 2 * NumPorts + 1
    /\ vals \in [Ports -> Words \union {Empty}]
    /\ last \in [Ports -> Hooks \union {None, Empty}]

DeviceTyped ==
    /\ hook \in [Ports -> Hooks]
    /\ strikes \in 0 .. MaxStrikes
    /\ lockLeft \in 0 .. LockTime
    /\ faults \in 0 .. MaxFaults

HistoryTyped ==
    /\ flips \in [Ports -> 0 .. MaxFlips]
    /\ emitted \in [Ports -> Nat]
    /\ recent \in [Ports -> SUBSET Hooks]

\* Every step keeps the types.
LEMMA TypedStep == TypeOK /\ [Next]_vars => TypeOK'
<1> SUFFICES ASSUME PollerTyped, DeviceTyped, HistoryTyped, held \in BOOLEAN, [Next]_vars
             PROVE  /\ PollerTyped' /\ DeviceTyped' /\ HistoryTyped'
                    /\ held' \in BOOLEAN
  BY DEF TypeOK, PollerTyped, DeviceTyped, HistoryTyped, Stages, Words
<1> USE PortsAssumption, TimesAssumption, BoundsAssumption
<1>1. CASE Wake
  <2>1. PollerTyped'
    BY <1>1 DEF Wake, PollerTyped, Stages, Least
  <2>2. Nap[stage] \in Nat
    <3>1. backoff \in Nat
      BY DEF PollerTyped
    <3>2. QED
      BY <1>1, <3>1 DEF Wake, Nap
  <2>3. DeviceTyped' /\ HistoryTyped'
    BY <1>1, <2>2 DEF Wake, DeviceTyped, HistoryTyped, Monus
  <2>4. QED
    BY <1>1, <2>1, <2>3 DEF Wake
<1>2. CASE Read
  <2>1. PICK v \in IF key \in Ports THEN {Report[hook[key]]} ELSE {Empty} : Returns(v)
    BY <1>2 DEF Read
  <2>2. v \in Words \union {Empty}
    BY <2>1, NormUndoesReport DEF DeviceTyped
  <2>3. PollerTyped'
    BY <1>2, <2>1, <2>2 DEF Read, Reading, Returns, PollerTyped
  <2>4. DeviceTyped' /\ HistoryTyped'
    BY <1>2, <2>1 DEF Read, Returns, history, DeviceTyped, HistoryTyped
  <2>5. held' = TRUE
    BY <1>2 DEF Read
  <2>6. QED
    BY <2>3, <2>4, <2>5
<1>3. CASE ReadNothing
  <2>1. PollerTyped'
    BY <1>3 DEF ReadNothing, Reading, Returns, PollerTyped
  <2>2. DeviceTyped' /\ HistoryTyped'
    BY <1>3 DEF ReadNothing, Returns, history, DeviceTyped, HistoryTyped
  <2>3. held' = FALSE
    BY <1>3 DEF ReadNothing
  <2>4. QED
    BY <2>1, <2>2, <2>3
<1>4. CASE ReadFails
  BY <1>4 DEF ReadFails, Raise, PollerTyped, DeviceTyped, HistoryTyped, Stages
<1>5. CASE LoginRefused
  <2>1. PollerTyped' /\ HistoryTyped'
    BY <1>5 DEF LoginRefused, Raise, PollerTyped, HistoryTyped, Stages
  <2>2. DeviceTyped'
    BY <1>5 DEF LoginRefused, Raise, DeviceTyped, Least
  <2>3. QED
    BY <1>5, <2>1, <2>2 DEF LoginRefused
<1>6. CASE Process
  <2>1. \A p \in Ports : Recorded(p) \in Hooks \union {None, Empty}
    BY RecordedValue DEF PollerTyped
  <2>2. PollerTyped'
    BY <1>6, <2>1 DEF Process, PollerTyped, Stages
  <2>3. emitted' \in [Ports -> Nat]
    BY <1>6 DEF Process, HistoryTyped
  <2>4. QED
    BY <1>6, <2>2, <2>3 DEF Process, device, DeviceTyped, HistoryTyped
<1>7. CASE Stop
  BY <1>7 DEF Stop, device, history, PollerTyped, DeviceTyped, HistoryTyped, Stages
<1>8. CASE Evict
  <2>1. PollerTyped' /\ DeviceTyped' /\ HistoryTyped'
    BY <1>8 DEF Evict, poller, history, PollerTyped, DeviceTyped, HistoryTyped
  <2>2. held' = FALSE
    BY <1>8 DEF Evict
  <2>3. QED
    BY <2>1, <2>2
<1>9. ASSUME NEW p \in Ports, Flip(p)
      PROVE  PollerTyped' /\ DeviceTyped' /\ HistoryTyped' /\ held' \in BOOLEAN
  BY <1>9 DEF Flip, poller, PollerTyped, DeviceTyped, HistoryTyped
<1>10. CASE UNCHANGED vars
  BY <1>10 DEF vars, PollerTyped, DeviceTyped, HistoryTyped
<1>11. QED
  BY <1>1, <1>2, <1>3, <1>4, <1>5, <1>6, <1>7, <1>8, <1>9, <1>10 DEF Next, Task

\* The types: the delay between retries stays between _POLL_INTERVAL and
\* _MAX_BACKOFF, and _last_hook never holds a wording of the firmware.
THEOREM Typing == Spec => []TypeOK
BY TypedInit, TypedStep, PTL DEF Spec

-----------------------------------------------------------------------------
(* Transitions.                                                            *)

\* The transitions it takes to get from what is recorded or read to h.
Apart(v, h) == IF v \in Hooks /\ v # h THEN 1 ELSE 0

\* The events published, and those still due to a difference between what is
\* recorded, what is read and what is so, are all accounted for by transitions;
\* and readings are recent.
Accounted ==
    \A p \in Ports :
        /\ emitted[p] + Apart(last[p], hook[p]) <= flips[p]
        /\ vals[p] # Empty => emitted[p] + Apart(last[p], Norm(vals[p]))
                              + Apart(Norm(vals[p]), hook[p]) <= flips[p]

Recent ==
    \A p \in Ports :
        /\ stage = "reading" => hook[p] \in recent[p]
        /\ stage = "reading" /\ vals[p] # Empty => Norm(vals[p]) \in recent[p]

\* A lifted or hung-up handset pays for what a reading and an event spend.
LEMMA AccountedStep == TypeOK /\ Accounted /\ [Next]_vars => Accounted'
<1> SUFFICES ASSUME TypeOK, Accounted, [Next]_vars PROVE Accounted'
  OBVIOUS
<1>0. ASSUME NEW p \in Ports
      PROVE  /\ emitted[p] \in Nat /\ flips[p] \in Nat
             /\ hook[p] \in Hooks /\ vals[p] \in Words \union {Empty}
             /\ last[p] \in Hooks \union {None, Empty}
             /\ vals[p] # Empty => Norm(vals[p]) \in Hooks
             /\ None \notin Hooks /\ Empty \notin Hooks
  BY NormUndoesReport, BoundsAssumption DEF TypeOK, Words
<1>1. CASE Wake
  BY <1>1 DEF Wake, Accounted
<1>2. ASSUME NEW v, Returns(v), v = Empty \/ (key \in Ports /\ v = Report[hook[key]]),
             hook' = hook
      PROVE  Accounted'
  <2> SUFFICES ASSUME NEW p \in Ports
               PROVE  /\ emitted'[p] + Apart(last'[p], hook'[p]) <= flips'[p]
                      /\ vals'[p] # Empty => emitted'[p] + Apart(last'[p], Norm(vals'[p]))
                              + Apart(Norm(vals'[p]), hook'[p]) <= flips'[p]
    BY DEF Accounted
  <2>1. /\ UNCHANGED <<emitted, flips, last, hook>>
        /\ vals' = IF key \in Ports THEN [vals EXCEPT ![key] = v] ELSE vals
    BY <1>2 DEF Returns, history
  <2>2. vals'[p] = vals[p] \/ vals'[p] = Empty \/ Norm(vals'[p]) = hook[p]
    BY <1>2, <2>1, NormUndoesReport DEF TypeOK
  <2>3. Apart(hook[p], hook[p]) = 0 /\ Apart(last[p], hook[p]) \in Nat
    BY DEF Apart
  <2>4. QED
    BY <1>0, <2>1, <2>2, <2>3 DEF Accounted
<1>3. CASE Read
  <2>1. PICK v \in IF key \in Ports THEN {Report[hook[key]]} ELSE {Empty} : Returns(v)
    BY <1>3 DEF Read
  <2>2. hook' = hook
    BY <2>1 DEF Returns
  <2>3. QED
    BY <1>2, <2>1, <2>2
<1>4. CASE ReadNothing
  BY <1>2, <1>4 DEF ReadNothing, Returns
<1>5. CASE ReadFails \/ LoginRefused \/ Stop \/ Evict
  BY <1>5
  DEF ReadFails, LoginRefused, Raise, Stop, Evict, device, history, poller, Accounted
<1>6. CASE Process
  <2> SUFFICES ASSUME NEW p \in Ports
               PROVE  /\ emitted'[p] + Apart(last'[p], hook'[p]) <= flips'[p]
                      /\ vals'[p] # Empty => emitted'[p] + Apart(last'[p], Norm(vals'[p]))
                              + Apart(Norm(vals'[p]), hook'[p]) <= flips'[p]
    BY DEF Accounted
  <2>1. /\ UNCHANGED <<vals, hook, flips>>
        /\ last'[p] = Recorded(p)
        /\ emitted'[p] = IF last[p] # None /\ Recorded(p) # last[p]
                         THEN emitted[p] + 1 ELSE emitted[p]
    BY <1>6 DEF Process, device
  <2> DEFINE r == Recorded(p)
             n == Norm(vals[p])
  <2>2. /\ r \in {last[p], n}
        /\ r \in Hooks \union {Empty}
        /\ last[p] = None => r = n
        /\ last[p] = Empty => r = Empty
        /\ last[p] # None /\ r # last[p] => vals[p] # Empty /\ r = n /\ last[p] # Empty
        /\ last[p] \in Hooks /\ vals[p] # Empty => r = n
    BY <1>0, RecordedValue
  <2>3. /\ emitted[p] + Apart(last[p], hook[p]) <= flips[p]
        /\ vals[p] # Empty => emitted[p] + Apart(last[p], n) + Apart(n, hook[p]) <= flips[p]
    BY DEF Accounted
  <2>4. vals[p] = Empty => n = Empty
    BY NormUndoesReport
  <2> HIDE DEF r, n
  <2>5. \A a, h : Apart(a, h) \in {0, 1} /\ (a \notin Hooks => Apart(a, h) = 0)
                  /\ Apart(a, a) = 0 /\ (a \in Hooks /\ a # h => Apart(a, h) = 1)
    BY DEF Apart
  <2>6. CASE last[p] # None /\ r # last[p]
    <3>1. last[p] \in Hooks /\ r = n /\ vals[p] # Empty /\ Apart(last[p], n) = 1
      BY <1>0, <2>2, <2>5, <2>6
    <3>2. emitted[p] + 1 + Apart(n, hook[p]) <= flips[p]
      BY <2>3, <3>1
    <3>3. last'[p] = n /\ emitted'[p] = emitted[p] + 1 /\ hook'[p] = hook[p]
          /\ flips'[p] = flips[p] /\ Norm(vals'[p]) = n
      BY <2>1, <2>6, <3>1 DEF r, n
    <3>4. emitted'[p] + Apart(n, hook[p]) <= flips[p] /\ Apart(n, n) = 0
          /\ emitted'[p] + 0 = emitted'[p]
      BY <1>0, <2>5, <3>2, <3>3
    <3>5. QED
      BY <3>3, <3>4
  <2>7. CASE ~(last[p] # None /\ r # last[p])
    <3>1. emitted'[p] = emitted[p] /\ last'[p] = r /\ hook'[p] = hook[p]
          /\ flips'[p] = flips[p] /\ Norm(vals'[p]) = n /\ vals'[p] = vals[p]
      BY <2>1, <2>7 DEF r, n
    <3>2. CASE last[p] = None
      <4>1. r = n /\ Apart(last[p], n) = 0 /\ Apart(last[p], hook[p]) = 0 /\ Apart(n, n) = 0
        BY <1>0, <2>2, <2>5, <3>2
      <4>2. vals[p] = Empty => Apart(n, hook[p]) = 0
        BY <1>0, <2>4, <2>5
      <4>3. Apart(n, hook[p]) \in {0, 1}
        BY <2>5
      <4>4. emitted[p] + Apart(n, hook[p]) <= flips[p]
        BY <1>0, <2>3, <4>1, <4>2, <4>3
      <4>5. emitted[p] + 0 = emitted[p]
        BY <1>0
      <4>6. QED
        BY <3>1, <4>1, <4>4, <4>5
    <3>3. CASE last[p] # None
      <4>1. r = last[p]
        BY <2>7, <3>3
      <4>2. QED
        BY <2>3, <3>1, <4>1
    <3>4. QED
      BY <3>2, <3>3
  <2>8. QED
    BY <2>6, <2>7
<1>7. ASSUME NEW q \in Ports, Flip(q) PROVE Accounted'
  <2> SUFFICES ASSUME NEW p \in Ports
               PROVE  /\ emitted'[p] + Apart(last'[p], hook'[p]) <= flips'[p]
                      /\ vals'[p] # Empty => emitted'[p] + Apart(last'[p], Norm(vals'[p]))
                              + Apart(Norm(vals'[p]), hook'[p]) <= flips'[p]
    BY DEF Accounted
  <2>1. UNCHANGED <<emitted, last, vals>>
    BY <1>7 DEF Flip, poller
  <2>2. CASE p # q
    <3>1. hook'[p] = hook[p] /\ flips'[p] = flips[p]
      BY <1>7, <2>2 DEF Flip, TypeOK
    <3>2. QED
      BY <2>1, <3>1 DEF Accounted
  <2>3. CASE p = q
    <3>1. flips'[p] = flips[p] + 1
      BY <1>7, <2>3 DEF Flip, TypeOK
    <3>2. \A a, h : Apart(a, h) \in {0, 1}
      BY DEF Apart
    <3> DEFINE n == Norm(vals[p])
    <3>3. /\ emitted[p] + Apart(last[p], hook[p]) <= flips[p]
          /\ vals[p] # Empty => emitted[p] + Apart(last[p], n) + Apart(n, hook[p]) <= flips[p]
      BY DEF Accounted
    <3>4. /\ Apart(last[p], hook'[p]) \in {0, 1} /\ Apart(last[p], hook[p]) \in {0, 1}
          /\ Apart(last[p], n) \in {0, 1}
          /\ Apart(n, hook'[p]) \in {0, 1} /\ Apart(n, hook[p]) \in {0, 1}
      BY <3>2
    <3> HIDE DEF n
    <3>5. /\ emitted[p] + Apart(last[p], hook'[p]) <= flips[p] + 1
          /\ vals[p] # Empty => emitted[p] + Apart(last[p], n) + Apart(n, hook'[p]) <= flips[p] + 1
      BY <1>0, <3>3, <3>4
    <3>6. QED
      BY <2>1, <3>1, <3>5 DEF n
  <2>4. QED
    BY <2>2, <2>3
<1>8. CASE UNCHANGED vars
  BY <1>8 DEF vars, Accounted
<1>9. QED
  BY <1>1, <1>3, <1>4, <1>5, <1>6, <1>7, <1>8 DEF Next, Task

\* Nothing is reported or read at the start.
LEMMA AccountedInit == Init => Accounted
<1> SUFFICES ASSUME Init, NEW p \in Ports
             PROVE  /\ emitted[p] + Apart(last[p], hook[p]) <= flips[p]
                    /\ vals[p] = Empty
  BY DEF Accounted
<1>1. emitted[p] = 0 /\ flips[p] = 0 /\ last[p] = None /\ vals[p] = Empty
  BY DEF Init
<1>2. Apart(last[p], hook[p]) = 0
  BY <1>1, NormUndoesReport DEF Apart
<1>3. QED
  BY <1>1, <1>2

\* No transition is reported that the phone did not make: the artefact test of
\* _poll, whatever is read, lost or empty.
THEOREM NoPhantoms == Spec => []NoPhantomTransition
<1>1. TypeOK /\ Accounted => NoPhantomTransition
  <2> SUFFICES ASSUME TypeOK, Accounted, NEW p \in Ports PROVE emitted[p] <= flips[p]
    BY DEF NoPhantomTransition
  <2>1. emitted[p] \in Nat /\ flips[p] \in Nat
    BY BoundsAssumption DEF TypeOK
  <2>2. Apart(last[p], hook[p]) \in {0, 1}
    BY DEF Apart
  <2>3. emitted[p] + Apart(last[p], hook[p]) <= flips[p]
    BY DEF Accounted
  <2>4. QED
    BY <2>1, <2>2, <2>3
<1>2. QED
  BY <1>1, Typing, AccountedInit, AccountedStep, PTL DEF Spec

\* A poll forgets the readings of the one before.
LEMMA RecentStep == TypeOK /\ Recent /\ [Next]_vars => Recent'
<1> SUFFICES ASSUME TypeOK, Recent, [Next]_vars PROVE Recent'
  OBVIOUS
<1>1. CASE Wake
  BY <1>1 DEF Wake, Recent, TypeOK
<1>2. ASSUME NEW v, Returns(v), v = Empty \/ (key \in Ports /\ v = Report[hook[key]]),
             Reading
      PROVE  Recent'
  <2>1. /\ UNCHANGED <<stage, hook, recent>>
        /\ vals' = IF key \in Ports THEN [vals EXCEPT ![key] = v] ELSE vals
    BY <1>2 DEF Returns, history
  <2>2. \A p \in Ports : vals'[p] = vals[p] \/ vals'[p] = Empty \/ Norm(vals'[p]) = hook[p]
    BY <1>2, <2>1, NormUndoesReport DEF TypeOK
  <2>3. QED
    BY <2>1, <2>2 DEF Recent
<1>3. CASE Read
  <2>1. PICK v \in IF key \in Ports THEN {Report[hook[key]]} ELSE {Empty} : Returns(v)
    BY <1>3 DEF Read
  <2>2. QED
    BY <1>2, <1>3, <2>1 DEF Read
<1>4. CASE ReadNothing
  BY <1>2, <1>4 DEF ReadNothing
<1>5. CASE ReadFails \/ LoginRefused \/ Stop \/ Process
  BY <1>5 DEF ReadFails, LoginRefused, Raise, Stop, Process, Recent
<1>6. CASE Evict
  BY <1>6 DEF Evict, poller, history, Recent
<1>7. ASSUME NEW q \in Ports, Flip(q) PROVE Recent'
  BY <1>7 DEF Flip, poller, Recent, TypeOK
<1>8. CASE UNCHANGED vars
  BY <1>8 DEF vars, Recent
<1>9. QED
  BY <1>1, <1>3, <1>4, <1>5, <1>6, <1>7, <1>8 DEF Next, Task

\* An event reports a hook state of the poll it was read in, never one left over
\* from a poll that failed (_poll starts with no readings).
THEOREM Recency == Spec => EventsAreRecent
<1> DEFINE Step == \A p \in Ports : emitted'[p] # emitted[p] => last'[p] \in recent[p]
<1>1. Init => Recent
  BY DEF Init, Recent
<1>2. TypeOK /\ Recent /\ [Next]_vars => [Step]_vars
  <2> SUFFICES ASSUME TypeOK, Recent, Next, NEW p \in Ports, emitted'[p] # emitted[p]
               PROVE  last'[p] \in recent[p]
    OBVIOUS
  <2>1. Process
    <3>1. CASE ~Process
      <4>1. emitted' = emitted
        BY <3>1 DEF Next, Task, Wake, Read, ReadNothing, Returns, ReadFails, LoginRefused,
                    Raise, Stop, Evict, Flip, history
      <4>2. QED
        BY <4>1
    <3>2. QED
      BY <3>1
  <2>2. last[p] # None /\ Recorded(p) # last[p] /\ last'[p] = Recorded(p) /\ stage = "reading"
    BY <2>1 DEF Process, TypeOK
  <2>3. vals[p] # Empty /\ Recorded(p) = Norm(vals[p])
    BY <2>2, RecordedValue DEF TypeOK, Words
  <2>4. QED
    BY <2>2, <2>3 DEF Recent
<1>3. QED
  BY <1>1, <1>2, Typing, RecentStep, PTL DEF Spec, EventsAreRecent
=============================================================================
