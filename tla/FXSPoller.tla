----------------------------- MODULE FXSPoller -----------------------------
(***************************************************************************)
(* FXSPoller (ht812_api/fxs_poller.py): the task that polls the hook state *)
(* of the FXS ports and reports its transitions, with the lockout clock of *)
(* the device it logs in to.                                               *)
(*                                                                         *)
(* A step is one read of a P-value or one sleep.  Time passes in sleeps    *)
(* only and is counted in seconds.  The client in between is reduced to    *)
(* what a read can return or raise (HT812Session models it in full); the   *)
(* registration flag that an event carries along is left out.              *)
(***************************************************************************)
EXTENDS Naturals

CONSTANTS
    NumPorts,      \* FXS ports
    Report,        \* how the firmware writes hook states "0" and "1"
    PollInterval,  \* _POLL_INTERVAL
    MaxBackoff,    \* _MAX_BACKOFF
    MaxStrikes,    \* refused logins until the device locks
    LockTime,      \* how long it does
    MaxFlips,      \* bound: hook transitions of one port
    MaxFaults      \* bound: reads that go wrong on an unlocked device

Ports   == 1 .. NumPorts
Hooks   == {"0", "1"}
OnHook  == {"0", "on hook", "on-hook"}
OffHook == {"1", "off hook", "off-hook"}

ASSUME PortsAssumption  == NumPorts \in Nat \ {0}
ASSUME ReportAssumption == /\ DOMAIN Report = Hooks
                           /\ Report["0"] \in OnHook
                           /\ Report["1"] \in OffHook
ASSUME TimesAssumption  == /\ PollInterval \in Nat \ {0}
                           /\ MaxBackoff \in Nat /\ PollInterval <= MaxBackoff
                           /\ LockTime \in Nat \ {0}
                           /\ MaxStrikes \in Nat \ {0}
ASSUME BoundsAssumption == MaxFlips \in Nat /\ MaxFaults \in Nat

VARIABLES
    \* the poller
    stage,     \* what the task awaits: settling, asleep, backing_off, reading
    backoff,   \* the delay before the next retry
    key,       \* the P-value it reads, hook states first
    vals,      \* the hook states read in this poll
    last,      \* FXSPoller._last_hook
    \* the device and the session
    hook,      \* the hook state of each port
    held,      \* the client holds a session the device honours
    strikes,   \* refused logins in a row
    lockLeft,  \* seconds until the device accepts logins again
    faults,
    \* history
    flips,     \* transitions each port made
    emitted,   \* fxs_hook events published for it
    recent     \* hook states it had since the poll began

poller  == <<stage, backoff, key, vals, last>>
device  == <<hook, held, strikes, lockLeft, faults>>
history == <<flips, emitted, recent>>
vars    == <<stage, backoff, key, vals, last, hook, held, strikes, lockLeft, faults,
             flips, emitted, recent>>

None  == "none"
Empty == ""   \* a reading without a value

\* Mutant of Least: no cap.
Uncapped(a, b) == a

Least(a, b) == IF a <= b THEN a ELSE b
Monus(a, b) == IF a <= b THEN 0 ELSE a - b

Init ==
    /\ stage = "settling"
    /\ backoff = PollInterval
    /\ key = 1
    /\ vals = [p \in Ports |-> Empty]
    /\ last = [p \in Ports |-> None]
    /\ hook \in [Ports -> Hooks]
    /\ held = FALSE
    /\ strikes = 0
    /\ lockLeft = 0
    /\ faults = 0
    /\ flips = [p \in Ports |-> 0]
    /\ emitted = [p \in Ports |-> 0]
    /\ recent = [p \in Ports |-> {}]

-----------------------------------------------------------------------------
(* The device and the users of its phones.                                 *)

\* A handset is lifted or put down.
Flip(p) ==
    /\ flips[p] < MaxFlips
    /\ flips' = [flips EXCEPT ![p] = @ + 1]
    /\ \E h \in Hooks \ {hook[p]} :
          /\ hook' = [hook EXCEPT ![p] = h]
          /\ recent' = [recent EXCEPT ![p] = @ \union {h}]
    /\ UNCHANGED <<poller, held, strikes, lockLeft, faults, emitted>>

\* A browser logs in: the client's session is no longer honoured.
Evict ==
    /\ held
    /\ faults < MaxFaults
    /\ faults' = faults + 1
    /\ held' = FALSE
    /\ UNCHANGED <<poller, hook, strikes, lockLeft, history>>

-----------------------------------------------------------------------------
(* The task.                                                               *)

\* The sleep the task is in lasts so long.
Nap == [settling |-> 4, asleep |-> PollInterval, backing_off |-> backoff]

\* Mutant of Wake: a poll goes on where the one that failed broke off.
WakeResumes ==
    /\ stage \in DOMAIN Nap
    /\ stage' = "reading"
    /\ backoff' = IF stage = "backing_off" THEN Least(2 * backoff, MaxBackoff)
                                           ELSE backoff
    /\ key' = IF key > 2 * NumPorts THEN 1 ELSE key
    /\ recent' = [p \in Ports |-> {hook[p]}]
    /\ lockLeft' = Monus(lockLeft, Nap[stage])
    /\ strikes' = IF lockLeft > 0 /\ lockLeft' = 0 THEN 0 ELSE strikes
    /\ UNCHANGED <<vals, last, hook, held, faults, flips, emitted>>

\* The sleep is over: the delay doubles after a failed poll, and a poll begins.
\* The lock runs out while the task sleeps.
Wake ==
    /\ stage \in DOMAIN Nap
    /\ stage' = "reading"
    /\ backoff' = IF stage = "backing_off" THEN Least(2 * backoff, MaxBackoff)
                                           ELSE backoff
    /\ key' = 1
    /\ vals' = [p \in Ports |-> Empty]
    /\ recent' = [p \in Ports |-> {hook[p]}]
    /\ lockLeft' = Monus(lockLeft, Nap[stage])
    /\ strikes' = IF lockLeft > 0 /\ lockLeft' = 0 THEN 0 ELSE strikes
    /\ UNCHANGED <<last, hook, held, faults, flips, emitted>>

\* The read of a P-value returns v; the keys after the hook states are those of
\* the registration.
Returns(v) ==
    /\ key' = key + 1
    /\ vals' = IF key \in Ports THEN [vals EXCEPT ![key] = v] ELSE vals
    /\ strikes' = IF held THEN strikes ELSE 0
    /\ UNCHANGED <<stage, backoff, last, hook, lockLeft, history>>

Reading == stage = "reading" /\ key <= 2 * NumPorts

\* The client has a session, or gets one with a login, and the device answers.
Read ==
    /\ Reading
    /\ held \/ lockLeft = 0
    /\ \E v \in IF key \in Ports THEN {Report[hook[key]]} ELSE {Empty} : Returns(v)
    /\ held' = TRUE
    /\ UNCHANGED faults

\* The session is lost twice during one read: the answer has no value.
ReadNothing ==
    /\ Reading
    /\ held \/ lockLeft = 0
    /\ faults < MaxFaults
    /\ faults' = faults + 1
    /\ Returns(Empty)
    /\ held' = FALSE

\* The read raises: the poll is given up and the task backs off.
Raise ==
    /\ stage' = "backing_off"
    /\ UNCHANGED <<backoff, key, vals, last, hook, flips, emitted, recent>>

\* The device does not answer.
ReadFails ==
    /\ Reading
    /\ faults < MaxFaults
    /\ faults' = faults + 1
    /\ Raise
    /\ UNCHANGED <<held, strikes, lockLeft>>

\* Without a session the read logs in first, and the device refuses: because of
\* a competing session, or because it is locked; a refusal locks it when it was
\* one too many, and starts the lock anew when it is locked (handout.md 4.1).
LoginRefused ==
    /\ Reading
    /\ ~held
    /\ \/ lockLeft > 0 /\ UNCHANGED faults
       \/ faults < MaxFaults /\ faults' = faults + 1
    /\ strikes' = Least(strikes + 1, MaxStrikes)
    /\ lockLeft' = IF strikes' = MaxStrikes THEN LockTime ELSE 0
    /\ Raise
    /\ UNCHANGED held

\* _norm_hook.
Norm(v) == IF v \in OffHook THEN "1" ELSE IF v \in OnHook THEN "0" ELSE v

\* Mutants of Recorded: empty readings count as changes; only the first is kept.
RecordedEmpty(p) ==
    LET h == Norm(vals[p]) IN
    IF last[p] = None \/ h # last[p] THEN h ELSE last[p]

RecordedOnce(p) == IF last[p] = None THEN Norm(vals[p]) ELSE last[p]

\* What _last_hook holds for port p after this poll: the first reading whatever
\* it is, then every change between readings that are not empty.
Recorded(p) ==
    LET h == Norm(vals[p]) IN
    IF last[p] = None \/ (h # last[p] /\ h # Empty /\ last[p] # Empty) THEN h ELSE last[p]

\* All values are read: record them, publish the changes and reset the delay.
Process ==
    /\ stage = "reading"
    /\ key > 2 * NumPorts
    /\ last' = [p \in Ports |-> Recorded(p)]
    /\ emitted' = [p \in Ports |-> IF last[p] # None /\ Recorded(p) # last[p]
                                   THEN emitted[p] + 1 ELSE emitted[p]]
    /\ backoff' = PollInterval
    /\ stage' = "asleep"
    /\ UNCHANGED <<key, vals, device, flips, recent>>

\* stop() cancels the task, whatever it awaits.
Stop ==
    /\ stage # "stopped"
    /\ stage' = "stopped"
    /\ UNCHANGED <<backoff, key, vals, last, device, history>>

-----------------------------------------------------------------------------
Task == Wake \/ Read \/ ReadNothing \/ ReadFails \/ LoginRefused \/ Process

Next == Task \/ Stop \/ Evict \/ \E p \in Ports : Flip(p)

Spec == Init /\ [][Next]_vars

\* A sleep ends, a read returns or raises within the client's timeout, and the
\* event loop runs the task.
FairSpec == Spec /\ WF_vars(Task)

-----------------------------------------------------------------------------
(* Properties.                                                             *)

\* The variables keep the values the poller and the device give them.
TypeOK ==
    /\ stage \in {"settling", "asleep", "backing_off", "reading", "stopped"}
    /\ backoff \in PollInterval .. MaxBackoff
    /\ key \in 1 .. 2 * NumPorts + 1
    /\ vals \in [Ports -> OnHook \union OffHook \union {Empty}]
    /\ last \in [Ports -> Hooks \union {None, Empty}]
    /\ hook \in [Ports -> Hooks]
    /\ held \in BOOLEAN
    /\ strikes \in 0 .. MaxStrikes
    /\ lockLeft \in 0 .. LockTime
    /\ faults \in 0 .. MaxFaults
    /\ flips \in [Ports -> 0 .. MaxFlips]
    /\ emitted \in [Ports -> Nat]
    /\ recent \in [Ports -> SUBSET Hooks]

\* The poller reports no transition the phone did not make, whatever readings
\* are lost or empty (the artefact test in _poll).
NoPhantomTransition == \A p \in Ports : emitted[p] <= flips[p]

\* An event reports a state the port had since the poll began: nothing read in a
\* poll that failed is reported by a later one (_poll starts anew).
EventsAreRecent ==
    [][\A p \in Ports : emitted'[p] # emitted[p] => last'[p] \in recent[p]]_vars

\* When a phone comes to rest and the device is not locked, the poller comes to
\* know its state, unless the first reading of the port was empty.
FollowsHook ==
    \A p \in Ports, h \in Hooks :
        <>[](hook[p] = h /\ lockLeft = 0 /\ stage # "stopped")
            => <>[](last[p] \in {h, Empty})
=============================================================================
