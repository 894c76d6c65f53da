---------------------------- MODULE DirectTools ----------------------------
(***************************************************************************)
(* The two scripts that talk to the HT812 themselves, provision_ht812.py   *)
(* and fxs_monitor.py --direct, next to the API and a browser.  The device *)
(* has one session, so every login of one ends that of another: the API    *)
(* and the monitor log in again when that happens, the other script never  *)
(* does.                                                                   *)
(*                                                                         *)
(* An exchange is one step, at the moment the device serves it: a client   *)
(* does nothing between a request and its answer.  A setting is known by   *)
(* who wrote it.  The registration flags, which the monitor reads after    *)
(* the hooks, are further keys of a row.                                   *)
(***************************************************************************)
EXTENDS Naturals, Sequences

CONSTANTS
    Settings,       \* number of settings that provision_ht812.py reads back
    Keys,           \* number of keys in a row of the monitor: a hook for each
    Ports,          \*   of the ports first, then registrations
    MaxIntrusions,  \* bound: logins of the API and of browsers
    MaxTurns,       \* bound: changes of hooks
    MaxFaults       \* bound: outages, refused logins and failed exchanges

ASSUME BoundsAssumption ==
    /\ {Settings, Keys, Ports, MaxIntrusions, MaxTurns, MaxFaults} \subseteq Nat
    /\ Settings > 0 /\ Ports > 0 /\ Keys >= Ports

VARIABLES
    up,        \* the device answers
    session,   \* who has its session
    setting,   \* who wrote each setting
    hook,      \* the hook of each port
    prov,      \* provision_ht812.py: where it is, whether it has printed a
               \*   warning, and what it has read back
    mon,       \* the monitor: where it is, and the row it reads
    intrusions, turns, faults,
    had        \* history: the hooks of each port since the row was begun

vars == <<up, session, setting, hook, prov, mon, intrusions, turns, faults, had>>

Clients == {"prov", "mon", "api", "browser"}
Nobody  == "nobody"
Writers == {"factory", "prov", "api", "browser"}
Unread  == "?"
Empty   == "empty"      \* a hook that is not in the row, and is shown as ""
Hooks   == {"0", "1"}

Fault == faults < MaxFaults /\ faults' = faults + 1

environment == <<up, setting, hook, intrusions, turns>>

-----------------------------------------------------------------------------
(* provision_ht812.py: one login, one commit, then the read-back.          *)

Exit == prov' = [prov EXCEPT !.at = "exited"]

\* It gives up when the device is not there or refuses the login (_login).
ProvLogin ==
    /\ prov.at = "login"
    /\ \/ up /\ session' = "prov" /\ prov' = [prov EXCEPT !.at = "apply"] /\ faults' = faults
       \/ ~up /\ Exit /\ UNCHANGED <<session, faults>>
       \/ up /\ Fault /\ Exit /\ session' = session
    /\ UNCHANGED <<environment, mon, had>>

Warn == prov' = [prov EXCEPT !.at = "read", !.warned = TRUE]

\* The commit: any answer but success is a warning, and the script goes on
\* with the token that it has.  Without an answer it stops, though the device
\* may have committed, with a new token (_apply).
ProvApply ==
    /\ prov.at = "apply"
    /\ \/ /\ up /\ session = "prov"
          /\ setting' = [s \in 1 .. Settings |-> "prov"]
          /\ \/ prov' = [prov EXCEPT !.at = "read"] /\ UNCHANGED <<session, faults>>
             \/ Fault /\ Exit /\ session' = Nobody
       \/ up /\ session # "prov" /\ Warn /\ UNCHANGED <<setting, session, faults>>
       \/ up /\ session = "prov" /\ Fault /\ Warn /\ UNCHANGED <<setting, session>>
       \/ ~up /\ Exit /\ UNCHANGED <<setting, session, faults>>
    /\ UNCHANGED <<up, hook, intrusions, turns, mon, had>>

Take(v) ==
    prov' = [prov EXCEPT !.read = Append(@, v),
                         !.at = IF Len(prov.read) + 1 = Settings THEN "done" ELSE "read"]

\* Mutant of ProvRead: it logs in again when its session is gone.
ProvReadAgain ==
    /\ prov.at = "read"
    /\ up
    /\ session' = "prov"
    /\ Take(setting[Len(prov.read) + 1])
    /\ UNCHANGED <<environment, mon, faults, had>>

\* A setting is read back.  Without the session its value is not in the answer,
\* which is shown as a question mark and is the only value that is not a tick.
ProvRead ==
    /\ prov.at = "read"
    /\ \/ /\ up
          /\ Take(IF session = "prov" THEN setting[Len(prov.read) + 1] ELSE Unread)
          /\ faults' = faults
       \/ (IF up THEN Fault ELSE faults' = faults) /\ Exit
    /\ UNCHANGED <<environment, session, mon, had>>

-----------------------------------------------------------------------------
(* fxs_monitor.py --direct.                                                *)

Begin ==
    /\ mon' = [at |-> "read", row |-> <<>>]
    /\ had' = [p \in 1 .. Ports |-> {hook[p]}]

\* The first login must succeed.  The device not being there ends the script at
\* any login; a refused one later leaves it with the token it has.
MonLogin ==
    /\ mon.at \in {"login", "relogin"}
    /\ LET go(at) == mon' = [mon EXCEPT !.at = at] IN
          \/ /\ up /\ session' = "mon" /\ faults' = faults
             /\ IF mon.at = "login" THEN Begin ELSE go("asleep") /\ had' = had
          \/ ~up /\ go("exited") /\ UNCHANGED <<session, faults, had>>
          \/ /\ up /\ Fault /\ UNCHANGED <<session, had>>
             /\ go(IF mon.at = "login" THEN "exited" ELSE "asleep")
    /\ UNCHANGED <<environment, prov>>

\* A key is read; a row with all of them is rendered.
Read(v) ==
    mon' = [mon EXCEPT !.row = Append(@, v),
                       !.at = IF Len(mon.row) + 1 = Keys THEN "rendered" ELSE "read"]

Value(k) == IF k <= Ports THEN hook[k] ELSE "0"

\* Mutant of MonRead: after a login the row goes on with its next key.
MonReadOn ==
    /\ mon.at = "read"
    /\ up
    /\ session' = "mon"
    /\ Read(IF session = "mon" THEN Value(Len(mon.row) + 1) ELSE Empty)
    /\ UNCHANGED <<environment, prov, faults, had>>

\* Mutant of MonRead: it gives the row up and does not log in again.
MonReadStuck ==
    /\ mon.at = "read"
    /\ IF up /\ session = "mon" THEN Read(Value(Len(mon.row) + 1))
       ELSE mon' = [mon EXCEPT !.at = "asleep", !.row = <<>>]
    /\ UNCHANGED <<environment, session, prov, faults, had>>

\* One key.  Without the session the row is given up and the monitor logs in
\* again; when the request fails it is given up as well.
MonRead ==
    /\ mon.at = "read"
    /\ \/ up /\ session = "mon" /\ Read(Value(Len(mon.row) + 1)) /\ faults' = faults
       \/ /\ up /\ session # "mon"
          /\ mon' = [mon EXCEPT !.at = "relogin", !.row = <<>>]
          /\ faults' = faults
       \/ /\ IF up THEN Fault ELSE faults' = faults
          /\ mon' = [mon EXCEPT !.at = "asleep", !.row = <<>>]
    /\ UNCHANGED <<environment, session, prov, had>>

\* Mutant of MonWake: the last row is not cleared.
MonWakeMerged ==
    /\ mon.at \in {"rendered", "asleep"}
    /\ mon' = [mon EXCEPT !.at = "read"]
    /\ UNCHANGED <<environment, session, prov, faults, had>>

\* After its sleep of 2 s the monitor starts the next row.
MonWake ==
    /\ mon.at \in {"rendered", "asleep"}
    /\ Begin
    /\ UNCHANGED <<environment, session, prov, faults>>

-----------------------------------------------------------------------------
(* The others.                                                             *)

\* The API logs in when it finds its session gone (_post), a browser when
\* somebody uses it.
Intrude(c) ==
    /\ up
    /\ intrusions < MaxIntrusions
    /\ intrusions' = intrusions + 1
    /\ session' = c
    /\ UNCHANGED <<up, setting, hook, prov, mon, turns, faults, had>>

\* Whoever of them has the session may commit a change: of one setting or, by
\* force-register, of all.
Commit(c) ==
    /\ up
    /\ session = c
    /\ \E changed \in {1 .. Settings} \union {{s} : s \in 1 .. Settings} :
          setting' = [s \in 1 .. Settings |-> IF s \in changed THEN c ELSE setting[s]]
    /\ UNCHANGED <<up, session, hook, prov, mon, intrusions, turns, faults, had>>

\* A handset is lifted or put down.
Turn(p) ==
    /\ turns < MaxTurns
    /\ turns' = turns + 1
    /\ hook' = [hook EXCEPT ![p] = IF @ = "0" THEN "1" ELSE "0"]
    /\ had' = [had EXCEPT ![p] = Hooks]
    /\ UNCHANGED <<up, session, setting, prov, mon, intrusions, faults>>

\* The device restarts and forgets its session.
GoDown ==
    /\ up
    /\ Fault
    /\ up' = FALSE
    /\ session' = Nobody
    /\ UNCHANGED <<setting, hook, prov, mon, intrusions, turns, had>>

ComeUp ==
    /\ ~up
    /\ up' = TRUE
    /\ UNCHANGED <<session, setting, hook, prov, mon, intrusions, turns, faults, had>>

-----------------------------------------------------------------------------
Init ==
    /\ up \in BOOLEAN
    /\ session \in {Nobody, "api", "browser"}
    /\ setting = [s \in 1 .. Settings |-> "factory"]
    /\ hook \in [1 .. Ports -> Hooks]
    /\ prov = [at |-> "login", warned |-> FALSE, read |-> <<>>]
    /\ mon = [at |-> "login", row |-> <<>>]
    /\ intrusions = 0
    /\ turns = 0
    /\ faults = 0
    /\ had = [p \in 1 .. Ports |-> {hook[p]}]

Provision == ProvLogin \/ ProvApply \/ ProvRead
Monitor   == MonLogin \/ MonRead \/ MonWake

Next ==
    \/ Provision
    \/ Monitor
    \/ \E c \in {"api", "browser"} : Intrude(c) \/ Commit(c)
    \/ \E p \in 1 .. Ports : Turn(p)
    \/ GoDown \/ ComeUp

Spec == Init /\ [][Next]_vars

\* The scripts run, their requests end (httpx, 20 s), the device comes back.
Fairness == WF_vars(Provision) /\ WF_vars(Monitor) /\ WF_vars(ComeUp)

FairSpec == Spec /\ Fairness

-----------------------------------------------------------------------------
(* Properties.                                                             *)

TypeOK ==
    /\ up \in BOOLEAN
    /\ session \in Clients \union {Nobody}
    /\ setting \in [1 .. Settings -> Writers]
    /\ hook \in [1 .. Ports -> Hooks]
    /\ prov \in [at : {"login", "apply", "read", "done", "exited"}, warned : BOOLEAN,
                 read : Seq(Writers \union {Unread})]
    /\ Len(prov.read) <= Settings
    /\ mon \in [at : {"login", "relogin", "read", "rendered", "asleep", "exited"},
                row : Seq(Hooks \union {Empty})]
    /\ Len(mon.row) <= Keys
    /\ had \in [1 .. Ports -> SUBSET Hooks]
    /\ intrusions \in 0 .. MaxIntrusions
    /\ turns \in 0 .. MaxTurns
    /\ faults \in 0 .. MaxFaults

\* When provision_ht812.py prints no warning and a tick at every setting, which
\* it does for any value that is not empty, the values are those it wrote: whoever
\* else commits a change has logged in, and ended its only session
\* (provision_ht812.py:67-90, 145-173).
VerifiedMeansWritten ==
    /\ prov.at = "done"
    /\ ~prov.warned
    /\ \A s \in DOMAIN prov.read : prov.read[s] # Unread
    => \A s \in DOMAIN prov.read : prov.read[s] = "prov"

\* A row that the monitor shows has hooks that the ports had while it was read:
\* a session that ends in the middle of a row leaves no gap in it, which would be
\* shown, and flagged, as a change (monitor_direct, fxs_monitor.py:151-171).
RowsAreTrue ==
    mon.at = "rendered" => \A p \in 1 .. Ports : mon.row[p] \in had[p]

\* Once the others leave the session alone the monitor shows rows again, unless
\* it has exited because the device was not there at a login
\* (monitor_direct, fxs_monitor.py:144-171).
MonitorRecovers == []<>(mon.at \in {"rendered", "exited"})
=============================================================================
