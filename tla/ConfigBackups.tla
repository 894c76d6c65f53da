--------------------------- MODULE ConfigBackups ---------------------------
(***************************************************************************)
(* The XML backups of the HT812: who takes them (two routes, the daily     *)
(* job, backup_ht812.sh through a route), what ends up on disk, and the    *)
(* routes that answer from the latest one.  A backup is one file whose     *)
(* name has the second it was saved in; the order of the files is that of  *)
(* their modification times, and the oldest are pruned at each save.       *)
(*                                                                         *)
(* A configuration is the number of commits before it.  A download does    *)
(* not look at what it gets: the answer to a request without a valid       *)
(* session is saved like any other (Junk).  The exchange with the device   *)
(* and the lock are those of HT812Session, told in two steps: the device   *)
(* answers, and the client has the answer and gives the lock up.           *)
(***************************************************************************)
EXTENDS Integers, Sequences

CONSTANTS
    Requests,    \* calls of the routes at a time
    Job,         \* the daily backup
    Script,      \* runs of backup_ht812.sh
    Poller,      \* the FXS poller
    KeepLast,    \* BACKUP_KEEP
    MaxChanges,  \* bound: commits of a configuration
    MaxFaults    \* bound: outages, evictions, lost answers and crashes

ASSUME CallersAssumption ==
    Job \notin Requests /\ Script \notin Requests /\ Poller \notin Requests
    /\ Job # Script /\ Job # Poller /\ Script # Poller
ASSUME BoundsAssumption == {KeepLast, MaxChanges, MaxFaults} \subseteq Nat

VARIABLES
    cfg,     \* the configuration of the device
    up,      \* the device answers
    token,   \* the client's: none, valid, or stale (the device forgot it)
    calls,   \* the call of each caller: its kind, where it is, the
             \*   configuration at its start, what it got, and what a
             \*   diagnosis expects
    reply,   \* the answer of the API that this step gave, if any
    files,   \* the backups, oldest first
    fresh,   \* the last file has the current second in its name
    faults,
    since    \* history: files added since the last good one was, up to KeepLast

vars == <<cfg, up, token, calls, reply, files, fresh, faults, since>>

Callers == Requests \union {Job, Script, Poller}

Junk    == -1      \* an answer, or a file, that is no configuration
Nothing == -2      \* no answer
Configs == 0 .. MaxChanges

Kinds  == {"backup", "patch", "diagnose", "status", "poll"}
Asking == {"backup", "diagnose", "status"}   \* they ask for the configuration
NoCall  == [kind |-> "poll", at |-> "idle", from |-> 0, got |-> Nothing, expected |-> 0]
NoReply == [from |-> 0, got |-> Nothing, offline |-> FALSE, expected |-> 0,
            clean |-> FALSE]

Files == [body : Configs \union {Junk}, copy : BOOLEAN]

\* One call has the lock, from the answer of the device until it has the answer.
Free == \A c \in Callers : calls[c].at # "asked"

Silent == reply' = NoReply
GiveUp(c) == calls' = [calls EXCEPT ![c] = NoCall] /\ Silent

Fault == faults < MaxFaults /\ faults' = faults + 1

-----------------------------------------------------------------------------
(* The disk.                                                               *)

\* The oldest files go; with KeepLast = 0 none does (files[:-0] is empty).
Pruned(fs) ==
    IF KeepLast = 0 \/ Len(fs) <= KeepLast THEN fs
    ELSE SubSeq(fs, Len(fs) - KeepLast + 1, Len(fs))

\* A file written in the second of the last one has its name, and replaces it.
Written(f) ==
    IF fresh /\ files # <<>> THEN [files EXCEPT ![Len(files)] = f]
    ELSE Append(files, f)

Overwrites == fresh /\ files # <<>> /\ files[Len(files)].body \in Configs

\* A good file that is overwritten counts as lost.
Count(body) ==
    since' = IF body \in Configs THEN 0
             ELSE IF Overwrites THEN KeepLast
             ELSE IF since < KeepLast THEN since + 1 ELSE since

\* Mutant of Save: the newest files are pruned (files[keep_last:]).
SaveOldest(body) ==
    /\ LET all == Written([body |-> body, copy |-> FALSE]) IN
       files' = IF KeepLast = 0 THEN all
                ELSE SubSeq(all, 1, IF Len(all) < KeepLast THEN Len(all) ELSE KeepLast)
    /\ fresh' = TRUE
    /\ Count(body)

\* Mutant of Save: nothing is pruned.
SaveUnpruned(body) ==
    /\ files' = Written([body |-> body, copy |-> FALSE])
    /\ fresh' = TRUE
    /\ Count(body)

\* save_config_snapshot once it has the answer: nothing else of the API runs
\* between the answer, the write and the pruning.
Save(body) ==
    /\ files' = Pruned(Written([body |-> body, copy |-> FALSE]))
    /\ fresh' = TRUE
    /\ Count(body)

Latest == IF files = <<>> THEN Nothing ELSE files[Len(files)].body

-----------------------------------------------------------------------------
(* The calls.                                                              *)

\* Mutant of Call: a download that finds another one on its way takes its answer.
CallShared(c, k, e) ==
    /\ calls[c].at = "idle"
    /\ e = 0 /\ k = IF c = Poller THEN "poll" ELSE "backup"
    /\ LET onItsWay == {d \in Callers : calls[d].at = "asked" /\ calls[d].kind = k} IN
       IF onItsWay = {}
       THEN calls' = [calls EXCEPT ![c] = [NoCall EXCEPT !.kind = k, !.at = "waiting",
                                                         !.from = cfg]]
            /\ Silent
       ELSE calls' = calls /\ reply' = [NoReply EXCEPT !.from = cfg,
                                   !.got = calls[CHOOSE d \in onItsWay : TRUE].got]
    /\ UNCHANGED <<cfg, up, token, files, fresh, faults, since>>

\* A route is called; the job fires, unless it is still running; the script
\* asks for /ht812/config; the poller polls.
Call(c, k, e) ==
    /\ calls[c].at = "idle"
    /\ \/ c \in Requests /\ k # "poll"
       \/ c \in {Job, Script} /\ k = "backup"
       \/ c = Poller /\ k = "poll"
    /\ k # "diagnose" => e = 0
    /\ calls' = [calls EXCEPT ![c] = [NoCall EXCEPT !.kind = k, !.at = "waiting",
                                                    !.from = IF k \in Asking THEN cfg ELSE 0,
                                                    !.expected = e]]
    /\ Silent
    /\ UNCHANGED <<cfg, up, token, files, fresh, faults, since>>

\* Mutant of MayAsk: the client has no lock.
MayAskUnlocked(c) == calls[c].at = "waiting"

MayAsk(c) == calls[c].at = "waiting" /\ Free

\* Mutant of Matches: a backup that is not there, or says nothing, matches.
MatchesLeniently(live, e) == live \in {Junk, Nothing, e} /\ Latest \in {Junk, Nothing, e}

\* _compare_values, of a value: no live value is no mismatch, but no value in
\* the backup is one.
Matches(live, e) == live \in {Junk, Nothing, e} /\ Latest = e

\* Mutant of Ask: a POST does not log in again when its session is gone.
AskOnce(c) ==
    /\ MayAsk(c)
    /\ up
    /\ token' = IF token = "none" THEN "valid" ELSE token
    /\ calls' = [calls EXCEPT ![c] = [@ EXCEPT !.at = "asked",
                       !.got = IF token' = "valid" THEN cfg ELSE Junk]]
    /\ cfg' = cfg
    /\ Silent
    /\ UNCHANGED <<up, files, fresh, faults, since>>

\* The device answers.  Without a token the client logs in first; a POST whose
\* session is gone logs in again and is repeated, a download takes what it gets.
Ask(c) ==
    /\ MayAsk(c)
    /\ up
    /\ LET known == IF token = "none" THEN "valid" ELSE token IN
       IF calls[c].kind = "backup"
       THEN /\ token' = known
            /\ cfg' = cfg
            /\ calls' = [calls EXCEPT ![c] = [@ EXCEPT !.at = "asked",
                               !.got = IF known = "valid" THEN cfg ELSE Junk]]
       ELSE /\ token' = "valid"
            /\ cfg' \in IF calls[c].kind = "patch" THEN {cfg, cfg + 1} ELSE {cfg}
            /\ cfg' \in Configs
            /\ calls' = [calls EXCEPT ![c] = [@ EXCEPT !.at = "asked",
                               !.got = IF calls[c].kind \in Asking THEN cfg ELSE Nothing]]
    /\ Silent
    /\ UNCHANGED <<up, files, fresh, faults, since>>

\* The session is lost again between the second login and the second request:
\* the answer of a POST has no values then.
AskInVain(c) ==
    /\ MayAsk(c)
    /\ up
    /\ calls[c].kind # "backup"
    /\ token = "stale"
    /\ Fault
    /\ calls' = [calls EXCEPT ![c] = [@ EXCEPT !.at = "asked",
                       !.got = IF calls[c].kind \in Asking THEN Junk ELSE Nothing]]
    /\ Silent
    /\ UNCHANGED <<cfg, up, token, files, fresh, since>>

\* The client has to log in before the answer it needs.
LoggingIn(c) == token = "none" \/ (up /\ token = "stale" /\ calls[c].kind # "backup")

\* The call ends with the answer `got`.
Reply(c, got) ==
    reply' = [from |-> calls[c].from, got |-> got, offline |-> FALSE,
              expected |-> calls[c].expected,
              clean |-> calls[c].kind = "diagnose" /\ Matches(got, calls[c].expected)]

\* The answer of port_status and status_summary without the device.
OfflineStatus(c) ==
    reply' = [NoReply EXCEPT !.from = calls[c].from, !.got = Latest, !.offline = TRUE]

\* The login fails: the routes report it, the job and the poller catch it, a
\* diagnosis goes on without live values, and a status is that of the latest
\* backup.
LoginFails(c) ==
    /\ MayAsk(c)
    /\ LoggingIn(c)
    /\ IF up THEN Fault ELSE faults' = faults
    /\ token' = "none"
    /\ IF calls[c].kind = "status" THEN OfflineStatus(c) ELSE Reply(c, Nothing)
    /\ calls' = [calls EXCEPT ![c] = NoCall]
    /\ UNCHANGED <<cfg, up, files, fresh, since>>

\* The device is not there for the request itself, which no route handles.
RequestFails(c) ==
    /\ MayAsk(c)
    /\ ~up
    /\ ~LoggingIn(c)
    /\ GiveUp(c)
    /\ UNCHANGED <<cfg, up, token, files, fresh, faults, since>>

\* The answer never comes, though the device did what it was asked.  If that was
\* a commit, the new token was in the answer.
LoseAnswer(c) ==
    /\ calls[c].at = "asked"
    /\ Fault
    /\ token' \in IF calls[c].kind = "patch" THEN {token, "stale"} ELSE {token}
    /\ GiveUp(c)
    /\ UNCHANGED <<cfg, up, files, fresh, since>>

\* A backup is saved.  The script has the answer as well, which it will copy.
ReceiveBackup(c) ==
    /\ calls[c].at = "asked"
    /\ calls[c].kind = "backup"
    /\ Save(calls[c].got)
    /\ Reply(c, calls[c].got)
    /\ calls' = [calls EXCEPT ![c] = IF c = Script THEN [@ EXCEPT !.at = "copying", !.from = 0]
                                     ELSE NoCall]
    /\ UNCHANGED <<cfg, up, token, faults>>

\* The other calls end; a diagnosis compares what it read and the latest backup
\* with what it expects.
Receive(c) ==
    /\ calls[c].at = "asked"
    /\ calls[c].kind # "backup"
    /\ Reply(c, calls[c].got)
    /\ calls' = [calls EXCEPT ![c] = NoCall]
    /\ UNCHANGED <<cfg, up, token, files, fresh, faults, since>>

\* backup_ht812.sh copies what it got to the same directory, under the name of
\* the second it is by then.  It does not prune.
CopyLocal ==
    /\ calls[Script].at = "copying"
    /\ files' = Written([body |-> calls[Script].got, copy |-> TRUE])
    /\ fresh' = TRUE
    /\ Count(calls[Script].got)
    /\ calls' = [calls EXCEPT ![Script] = NoCall]
    /\ Silent
    /\ UNCHANGED <<cfg, up, token, faults>>

-----------------------------------------------------------------------------
(* The surroundings.                                                       *)

Second ==
    /\ fresh
    /\ fresh' = FALSE
    /\ Silent
    /\ UNCHANGED <<cfg, up, token, calls, files, faults, since>>

\* A browser takes the session over, and may commit a change.
Browser ==
    /\ Fault
    /\ token' = IF token = "valid" THEN "stale" ELSE token
    /\ cfg' \in {cfg, cfg + 1}
    /\ cfg' \in Configs
    /\ Silent
    /\ UNCHANGED <<up, calls, files, fresh, since>>

\* The device goes down, for a reboot that a route asks for or by itself, and
\* forgets its session.
GoDown ==
    /\ up
    /\ Fault
    /\ up' = FALSE
    /\ token' = IF token = "valid" THEN "stale" ELSE token
    /\ Silent
    /\ UNCHANGED <<cfg, calls, files, fresh, since>>

ComeUp ==
    /\ ~up
    /\ up' = TRUE
    /\ Silent
    /\ UNCHANGED <<cfg, token, calls, files, fresh, faults, since>>

\* The API is restarted.  A backup that was being saved may be left empty or
\* half written (the file is opened before it is written), or not pruned.
Crash ==
    /\ Fault
    /\ token' = "none"
    /\ calls' = [c \in Callers |->
                    IF c = Script /\ calls[c].at = "copying" THEN calls[c]
                    ELSE NoCall]
    /\ Silent
    /\ \/ UNCHANGED <<files, fresh, since>>
       \/ \E c \in Callers, whole \in BOOLEAN :
             /\ calls[c].at = "asked" /\ calls[c].kind = "backup"
             /\ LET body == IF whole THEN calls[c].got ELSE Junk IN
                   /\ files' = Written([body |-> body, copy |-> FALSE])
                   /\ Count(body)
             /\ fresh' = TRUE
    /\ UNCHANGED <<cfg, up>>

-----------------------------------------------------------------------------
Init ==
    /\ cfg = 0
    /\ up = TRUE
    /\ token = "none"
    /\ calls = [c \in Callers |-> NoCall]
    /\ reply = NoReply
    /\ files = <<>>
    /\ fresh = FALSE
    /\ faults = 0
    /\ since = KeepLast

Exchange(c) == Ask(c) \/ AskInVain(c) \/ LoginFails(c) \/ RequestFails(c)
Return(c) == LoseAnswer(c) \/ ReceiveBackup(c) \/ Receive(c)

Next ==
    \/ \E c \in Callers : Exchange(c) \/ Return(c)
    \/ \E c \in Callers, k \in Kinds, e \in Configs : Call(c, k, e)
    \/ CopyLocal
    \/ Second \/ Browser \/ GoDown \/ ComeUp \/ Crash

Spec == Init /\ [][Next]_vars

\* The job fires every day and the poller polls, whatever became of the last
\* time.  Exchanges end (httpx gives up after 20 s), the lock is first come,
\* first served, and the device does not stay down.
Fairness ==
    /\ WF_vars(ComeUp)
    /\ WF_vars(Call(Job, "backup", 0))
    /\ WF_vars(Call(Poller, "poll", 0))
    /\ \A c \in Callers : WF_vars(Return(c))
    /\ \A c \in {Job, Poller} : SF_vars(Exchange(c))

FairSpec == Spec /\ Fairness

-----------------------------------------------------------------------------
(* Properties.                                                             *)

\* The types; and the directory holds no more than BACKUP_KEEP files, the copy
\* that the script has made since the last pruning and those of a crash.
TypeOK ==
    /\ cfg \in Configs
    /\ up \in BOOLEAN
    /\ token \in {"none", "valid", "stale"}
    /\ calls \in [Callers -> [kind : Kinds, at : {"idle", "waiting", "asked", "copying"},
                              from : Configs, got : Configs \union {Junk, Nothing},
                              expected : Configs]]
    /\ reply \in [from : Configs, got : Configs \union {Junk, Nothing},
                  offline : BOOLEAN, expected : Configs, clean : BOOLEAN]
    /\ files \in Seq(Files)
    /\ KeepLast > 0 => Len(files) <= KeepLast + MaxFaults + 1
    /\ fresh \in BOOLEAN
    /\ faults \in 0 .. MaxFaults
    /\ since \in 0 .. KeepLast

\* The latest backup is the latest configuration that was saved, whoever saved
\* it: downloads of several callers do not overtake each other on their way from
\* the device to the disk.  A copy of the script may be older than the backups
\* it comes after (save_config_snapshot, ht812_client.py:192-201, and
\* backup_ht812.sh:22-27).
BackupsInOrder ==
    \A i, j \in DOMAIN files :
        /\ i < j
        /\ {files[i].body, files[j].body} \subseteq Configs
        /\ ~files[j].copy
        => files[i].body <= files[j].body

\* Answers that are no configuration are saved as backups and count towards
\* BACKUP_KEEP.  Fewer of them than that do not drive out the last good backup,
\* unless one is saved in its very second (_prune_backups, ht812_client.py:208-211).
GoodBackupSurvives ==
    since < KeepLast => \E i \in DOMAIN files : files[i].body \in Configs

\* What a caller is given as the configuration of the device is one of the time of
\* its call, however long it waited for the lock and whatever others saved or
\* committed meanwhile; only an answer that says `offline` may be older, and that
\* one is a configuration the device has had (_post and _get,
\* ht812_client.py:166-188; port_status and status_summary, router.py:1272-1338).
AnswerIsCurrent ==
    reply.got \in Configs => /\ reply.got <= cfg
                             /\ ~reply.offline => reply.from <= reply.got

\* A diagnosis without a mismatch, though it takes a missing live value for a
\* match and reports success when nothing was read, is never about settings the
\* device has not had; with live values they are those of the time of the
\* call (_compare_values, router.py:194-242, and diagnostics_report).
CleanIsTrue ==
    reply.clean => /\ reply.expected <= cfg
                   /\ reply.got \in Configs => reply.from <= reply.expected

\* Whatever happens to a backup, a later one holds the configuration of the
\* device: a failed job is tried again the next day, and a download that got no
\* configuration because its session was gone is followed by a good one.
\* _get never logs in again; the polls do.
BackupCatchesUp == []<>(Latest = cfg)
=============================================================================
