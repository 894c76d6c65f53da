-------------------------- MODULE RegistrationAudit --------------------------
(***************************************************************************)
(* The routes of ht812_api/router.py that configure the HT812 and say      *)
(* whether its two lines are registered: force-register, provision,        *)
(* snapshots, the SIP log, the audit and the bundle made from it.          *)
(*                                                                         *)
(* A request is a list of exchanges with the device or with Asterisk, one  *)
(* for each await, between which everything else may happen.  The parts    *)
(* that a request leaves on disk (the latest backup, force_register log    *)
(* and sip_log log) are what later audits read.  The routes that only read *)
(* values, and the logs that no audit reads, are left out.                 *)
(***************************************************************************)
EXTENDS Naturals, Sequences

CONSTANTS
    Requests,    \* requests that may be under way together
    Settings,    \* SIP servers and transports a request can ask for
    MaxRequests, \* bound: requests made
    MaxChanges   \* bound: what device, Asterisk and browsers do on their own

ASSUME BoundsAssumption == MaxRequests \in Nat /\ MaxChanges \in Nat

VARIABLES
    config,     \* the setting on the device (P47 and the like)
    flags,      \* lines the device says are registered (P4921, P4922)
    trace,      \* the device holds a SIP trace
    up,         \* the device answers
    session,    \* the device honours the client's token
    token,      \* HT812Client holds a token
    contacts,   \* lines Asterisk holds a contact for
    ari,        \* Asterisk answers
    backup,     \* values in the latest backup
    forceLog,   \* the latest force_register log: none, failed or applied
    sipLog,     \* the latest sip_log log: its form, and the trace it came from
    req,        \* the request in each slot, its exchanges to come and its locals
    answer,     \* what the latest request of each slot was answered
    held,       \* history: what has been true since a live audit began
    overwritten,\* history: requests whose setting something else replaced
    accepted,   \* history: the device has taken a force-register
    traced,     \* history: the device has held a SIP trace
    requests, changes

device   == <<config, flags, trace, up>>
client   == <<session, token>>
asterisk == <<contacts, ari>>
disk     == <<backup, forceLog, sipLog>>
vars     == <<config, flags, trace, up, session, token, contacts, ari, backup, forceLog,
              sipLog, req, answer, held, overwritten, accepted, traced, requests, changes>>

Lines    == {1, 2}
Keys     == {"P47", "P4921", "P4922"}
NoValues == <<>>

Verdicts == {"registered_confirmed_both_sides", "asterisk_online_but_device_flag_stale",
             "device_says_registered_but_asterisk_has_no_contact",
             "sip_trace_present_but_not_registered",
             "configured_but_neither_side_registered", "neither_side_registered",
             "registered", "configured_but_no_register_observed",
             "no_force_register_audit_found"}

\* The exchanges of each route, in order: a P-value to read, the contact of a line
\* to ask Asterisk for, or a command to the device.  P47 stands for all keys of the
\* configuration.  Values that a route only passes on are left out: the flags and
\* contacts that force-register reads, and all that a summary reads, but for one read
\* that may fail.
Exchanges(kind, reboot) ==
    CASE kind = "force_register"      -> IF reboot THEN <<"write", "reboot", "P47", "trace">>
                                         ELSE <<"write", "P47", "trace">>
      [] kind = "provision_two_line"  -> <<"write">>
      [] kind = "snapshot_backup"     -> <<"download">>
      [] kind = "status_audit"        -> <<"P47", "P4921", "P4922", "trace", "1001", "1002">>
      [] kind = "registration_bundle" -> <<"1001", "1002">>
      [] kind = "status_summary"      -> <<"P47">>
      [] kind = "sip_log"             -> <<"trace">>

\* The routes, those that ask for a setting, and those that answer with an audit.
Kinds  == {"force_register", "provision_two_line", "snapshot_backup", "status_audit",
           "registration_bundle", "status_summary", "sip_log"}
Configuring == {"force_register", "provision_two_line", "status_audit"}
Audits == {"status_audit", "registration_bundle", "status_summary", "sip_log"}

Extension == [l \in Lines |-> IF l = 1 THEN "1001" ELSE "1002"]

\* The locals of a route, before it has done anything.
Begun(kind, setting, todo) ==
    [kind |-> kind, setting |-> setting, todo |-> todo, ok |-> FALSE,
     got |-> NoValues, error |-> FALSE, text |-> "none",
     asterisk |-> "unchecked", online |-> {}, unsure |-> FALSE]

Idle == Begun("none", "none", <<>>)

NoAnswer == [status |-> "none", kind |-> "none", verdict |-> "none", source |-> "none",
             trace |-> "none", fetched |-> "none", mismatch |-> FALSE]

Busy(r) == req[r].kind # "none"
At(r, exchange) == req[r].todo # <<>> /\ Head(req[r].todo) = exchange

\* What is true now, and has been so at some time.
Now == [flagUp    |-> flags,    flagDown    |-> Lines \ flags,
        contactUp |-> contacts, contactDown |-> Lines \ contacts,
        settings  |-> {config}]
Also(a, b) == [f \in DOMAIN a |-> a[f] \union b[f]]
Nothing == [flagUp |-> {}, flagDown |-> {}, contactUp |-> {}, contactDown |-> {}, settings |-> {}]

-----------------------------------------------------------------------------
(* The audit.                                                              *)

\* What the device says: both lines are registered.
Registered(values) ==
    \A k \in {"P4921", "P4922"} : k \in DOMAIN values /\ values[k] = "Registered"

\* What an audit makes of a sip_log log.  One written by the sip-log route itself
\* (form "report") has no trace where the audit looks for it, and reads as empty.
TraceState(siplog) ==
    IF siplog.form # "capture" THEN "empty"
    ELSE IF siplog.text \in {"offline", "empty"} THEN siplog.text ELSE "present"

\* Mutant of ForceApplied: any log of one counts.
ForceFound == forceLog # "none"

\* force_applied: the latest force-register got a success from the device.
ForceApplied == forceLog = "applied"

\* Mutant of Verdict: lines that are not registered need a force-register to say so.
VerdictOnlyIfApplied(ast, registered, applied, seen) ==
    CASE ast = "both"   /\ registered  -> "registered_confirmed_both_sides"
      [] ast = "both"   /\ ~registered -> "asterisk_online_but_device_flag_stale"
      [] registered                    -> "registered"
      [] ~registered /\ applied        -> "configured_but_neither_side_registered"
      [] OTHER                         -> "unknown"

\* The verdict, Asterisk being the source of truth when it answers.
Verdict(ast, registered, applied, seen) ==
    CASE ast = "both"   /\ registered  -> "registered_confirmed_both_sides"
      [] ast = "both"   /\ ~registered -> "asterisk_online_but_device_flag_stale"
      [] ast = "absent" /\ registered  -> "device_says_registered_but_asterisk_has_no_contact"
      [] ast = "unknown" /\ registered -> "registered"
      [] ast # "both" /\ ~registered /\ applied /\ seen = "present" ->
             "sip_trace_present_but_not_registered"
      [] ast = "absent" /\ ~registered /\ applied /\ seen # "present" ->
             "configured_but_neither_side_registered"
      [] ast = "absent" /\ ~registered /\ ~applied -> "neither_side_registered"
      [] ast = "unknown" /\ ~registered /\ applied /\ seen # "present" ->
             "configured_but_no_register_observed"
      [] ast = "unknown" /\ ~registered /\ ~applied -> "no_force_register_audit_found"

\* _compare_values: a key missing from the values read counts as a match, one
\* missing from the backup does not.
Mismatch(expected, values) == \/ "P47" \in DOMAIN values /\ values["P47"] # expected
                              \/ "P47" \notin DOMAIN backup
                              \/ backup["P47"] # expected

\* What the route knows of Asterisk: nothing unless both exchanges succeeded.
AsteriskSays(q) ==
    IF q.asterisk # "reachable" THEN "unknown" ELSE IF q.online = Lines THEN "both" ELSE "absent"

\* Mutant of Snapshot: the backup comes first.
SnapshotOfBackup(q) == IF backup # NoValues THEN backup ELSE q.got

\* The values an audit rests on: those just read, else the latest backup's.  (A
\* force_register log has them too, but not under the name "readback".)
Snapshot(q) == IF q.kind # "status_audit" \/ q.got = NoValues THEN backup ELSE q.got

\* _registration_audit, given the sip_log log it goes by.
Audit(q, siplog) ==
    [status     |-> "ok",
     kind       |-> q.kind,
     verdict    |-> Verdict(AsteriskSays(q), Registered(Snapshot(q)), ForceApplied,
                            TraceState(siplog)),
     source     |-> IF q.kind = "status_audit" /\ ~q.error THEN "live" ELSE "latest_backup",
     trace      |-> TraceState(siplog),
     fetched    |-> siplog.text,
     mismatch   |-> q.kind = "status_audit" /\ Mismatch(q.setting, Snapshot(q))]

-----------------------------------------------------------------------------
(* Calls of HT812Client, as HT812Session has them: what a call meets.      *)

\* A POST is answered, after a login or a re-login if it needs one.
Answered == up /\ token' = TRUE /\ session' = TRUE

\* The session is lost again before the retry: the answer has no values.
LostTwice == up /\ ~session /\ token' = TRUE /\ UNCHANGED session

\* A GET is answered: _get logs in without a token, but does not try again.
Fetched   == up /\ (token => session) /\ token' = TRUE /\ session' = TRUE
NoSession == up /\ token /\ ~session /\ UNCHANGED client

\* The login fails: HT812Error.
NoLogin(again) ==
    \/ ~up /\ ~token /\ UNCHANGED client
    \/ up /\ (~token \/ (again /\ ~session)) /\ token' = FALSE /\ session' = FALSE

\* Any other error (of the request itself, or of a login that is answered badly) is
\* one of httpx, and no HT812Error.
NoAnswerCame(again) ==
    \/ (up \/ token) /\ UNCHANGED client
    \/ up /\ again /\ token /\ ~session /\ token' = FALSE /\ UNCHANGED session

\* The same, but the device has done what it was asked, and changed its token.
AnswerLost == up /\ token' = TRUE /\ session' = FALSE

-----------------------------------------------------------------------------
(* Routes.                                                                 *)

\* What has been true during a live audit.
Remember ==
    /\ held' = [r \in Requests |-> IF req'[r].kind # "status_audit" THEN Nothing
                                   ELSE IF Busy(r) THEN Also(held[r], Now') ELSE Now']
    /\ traced' = (traced \/ trace')

Start(r) ==
    /\ ~Busy(r)
    /\ requests < MaxRequests
    /\ requests' = requests + 1
    /\ \E k \in Kinds, s \in Settings, reboot \in BOOLEAN :
           /\ reboot => k = "force_register"
           /\ req' = [req EXCEPT ![r] =
                         Begun(k, IF k \in Configuring THEN s ELSE "none", Exchanges(k, reboot))]
    /\ answer' = [answer EXCEPT ![r] = NoAnswer]
    /\ overwritten' = overwritten \ {r}
    /\ UNCHANGED <<device, client, asterisk, disk, accepted, changes>>
    /\ Remember

\* The route returns: handled ("error", a 401 or 502 of _handle) or not ("failed",
\* a 502 of the application's handler of last resort).
EndWith(r, status) ==
    /\ req' = [req EXCEPT ![r] = Idle]
    /\ answer' = [answer EXCEPT ![r] = [NoAnswer EXCEPT !.status = status,
                                                        !.kind = req[r].kind]]

\* The exchange is over, with what the route makes of it.
Proceed(r, q) == /\ req' = [req EXCEPT ![r] = [q EXCEPT !.todo = Tail(@)]]
                 /\ UNCHANGED answer

\* The rest of a loop, which comes first in what is to do, is skipped.
Skip(r, q, exchanges) ==
    \E n \in 0 .. Len(q.todo) :
        /\ \A i \in DOMAIN q.todo : q.todo[i] \in exchanges <=> i <= n
        /\ req' = [req EXCEPT ![r] = [q EXCEPT !.todo = SubSeq(@, n + 1, Len(@))]]
        /\ UNCHANGED answer

\* Mutant of Returned: any answer will do.
ReturnedTrue(q, response) == [q EXCEPT !.ok = TRUE]

\* patch_config returns whether the device reports success.
Returned(q, response) == [q EXCEPT !.ok = (response = "success")]

\* patch_config: all values of the setting, applied at once.  An answer other than
\* success changes nothing, and the route goes on.
Write(r) ==
    /\ At(r, "write")
    /\ \/ /\ Answered \/ LostTwice
          /\ Proceed(r, Returned(req[r], "error"))
          /\ UNCHANGED <<config, overwritten, accepted>>
       \/ /\ \/ Answered /\ Proceed(r, Returned(req[r], "success"))
             \/ AnswerLost /\ EndWith(r, "failed")
          /\ config' = req[r].setting
          /\ overwritten' = {x \in Requests \ {r} : req[x].ok}
          /\ accepted' = (accepted \/ req[r].kind = "force_register")
       \/ /\ \/ NoLogin(TRUE) /\ EndWith(r, "error")
             \/ NoAnswerCame(TRUE) /\ EndWith(r, "failed")
          /\ UNCHANGED <<config, overwritten, accepted>>
    /\ UNCHANGED <<flags, trace, up, asterisk, disk, requests, changes>>
    /\ Remember

\* The device restarts: it forgets its sessions, registrations and trace.
Restarts == /\ up
            /\ up' = FALSE
            /\ flags' = {}
            /\ trace' = FALSE
            /\ token' = TRUE
            /\ session' = FALSE

Reboot(r) ==
    /\ At(r, "reboot")
    /\ \/ Restarts /\ (Proceed(r, req[r]) \/ EndWith(r, "failed"))
       \/ /\ \/ (Answered \/ LostTwice) /\ Proceed(r, req[r])
             \/ NoLogin(TRUE) /\ EndWith(r, "error")
             \/ NoAnswerCame(TRUE) /\ EndWith(r, "failed")
          /\ UNCHANGED <<flags, trace, up>>
    /\ UNCHANGED <<config, asterisk, disk, overwritten, accepted, requests, changes>>
    /\ Remember

\* What the device shows under a key.
Value(k) == CASE k = "P47" -> config
              [] k = "P4921" -> IF 1 \in flags THEN "Registered" ELSE "Not Registered"
              [] k = "P4922" -> IF 2 \in flags THEN "Registered" ELSE "Not Registered"

\* values[k] = v
With(values, k, v) == [x \in DOMAIN values \union {k} |-> IF x = k THEN v ELSE values[x]]

\* get_values, one key at a time.  After an HT812Error nothing has been read; the
\* routes note it and go on.
Read(r, k) ==
    /\ At(r, k)
    /\ \/ Answered  /\ Proceed(r, [req[r] EXCEPT !.got = With(@, k, Value(k))])
       \/ LostTwice /\ Proceed(r, [req[r] EXCEPT !.got = With(@, "reason", "invalid session")])
       \/ NoLogin(TRUE) /\ Skip(r, [req[r] EXCEPT !.got = NoValues, !.error = TRUE], Keys)
       \/ NoAnswerCame(TRUE) /\ EndWith(r, "failed")
    /\ UNCHANGED <<device, asterisk, disk, overwritten, accepted, requests, changes>>
    /\ Remember

\* get_sip_log, and for _capture_sip_log the log that it writes.  The text of an
\* "invalid session" answer is no different from a trace.
FetchTrace(r) ==
    /\ At(r, "trace")
    /\ \/ \E text \in {"present", "empty", "invalid session", "offline"} :
            /\ \/ Fetched /\ text = IF trace THEN "present" ELSE "empty"
               \/ NoSession /\ text = "invalid session"
               \/ NoLogin(FALSE) /\ text = "offline"
            /\ Proceed(r, [req[r] EXCEPT !.text = text])
            /\ sipLog' = IF req[r].kind = "sip_log" THEN sipLog
                         ELSE [form |-> "capture", text |-> text]
       \/ NoAnswerCame(FALSE) /\ EndWith(r, "failed") /\ UNCHANGED sipLog
    /\ UNCHANGED <<device, asterisk, backup, forceLog, overwritten, accepted, requests,
                   changes>>
    /\ Remember

\* get_registration_contacts, one line at a time: its contact, a status other than
\* 200, or no answer, after which Asterisk counts as unreachable.
AskAsterisk(r, l) ==
    /\ At(r, Extension[l])
    /\ \/ /\ ari
          /\ \/ Proceed(r, [req[r] EXCEPT !.asterisk = "reachable",
                                          !.online = IF l \in contacts THEN @ \union {l} ELSE @])
             \/ Proceed(r, [req[r] EXCEPT !.asterisk = "reachable", !.unsure = TRUE])
       \/ /\ ~ari
          /\ Skip(r, [req[r] EXCEPT !.asterisk = "offline", !.online = {}],
                  {Extension[m] : m \in Lines})
    /\ UNCHANGED <<device, client, asterisk, disk, overwritten, accepted, requests, changes>>
    /\ Remember

\* save_config_snapshot: the file is made of whatever came.  Whether an export has
\* the registration of the lines in it is the device's affair.
Download(r) ==
    /\ At(r, "download")
    /\ \/ /\ Proceed(r, req[r])
          /\ \/ Fetched /\ \E keys \in {{"P47"}, Keys} : backup' = [k \in keys |-> Value(k)]
             \/ NoSession /\ backup' = NoValues
       \/ /\ \/ NoLogin(FALSE) /\ EndWith(r, "error")
             \/ NoAnswerCame(FALSE) /\ EndWith(r, "failed")
          /\ UNCHANGED backup
    /\ UNCHANGED <<device, asterisk, forceLog, sipLog, overwritten, accepted, requests,
                   changes>>
    /\ Remember

\* What a route does after its last await: force-register and sip-log write their
\* logs, and the audits are made.
Finish(r) ==
    LET q == req[r]
        log == CASE q.kind = "status_audit" -> [form |-> "capture", text |-> q.text]
                 [] q.kind = "sip_log"      -> [form |-> "report", text |-> q.text]
                 [] OTHER                   -> sipLog
    IN  /\ Busy(r) /\ q.todo = <<>>
        /\ forceLog' = IF q.kind # "force_register" THEN forceLog
                       ELSE IF q.ok THEN "applied" ELSE "failed"
        /\ sipLog' = IF q.kind = "sip_log" THEN log ELSE sipLog
        /\ answer' = [answer EXCEPT ![r] =
                         IF q.kind \in Audits THEN Audit(q, log)
                         ELSE [NoAnswer EXCEPT !.status = "ok", !.kind = q.kind]]
        /\ req' = [req EXCEPT ![r] = Idle]
        /\ UNCHANGED <<device, client, asterisk, backup, overwritten, accepted, requests,
                       changes>>
        /\ Remember

Route(r) == \/ Write(r) \/ Reboot(r) \/ FetchTrace(r) \/ Download(r) \/ Finish(r)
            \/ \E k \in Keys : Read(r, k)
            \/ \E l \in Lines : AskAsterisk(r, l)

-----------------------------------------------------------------------------
(* The surroundings.                                                       *)

\* Device and Asterisk register, forget and come and go, a browser logs in, and the
\* poller, which uses the client as well, renews the session or is refused one.
Surroundings ==
    /\ changes < MaxChanges
    /\ changes' = changes + 1
    /\ \/ \E l \in Lines :                       \* a REGISTER reaches Asterisk
            /\ up /\ ari
            /\ contacts' = contacts \union {l}
            /\ trace' = TRUE
            /\ UNCHANGED <<flags, up, ari, client>>
       \/ /\ up /\ trace' = TRUE                 \* or does not
          /\ UNCHANGED <<flags, up, asterisk, client>>
       \/ \E l \in contacts :                    \* a contact expires
            contacts' = contacts \ {l} /\ UNCHANGED <<flags, trace, up, ari, client>>
       \/ \E l \in Lines :                       \* the device changes its mind
            /\ up
            /\ flags' = IF l \in flags THEN flags \ {l} ELSE flags \union {l}
            /\ UNCHANGED <<trace, up, asterisk, client>>
       \/ up /\ up' = FALSE /\ UNCHANGED <<flags, trace, asterisk, client>>
       \/ ~up /\ up' = TRUE /\ UNCHANGED <<flags, trace, asterisk, client>>
       \/ session /\ session' = FALSE /\ UNCHANGED <<token, flags, trace, up, asterisk>>
       \/ ari' = ~ari /\ UNCHANGED <<flags, trace, up, contacts, client>>
       \/ (Answered \/ NoLogin(TRUE)) /\ UNCHANGED <<flags, trace, up, asterisk>>
    /\ UNCHANGED <<config, disk, req, answer, overwritten, accepted, requests>>
    /\ Remember

\* A browser or provision_ht812.py commits another setting, in a session of its own
\* that has ended the client's.
Commit ==
    /\ changes < MaxChanges
    /\ changes' = changes + 1
    /\ up
    /\ config' \in Settings \ {config}
    /\ overwritten' = {r \in Requests : req[r].ok}
    /\ session' = FALSE
    /\ UNCHANGED <<flags, trace, up, token, asterisk, disk, req, answer, accepted, requests>>
    /\ Remember

-----------------------------------------------------------------------------
\* The service has started, with what earlier runs have left on disk and on the
\* device; its poller may have logged in already.
Init ==
    /\ config \in Settings
    /\ flags \in {{}, Lines}
    /\ trace = FALSE
    /\ up = TRUE
    /\ session \in BOOLEAN
    /\ token = session
    /\ contacts = flags
    /\ ari = TRUE
    /\ backup \in {NoValues} \union
                  {[k \in Keys |-> IF k = "P47" THEN s ELSE "Registered"] : s \in Settings}
    /\ forceLog = "none"
    /\ sipLog = [form |-> "none", text |-> "none"]
    /\ req = [r \in Requests |-> Idle]
    /\ answer = [r \in Requests |-> NoAnswer]
    /\ held = [r \in Requests |-> Nothing]
    /\ overwritten = {}
    /\ accepted = FALSE
    /\ traced = FALSE
    /\ requests = 0
    /\ changes = 0

Next == \/ \E r \in Requests : Start(r) \/ Route(r)
        \/ Surroundings \/ Commit

Spec == Init /\ [][Next]_vars

-----------------------------------------------------------------------------
(* Properties.                                                             *)

Texts == {"none", "present", "empty", "invalid session", "offline"}
Values == UNION {[ks -> Settings \union {"Registered", "Not Registered"}] : ks \in SUBSET Keys}

\* The variables keep the values the routes, the device and Asterisk give them.
TypeOK ==
    /\ config \in Settings
    /\ flags \subseteq Lines /\ contacts \subseteq Lines
    /\ {trace, up, session, token, ari, accepted, traced} \subseteq BOOLEAN
    /\ backup \in Values
    /\ forceLog \in {"none", "failed", "applied"}
    /\ sipLog \in [form : {"none", "capture", "report"}, text : Texts]
    /\ \A r \in Requests :
           /\ req[r].kind \in Kinds \union {"none"}
           /\ req[r].online \subseteq Lines /\ req[r].unsure \in BOOLEAN
           /\ req[r].text \in Texts
           /\ answer[r].status \in {"none", "ok", "error", "failed"}
           /\ answer[r].verdict \in Verdicts \union {"none"}
           /\ answer[r].trace \in {"none", "present", "empty", "offline"}
           /\ answer[r].mismatch \in BOOLEAN
    /\ overwritten \subseteq Requests
    /\ requests \in 0 .. MaxRequests /\ changes \in 0 .. MaxChanges

\* What a live audit says was so at some time while it ran: the flags and contacts
\* of its verdict, and the configuration it finds nothing wrong with (status_audit;
\* handout.md:85, no stale data is presented as current).  It may be wrong only about
\* a value it got no answer for, or a line Asterisk gave an error for.
AuditIsCurrent ==
    [][\A r \in Requests :
         LET q == req[r]
             a == answer'[r]
             h == held[r]
         IN  Finish(r) /\ q.kind = "status_audit" /\ a.source = "live" =>
             /\ IF a.verdict \in {"registered", "registered_confirmed_both_sides",
                                  "device_says_registered_but_asterisk_has_no_contact"}
                THEN h.flagUp = Lines
                ELSE h.flagDown # {} \/ "reason" \in DOMAIN q.got
             /\ a.verdict \in {"registered_confirmed_both_sides",
                               "asterisk_online_but_device_flag_stale"} => h.contactUp = Lines
             /\ a.verdict \in {"device_says_registered_but_asterisk_has_no_contact",
                               "configured_but_neither_side_registered",
                               "neither_side_registered"} => h.contactDown # {} \/ q.unsure
             /\ ~a.mismatch => q.setting \in h.settings \/ "reason" \in DOMAIN q.got
      ]_vars

\* What force-register reads back after its write is its own setting, unless another
\* request, a browser or a script has written since (force_register reads only after
\* patch_config returned, router.py:905-956).
ReadbackIsOwn ==
    \A r \in Requests :
        req[r].kind = "force_register" /\ req[r].ok /\ r \notin overwritten =>
            ("P47" \in DOMAIN req[r].got => req[r].got["P47"] = req[r].setting)

\* What a verdict gives as its grounds has been so: it says "configured" only if the
\* device has taken a force-register, whichever log the last one left, and speaks of
\* a SIP trace only if the device had one or what was taken for a trace is its
\* "invalid session" (_registration_audit, router.py:371-435).
VerdictHasGrounds ==
    \A r \in Requests :
        /\ answer[r].verdict \in {"sip_trace_present_but_not_registered",
                                  "configured_but_neither_side_registered",
                                  "configured_but_no_register_observed"} => accepted
        /\ answer[r].verdict = "sip_trace_present_but_not_registered" =>
               traced \/ answer[r].fetched = "invalid session"

-----------------------------------------------------------------------------
(* What comments and documents say and the code does not do.               *)

\* handout.md:85, "if the HT812 is unreachable it falls back to the latest backup":
\* no audit fails because the device does not answer.
AuditFallsBack ==
    [][\A r \in Requests : req[r].kind = "status_audit" /\ ~up /\ req'[r] = Idle
                               => answer'[r].status # "failed"]_vars
=============================================================================
