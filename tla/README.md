# A formal model of pbx_ivr

TLA+ specifications of the control logic of this repository: the service that
owns the session of a Grandstream HT812 (`ht812_api`), the Asterisk IVR
(`ari_app`), the event pipeline between them and the dashboard, and the scripts
that use them. TLC checks the specifications on small instances; TLAPS proves every safety
property the runs check, for every instance.

## 1. The system

| Part | Code | State it keeps | Operations | Modelled by |
|---|---|---|---|---|
| HT812 session client | `ht812_api/ht812_client.py` | session token, one lock | `_login`, `_post`, `_get`, `get_values`, `patch_config`, `reboot`, `logout` ... | `HT812Session`, `SerialDevice` |
| Backups | `save_config_snapshot`, `_prune_backups`, `main.py`, `scripts/backup_ht812.sh` | a directory of XML files | download, daily job, local copy | `ConfigBackups` |
| FXS poller | `ht812_api/fxs_poller.py` | last hook state of each port, retry delay | `_run`, `_poll`, `stop` | `FXSPoller` |
| Event store and stream | `ht812_api/events.py`, `events_router.py` | last 250 events, one shared queue | publish, list, stream | `EventStream` |
| Lifespan | `ht812_api/main.py` | creates all of the above | start, shutdown | `Init`/`Shutdown` in the modules above |
| IVR application | `ari_app/ivr_ari.py` | `_sessions`, a task per call, its digit future, its bridge | events of Asterisk, menus, bridging, forwarding of digits, clean-up | `IVRApp`; its digits, `LineDigits` |
| Web dashboard | `web/src/App.tsx` | last 120 events, line state derived from them | SSE handler, buttons | the event list, in `EventStream` |
| Control routes | `ht812_api/router.py`, `models.py` | backups and debug logs on disk | provision, force-register, audit ...; backup, patch, diagnosis, status | `RegistrationAudit`; `ConfigBackups` |
| DTMF routes, Asterisk client | `dtmf_router.py`, `asterisk_client.py` | none | simulate; find a channel, send a digit; registration contacts | `LineDigits`; the contacts, in `RegistrationAudit` |
| Scripts for calls | `simulate_call_flow.py`, `send_dtmf_to_ivr.py` | none | a scripted call; digits one after the other | `LineDigits` |
| Scripts for the device | `provision_ht812.py`, `fxs_monitor.py` | a session of their own | provision and read back; monitor the ports | `DirectTools` |
| Other scripts | `watch_events.py`, `registration_audit.py`, `ht812_proxy.py` | none | print, call routes, forward bytes | not modelled |
| Dialplan, AGI script | `asterisk/etc/asterisk` | none | alternative IVR | not modelled |
| Metrics, deployment | `metrics.py`, `docker-compose.yml` | counters, none | none | not modelled |

How they interact. The HT812 sends calls to Asterisk over SIP; Asterisk hands
them to the Stasis application and reports every event on one websocket. The
application answers by ARI requests and publishes what it does to
`POST /events`. The poller, the DTMF routes and the control routes publish to the
same store and queue, which `/events/stream` replays and streams to dashboards.
The poller, the handlers and the backup job all reach the device through one
`HT812Client`; two scripts and browsers reach it beside that, and take its only
session from the client and from each other. Everything in `ht812_api` runs in one
asyncio event loop, and so does everything in `ari_app`: coroutines interleave at
awaits only, which is the grain of every action here.

What is hard here. The device keeps one session, replaces the token at every
commit, forgets sessions, and locks itself after five refused logins. Requests
can be processed after the client has given up. Calls end at any point of a
session's task, and hangups, digits and timers race. The websocket loses events.
One queue feeds all streams. One digit is reported by up to three publishers. A
download saves whatever the device answers.

`PROJECT.json` lists the hazards with their lines and the properties aimed at them.

## 2. The modules

`MC*.tla` modules hold the instances for TLC (`DirectTools` needs none), `*Proofs.tla`
modules the proofs. Definitions commented "Mutant of" are not part of a
specification: each is a definition changed as a bug would change it, and shows
that a property can fail.

### HT812Session, refining SerialDevice

A caller (a handler, the poller, the backup job) is `idle`, `waiting` for the
lock, or holds it with one request on the wire: `login` (no token),
`request`, `relogin` (after an invalid session) or `retry`. `Acquire` is the entry
of `async with self._lock` and `_ensure_token`; `LoginGranted`, `LoginFailed`,
`Relogin`, `Complete`, `RequestFailed` are the ways out of the awaits of `_login`,
`_post` and `_get`. `NextKey` is the loop of `get_values`, which queues on the lock
for every key. The operations are four kinds, by what they do to the session:
`values` (any other POST), `apply` (rotates the token), `reset` (reboot, factory
reset) and `download` (`_get`). `Shutdown`, `CancelWaiting`, `CancelHolder` and
`LogoutReturns` are the end of `lifespan`.

The device is the environment: it answers (`Respond`), does not (`GiveUp`), serves
a request whose client has gone (`ServeLate`), or is taken over by a browser
(`Evict`). Tokens are numbers in order of issue.

`SerialDevice` is what the client promises whatever happens: one turn at a time,
first come first served, at most four requests a turn. The refinement maps the
lock to `owner`, its waiters to `queue`, and the stage of the holder to the
requests it may still make.

### ConfigBackups

Who asks the device for its configuration, and what becomes of the answer. A
configuration is the number of commits before it; an answer that is none, as a
download gets without a valid session, is `Junk`. The calls are routes, the daily
job, `backup_ht812.sh` and the poller, whose polls are what renews a lost session.
A call is `waiting` for the client's lock, `asked` once the device has answered,
and ends in `Receive` or `ReceiveBackup`; `LoginFails`, `RequestFails`, `AskInVain`
and `LoseAnswer` (which may lose the token that a commit rotated) are its failures. `Save` writes and prunes, in the one stretch of
`save_config_snapshot` without an await; `fresh` says that a file written now would
take the name of the last one. `Reply` is what a route answers: `Matches` is
`_compare_values` over the live value and the one of the latest backup,
`OfflineStatus` the fall-back of the two status routes. `Crash` is a restart of the
API at any point, also between the opening and the end of a write.

The lock and the exchange with the device are those of `HT812Session` in two steps;
`token` has only the three states that a download tells apart.

### IVRApp

Asterisk's side: the life of a channel (`none`, `ringing`, `stasis`, `hanging`,
`gone`), the bridge of each session, and `wire`, the events on the websocket. The
dispatcher takes one event at a time and awaits its handler (`handling`), except
that `on_stasis_start` is a task of its own (`starting`). A session's task moves
through `begin`, `prompt` and `wait` (the two awaits of `_collect_digit`), `act`,
then `bridge` .. `announce` or `cleanup`, to `ended`. `fut` is the digit future.
Requests to ARI can be lost after three attempts (`refused`); events are lost when
the websocket drops (`unheard`).

### LineDigits

The way of a digit into the event store. A digit of a channel is its number in
Asterisk's order. The dispatcher publishes it raw and then delivers it; the
session's task publishes the digit a menu acts on, and for line 1 a copy for line 2
(`Enter`, `TakeDigit`, `GoOn`), as it does for the digits dialled with the call. Each
publisher has one POST at a time (`post`): `Store` is the API appending the event,
`GiveUp` the three seconds of `publish` running out, after which the event may still
be stored (`late`) or never (`lost`).

Senders are `POST /dtmf/send`, which takes the first channel of a line (`Find`) and
sends to it after another await (`SendDigit`), and `send_dtmf_to_ivr.py`, which
repeats its step for each digit of a sequence. `Originate` .. `InjectNext` are
`simulate_call_flow.py`: it originates a Local channel, opens its websocket after
that, injects digits from a task and leaves its loop on an event or at its deadline.
Each of these exchanges may fail. `Cut` is the end of a script that its failed
exchange, or an interruption, cuts short without a hang-up; what fails before there is a
channel, or in the task, does not.

### FXSPoller

The loop of `_run` with its sleeps, the four reads of a poll one by one, and the
comparison of `_poll`. `Norm` is `_norm_hook`, over the spellings it knows. Time is
counted in sleeps, in seconds; the lock of the device is a countdown that a refused
login restarts, as `docs/handout.md` section 4.1 describes it.

### EventStream

`Publish` is the store-then-queue of every publisher. A stream replays a copy of
the last events, then takes from the shared queue. `dead` counts streams whose
client has gone and that have not noticed. `Show` is the dashboard's `onmessage`:
an event it already lists moves to the end.

### RegistrationAudit

The routes that configure the device and judge its registration. A request is a
list of exchanges (`Exchanges`), one for each await, with the locals of its route:
what it has read (`got`), the trace it fetched (`text`), what Asterisk said
(`asterisk`, `online`). `Write`, `Reboot`, `Read`, `FetchTrace`, `AskAsterisk` and
`Download` are the exchanges with every outcome they have, and `Finish` is what the
route does after the last: the log it leaves (`forceLog`, `sipLog`) and the audit
that it returns. `Audit` and the operators above it are `_registration_audit`; their
inputs are the real ones, taken from disk or from the request. `Answered`,
`Fetched`, `NoLogin` and the like are the outcomes of a call of `HT812Client`,
as `HT812Session` has them, without its lock: calls never overlap there, so a call is
one step here. What counts is which error comes out: `HT812Error`, which the routes
handle (`error`), or one of httpx, which they do not (`failed`).

`Surroundings` is the rest of the world: registrations that come and go on either
side, restarts and outages, a browser's login, the poller's use of the client.
`Commit` is a setting that a browser or `provision_ht812.py` writes past the API.
`held` remembers, for every request, what has been true at some time while it ran.

### DirectTools

The two scripts with a session of their own, next to the API and a browser.
`ProvLogin`, `ProvApply` and `ProvRead` are `provision_ht812.py`, which logs in once;
`MonLogin`, `MonRead` and `MonWake` are `monitor_direct`, which gives a row up when
its session is gone and logs in again. A step is an exchange, at the moment the
device serves it. `Intrude` and `Commit` are all the others can do to them.

## 3. The runs

| Run | Instance | Shows |
|---|---|---|
| `session` | 3 callers, 3 calls of up to 2 keys, all operations, 1 eviction | one request at a time, with the current token; rotations are captured, one loss is survived; refinement of `SerialDevice` |
| `session_live` | 2 callers, fairness | every call returns; refinement of the fair `SerialDevice` |
| `backups` | a route, the job, the script and the poller; `BACKUP_KEEP` 2, 1 commit, 2 faults; fairness | backups keep the order of the configurations (`BackupsInOrder`), few bad answers do not drive out good backups (`GoodBackupSurvives`), answers are of the time of their call (`AnswerIsCurrent`, `CleanIsTrue`), a later backup catches up (`BackupCatchesUp`) |
| `ivr` | a call with 2 digits and a leg with 1, 1 lost websocket, 2 retries | no caller in limbo (`NoLimbo`), a session with a bridge remembers whom it dialled (`BridgeHasLeg`), menus act on digits in order (`DigitsInOrder`) |
| `ivr_live` | the same with 1 digit each, fairness | tasks end; sessions are forgotten |
| `digits` | a call, the leg dialled for it, a Local channel of the script, 1 sender of 1 digit, 1 fault, 2 actors | events of a digit are stored in the order they tell (`EventsInOrder`), digits due to line 2 get there (`NoDigitDropped`), the senders tell the truth (`SentAsReported`), and a scripted call is over when its script was not cut short (`ScriptEndsCall`) |
| `poller` | 2 ports, 2 transitions each, 3 faults, a lock after 3 refused logins; fairness | no invented or stale transition (`NoPhantomTransition`, `EventsAreRecent`); the poller catches up with the phones (`FollowsHook`) |
| `stream` | 2 readers, 4 events, 3 streams; store 3, replay 2, view 3; fairness | a sole dashboard settles on the right list (`SettledView`); the queue is drained (`QueueDrains`) |
| `registration` | 2 requests at a time, 2 settings, 1 change of the surroundings (a commit of others included) besides the restarts a request asks for | a live audit is true of the time it took (`AuditIsCurrent`); a readback is one's own (`ReadbackIsOwn`); no trace and no configuration is invented (`VerdictHasGrounds`) |
| `tools` | 2 settings, rows of 2 ports and a flag, 3 logins of others, 2 turns of a hook, 2 faults; fairness | a clean verification is of one's own values (`VerifiedMeansWritten`), rows have no gap (`RowsAreTrue`), the monitor recovers (`MonitorRecovers`) |

Every run also checks the `TypeOK` of its module, but for the live ones; that of
`ConfigBackups` bounds the number of files.

The bounds. A property of the session needs two callers that compete and a third
that queues behind them; two keys make a call give the lock up and queue again;
one eviction, the resets, and late requests give two or more losses of the
session. In the IVR one inbound call and one leg have every kind of channel and
of bridge membership (the leg gets a session of its own); two digits of one channel are needed to confuse their order, one more of the leg's to
let both sessions act, two retries
to loop in a menu; one drop loses any suffix of the events. In `poller`
the device locks after three refused logins instead of five, so three faults reach
the lockout and, since a locked device refuses for ever, every value of the
delay from the interval up to its cap. A registration run has two requests because each relation it checks
is between one request and another, or the disk that one left; one change, in
addition to restarts and lost answers, falls before, between or after any two
exchanges, and the state that others need (a device that says it is registered, a
backup that is not current, no session) is among the initial states. The sizes of the event pipeline keep the order of the real
ones (replay 50, view 120, store 250) as far as it matters: a replay is shorter than the store and
the view, and there are more events than any of them holds.

In `backups` the four callers are one of each kind that behaves differently, and
three of them can save: two files fill the directory, the third is pruned. Two
configurations (one commit) tell an old backup from a new one. Two
faults make an outage and an eviction, or a junk backup and a crash, meet; two junk
backups, for which one eviction is enough since a download never renews the
session, are as many as `BACKUP_KEEP`. In `digits` the call has a dialled digit and
a keyed one, the leg and the script's channel bring a second session with the
dispatcher between them; `MaxActors` lets any two of a call, a leg, a click, a
sender and the script meet. In `tools` two settings have a before and an after, a
row has a hook to lose before and after an eviction and a key beyond the hooks, and
three logins and two faults interrupt the monitor five times.

The runs whose systems may stop (calls end, events are bounded, scripts exit) say
`CHECK_DEADLOCK FALSE`; the session runs and `backups` do not, so they show as well
that no caller is ever stuck.

Fairness. Weak fairness of the program's own steps: the event loop runs every
ready task. Of the environment only what the code enforces with a timeout or the
peer guarantees: an exchange with the device ends (httpx, 20 s), a digit
timer fires, ARI requests and publishes return, Asterisk completes a hangup, a
closed connection is noticed. Nothing obliges a caller to press, to hang up or to
answer, nor the device to answer well. In `backups` the job fires every day and the
poller polls whatever became of the last time (`_scheduled_backup` and `_run` catch
every exception), and the device does not stay down; their exchanges are strongly
fair because the lock is `asyncio.Lock`, first come, first served, so that a caller
that finds it free again and again gets it. In `tools` the scripts run and the
device comes back; the logins of others are bounded, since a client that logs in
again each time the monitor does keeps it from finishing a row for ever.

### Where the code differs from what is said of it

Each of these runs checks one statement of a comment or document and TLC shows a
behaviour of the code that contradicts it.

| Run | Statement | What the code does |
|---|---|---|
| `registration_offline` | `docs/handout.md:85` an audit falls back to the backup if the device is unreachable | only a failed login is an `HT812Error`; with a token held, the request's own timeout is not, and the audit fails with 502 |
| `digits_forward` | `ivr_ari.py:456` the digits of line 2 are not forwarded again | the leg to line 2 carries the number of line 1, so its session takes itself for line 1 and forwards them |

More limits of the code are in the models as they are, some as behaviours that a
property has to exempt, and have no run of their own.

Sessions and calls:

* After a failed login each waiting caller logs in again (`Acquire` after
  `LoginFailed`), though `ht812_client.py:89` has them share one result.
* `logout` does not take the lock, so at shutdown it may overlap the request of a
  cancelled task (`LogoutReturns`; the token properties say `logout = "open"`).
* `dial_endpoint` passes no arguments, so an outbound leg gets a session and a menu
  (`Answer`, `DispatchStart`), though `ivr_ari.py:527` skips outbound channels.
* "Bridge connected" (`ivr_ari.py:420`) is published while the party dialled is
  ringing and not in the bridge (`JoinPeer`, `Announce`).
* `on_hangup` publishes `channel_destroyed` for a hangup request as well, and forgets
  the session while the channel lives (`DispatchHangup`).
* `on_stasis_start` registers a session after an await; if the hangup came first, the
  session stays registered, though its task ends (`SessionForgotten` starts from a
  registered session).

Digits and events:

* A stream whose client has gone takes one more event before it notices, and the
  dashboard that reconnected never sees it (`SettledView` asks for `lost = {}`). Two
  readers share the live events between them, though `simulate_call_flow.py:10` has
  them visible in both.
* A port whose first reading was empty reports no transition (`FollowsHook` exempts
  it), though `fxs_poller.py:28` has every one reported.
* The poller's retries are at most 120 s apart (`Nap`). If every refused attempt
  restarts the device's lock of 300 s, as `docs/handout.md:234` says, the lock never
  runs out while the poller runs.
* The digits dialled with a call are published by its task, the first keys by the
  dispatcher: either may come first, so `EventsInOrder` compares digits with those of
  their own kind.
* `/dtmf/send` takes the first channel with the line in its caller number or its name
  (`asterisk_client.py:71-74`), so a leg to line 2 that carries the number of line 1 may be
  found for line 1 (`Find`).
* `simulate_call_flow.py` opens its websocket after it has originated the call and
  looks at its deadline only when an event of its own channel comes (`Connect`, `Hear`): it
  can miss the start, and wait on beyond its deadline.
* It leaves its call up when it is cut short: when the answer to the originate is lost
  (`Originate`; only a `ConnectError` is caught, line 138), when the websocket cannot be opened
  (`Connect`; line 170, not caught either), when that closes or the script is interrupted
  (`ScriptFault`), and when its hang-up at the deadline fails (`OutOfTime`).
  `ScriptEndsCall` exempts these ends, which have `cut`.

Backups, audits and tools:

* `_get` hands an invalid-session body to its caller (`RetryCoversOneLoss` exempts
  `download`), so it is saved as a backup, and again each time until a POST renews the session
  (`Ask`).
* The copy of `backup_ht812.sh` may be older than the backup the API saved
  meanwhile and is the latest by its modification time (`CopyLocal`;
  `BackupsInOrder` exempts it). With `BACKUP_KEEP` 0 nothing is pruned (`Pruned`).
* A diagnosis that could read nothing live has no mismatch with it (`Matches`).
* A request that times out ends `/status` routes with 502 although they have a fall-back
  for failed logins (`RequestFails`).
* Two force-registers at once read each other's values back, and either reads what a browser
  or `provision_ht812.py` committed after it (`ReadbackIsOwn` exempts a request whose
  setting was overwritten).
* The body of a lost session is not empty, so `_capture_sip_log` takes it for a trace
  (`VerdictHasGrounds` exempts it); and `GET /status/sip-log` leaves its log in a
  form that an audit reads as "no trace", though the bundle is said to have the latest
  one (`router.py:1199`).
* A force-register log has its readback as `live_values`, so the `readback` that
  `_registration_audit` looks for (`router.py:382`) is never there (`Snapshot`).
* A force-register that fails after its write leaves the log of an earlier one as the
  latest; audits then deny that the device was configured (`VerdictHasGrounds` says
  only that a verdict "configured" is right).
* `provision_ht812.py` prints that its settings are committed also when they were not
  (`ProvApply`, line 146), and a tick at every value that is not empty, its own or not.
* The direct monitor and the API take the session from each other by turns
  (`MonLogin`, `Intrude`), and a refused login is tried again after two seconds.

## 4. The proofs

All eight specifications are proved safe for any instance, from the assumptions they
name (distinct callers or channels, bounds that are numbers, a replay no longer than
the store) and nothing else. In each a `Typing` theorem, `Spec => []TypeOK`, is what the rest stand on;
each step of an invariant has a lemma with a case for every action.

`HT812SessionProofs`, for any callers, operations and bounds:

* `MutualExclusion`: `SingleFlight` is inductive with `TypeOK`.
* `TokenStableUnderRequest`: `SentTokenCurrent`. A step changes the token only in
  the hands of the lock's holder (by `SingleFlight`), which sends the new token in
  the same step or has no request left.
* `RotationsCaptured`: `TokenTracksDevice` is not inductive, since it says nothing
  while the lock is held. The strengthening `TokenInv` says what the device's
  session is in every stage of the holder and for every answer it may have got, as long as no session was lost.
* `OneLossIsSurvived`: `RetryCoversOneLoss` through `RetryInv`, which counts the
  losses that a call must have seen when it re-logs in, when its retry is invalid,
  and when one of its answers was.
* `Implementation`: `SerialSafety`, with `QueueInv` (the waiters are the callers in
  `waiting`, each once): the initial state maps to the initial state and every step
  to a step of `SerialDevice` or a stutter.

`IVRAppProofs`, for any number of calls, legs, digits, retries and lost websockets.
The invariant `IVRInv` has four parts besides the types, each needed for the next:

* `Legs` ties the bridge and the peer of a session to the place of its task; with it
  `Pairing`: `BridgeHasLeg`, which is about the id of the party, not about its channel. `StartSession` keeps it only if the task it creates is the
  channel's first, which is what
* `Entered` says: a start that is on the wire or being handled is the channel's only
  one and has no task yet, and hangups on the wire are of channels that are going. A digit
  future is cancelled only for such a channel, so that
* `Joined` holds: from `join_peer` on, and at the end of the task, a live caller is in
  a bridge or its request was lost; `Care`: `NoLimbo`.
* `Ordered` follows the digits of a channel from the wire through the dispatcher
  and the future to the menu; later ones are always behind. `Obedience`:
  `DigitsInOrder`.

`LineDigitsProofs`, for any channels, lines, digits dialled, senders and faults. The
invariant `LineInv` has these parts:

* `Starts`: a start on the websocket is its channel's only one, and its task has not
  begun, so that no task is begun twice. `TasksInv`: a task publishes the event of the
  place it is at, about its digit, and awaits a digit at its prompt only; the one thing a
  hangup or the dispatcher changes in a task, its future, is therefore no digit on its way.
* `DueInv`, on these: a publish that was answered left its event in the store, lost or
  late, and a digit the main menu took (or that came with the call) is being
  carried to line 2 or was published for it; `Delivery`: `NoDigitDropped`.
* `AskInv` relates what a sender has left, sent and counted at each stage of a request;
  `Reporting`: `SentAsReported`.
* `ScriptInv` follows the script's channel and what its websocket says of it, up to an
  end that was not cut short: by then the call is over, or never was. `Ending`:
  `ScriptEndsCall`.
* `OrderInv`, on top of these, is for `Ordering`: `EventsInOrder`. The order of the
  stored events says nothing of the events to come, so it needs where these are.
  `SideOrder`: the digits of a channel are numbered upwards through the websocket and the
  dispatcher, beyond those dialled, those published raw and the one of the
  task. `TaskOrder`: what the task has published is about digits up to its own, and for
  that one up to the place it is at; a digit is delivered only after its raw event, and
  is greater than all before it. So an event that is published comes before none that
  is stored (`PostIsLast`); one that was given up is stored as late. The clicks on the
  keypad are numbered beyond what was stored before (`LogOrder`).

`FXSPollerProofs`, for any ports, delays and faults:

* `NoPhantoms`: `NoPhantomTransition` is strengthened by `Accounted`: published events,
  plus a difference between what is recorded and what was read, plus one between that and the
  phone, never exceed the transitions of the phone.
* `Recency`: `EventsAreRecent`, from `Recent` (what was read since the poll began is
  among the states since then).

`ConfigBackupsProofs`, for any routes, `BACKUP_KEEP`, commits and faults:

* `CallsInv`: one call is with the device at a time, and what a call got is not older
  than its start.
* `Order`: `BackupsInOrder` needs `NotAhead`: while a backup is on its way, everything on
  disk is older than it, and so is what the script has yet to copy.
* `Survival`: `GoodBackupSurvives`, from `GoodIsNear` (the last good file has no more
  behind it than `since` counts) and what `Written` and `Pruned` do to a sequence of files.
* `Currency` and `Clean`: `AnswerIsCurrent` and `CleanIsTrue`, from `CallsInv` and
  from what is on disk being no newer than the device. `Size` bounds the files of `TypeOK`.

`DirectToolsProofs`, for any numbers of settings, keys and ports:

* `Verification`: `VerifiedMeansWritten` is strengthened by `OwnReadBack`: as long as
  `provision_ht812.py` has its session since its commit, all settings are its own.
* `Rows`: `RowsAreTrue`, from `RowSoFar`, the same of the part of a row that was read.

`EventStreamProofs`, for any readers, events, streams and sizes:

* `RunInv`: store, queue and replays are runs of consecutive events that end with the
  last one published or joined; `TypeInv` counts the streams, alive and dead.
* `ViewInv` is for a reader that is alone and lost nothing (`Alone`). `SettledView`
  speaks of a drained queue only, and a reconnect shuffles what the page has: events
  of the replay move from the middle of its list to the end. `Expected` says at each
  moment which event is the d-th newest in the list: those delivered live, then those
  the replay has reached, then what it has yet to reach. `Settling`: `SettledView`. The
  filter of the page, which removes an event by its id, is the removal of the one
  place it has (`Without`): a list without duplicates is part of `RunInv`.

`RegistrationAuditProofs`, for any requests, settings and changes. The invariant `IInv`
has a part for the logs on disk and three for each request, between its exchanges:

* `Own`: from the write of a request until another request, a browser or a script
  overwrites it, its setting is what the device has, which is what it read back; `ReadBack`: `ReadbackIsOwn`.
* `Logs` and `Ground`: every log on disk, and every text a request holds, has the
  grounds a verdict will name; `Grounds`: `VerdictHasGrounds`.
* `Current`: what a request has got so far is among what `held` remembers of its
  time, however the surroundings have changed since; `Currency`: `AuditIsCurrent`, an
  action property: the step that answers has the locals that `Current` speaks of.

Model-checked only: all liveness (`EveryCallReturns`, `SerialService`, `TaskEnds`,
`SessionForgotten`, `FollowsHook`, `QueueDrains`, `BackupCatchesUp`,
`MonitorRecovers`), which TLAPS does not handle together with fairness.

## 5. What is left out

Contents of requests and answers beyond what the session logic looks at; texts,
timestamps, logging, metrics; event payloads other than digits; recordings and sounds
(they share no state); the ids of bridges that Asterisk made for a request whose
answer was lost; the registration flag in hook events; keepalives.

Of the control routes: those that only pass a command on (reboot, factory reset:
they are operations in `HT812Session`), audits with `live=false` (which do what the
bundle does), and the debug logs no audit reads. Of the dashboard: rendering, the
line state derived from the events, and its buttons, each of which is one request.
Of `fxs_monitor.py`: the mode through the API, which shows what
`/ht812/status/ports` returns, modelled in `ConfigBackups`.

The AGI script and its dialplan are an IVR of their own, one sequential process per
call that shares no state with anything else. `registration_audit.py` calls the
routes of `RegistrationAudit` one after the other and prints them; `watch_events.py`
is a reader of the stream, as those of `EventStream`; `ht812_proxy.py` forwards
bytes. `metrics.py` has counters and `docker-compose.yml` no behaviour.

## 6. Plan

1. Done: `HT812Session` with `SerialDevice`, `IVRApp`, `FXSPoller`, `EventStream`,
   `RegistrationAudit`, `ConfigBackups`, `LineDigits`, `DirectTools`; proofs of the
   safety of all eight.
2. The dashboard's line state, derived from the events of several sources.
3. The dialplan and the AGI menu, with the same menu abstraction as `IVRApp`.
