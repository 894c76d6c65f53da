---------------------------- MODULE HT812Session ----------------------------
(***************************************************************************)
(* HT812Client (ht812_api/ht812_client.py): the single owner of the admin  *)
(* session of the HT812, and the device as that client can observe it.     *)
(*                                                                         *)
(* One step of a caller runs from one await to the next, the unit in which *)
(* asyncio interleaves coroutines.  The device answers a request at any    *)
(* time before the client gives up on it; a request the client gave up on  *)
(* may still reach the device later (`late').                              *)
(*                                                                         *)
(* A token is a number, in the order the device issues them; NoToken is    *)
(* the empty string the client starts with.                                *)
(***************************************************************************)
EXTENDS Naturals, Sequences, SequencesExt

CONSTANTS
    Callers,       \* coroutines that use the client: handlers, poller, backup job
    Background,    \* the callers that the shutdown cancels: poller, backup job
    NoCaller,      \* the lock is free
    Ops,           \* the operations the callers use, among AllOps
    MaxKeys,       \* most keys of one get_values
    MaxCalls,      \* bound: calls made during a behaviour
    MaxEvictions   \* bound: times a browser takes the session over

AllOps == {"values", "apply", "reset", "download"}

ASSUME CallersAssumption == /\ NoCaller \notin Callers
                            /\ Background \subseteq Callers
ASSUME OpsAssumption     == Ops \subseteq AllOps
ASSUME BoundsAssumption  == /\ MaxKeys \in Nat \ {0}
                            /\ MaxCalls \in Nat
                            /\ MaxEvictions \in Nat

VARIABLES
    token,      \* HT812Client._session_token
    lock,       \* the holder of HT812Client._lock
    waiters,    \* the callers queued on the lock, first come first served
    pc,         \* where each caller is
    op,         \* the operation it performs
    left,       \* posts its get_values has still to do
    tainted,    \* an answer merged so far was an "invalid session" body
    outcome,    \* what its last call returned or raised
    sent,       \* the token in the request it has outstanding
    reply,      \* the device's answer to that request
    logout,     \* progress of logout() in the shutdown
    session,    \* the token the device honours
    issued,     \* the last token the device issued
    late,       \* requests the client gave up on, still on their way
    calls, evictions,
    losses      \* history: times the device dropped the session behind the
                \* client's back

client  == <<token, lock, waiters, pc, op, left, tainted, outcome,
             sent, logout>>
device  == <<session, issued, late>>
history == <<calls, evictions, losses>>
vars    == <<token, lock, waiters, pc, op, left, tainted, outcome,
             sent, logout, reply, session, issued, late, calls, evictions, losses>>

NoToken == 0

LoginStages   == {"login", "relogin"}
RequestStages == {"request", "retry"}
Stages        == LoginStages \union RequestStages

Outcomes == {"none", "ok", "tainted", "auth_error", "unreachable", "raw",
             "cancelled"}
Statuses == {"none", "pending", "ok", "refused", "invalid", "timeout", "broken"}
Replies  == [status : Statuses, token : Nat]
Requests == [from : Callers, kind : AllOps \union {"login"}, token : Nat]

NoReply == [status |-> "none", token |-> NoToken]
Pending == [status |-> "pending", token |-> NoToken]

-----------------------------------------------------------------------------
(* The device.                                                             *)

\* What a request of kind k with token t can do to the device, and its answer:
\* a login takes the session over or is refused; an apply rotates the token;
\* a reboot or a factory reset ends the session.
Effects(k, t) ==
    IF k = "login" THEN
        { [status |-> "ok", token |-> issued + 1,
           session |-> issued + 1, issued |-> issued + 1],
          [status |-> "refused", token |-> NoToken,
           session |-> session, issued |-> issued] }
    ELSE IF t = NoToken \/ t # session THEN
        { [status |-> "invalid", token |-> NoToken,
           session |-> session, issued |-> issued] }
    ELSE IF k = "apply" THEN
        { [status |-> "ok", token |-> issued + 1,
           session |-> issued + 1, issued |-> issued + 1] }
    ELSE
        { [status |-> "ok", token |-> NoToken,
           session |-> IF k = "reset" THEN NoToken ELSE session,
           issued |-> issued] }

Kind(c) == IF pc[c] \in LoginStages THEN "login" ELSE op[c]

\* The device answers the request c has outstanding.
Respond(c) ==
    /\ reply[c].status = "pending"
    /\ \E e \in Effects(Kind(c), sent[c]) :
          /\ reply'   = [reply EXCEPT ![c] = [status |-> e.status,
                                              token  |-> e.token]]
          /\ session' = e.session
          /\ issued'  = e.issued
          /\ losses'  = IF e.session = NoToken /\ session # NoToken
                        THEN losses + 1 ELSE losses
    /\ UNCHANGED <<client, late, calls, evictions>>

\* No answer comes within the client's timeout, or the exchange breaks down;
\* the request itself was lost, or the device will get it later.
GiveUp(c) ==
    /\ reply[c].status = "pending"
    /\ \E s \in {"timeout", "broken"} :
          reply' = [reply EXCEPT ![c] = [status |-> s, token |-> NoToken]]
    /\ \/ late' = late
       \/ late' = late \union {[from |-> c, kind |-> Kind(c), token |-> sent[c]]}
    /\ UNCHANGED <<client, session, issued, history>>

\* The device processes a request nobody waits for any more.
ServeLate(r) ==
    /\ \E e \in Effects(r.kind, r.token) :
          /\ session' = e.session
          /\ issued'  = e.issued
          /\ losses'  = IF e.session # session THEN losses + 1 ELSE losses
    /\ late' = late \ {r}
    /\ UNCHANGED <<client, reply, calls, evictions>>

\* An administrator logs in with a browser; the device keeps one session only.
Evict ==
    /\ evictions < MaxEvictions
    /\ evictions' = evictions + 1
    /\ issued'  = issued + 1
    /\ session' = issued + 1
    /\ losses'  = losses + 1
    /\ UNCHANGED <<client, reply, late, calls>>

-----------------------------------------------------------------------------
(* The client.                                                             *)

Init ==
    /\ token = NoToken
    /\ lock = NoCaller
    /\ waiters = <<>>
    /\ pc = [c \in Callers |-> "idle"]
    /\ op = [c \in Callers |-> "values"]
    /\ left = [c \in Callers |-> 0]
    /\ tainted = [c \in Callers |-> FALSE]
    /\ outcome = [c \in Callers |-> "none"]
    /\ sent = [c \in Callers |-> NoToken]
    /\ reply = [c \in Callers |-> NoReply]
    /\ logout = "open"
    /\ session = NoToken
    /\ issued = 0
    /\ late = {}
    /\ calls = 0
    /\ evictions = 0
    /\ losses = 0

\* A coroutine calls an operation and queues on the lock of its first post.
Call(c, o) ==
    /\ pc[c] = "idle"
    /\ logout = "open"
    /\ calls < MaxCalls
    /\ calls' = calls + 1
    /\ pc' = [pc EXCEPT ![c] = "waiting"]
    /\ op' = [op EXCEPT ![c] = o]
    /\ \E k \in 1 .. MaxKeys :
          /\ o # "values" => k = 1
          /\ left' = [left EXCEPT ![c] = k]
    /\ tainted' = [tainted EXCEPT ![c] = FALSE]
    /\ outcome' = [outcome EXCEPT ![c] = "none"]
    /\ waiters' = Append(waiters, c)
    /\ UNCHANGED <<token, lock, sent, reply, logout, device, evictions, losses>>

\* Mutant of Send: the body is built before the login, with the token of that time.
SendStale(c, stage, t) ==
    /\ pc' = [pc EXCEPT ![c] = stage]
    /\ sent' = [sent EXCEPT ![c] = token]
    /\ reply' = [reply EXCEPT ![c] = Pending]

\* Put a request with token t on the wire and await its answer.
Send(c, stage, t) ==
    /\ pc' = [pc EXCEPT ![c] = stage]
    /\ sent' = [sent EXCEPT ![c] = t]
    /\ reply' = [reply EXCEPT ![c] = Pending]

\* The first waiter gets the lock; without a token it logs in first
\* (_ensure_token), otherwise it trusts the token it holds.
Acquire(c) ==
    /\ logout = "open"
    /\ lock = NoCaller
    /\ pc[c] = "waiting"
    /\ waiters # <<>>
    /\ Head(waiters) = c
    /\ lock' = c
    /\ waiters' = Tail(waiters)
    /\ Send(c, IF token = NoToken THEN "login" ELSE "request", token)
    /\ UNCHANGED <<token, op, left, tainted, outcome, logout, device,
                   calls, evictions, losses>>

\* Mutant of Finish: the lock is not released.
FinishHoldsLock(c, r) ==
    /\ pc' = [pc EXCEPT ![c] = "idle"]
    /\ outcome' = [outcome EXCEPT ![c] = r]
    /\ reply' = [reply EXCEPT ![c] = NoReply]
    /\ sent' = [sent EXCEPT ![c] = NoToken]
    /\ left' = [left EXCEPT ![c] = 0]
    /\ UNCHANGED <<lock, waiters, op, tainted>>

\* The call of c ends with result r and the lock is released.
Finish(c, r) ==
    /\ lock' = NoCaller
    /\ pc' = [pc EXCEPT ![c] = "idle"]
    /\ outcome' = [outcome EXCEPT ![c] = r]
    /\ reply' = [reply EXCEPT ![c] = NoReply]
    /\ sent' = [sent EXCEPT ![c] = NoToken]
    /\ left' = [left EXCEPT ![c] = 0]
    /\ UNCHANGED <<waiters, op, tainted>>

\* _login returns: it keeps the token and the request follows under the same
\* lock, or it raises: HT812AuthError when refused, HT812Error when the device
\* cannot be reached, the underlying exception otherwise.
LoginGranted(c) ==
    /\ logout = "open"
    /\ pc[c] \in LoginStages
    /\ reply[c].status = "ok"
    /\ token' = reply[c].token
    /\ Send(c, IF pc[c] = "login" THEN "request" ELSE "retry", reply[c].token)
    /\ UNCHANGED <<lock, waiters, op, left, tainted, outcome, logout,
                   device, calls, evictions, losses>>

\* Mutant of LoginError: a refusal is returned like an answer.
LoginErrorReturned == [refused |-> "refused", timeout |-> "unreachable",
                       broken |-> "raw"]

LoginError == [refused |-> "auth_error", timeout |-> "unreachable", broken |-> "raw"]

LoginFailed(c) ==
    /\ logout = "open"
    /\ pc[c] \in LoginStages
    /\ reply[c].status \in {"refused", "timeout", "broken"}
    /\ Finish(c, LoginError[reply[c].status])
    /\ UNCHANGED <<token, logout, device, calls, evictions, losses>>

\* Mutant of Relogin: it logs in after every invalid session, not once.
ReloginAgain(c) ==
    /\ logout = "open"
    /\ pc[c] \in RequestStages
    /\ reply[c].status = "invalid"
    /\ op[c] # "download"
    /\ token' = NoToken
    /\ Send(c, "relogin", NoToken)
    /\ UNCHANGED <<lock, waiters, op, left, tainted, outcome, logout, device,
                   history>>

\* The device no longer knows the session: drop the token and log in, once.
\* Only _post does so.
Relogin(c) ==
    /\ logout = "open"
    /\ pc[c] = "request"
    /\ reply[c].status = "invalid"
    /\ op[c] # "download"
    /\ token' = NoToken
    /\ Send(c, "relogin", NoToken)
    /\ UNCHANGED <<lock, waiters, op, left, tainted, outcome, logout, device,
                   history>>

\* Mutant of Captured: the rotation is missed.
CapturedNever(c) == token

\* _capture_rotated_token: an answer that carries a token replaces ours.
Captured(c) == IF reply[c].token # NoToken THEN reply[c].token ELSE token

\* Mutant of Answered: an invalid session is an answer like any other.
AnsweredAtOnce(c) ==
    /\ pc[c] \in RequestStages
    /\ reply[c].status \in {"ok", "invalid"}

\* The answer is handed to the caller: of a POST after at most one retry, of a
\* GET whatever it is.
Answered(c) ==
    /\ pc[c] \in RequestStages
    /\ reply[c].status \in {"ok", "invalid"}
    /\ ~ (pc[c] = "request" /\ reply[c].status = "invalid" /\ op[c] # "download")

\* A get_values with keys left posts again: it queues on the lock anew.
NextKey(c) ==
    /\ logout = "open"
    /\ Answered(c)
    /\ left[c] > 1
    /\ token' = Captured(c)
    /\ tainted' = [tainted EXCEPT ![c] = @ \/ reply[c].status = "invalid"]
    /\ left' = [left EXCEPT ![c] = @ - 1]
    /\ lock' = NoCaller
    /\ waiters' = Append(waiters, c)
    /\ pc' = [pc EXCEPT ![c] = "waiting"]
    /\ reply' = [reply EXCEPT ![c] = NoReply]
    /\ sent' = [sent EXCEPT ![c] = NoToken]
    /\ UNCHANGED <<op, outcome, logout, device, history>>

Complete(c) ==
    /\ logout = "open"
    /\ Answered(c)
    /\ left[c] <= 1
    /\ token' = Captured(c)
    /\ Finish(c, IF tainted[c] \/ reply[c].status = "invalid"
                 THEN "tainted" ELSE "ok")
    /\ UNCHANGED <<logout, device, history>>

\* A request that fails in transit raises httpx's own exception; the token stays.
RequestFailed(c) ==
    /\ logout = "open"
    /\ pc[c] \in RequestStages
    /\ reply[c].status \in {"timeout", "broken"}
    /\ Finish(c, "raw")
    /\ UNCHANGED <<token, logout, device, history>>

-----------------------------------------------------------------------------
(* The shutdown (main.py, lifespan).                                       *)

\* The server has finished its handlers: cancel the background tasks and log
\* out, without the lock.
Shutdown ==
    /\ logout = "open"
    /\ \A c \in Callers \ Background : pc[c] = "idle"
    /\ logout' = IF token = NoToken THEN "closed" ELSE "sent"
    /\ UNCHANGED <<token, lock, waiters, pc, op, left, tainted,
                   outcome, sent, reply, device, history>>

\* CancelledError reaches a background task at its await: it leaves the queue
\* or releases the lock; a request on the wire is beyond recall.
CancelWaiting(c) ==
    /\ logout # "open"
    /\ pc[c] = "waiting"
    /\ \E i \in 1 .. Len(waiters) :
          /\ waiters[i] = c
          /\ waiters' = RemoveAt(waiters, i)
    /\ pc' = [pc EXCEPT ![c] = "idle"]
    /\ outcome' = [outcome EXCEPT ![c] = "cancelled"]
    /\ left' = [left EXCEPT ![c] = 0]
    /\ UNCHANGED <<token, lock, op, tainted, sent, reply, logout,
                   device, calls, evictions, losses>>

CancelHolder(c) ==
    /\ logout # "open"
    /\ pc[c] \in Stages
    /\ \/ late' = late
       \/ /\ reply[c].status = "pending"
          /\ late' = late \union {[from |-> c, kind |-> Kind(c), token |-> sent[c]]}
    /\ Finish(c, "cancelled")
    /\ UNCHANGED <<token, logout, session, issued, calls, evictions, losses>>

\* dologout is answered, or fails and the exception is swallowed.
LogoutReturns ==
    /\ logout = "sent"
    /\ session' \in {session, IF session = token THEN NoToken ELSE session}
    /\ token' = NoToken
    /\ logout' = "closed"
    /\ UNCHANGED <<lock, waiters, pc, op, left, tainted, outcome, sent,
                   reply, issued, late, history>>

\* Nothing is left to do: the client is closed and no request is under way.
Closed ==
    /\ logout = "closed"
    /\ \A c \in Callers : pc[c] = "idle"
    /\ UNCHANGED vars

-----------------------------------------------------------------------------
Step(c) == \/ Acquire(c)
           \/ LoginGranted(c) \/ LoginFailed(c)
           \/ Relogin(c) \/ NextKey(c) \/ Complete(c) \/ RequestFailed(c)
           \/ CancelWaiting(c) \/ CancelHolder(c)

Next ==
    \/ \E c \in Callers, o \in Ops : Call(c, o)
    \/ \E c \in Callers : Step(c) \/ Respond(c) \/ GiveUp(c)
    \/ \E r \in late : ServeLate(r)
    \/ Evict
    \/ Shutdown
    \/ LogoutReturns
    \/ Closed

Spec == Init /\ [][Next]_vars

\* The event loop runs a coroutine that is ready, and httpx's timeout ends
\* every exchange the device does not answer.
Fairness ==
    \A c \in Callers : WF_vars(Step(c)) /\ WF_vars(Respond(c) \/ GiveUp(c))

FairSpec == Spec /\ Fairness

-----------------------------------------------------------------------------
(* Properties.                                                             *)

\* The variables keep the values the client and the device give them.
TypeOK ==
    /\ token \in Nat
    /\ lock \in Callers \union {NoCaller}
    /\ waiters \in Seq(Callers)
    /\ pc \in [Callers -> {"idle", "waiting"} \union Stages]
    /\ op \in [Callers -> AllOps]
    /\ left \in [Callers -> Nat]
    /\ tainted \in [Callers -> BOOLEAN]
    /\ outcome \in [Callers -> Outcomes]
    /\ sent \in [Callers -> Nat]
    /\ reply \in [Callers -> Replies]
    /\ logout \in {"open", "sent", "closed"}
    /\ session \in Nat
    /\ issued \in Nat
    /\ late \in SUBSET Requests
    /\ calls \in Nat
    /\ evictions \in Nat
    /\ losses \in Nat

\* At most one call has a request on the wire, and it holds the lock: no error
\* path keeps the lock or gives it up early (the async with of _post and _get).
SingleFlight ==
    \A c \in Callers : /\ lock = c <=> pc[c] \in Stages
                       /\ lock = c <=> reply[c] # NoReply

\* While a request is under way the client's token is the one it was sent with:
\* nobody rotates or clears the token under a request (_tok, _capture_rotated_token).
SentTokenCurrent ==
    logout = "open" =>
        \A c \in Callers : pc[c] \in RequestStages => sent[c] = token

\* As long as the device drops no session behind the client's back, the token
\* the client will use next is the one the device honours: every rotation by an
\* apply is captured before the lock is released.
TokenTracksDevice ==
    losses = 0 /\ lock = NoCaller /\ logout = "open" => token \in {NoToken, session}

\* The retry in _post covers any single loss of the session: a call other than
\* a download returns an "invalid session" body only after two losses.
RetryCoversOneLoss ==
    \A c \in Callers : outcome[c] = "tainted" /\ losses < 2 => op[c] = "download"

\* A caller queued on the lock is eventually served, and its call returns.
EveryCallReturns == \A c \in Callers : pc[c] = "waiting" ~> pc[c] = "idle"

\* The client implements SerialDevice: the lock's holder has its turn, and a turn
\* is a login, a request, one more login and one more request at most.
RequestsLeft == [login |-> 4, request |-> 3, relogin |-> 2, retry |-> 1]

Remaining == IF lock = NoCaller THEN 0 ELSE RequestsLeft[pc[lock]]

Serial == INSTANCE SerialDevice WITH owner <- lock, queue <- waiters,
                                     budget <- Remaining, MaxExchanges <- 4

\* Every behaviour of the client is one of SerialDevice (_post, _get: one turn
\* at a time, first come first served, one retry).
SerialSafety == Serial!Spec

\* Under the fairness of the event loop it is a fair one: no error path keeps
\* the device for ever.
SerialService == Serial!FairSpec

=============================================================================
