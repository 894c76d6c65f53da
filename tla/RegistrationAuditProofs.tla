------------------------ MODULE RegistrationAuditProofs ------------------------
(***************************************************************************)
(* Proofs about RegistrationAudit, for any number of requests under way    *)
(* and any settings: the types, what force-register reads back, the        *)
(* grounds of a verdict, and that a live audit speaks of its own time.     *)
(***************************************************************************)
EXTENDS RegistrationAudit, SequenceTheorems, TLAPS

\* What is left of the exchanges of each route.
Rests(kind) ==
    CASE kind = "none"                -> {<<>>}
      [] kind = "force_register"      -> {<<"write", "reboot", "P47", "trace">>,
                                          <<"reboot", "P47", "trace">>,
                                          <<"write", "P47", "trace">>,
                                          <<"P47", "trace">>, <<"trace">>, <<>>}
      [] kind = "provision_two_line"  -> {<<"write">>, <<>>}
      [] kind = "snapshot_backup"     -> {<<"download">>, <<>>}
      [] kind = "status_audit"        -> {<<"P47", "P4921", "P4922", "trace", "1001", "1002">>,
                                          <<"P4921", "P4922", "trace", "1001", "1002">>,
                                          <<"P4922", "trace", "1001", "1002">>,
                                          <<"trace", "1001", "1002">>,
                                          <<"1001", "1002">>, <<"1002">>, <<>>}
      [] kind = "registration_bundle" -> {<<"1001", "1002">>, <<"1002">>, <<>>}
      [] kind = "status_summary"      -> {<<"P47">>, <<>>}
      [] kind = "sip_log"             -> {<<"trace">>, <<>>}

\* The exchanges there are.
Steps == Keys \union {Extension[l] : l \in Lines} \union {"write", "reboot", "trace", "download"}

\* What a request can have read.
Readings == Settings \union {"Registered", "Not Registered", "invalid session"}
GotSet == UNION {[ks -> Readings] : ks \in SUBSET (Keys \union {"reason"})}

\* The requests, the answers and what is remembered.
RequestSet ==
    [kind : Kinds \union {"none"}, setting : Settings \union {"none"}, todo : Seq(Steps),
     ok : BOOLEAN,
     got : GotSet,
     error : BOOLEAN, text : Texts, asterisk : {"unchecked", "reachable", "offline"},
     online : SUBSET Lines, unsure : BOOLEAN]

AnswerSet ==
    [status : {"none", "ok", "error", "failed"}, kind : Kinds \union {"none"},
     verdict : Verdicts \union {"none"}, source : {"none", "live", "latest_backup"},
     trace : {"none", "present", "empty", "offline"}, fetched : Texts, mismatch : BOOLEAN]

HeldSet ==
    [flagUp : SUBSET Lines, flagDown : SUBSET Lines, contactUp : SUBSET Lines,
     contactDown : SUBSET Lines, settings : SUBSET Settings]

\* The types, with those of a request's locals and of what it has left to do.
Typed == /\ TypeOK
         /\ req \in [Requests -> RequestSet]
         /\ answer \in [Requests -> AnswerSet]
         /\ held \in [Requests -> HeldSet]
         /\ \A r \in Requests : req[r].todo \in Rests(req[r].kind)

\* The exchanges in a list.
Left(t) == {t[i] : i \in DOMAIN t}

\* What a request asks for, before and after its write.
Own(r) ==
    LET q == req[r]
    IN  /\ q.kind \in Configuring => q.setting \in Settings
        /\ "write" \in Left(q.todo) => q.got = NoValues /\ ~q.ok
        /\ q.kind = "force_register" /\ q.ok /\ r \notin overwritten =>
               config = q.setting /\ ("P47" \in DOMAIN q.got => q.got["P47"] = q.setting)

\* What the locals of a request rest on.
Ground(r) ==
    LET q == req[r]
    IN  /\ q.kind = "force_register" /\ q.ok => accepted
        /\ q.text = "present" => traced
        /\ q.kind = "status_audit" /\ "trace" \notin Left(q.todo) => q.text # "none"

\* What the logs on disk and the histories rest on.
Logs == /\ trace => traced
        /\ forceLog = "applied" => accepted
        /\ sipLog.form = "capture" => sipLog.text # "none"
        /\ sipLog.text = "present" => traced

\* The key that shows whether a line is registered.
Flag(l) == IF l = 1 THEN "P4921" ELSE "P4922"

\* What a live audit has heard so far has been so since it began.
Current(r) ==
    LET q == req[r]
        h == held[r]
    IN  q.kind = "status_audit" =>
        /\ flags \subseteq h.flagUp /\ Lines \ flags \subseteq h.flagDown
        /\ contacts \subseteq h.contactUp /\ Lines \ contacts \subseteq h.contactDown
        /\ config \in h.settings
        /\ "P47" \in DOMAIN q.got => q.got["P47"] \in h.settings
        /\ \A l \in Lines : Flag(l) \in DOMAIN q.got =>
               \/ q.got[Flag(l)] = "Registered" /\ l \in h.flagUp
               \/ q.got[Flag(l)] = "Not Registered" /\ l \in h.flagDown
        /\ \A k \in Keys \ Left(q.todo) : k \in DOMAIN q.got \/ "reason" \in DOMAIN q.got \/ q.error
        /\ q.online \subseteq h.contactUp
        /\ q.asterisk # "offline" =>
               \A l \in Lines : Extension[l] \notin Left(q.todo) =>
                   l \in q.online \/ l \in h.contactDown \/ q.unsure
        /\ q.asterisk = "offline" => q.todo = <<>>

\* The inductive invariant.
IInv == /\ Typed
        /\ Logs
        /\ VerdictHasGrounds
        /\ \A r \in Requests : Own(r) /\ Ground(r) /\ Current(r)

\* A list of exchanges, its first and the rest.
Heads(s, e, t) == s # <<>> /\ Head(s) = e /\ Tail(s) = t

\* The exchanges that are left, taken apart.
LEMMA Lists ==
    /\ Heads(<<"trace">>, "trace", <<>>)
    /\ Heads(<<"write">>, "write", <<>>)
    /\ Heads(<<"download">>, "download", <<>>)
    /\ Heads(<<"1002">>, "1002", <<>>)
    /\ Heads(<<"P47">>, "P47", <<>>)
    /\ Heads(<<"P47", "trace">>, "P47", <<"trace">>)
    /\ Heads(<<"1001", "1002">>, "1001", <<"1002">>)
    /\ Heads(<<"reboot", "P47", "trace">>, "reboot", <<"P47", "trace">>)
    /\ Heads(<<"write", "P47", "trace">>, "write", <<"P47", "trace">>)
    /\ Heads(<<"trace", "1001", "1002">>, "trace", <<"1001", "1002">>)
    /\ Heads(<<"write", "reboot", "P47", "trace">>, "write", <<"reboot", "P47", "trace">>)
    /\ Heads(<<"P4922", "trace", "1001", "1002">>, "P4922", <<"trace", "1001", "1002">>)
    /\ Heads(<<"P4921", "P4922", "trace", "1001", "1002">>, "P4921",
             <<"P4922", "trace", "1001", "1002">>)
    /\ Heads(<<"P47", "P4921", "P4922", "trace", "1001", "1002">>, "P47",
             <<"P4921", "P4922", "trace", "1001", "1002">>)
BY DEF Heads

\* What the lists hold.
LEMMA Contents ==
    /\ Left(<<>>) = {}
    /\ Left(<<"trace">>) = {"trace"}
    /\ Left(<<"write">>) = {"write"}
    /\ Left(<<"download">>) = {"download"}
    /\ Left(<<"1002">>) = {"1002"}
    /\ Left(<<"P47">>) = {"P47"}
    /\ Left(<<"P47", "trace">>) = {"P47", "trace"}
    /\ Left(<<"1001", "1002">>) = {"1001", "1002"}
    /\ Left(<<"reboot", "P47", "trace">>) = {"reboot", "P47", "trace"}
    /\ Left(<<"write", "P47", "trace">>) = {"write", "P47", "trace"}
    /\ Left(<<"trace", "1001", "1002">>) = {"trace", "1001", "1002"}
    /\ Left(<<"write", "reboot", "P47", "trace">>) = {"write", "reboot", "P47", "trace"}
    /\ Left(<<"P4922", "trace", "1001", "1002">>) = {"P4922", "trace", "1001", "1002"}
    /\ Left(<<"P4921", "P4922", "trace", "1001", "1002">>) =
           {"P4921", "P4922", "trace", "1001", "1002"}
    /\ Left(<<"P47", "P4921", "P4922", "trace", "1001", "1002">>) =
           {"P47", "P4921", "P4922", "trace", "1001", "1002"}
BY DEF Left

\* They are sequences.
LEMMA ListTypes ==
    /\ <<"trace">> \in Seq(Steps)
    /\ <<"write">> \in Seq(Steps)
    /\ <<"download">> \in Seq(Steps)
    /\ <<"1002">> \in Seq(Steps)
    /\ <<"P47">> \in Seq(Steps)
    /\ <<"P47", "trace">> \in Seq(Steps)
    /\ <<"1001", "1002">> \in Seq(Steps)
    /\ <<"reboot", "P47", "trace">> \in Seq(Steps)
    /\ <<"write", "P47", "trace">> \in Seq(Steps)
    /\ <<"trace", "1001", "1002">> \in Seq(Steps)
    /\ <<"write", "reboot", "P47", "trace">> \in Seq(Steps)
    /\ <<"P4922", "trace", "1001", "1002">> \in Seq(Steps)
    /\ <<"P4921", "P4922", "trace", "1001", "1002">> \in Seq(Steps)
    /\ <<"P47", "P4921", "P4922", "trace", "1001", "1002">> \in Seq(Steps)
    /\ <<>> \in Seq(Steps)
<1>1. Steps = {"P47", "P4921", "P4922", "1001", "1002", "write", "reboot", "trace", "download"}
  BY DEF Steps, Keys, Extension, Lines
<1> QED
  BY <1>1

\* Which requests meet an exchange, and with what left to do.
LEMMA AtExchange ==
    ASSUME NEW k, NEW t \in Rests(k), t # <<>>, k \in Kinds \union {"none"}
    PROVE  /\ Head(t) = "write" =>
                  \/ /\ k = "force_register"
                     /\ Tail(t) \in {<<"reboot", "P47", "trace">>, <<"P47", "trace">>}
                  \/ k = "provision_two_line" /\ Tail(t) = <<>>
           /\ Head(t) = "reboot" => k = "force_register" /\ Tail(t) = <<"P47", "trace">>
           /\ Head(t) = "P47" =>
                  \/ k = "force_register" /\ t = <<"P47", "trace">> /\ Tail(t) = <<"trace">>
                  \/ /\ k = "status_audit"
                     /\ Tail(t) = <<"P4921", "P4922", "trace", "1001", "1002">>
                  \/ k = "status_summary" /\ Tail(t) = <<>>
           /\ Head(t) = "P4921" =>
                  k = "status_audit" /\ Tail(t) = <<"P4922", "trace", "1001", "1002">>
           /\ Head(t) = "P4922" =>
                  k = "status_audit" /\ Tail(t) = <<"trace", "1001", "1002">>
           /\ Head(t) = "trace" => \/ k = "force_register" /\ Tail(t) = <<>>
                                   \/ k = "status_audit" /\ Tail(t) = <<"1001", "1002">>
                                   \/ k = "sip_log" /\ Tail(t) = <<>>
           /\ Head(t) = "1001" =>
                  k \in {"status_audit", "registration_bundle"} /\ Tail(t) = <<"1002">>
           /\ Head(t) = "1002" =>
                  k \in {"status_audit", "registration_bundle"} /\ Tail(t) = <<>>
           /\ Head(t) = "download" => k = "snapshot_backup" /\ Tail(t) = <<>>
<1>1. CASE k = "force_register"
  BY <1>1, Lists DEF Rests, Heads
<1>2. CASE k = "status_audit"
  BY <1>2, Lists DEF Rests, Heads
<1>3. CASE k \in {"none", "provision_two_line", "snapshot_backup", "registration_bundle",
                  "status_summary", "sip_log"}
  BY <1>3, Lists DEF Rests, Heads
<1> QED
  BY <1>1, <1>2, <1>3 DEF Kinds

\* The first exchange and the others.
LEMMA LeftOfTail ==
    ASSUME NEW S, NEW t \in Seq(S), t # <<>>
    PROVE  Left(t) = {Head(t)} \union Left(Tail(t))
<1>1. /\ Len(t) \in Nat \ {0} /\ DOMAIN t = 1 .. Len(t) /\ Head(t) = t[1]
      /\ DOMAIN Tail(t) = 1 .. Len(t) - 1
      /\ \A i \in 1 .. Len(t) - 1 : Tail(t)[i] = t[i + 1]
  BY EmptySeq, LenProperties, HeadTailProperties
<1>2. ASSUME NEW i \in 1 .. Len(t) PROVE t[i] \in {Head(t)} \union Left(Tail(t))
  <2>1. CASE i = 1
    BY <1>1, <2>1
  <2>2. CASE i # 1
    <3>1. i - 1 \in 1 .. Len(t) - 1 /\ Tail(t)[i - 1] = t[i]
      BY <1>1, <2>2
    <3> QED
      BY <1>1, <3>1 DEF Left
  <2> QED
    BY <2>1, <2>2
<1>3. ASSUME NEW i \in 1 .. Len(t) - 1 PROVE Tail(t)[i] \in Left(t)
  <2>1. i + 1 \in 1 .. Len(t) /\ Tail(t)[i] = t[i + 1]
    BY <1>1
  <2> QED
    BY <1>1, <2>1 DEF Left
<1>4. Head(t) \in Left(t)
  <2>1. 1 \in 1 .. Len(t)
    BY <1>1
  <2> QED
    BY <1>1, <2>1 DEF Left
<1> QED
  BY <1>1, <1>2, <1>3, <1>4 DEF Left

\* The lists are sequences, a write comes first, and what is left of one is one again.
LEMMA RestOfRest ==
    ASSUME NEW k \in Kinds \union {"none"}, NEW t \in Rests(k)
    PROVE  /\ t \in Seq(Steps)
           /\ t # <<>> => Tail(t) \in Rests(k) /\ "write" \notin Left(Tail(t))
           /\ "write" \in Left(t) => t # <<>> /\ Head(t) = "write"
<1>1. t \in Seq(Steps)
  BY ListTypes DEF Rests, Kinds
<1>2. ASSUME t # <<>> PROVE Tail(t) \in Rests(k)
  BY <1>2, Lists DEF Rests, Heads, Kinds
<1>3. ASSUME t # <<>> PROVE "write" \notin Left(Tail(t))
  <2> DEFINE Later == {<<>>, <<"trace">>, <<"1002">>, <<"P47", "trace">>, <<"1001", "1002">>,
                       <<"reboot", "P47", "trace">>, <<"trace", "1001", "1002">>,
                       <<"P4922", "trace", "1001", "1002">>,
                       <<"P4921", "P4922", "trace", "1001", "1002">>}
  <2>1. \A x \in Later : "write" \notin Left(x)
    BY Contents
  <2>2. CASE k = "force_register"
    <3>1. Tail(t) \in Later
      BY <1>3, <2>2, Lists DEF Rests, Heads
    <3> QED
      BY <2>1, <3>1
  <2>3. CASE k = "status_audit"
    <3>1. Tail(t) \in Later
      BY <1>3, <2>3, Lists DEF Rests, Heads
    <3> QED
      BY <2>1, <3>1
  <2>4. CASE k \in {"none", "provision_two_line", "snapshot_backup", "registration_bundle",
                    "status_summary", "sip_log"}
    <3>1. Tail(t) \in Later
      BY <1>3, <2>4, Lists DEF Rests, Heads
    <3> QED
      BY <2>1, <3>1
  <2> QED
    BY <2>2, <2>3, <2>4 DEF Kinds
<1>4. ASSUME "write" \in Left(t) PROVE t # <<>> /\ Head(t) = "write"
  BY <1>4, Lists, Contents DEF Rests, Heads, Kinds
<1> QED
  BY <1>1, <1>2, <1>3, <1>4

\* Every route may have nothing left.
LEMMA NothingLeft == ASSUME NEW k \in Kinds \union {"none"} PROVE <<>> \in Rests(k)
BY DEF Rests, Kinds

\* The length of a suffix.
LEMMA SuffixLength ==
    ASSUME NEW L, NEW m \in Nat, NEW n \in 0 .. m,
           L = IF n + 1 <= m THEN m - (n + 1) + 1 ELSE 0
    PROVE  L = m - n
OBVIOUS

\* The first n exchanges of a list are those of a loop.
Loop(t, E, n) == n \in 0 .. Len(t) /\ \A i \in 1 .. Len(t) : t[i] \in E <=> i <= n

\* What is left when a loop is skipped.
LEMMA LeftOfSkipped ==
    ASSUME NEW S, NEW t \in Seq(S), NEW E, NEW n, Loop(t, E, n)
    PROVE  /\ SubSeq(t, n + 1, Len(t)) \in Seq(S)
           /\ Len(SubSeq(t, n + 1, Len(t))) = Len(t) - n
           /\ \A i \in 1 .. Len(t) - n : SubSeq(t, n + 1, Len(t))[i] = t[i + n]
           /\ Left(SubSeq(t, n + 1, Len(t))) = Left(t) \ E
<1> DEFINE w == SubSeq(t, n + 1, Len(t))
<1>1. /\ Len(t) \in Nat /\ DOMAIN t = 1 .. Len(t) /\ n \in Nat /\ n <= Len(t)
      /\ n \in 0 .. Len(t)
  BY LenProperties DEF Loop
<1>2. \A i \in n + 1 .. Len(t) : t[i] \in S
  BY <1>1, ElementOfSeq
<1>3. n + 1 \in Int /\ Len(t) \in Int
  BY <1>1
<1>4. /\ w \in Seq(S)
      /\ Len(w) = IF n + 1 <= Len(t) THEN Len(t) - (n + 1) + 1 ELSE 0
      /\ \A i \in 1 .. Len(t) - (n + 1) + 1 : w[i] = t[n + 1 + i - 1]
  BY <1>2, <1>3, SubSeqProperties
<1> HIDE DEF w
<1>5. Len(w) = Len(t) - n
  <2>1. Len(w) = IF n + 1 <= Len(t) THEN Len(t) - (n + 1) + 1 ELSE 0
    BY <1>4
  <2> QED
    BY <1>1, <2>1, SuffixLength
<1>6. ASSUME NEW i \in 1 .. Len(t) - n PROVE w[i] = t[i + n]
  <2>1. i \in 1 .. Len(t) - (n + 1) + 1 /\ n + 1 + i - 1 = i + n
    BY <1>1
  <2> QED
    BY <2>1, <1>4
<1>7. DOMAIN w = 1 .. Len(t) - n
  BY <1>4, <1>5, LenProperties
<1>8. ASSUME NEW i \in 1 .. Len(t) - n PROVE w[i] \in Left(t) \ E
  <2>1. i + n \in 1 .. Len(t) /\ ~(i + n <= n)
    BY <1>1
  <2> QED
    BY <2>1, <1>1, <1>6 DEF Left, Loop
<1>9. ASSUME NEW i \in 1 .. Len(t), t[i] \notin E PROVE t[i] \in Left(w)
  <2>1. i - n \in 1 .. Len(t) - n /\ (i - n) + n = i
    BY <1>1, <1>9 DEF Loop
  <2>2. w[i - n] = t[i]
    BY <2>1, <1>6
  <2> QED
    BY <2>1, <2>2, <1>7 DEF Left
<1>10. Left(w) = Left(t) \ E
  BY <1>1, <1>7, <1>8, <1>9 DEF Left
<1> QED
  BY <1>4, <1>5, <1>6, <1>10 DEF w

\* How long the loops are.
LEMMA LoopLengths ==
    ASSUME NEW n
    PROVE  /\ Loop(<<"P47">>, Keys, n) => n = 1
           /\ Loop(<<"P47", "trace">>, Keys, n) => n = 1
           /\ Loop(<<"P47", "P4921", "P4922", "trace", "1001", "1002">>, Keys, n) => n = 3
           /\ Loop(<<"P4921", "P4922", "trace", "1001", "1002">>, Keys, n) => n = 2
           /\ Loop(<<"P4922", "trace", "1001", "1002">>, Keys, n) => n = 1
           /\ Loop(<<"1001", "1002">>, {"1001", "1002"}, n) => n = 2
           /\ Loop(<<"1002">>, {"1001", "1002"}, n) => n = 1
<1>1. Keys = {"P47", "P4921", "P4922"}
  BY DEF Keys
<1>2. /\ Loop(<<"P47">>, Keys, n) => n = 1
      /\ Loop(<<"P47", "trace">>, Keys, n) => n = 1
      /\ Loop(<<"1002">>, {"1001", "1002"}, n) => n = 1
  BY <1>1 DEF Loop
<1>3. Loop(<<"P47", "P4921", "P4922", "trace", "1001", "1002">>, Keys, n) => n = 3
  BY <1>1 DEF Loop
<1>4. Loop(<<"P4921", "P4922", "trace", "1001", "1002">>, Keys, n) => n = 2
  BY <1>1 DEF Loop
<1>5. Loop(<<"P4922", "trace", "1001", "1002">>, Keys, n) => n = 1
  BY <1>1 DEF Loop
<1>6. Loop(<<"1001", "1002">>, {"1001", "1002"}, n) => n = 2
  BY <1>1 DEF Loop
<1> QED
  BY <1>2, <1>3, <1>4, <1>5, <1>6

\* Short sequences are their elements.
LEMMA ShortSequences ==
    ASSUME NEW S, NEW w \in Seq(S)
    PROVE  /\ Len(w) = 0 => w = <<>>
           /\ Len(w) = 1 => w = <<w[1]>>
           /\ Len(w) = 3 => w = <<w[1], w[2], w[3]>>
OBVIOUS

\* The loop over the keys leaves a list of the same route.
LEMMA RestOfReading ==
    ASSUME NEW k \in Kinds \union {"none"}, NEW t \in Rests(k), t # <<>>, Head(t) \in Keys,
           NEW n, Loop(t, Keys, n)
    PROVE  /\ SubSeq(t, n + 1, Len(t)) \in Rests(k)
           /\ Left(SubSeq(t, n + 1, Len(t))) = Left(t) \ Keys
<1> DEFINE w == SubSeq(t, n + 1, Len(t))
<1>1. t \in Seq(Steps)
  BY RestOfRest
<1>2. /\ w \in Seq(Steps) /\ Len(w) = Len(t) - n
      /\ \A i \in 1 .. Len(t) - n : w[i] = t[i + n]
      /\ Left(w) = Left(t) \ Keys
  BY <1>1, LeftOfSkipped
<1> HIDE DEF w
<1>3. \/ k = "force_register" /\ t = <<"P47", "trace">>
      \/ k = "status_summary" /\ t = <<"P47">>
      \/ k = "status_audit" /\ t = <<"P47", "P4921", "P4922", "trace", "1001", "1002">>
      \/ k = "status_audit" /\ t = <<"P4921", "P4922", "trace", "1001", "1002">>
      \/ k = "status_audit" /\ t = <<"P4922", "trace", "1001", "1002">>
  <2>1. CASE k = "force_register"
    BY <2>1, Lists DEF Rests, Heads, Keys
  <2>2. CASE k = "status_audit"
    BY <2>2, Lists DEF Rests, Heads, Keys
  <2>3. CASE k \in {"none", "provision_two_line", "snapshot_backup", "registration_bundle",
                    "status_summary", "sip_log"}
    BY <2>3, Lists DEF Rests, Heads, Keys
  <2> QED
    BY <2>1, <2>2, <2>3 DEF Kinds
<1>4. w \in Rests(k)
  <2>1. CASE k = "force_register" /\ t = <<"P47", "trace">>
    <3>1. n = 1
      BY <2>1, LoopLengths
    <3>2. Len(w) = 1 /\ w[1] = "trace"
      BY <1>2, <2>1, <3>1
    <3> QED
      BY <1>2, <2>1, <3>2, ShortSequences DEF Rests
  <2>2. CASE k = "status_summary" /\ t = <<"P47">>
    <3>1. n = 1
      BY <2>2, LoopLengths
    <3>2. Len(w) = 0
      BY <1>2, <2>2, <3>1
    <3> QED
      BY <1>2, <2>2, <3>2, ShortSequences DEF Rests
  <2>3. CASE k = "status_audit" /\ t = <<"P47", "P4921", "P4922", "trace", "1001", "1002">>
    <3>1. n = 3
      BY <2>3, LoopLengths
    <3>2. Len(w) = 3 /\ w[1] = "trace" /\ w[2] = "1001" /\ w[3] = "1002"
      BY <1>2, <2>3, <3>1
    <3> QED
      BY <1>2, <2>3, <3>2, ShortSequences DEF Rests
  <2>4. CASE k = "status_audit" /\ t = <<"P4921", "P4922", "trace", "1001", "1002">>
    <3>1. n = 2
      BY <2>4, LoopLengths
    <3>2. Len(w) = 3 /\ w[1] = "trace" /\ w[2] = "1001" /\ w[3] = "1002"
      BY <1>2, <2>4, <3>1
    <3> QED
      BY <1>2, <2>4, <3>2, ShortSequences DEF Rests
  <2>5. CASE k = "status_audit" /\ t = <<"P4922", "trace", "1001", "1002">>
    <3>1. n = 1
      BY <2>5, LoopLengths
    <3>2. Len(w) = 3 /\ w[1] = "trace" /\ w[2] = "1001" /\ w[3] = "1002"
      BY <1>2, <2>5, <3>1
    <3> QED
      BY <1>2, <2>5, <3>2, ShortSequences DEF Rests
  <2> QED
    BY <1>3, <2>1, <2>2, <2>3, <2>4, <2>5
<1> QED
  BY <1>2, <1>4 DEF w

\* The loop over the lines leaves nothing.
LEMMA RestOfAsking ==
    ASSUME NEW k \in Kinds \union {"none"}, NEW t \in Rests(k), t # <<>>,
           Head(t) \in {"1001", "1002"}, NEW n, Loop(t, {"1001", "1002"}, n)
    PROVE  SubSeq(t, n + 1, Len(t)) = <<>>
<1>1. t \in Seq(Steps)
  BY RestOfRest
<1>2. /\ SubSeq(t, n + 1, Len(t)) \in Seq(Steps)
      /\ Len(SubSeq(t, n + 1, Len(t))) = Len(t) - n
  BY <1>1, LeftOfSkipped
<1>3. t = <<"1001", "1002">> \/ t = <<"1002">>
  <2>1. CASE k = "force_register"
    BY <2>1, Lists DEF Rests, Heads
  <2>2. CASE k = "status_audit"
    BY <2>2, Lists DEF Rests, Heads
  <2>3. CASE k \in {"none", "provision_two_line", "snapshot_backup", "registration_bundle",
                    "status_summary", "sip_log"}
    BY <2>3, Lists DEF Rests, Heads
  <2> QED
    BY <2>1, <2>2, <2>3 DEF Kinds
<1>4. Len(t) = n
  <2>1. CASE t = <<"1001", "1002">>
    <3>1. n = 2
      BY <2>1, LoopLengths
    <3> QED
      BY <2>1, <3>1
  <2>2. CASE t = <<"1002">>
    <3>1. n = 1
      BY <2>2, LoopLengths
    <3> QED
      BY <2>2, <3>1
  <2> QED
    BY <1>3, <2>1, <2>2
<1>5. Len(SubSeq(t, n + 1, Len(t))) = 0
  <2>1. Len(t) \in Nat
    BY <1>1, LenProperties
  <2> QED
    BY <1>2, <1>4, <2>1
<1> QED
  BY <1>2, <1>5, ShortSequences

\* Values read, one after the other.
LEMMA ReadOnce ==
    ASSUME NEW g \in GotSet, NEW k \in Keys \union {"reason"}, NEW v \in Readings
    PROVE  /\ With(g, k, v) \in GotSet
           /\ DOMAIN With(g, k, v) = DOMAIN g \union {k}
           /\ With(g, k, v)[k] = v
           /\ \A x \in DOMAIN g \ {k} : With(g, k, v)[x] = g[x]
<1>1. PICK ks \in SUBSET (Keys \union {"reason"}) : g \in [ks -> Readings]
  BY DEF GotSet
<1>2. DOMAIN g = ks
  BY <1>1
<1>3. With(g, k, v) \in [ks \union {k} -> Readings]
  BY <1>1, <1>2 DEF With
<1>4. ks \union {k} \in SUBSET (Keys \union {"reason"})
  OBVIOUS
<1>5. With(g, k, v) \in GotSet
  BY <1>3, <1>4 DEF GotSet
<1> QED
  BY <1>2, <1>5 DEF With

\* Before it has read anything.
LEMMA NoneRead ==
    NoValues \in GotSet /\ DOMAIN NoValues = {} /\ NoValues \in Values
<1>1. NoValues \in [{} -> Readings] /\ DOMAIN NoValues = {}
      /\ NoValues \in [{} -> Settings \union {"Registered", "Not Registered"}]
  BY DEF NoValues
<1>2. {} \in SUBSET (Keys \union {"reason"}) /\ {} \in SUBSET Keys
  OBVIOUS
<1> QED
  BY <1>1, <1>2 DEF GotSet, Values

\* What the device shows under a key.
LEMMA Shown ==
    ASSUME Typed, NEW k \in Keys
    PROVE  /\ Value(k) \in Readings
           /\ k = "P47" => Value(k) = config
           /\ \A l \in Lines : k = Flag(l) =>
                  Value(k) = IF l \in flags THEN "Registered" ELSE "Not Registered"
BY DEF Typed, TypeOK, Value, Keys, Readings, Flag, Lines

\* What is true at two times is kept field by field.
LEMMA AlsoHeld ==
    ASSUME NEW a \in HeldSet, NEW b \in HeldSet
    PROVE  /\ Also(a, b) \in HeldSet
           /\ Also(a, b).flagUp = a.flagUp \union b.flagUp
           /\ Also(a, b).flagDown = a.flagDown \union b.flagDown
           /\ Also(a, b).contactUp = a.contactUp \union b.contactUp
           /\ Also(a, b).contactDown = a.contactDown \union b.contactDown
           /\ Also(a, b).settings = a.settings \union b.settings
<1>1. Also(a, b) \in HeldSet
  BY DEF Also, HeldSet
<1>2. /\ Also(a, b).flagUp = a.flagUp \union b.flagUp
      /\ Also(a, b).flagDown = a.flagDown \union b.flagDown
  BY DEF Also, HeldSet
<1>3. /\ Also(a, b).contactUp = a.contactUp \union b.contactUp
      /\ Also(a, b).contactDown = a.contactDown \union b.contactDown
  BY DEF Also, HeldSet
<1>4. Also(a, b).settings = a.settings \union b.settings
  BY DEF Also, HeldSet
<1> QED
  BY <1>1, <1>2, <1>3, <1>4

\* A slot without a request, and one without an answer.
LEMMA IdleTyped == Idle \in RequestSet /\ Idle.todo \in Rests(Idle.kind) /\ NoAnswer \in AnswerSet
BY NoneRead, ListTypes DEF Idle, Begun, RequestSet, Rests, NoAnswer, AnswerSet, Texts

\* What a verdict says of Asterisk, of the device and of its grounds.
LEMMA VerdictSays ==
    ASSUME NEW ast \in {"both", "absent", "unknown"}, NEW reg \in BOOLEAN,
           NEW applied \in BOOLEAN, NEW seen \in {"present", "empty", "offline"}
    PROVE  /\ Verdict(ast, reg, applied, seen) \in Verdicts
           /\ Verdict(ast, reg, applied, seen) \in
                  {"registered", "registered_confirmed_both_sides",
                   "device_says_registered_but_asterisk_has_no_contact"} <=> reg
           /\ Verdict(ast, reg, applied, seen) \in
                  {"registered_confirmed_both_sides", "asterisk_online_but_device_flag_stale"}
                  => ast = "both"
           /\ Verdict(ast, reg, applied, seen) \in
                  {"device_says_registered_but_asterisk_has_no_contact",
                   "configured_but_neither_side_registered", "neither_side_registered"}
                  => ast = "absent"
           /\ Verdict(ast, reg, applied, seen) \in
                  {"sip_trace_present_but_not_registered",
                   "configured_but_neither_side_registered",
                   "configured_but_no_register_observed"} => applied
           /\ Verdict(ast, reg, applied, seen) = "sip_trace_present_but_not_registered"
                  => seen = "present"
<1> DEFINE v == Verdict(ast, reg, applied, seen)
<1>1. \/ ast = "both" /\ reg /\ v = "registered_confirmed_both_sides"
      \/ ast = "both" /\ ~reg /\ v = "asterisk_online_but_device_flag_stale"
      \/ ast = "absent" /\ reg /\ v = "device_says_registered_but_asterisk_has_no_contact"
      \/ ast = "unknown" /\ reg /\ v = "registered"
      \/ /\ ast # "both" /\ ~reg /\ applied /\ seen = "present"
         /\ v = "sip_trace_present_but_not_registered"
      \/ /\ ast = "absent" /\ ~reg /\ applied /\ v = "configured_but_neither_side_registered"
      \/ ast = "absent" /\ ~reg /\ ~applied /\ v = "neither_side_registered"
      \/ ast = "unknown" /\ ~reg /\ applied /\ v = "configured_but_no_register_observed"
      \/ ast = "unknown" /\ ~reg /\ ~applied /\ v = "no_force_register_audit_found"
  <2>1. CASE ast = "both"
    BY <2>1 DEF Verdict
  <2>2. CASE ast = "absent" /\ reg
    BY <2>2 DEF Verdict
  <2>3. CASE ast = "unknown" /\ reg
    BY <2>3 DEF Verdict
  <2>4. CASE ast = "absent" /\ ~reg
    BY <2>4 DEF Verdict
  <2>5. CASE ast = "unknown" /\ ~reg
    BY <2>5 DEF Verdict
  <2> QED
    BY <2>1, <2>2, <2>3, <2>4, <2>5
<1> HIDE DEF v
<1>2. v \in Verdicts
  BY <1>1 DEF Verdicts
<1>3. /\ v \in {"registered", "registered_confirmed_both_sides",
                "device_says_registered_but_asterisk_has_no_contact"} <=> reg
      /\ v \in {"registered_confirmed_both_sides", "asterisk_online_but_device_flag_stale"}
             => ast = "both"
  BY <1>1
<1>4. v \in {"device_says_registered_but_asterisk_has_no_contact",
             "configured_but_neither_side_registered", "neither_side_registered"}
          => ast = "absent"
  BY <1>1
<1>5. /\ v \in {"sip_trace_present_but_not_registered", "configured_but_neither_side_registered",
                "configured_but_no_register_observed"} => applied
      /\ v = "sip_trace_present_but_not_registered" => seen = "present"
  BY <1>1
<1> QED
  BY <1>2, <1>3, <1>4, <1>5 DEF v

-----------------------------------------------------------------------------
(* Steps.                                                                  *)

\* The parts of the state that are not of a request.
World  == config \in Settings /\ flags \subseteq Lines /\ contacts \subseteq Lines
Bools  == /\ trace \in BOOLEAN /\ up \in BOOLEAN /\ session \in BOOLEAN /\ token \in BOOLEAN
          /\ ari \in BOOLEAN /\ accepted \in BOOLEAN /\ traced \in BOOLEAN
Disk   == /\ backup \in Values /\ forceLog \in {"none", "failed", "applied"}
          /\ sipLog \in [form : {"none", "capture", "report"}, text : Texts]
Counts == /\ overwritten \subseteq Requests
          /\ requests \in 0 .. MaxRequests /\ changes \in 0 .. MaxChanges

\* The types of the next state, part by part.
LEMMA Parts ==
    ASSUME World', Bools', Disk', Counts',
           req' \in [Requests -> RequestSet], answer' \in [Requests -> AnswerSet],
           held' \in [Requests -> HeldSet],
           \A r \in Requests : req'[r].todo \in Rests(req'[r].kind)
    PROVE  Typed'
<1>1. \A r \in Requests : req'[r] \in RequestSet /\ answer'[r] \in AnswerSet
  OBVIOUS
<1>2. {trace', up', session', token', ari', accepted', traced'} \subseteq BOOLEAN
  BY DEF Bools
<1>3. \A r \in Requests :
           /\ req'[r].kind \in Kinds \union {"none"}
           /\ req'[r].online \subseteq Lines /\ req'[r].unsure \in BOOLEAN
           /\ req'[r].text \in Texts
  BY <1>1 DEF RequestSet
<1>4. \A r \in Requests :
           /\ answer'[r].status \in {"none", "ok", "error", "failed"}
           /\ answer'[r].verdict \in Verdicts \union {"none"}
           /\ answer'[r].trace \in {"none", "present", "empty", "offline"}
           /\ answer'[r].mismatch \in BOOLEAN
  BY <1>1 DEF AnswerSet
<1> QED
  BY <1>2, <1>3, <1>4 DEF World, Disk, Counts, Typed, TypeOK

\* The same parts, of this state.
LEMMA PartsOf == ASSUME Typed PROVE World /\ Bools /\ Disk /\ Counts
<1>1. World /\ Disk /\ Counts
  BY DEF Typed, TypeOK, World, Disk, Counts
<1>2. Bools
  BY DEF Typed, TypeOK, Bools
<1> QED
  BY <1>1, <1>2

\* What a step adds to what has been true during a live audit.
LEMMA Remembers ==
    ASSUME Typed, World', Remember, NEW r \in Requests
    PROVE  /\ held'[r] \in HeldSet
           /\ req'[r].kind = "status_audit" =>
                  /\ flags' \subseteq held'[r].flagUp /\ Lines \ flags' \subseteq held'[r].flagDown
                  /\ contacts' \subseteq held'[r].contactUp
                  /\ Lines \ contacts' \subseteq held'[r].contactDown
                  /\ config' \in held'[r].settings
           /\ req'[r].kind = "status_audit" /\ Busy(r) =>
                  /\ held[r].flagUp \subseteq held'[r].flagUp
                  /\ held[r].flagDown \subseteq held'[r].flagDown
                  /\ held[r].contactUp \subseteq held'[r].contactUp
                  /\ held[r].contactDown \subseteq held'[r].contactDown
                  /\ held[r].settings \subseteq held'[r].settings
<1>1. held'[r] = IF req'[r].kind # "status_audit" THEN Nothing
                 ELSE IF Busy(r) THEN Also(held[r], Now') ELSE Now'
  BY DEF Remember
<1>2. Nothing \in HeldSet
  BY DEF Nothing, HeldSet
<1>3. Now' \in HeldSet
  BY DEF World, Now, HeldSet
<1>4. held[r] \in HeldSet
  BY DEF Typed
<1>5. /\ Now'.flagUp = flags' /\ Now'.flagDown = Lines \ flags'
      /\ Now'.contactUp = contacts' /\ Now'.contactDown = Lines \ contacts'
      /\ Now'.settings = {config'}
  BY DEF Now
<1>6. CASE req'[r].kind # "status_audit"
  BY <1>1, <1>2, <1>6
<1>7. CASE req'[r].kind = "status_audit" /\ ~Busy(r)
  BY <1>1, <1>3, <1>5, <1>7
<1>8. CASE req'[r].kind = "status_audit" /\ Busy(r)
  <2>1. held'[r] = Also(held[r], Now')
    BY <1>1, <1>8
  <2> QED
    BY <1>3, <1>4, <1>5, <2>1, AlsoHeld
<1> QED
  BY <1>6, <1>7, <1>8

\* The histories are typed and do not shrink.
LEMMA RemembersAll ==
    ASSUME Typed, World', Remember
    PROVE  held' \in [Requests -> HeldSet] /\ (traced => traced') /\ (trace' => traced')
<1>1. \A r \in Requests : held'[r] \in HeldSet
  BY Remembers
<1>2. held' \in [Requests -> HeldSet]
  BY <1>1 DEF Remember
<1> QED
  BY <1>2 DEF Remember

\* A request that ends, or has not begun, promises nothing.
LEMMA IdleKeeps ==
    ASSUME NEW r \in Requests, req'[r] = Idle
    PROVE  Own(r)' /\ Ground(r)' /\ Current(r)'
<1>1. /\ req'[r].kind = "none" /\ req'[r].todo = <<>> /\ req'[r].text = "none"
      /\ Left(req'[r].todo) = {}
  BY Contents DEF Idle, Begun
<1> QED
  BY <1>1 DEF Own, Ground, Current, Configuring

\* What a step must leave alone for the requests it is not about.
Respects(x) ==
    /\ req'[x] = req[x]
    /\ accepted => accepted'
    /\ \/ config' = config /\ (x \in overwritten => x \in overwritten')
       \/ req[x].ok => x \in overwritten'

\* What was promised of them holds on.
LEMMA OthersKeep ==
    ASSUME IInv, NEW x \in Requests, Respects(x), World', Remember
    PROVE  Own(x)' /\ Ground(x)' /\ Current(x)'
<1> DEFINE q == req[x]
           h == held[x]
<1>1. Typed /\ Own(x) /\ Ground(x) /\ Current(x)
  BY DEF IInv
<1>2. req'[x] = q /\ (accepted => accepted') /\ (traced => traced')
  BY <1>1, RemembersAll DEF Respects
<1>3. Own(x)'
  <2>1. CASE config' = config /\ (x \in overwritten => x \in overwritten')
    BY <1>1, <1>2, <2>1 DEF Own
  <2>2. CASE q.ok => x \in overwritten'
    BY <1>1, <1>2, <2>2 DEF Own
  <2> QED
    BY <2>1, <2>2 DEF Respects
<1>4. Ground(x)'
  BY <1>1, <1>2 DEF Ground
<1>5. Current(x)'
  <2>1. SUFFICES ASSUME q.kind = "status_audit"
                 PROVE  Current(x)'
    BY <1>2 DEF Current
  <2>2. Busy(x)
    BY <2>1 DEF Busy
  <2>3. /\ flags' \subseteq held'[x].flagUp /\ Lines \ flags' \subseteq held'[x].flagDown
        /\ contacts' \subseteq held'[x].contactUp
        /\ Lines \ contacts' \subseteq held'[x].contactDown
        /\ config' \in held'[x].settings
        /\ h.flagUp \subseteq held'[x].flagUp /\ h.flagDown \subseteq held'[x].flagDown
        /\ h.contactUp \subseteq held'[x].contactUp /\ h.contactDown \subseteq held'[x].contactDown
        /\ h.settings \subseteq held'[x].settings
    BY <1>1, <1>2, <2>1, <2>2, Remembers
  <2>4. /\ "P47" \in DOMAIN q.got => q.got["P47"] \in held'[x].settings
        /\ \A l \in Lines : Flag(l) \in DOMAIN q.got =>
               \/ q.got[Flag(l)] = "Registered" /\ l \in held'[x].flagUp
               \/ q.got[Flag(l)] = "Not Registered" /\ l \in held'[x].flagDown
        /\ q.online \subseteq held'[x].contactUp
    BY <1>1, <2>1, <2>3 DEF Current
  <2>5. q.asterisk # "offline" =>
            \A l \in Lines : Extension[l] \notin Left(q.todo) =>
                l \in q.online \/ l \in held'[x].contactDown \/ q.unsure
    BY <1>1, <2>1, <2>3 DEF Current
  <2>6. /\ \A k \in Keys \ Left(q.todo) :
               k \in DOMAIN q.got \/ "reason" \in DOMAIN q.got \/ q.error
        /\ q.asterisk = "offline" => q.todo = <<>>
    BY <1>1, <2>1 DEF Current
  <2> QED
    BY <1>2, <2>3, <2>4, <2>5, <2>6 DEF Current
<1> QED
  BY <1>3, <1>4, <1>5

\* A step of one request.
LEMMA RequestStep ==
    ASSUME IInv, NEW r \in Requests, NEW q \in RequestSet, q.todo \in Rests(q.kind),
           req' = [req EXCEPT ![r] = q], answer' \in [Requests -> AnswerSet],
           World', Bools', Disk', Counts', Remember, Logs', VerdictHasGrounds',
           \A x \in Requests \ {r} : Respects(x),
           Own(r)', Ground(r)', Current(r)'
    PROVE  IInv'
<1>1. Typed
  BY DEF IInv
<1>2. req' \in [Requests -> RequestSet] /\ req'[r] = q
  BY <1>1 DEF Typed
<1>3. \A x \in Requests : req'[x].todo \in Rests(req'[x].kind)
  BY <1>1, <1>2 DEF Typed
<1>4. held' \in [Requests -> HeldSet]
  BY <1>1, RemembersAll
<1>5. Typed'
  BY <1>2, <1>3, <1>4, Parts
<1>6. \A x \in Requests : Own(x)' /\ Ground(x)' /\ Current(x)'
  BY OthersKeep
<1> QED
  BY <1>5, <1>6 DEF IInv

\* Two requests that differ in what is left only.
Same(q, p) == /\ q.kind = p.kind /\ q.setting = p.setting /\ q.ok = p.ok /\ q.got = p.got
              /\ q.error = p.error /\ q.text = p.text /\ q.asterisk = p.asterisk
              /\ q.online = p.online /\ q.unsure = p.unsure

\* A request with the locals p, that has had its exchange e, goes on as q.
GoesOn(q, p, e) ==
    /\ q \in RequestSet /\ q.todo \in Rests(q.kind)
    /\ q.todo = Tail(p.todo)
    /\ Left(p.todo) = {e} \union Left(q.todo)
    /\ "write" \notin Left(q.todo)
    /\ Same(q, p)

\* An exchange is over, and the request goes on with the next.
LEMMA Proceeds ==
    ASSUME Typed, NEW r \in Requests, NEW e, At(r, e), NEW p \in RequestSet,
           p.kind = req[r].kind, p.todo = req[r].todo, NEW q, q = [p EXCEPT !.todo = Tail(@)]
    PROVE  GoesOn(q, p, e)
<1> DEFINE t == req[r].todo
<1>1. t # <<>> /\ Head(t) = e /\ t \in Rests(req[r].kind) /\ req[r].kind \in Kinds \union {"none"}
  BY DEF At, Typed, RequestSet
<1>2. /\ t \in Seq(Steps) /\ Tail(t) \in Rests(req[r].kind) /\ "write" \notin Left(Tail(t))
  BY <1>1, RestOfRest
<1>3. Left(t) = {e} \union Left(Tail(t))
  BY <1>1, <1>2, LeftOfTail
<1>4. Tail(t) \in Seq(Steps)
  BY <1>1, <1>2, HeadTailProperties
<1>5. q \in RequestSet /\ q.todo = Tail(t) /\ Same(q, p)
  BY <1>4 DEF RequestSet, Same
<1>6. q.kind = req[r].kind
  BY <1>5 DEF Same
<1> QED
  BY <1>2, <1>3, <1>5, <1>6 DEF GoesOn

\* Where a request goes on, nothing is answered.
LEMMA AnswersKeep ==
    ASSUME IInv, UNCHANGED answer, accepted => accepted', traced => traced'
    PROVE  answer' \in [Requests -> AnswerSet] /\ VerdictHasGrounds'
BY DEF IInv, Typed, VerdictHasGrounds

\* Where it ends, it is not an audit that answers.
LEMMA Ends ==
    ASSUME IInv, NEW r \in Requests, NEW status \in {"error", "failed"}, EndWith(r, status),
           accepted => accepted', traced => traced'
    PROVE  /\ Idle \in RequestSet /\ Idle.todo \in Rests(Idle.kind)
           /\ req' = [req EXCEPT ![r] = Idle]
           /\ answer' \in [Requests -> AnswerSet] /\ VerdictHasGrounds'
           /\ Own(r)' /\ Ground(r)' /\ Current(r)'
<1> DEFINE a == [NoAnswer EXCEPT !.status = status, !.kind = req[r].kind]
<1>1. req[r].kind \in Kinds \union {"none"}
  BY DEF IInv, Typed, RequestSet
<1>2. a \in AnswerSet /\ a.verdict = "none"
  BY <1>1, IdleTyped DEF NoAnswer, AnswerSet
<1>3. answer' = [answer EXCEPT ![r] = a] /\ answer \in [Requests -> AnswerSet]
  BY DEF EndWith, IInv, Typed
<1> HIDE DEF a
<1>4. answer' \in [Requests -> AnswerSet]
  BY <1>2, <1>3
<1>5. \A x \in Requests : answer'[x] = IF x = r THEN a ELSE answer[x]
  BY <1>3
<1>6. VerdictHasGrounds'
  BY <1>2, <1>5 DEF IInv, VerdictHasGrounds
<1>7. req' = [req EXCEPT ![r] = Idle] /\ req'[r] = Idle
  BY DEF EndWith, IInv, Typed
<1> QED
  BY <1>4, <1>6, <1>7, IdleTyped, IdleKeeps

\* What the calls of the client do to the client.
LEMMA Client ==
    ASSUME Bools, \/ Answered \/ LostTwice \/ Fetched \/ NoSession \/ NoLogin(TRUE)
                  \/ NoLogin(FALSE) \/ NoAnswerCame(TRUE) \/ NoAnswerCame(FALSE) \/ AnswerLost
                  \/ Restarts \/ UNCHANGED client
    PROVE  session' \in BOOLEAN /\ token' \in BOOLEAN
BY DEF Bools, Answered, LostTwice, Fetched, NoSession, NoLogin, NoAnswerCame, AnswerLost,
       Restarts, client

\* The device takes what a request asks for, or does not.
LEMMA WriteKeeps == ASSUME IInv, NEW r \in Requests, Write(r) PROVE IInv'
<1> DEFINE q == req[r]
<1>1. /\ Typed /\ World /\ Bools /\ Disk /\ Counts /\ Logs
      /\ Own(r) /\ Ground(r) /\ At(r, "write") /\ Remember
      /\ UNCHANGED <<flags, trace, up, asterisk, disk, requests, changes>>
  BY PartsOf DEF IInv, Write
<1>2. /\ q \in RequestSet /\ q.todo \in Rests(q.kind) /\ q.todo # <<>> /\ Head(q.todo) = "write"
  BY <1>1 DEF Typed, At
<1>3. q.kind \in Configuring /\ q.kind # "status_audit"
  <2>1. q.kind \in Kinds \union {"none"}
    BY <1>2 DEF RequestSet
  <2> QED
    BY <1>2, <2>1, AtExchange DEF Configuring
<1>4. q.setting \in Settings /\ q.got = NoValues
  <2>1. "write" \in Left(q.todo)
    <3>1. q.todo \in Seq(Steps)
      BY <1>2, RestOfRest DEF RequestSet
    <3> QED
      BY <1>2, <3>1, LeftOfTail
  <2> QED
    BY <1>1, <1>3, <2>1 DEF Own
<1>5. \/ /\ Proceed(r, Returned(q, "error"))
         /\ UNCHANGED <<config, overwritten, accepted>>
      \/ /\ Proceed(r, Returned(q, "success"))
         /\ config' = q.setting
         /\ overwritten' = {x \in Requests \ {r} : req[x].ok}
         /\ accepted' = (accepted \/ q.kind = "force_register")
      \/ /\ EndWith(r, "failed")
         /\ config' = q.setting
         /\ overwritten' = {x \in Requests \ {r} : req[x].ok}
         /\ accepted' = (accepted \/ q.kind = "force_register")
      \/ /\ EndWith(r, "error") \/ EndWith(r, "failed")
         /\ UNCHANGED <<config, overwritten, accepted>>
  BY DEF Write
<1>6. session' \in BOOLEAN /\ token' \in BOOLEAN
  BY <1>1, Client DEF Write
<1>7. /\ accepted => accepted'
      /\ accepted' \in BOOLEAN
  BY <1>1, <1>5 DEF Bools
<1>8. World' /\ Disk' /\ Counts'
  BY <1>1, <1>4, <1>5 DEF World, Disk, Counts, asterisk, disk
<1>9. (traced => traced') /\ (trace' => traced') /\ traced' \in BOOLEAN
  BY <1>1, <1>8, RemembersAll DEF Remember
<1>10. Bools'
  BY <1>1, <1>6, <1>7, <1>9 DEF Bools, asterisk
<1>11. Logs'
  BY <1>1, <1>7, <1>9 DEF Logs, disk
<1>12. \A x \in Requests \ {r} : Respects(x)
  <2> TAKE x \in Requests \ {r}
  <2>1. req'[x] = req[x]
    BY <1>1, <1>5 DEF Proceed, EndWith, Typed
  <2>2. \/ config' = config /\ (x \in overwritten => x \in overwritten')
        \/ req[x].ok => x \in overwritten'
    BY <1>5
  <2> QED
    BY <1>7, <2>1, <2>2 DEF Respects
<1>13. CASE EndWith(r, "error") \/ EndWith(r, "failed")
  <2>1. PICK status \in {"error", "failed"} : EndWith(r, status)
    BY <1>13
  <2> QED
    BY <1>7, <1>8, <1>9, <1>10, <1>11, <1>12, <1>1, <2>1, Ends, RequestStep
<1>14. ASSUME NEW response \in {"error", "success"}, Proceed(r, Returned(q, response)),
              response = "success" => config' = q.setting
                                      /\ (q.kind = "force_register" => accepted')
       PROVE  IInv'
  <2> DEFINE p == Returned(q, response)
             n == [p EXCEPT !.todo = Tail(@)]
  <2>1. /\ p \in RequestSet /\ p.kind = q.kind /\ p.todo = q.todo /\ p.got = q.got
        /\ p.setting = q.setting /\ p.text = q.text /\ p.ok = (response = "success")
    BY <1>2 DEF Returned, RequestSet
  <2>2. /\ n \in RequestSet /\ n.todo \in Rests(n.kind) /\ "write" \notin Left(n.todo)
        /\ Same(n, p)
    <3> HIDE DEF p
    <3>1. GoesOn(n, p, "write")
      BY <1>1, <2>1, Proceeds
    <3> QED
      BY <2>1, <3>1 DEF GoesOn
  <2>3. req' = [req EXCEPT ![r] = n] /\ UNCHANGED answer
    BY <1>14 DEF Proceed
  <2> HIDE DEF p, n
  <2>4. req'[r] = n
    BY <1>1, <2>3 DEF Typed
  <2>5. /\ n.kind = q.kind /\ n.setting = q.setting /\ n.text = q.text /\ n.got = NoValues
        /\ n.ok = (response = "success")
    BY <1>4, <2>1, <2>2 DEF Same
  <2>6. Own(r)'
    BY <1>4, <1>14, <2>2, <2>4, <2>5, NoneRead DEF Own
  <2>7. Ground(r)'
    BY <1>1, <1>3, <1>9, <1>14, <2>4, <2>5 DEF Ground
  <2>8. Current(r)'
    BY <1>3, <2>4, <2>5 DEF Current
  <2>9. answer' \in [Requests -> AnswerSet] /\ VerdictHasGrounds'
    BY <1>7, <1>9, <2>3, AnswersKeep
  <2> QED
    BY <1>1, <1>8, <1>10, <1>11, <1>12, <2>2, <2>3, <2>6, <2>7, <2>8, <2>9, RequestStep
<1> QED
  BY <1>5, <1>13, <1>14

\* The device is told to restart.
LEMMA RebootKeeps == ASSUME IInv, NEW r \in Requests, Reboot(r) PROVE IInv'
<1> DEFINE q == req[r]
<1>1. /\ Typed /\ World /\ Bools /\ Disk /\ Counts /\ Logs
      /\ Own(r) /\ Ground(r) /\ At(r, "reboot") /\ Remember
      /\ UNCHANGED <<config, asterisk, disk, overwritten, accepted, requests, changes>>
  BY PartsOf DEF IInv, Reboot
<1>2. /\ q \in RequestSet /\ q.todo \in Rests(q.kind) /\ q.todo # <<>> /\ Head(q.todo) = "reboot"
  BY <1>1 DEF Typed, At
<1>3. q.kind = "force_register"
  <2>1. q.kind \in Kinds \union {"none"}
    BY <1>2 DEF RequestSet
  <2> QED
    BY <1>2, <2>1, AtExchange
<1>4. Proceed(r, q) \/ EndWith(r, "error") \/ EndWith(r, "failed")
  BY DEF Reboot
<1>5. /\ flags' = flags \/ flags' = {}
      /\ trace' = trace \/ trace' = FALSE
      /\ up' = up \/ up' = FALSE
  BY DEF Reboot, Restarts
<1>6. session' \in BOOLEAN /\ token' \in BOOLEAN
  BY <1>1, Client DEF Reboot
<1>7. World' /\ Disk' /\ Counts'
  BY <1>1, <1>5 DEF World, Disk, Counts, asterisk, disk
<1>8. (traced => traced') /\ (trace' => traced') /\ traced' \in BOOLEAN
  BY <1>1, <1>7, RemembersAll DEF Remember
<1>9. Bools'
  BY <1>1, <1>5, <1>6, <1>8 DEF Bools, asterisk
<1>10. Logs'
  BY <1>1, <1>8 DEF Logs, disk
<1>11. \A x \in Requests \ {r} : Respects(x)
  BY <1>1, <1>4 DEF Proceed, EndWith, Typed, Respects
<1>12. CASE EndWith(r, "error") \/ EndWith(r, "failed")
  <2>1. PICK status \in {"error", "failed"} : EndWith(r, status)
    BY <1>12
  <2> QED
    BY <1>1, <1>7, <1>8, <1>9, <1>10, <1>11, <2>1, Ends, RequestStep
<1>13. CASE Proceed(r, q)
  <2> DEFINE n == [q EXCEPT !.todo = Tail(@)]
  <2>1. /\ n \in RequestSet /\ n.todo \in Rests(n.kind) /\ "write" \notin Left(n.todo)
        /\ Same(n, q)
    <3>1. GoesOn(n, q, "reboot")
      BY <1>1, <1>2, Proceeds
    <3> QED
      BY <1>2, <3>1 DEF GoesOn
  <2>2. req' = [req EXCEPT ![r] = n] /\ UNCHANGED answer
    BY <1>13 DEF Proceed
  <2> HIDE DEF n
  <2>3. req'[r] = n
    BY <1>1, <2>2 DEF Typed
  <2>4. Own(r)'
    BY <1>1, <2>1, <2>3 DEF Own, Same
  <2>5. Ground(r)'
    BY <1>1, <1>3, <1>8, <2>1, <2>3 DEF Ground, Same
  <2>6. Current(r)'
    BY <1>3, <2>1, <2>3 DEF Current, Same
  <2>7. answer' \in [Requests -> AnswerSet] /\ VerdictHasGrounds'
    BY <1>1, <1>8, <2>2, AnswersKeep
  <2> QED
    BY <1>1, <1>7, <1>9, <1>10, <1>11, <2>1, <2>2, <2>4, <2>5, <2>6, <2>7, RequestStep
<1> QED
  BY <1>4, <1>12, <1>13

\* What a live audit has heard stays so: what it has read, and what Asterisk has said.
LEMMA HeardKeeps ==
    ASSUME IInv, NEW r \in Requests, World', Remember,
           req[r].kind = "status_audit", req'[r].kind = "status_audit"
    PROVE  LET q == req[r]
               h == held'[r]
           IN  /\ flags' \subseteq h.flagUp /\ Lines \ flags' \subseteq h.flagDown
               /\ contacts' \subseteq h.contactUp /\ Lines \ contacts' \subseteq h.contactDown
               /\ config' \in h.settings
               /\ "P47" \in DOMAIN q.got => q.got["P47"] \in h.settings
               /\ \A l \in Lines : Flag(l) \in DOMAIN q.got =>
                      \/ q.got[Flag(l)] = "Registered" /\ l \in h.flagUp
                      \/ q.got[Flag(l)] = "Not Registered" /\ l \in h.flagDown
               /\ \A k \in Keys \ Left(q.todo) :
                      k \in DOMAIN q.got \/ "reason" \in DOMAIN q.got \/ q.error
               /\ q.online \subseteq h.contactUp
               /\ q.asterisk # "offline" =>
                      \A l \in Lines : Extension[l] \notin Left(q.todo) =>
                          l \in q.online \/ l \in h.contactDown \/ q.unsure
               /\ q.asterisk = "offline" => q.todo = <<>>
<1> DEFINE q == req[r]
           g == held[r]
           h == held'[r]
<1>1. Typed /\ Current(r) /\ Busy(r)
  BY DEF IInv, Busy
<1>2. /\ flags' \subseteq h.flagUp /\ Lines \ flags' \subseteq h.flagDown
      /\ contacts' \subseteq h.contactUp /\ Lines \ contacts' \subseteq h.contactDown
      /\ config' \in h.settings
      /\ g.flagUp \subseteq h.flagUp /\ g.flagDown \subseteq h.flagDown
      /\ g.contactUp \subseteq h.contactUp /\ g.contactDown \subseteq h.contactDown
      /\ g.settings \subseteq h.settings
  BY <1>1, Remembers
<1>3. /\ "P47" \in DOMAIN q.got => q.got["P47"] \in h.settings
      /\ \A l \in Lines : Flag(l) \in DOMAIN q.got =>
             \/ q.got[Flag(l)] = "Registered" /\ l \in h.flagUp
             \/ q.got[Flag(l)] = "Not Registered" /\ l \in h.flagDown
      /\ q.online \subseteq h.contactUp
  BY <1>1, <1>2 DEF Current
<1>4. q.asterisk # "offline" =>
          \A l \in Lines : Extension[l] \notin Left(q.todo) =>
              l \in q.online \/ l \in h.contactDown \/ q.unsure
  BY <1>1, <1>2 DEF Current
<1>5. /\ \A k \in Keys \ Left(q.todo) :
             k \in DOMAIN q.got \/ "reason" \in DOMAIN q.got \/ q.error
      /\ q.asterisk = "offline" => q.todo = <<>>
  BY <1>1 DEF Current
<1> QED
  BY <1>2, <1>3, <1>4, <1>5

\* A value is read, or none of them can be.
LEMMA ReadKeeps == ASSUME IInv, NEW r \in Requests, NEW k \in Keys, Read(r, k) PROVE IInv'
<1> DEFINE q == req[r]
<1>1. /\ Typed /\ World /\ Bools /\ Disk /\ Counts /\ Logs
      /\ Own(r) /\ Ground(r) /\ Current(r) /\ At(r, k) /\ Remember
      /\ UNCHANGED <<device, asterisk, disk, overwritten, accepted, requests, changes>>
  BY PartsOf DEF IInv, Read
<1>2. /\ q \in RequestSet /\ q.todo \in Rests(q.kind) /\ q.todo # <<>> /\ Head(q.todo) = k
      /\ q.got \in GotSet
  BY <1>1 DEF Typed, At, RequestSet
<1>3. q.kind \in Kinds \union {"none"}
  BY <1>2 DEF RequestSet
<1>4. \/ Proceed(r, [q EXCEPT !.got = With(@, k, Value(k))])
      \/ Proceed(r, [q EXCEPT !.got = With(@, "reason", "invalid session")])
      \/ Skip(r, [q EXCEPT !.got = NoValues, !.error = TRUE], Keys)
      \/ EndWith(r, "failed")
  BY DEF Read
<1>5. session' \in BOOLEAN /\ token' \in BOOLEAN
  BY <1>1, Client DEF Read
<1>6. World' /\ Disk' /\ Counts' /\ config' = config /\ flags' = flags
  BY <1>1 DEF World, Disk, Counts, asterisk, disk, device
<1>7. (traced => traced') /\ (trace' => traced') /\ traced' \in BOOLEAN
  BY <1>1, <1>6, RemembersAll DEF Remember
<1>8. Bools'
  BY <1>1, <1>5, <1>7 DEF Bools, asterisk, device
<1>9. Logs'
  BY <1>1, <1>7 DEF Logs, disk
<1>10. \A x \in Requests \ {r} : Respects(x)
  BY <1>1, <1>4, <1>6 DEF Proceed, Skip, EndWith, Typed, Respects
<1>11. CASE EndWith(r, "failed")
  BY <1>1, <1>6, <1>7, <1>8, <1>9, <1>10, <1>11, Ends, RequestStep
<1>12. \A v \in Readings :
           /\ DOMAIN With(q.got, k, v) = DOMAIN q.got \union {k} /\ With(q.got, k, v)[k] = v
           /\ \A x \in DOMAIN q.got \ {k} : With(q.got, k, v)[x] = q.got[x]
           /\ DOMAIN With(q.got, "reason", v) = DOMAIN q.got \union {"reason"}
           /\ \A x \in DOMAIN q.got \ {"reason"} : With(q.got, "reason", v)[x] = q.got[x]
  <2> TAKE v \in Readings
  <2> DEFINE g == q.got
  <2>1. g \in GotSet
    BY <1>2
  <2> HIDE DEF g
  <2>2. /\ DOMAIN With(g, k, v) = DOMAIN g \union {k} /\ With(g, k, v)[k] = v
        /\ \A x \in DOMAIN g \ {k} : With(g, k, v)[x] = g[x]
    <3>1. k \in Keys \union {"reason"}
      OBVIOUS
    <3>2. DOMAIN With(g, k, v) = DOMAIN g \union {k}
      BY <2>1, <3>1, ReadOnce
    <3>3. With(g, k, v)[k] = v
      BY <2>1, <3>1, ReadOnce
    <3>4. \A x \in DOMAIN g \ {k} : With(g, k, v)[x] = g[x]
      BY <2>1, <3>1, ReadOnce
    <3> QED
      BY <3>2, <3>3, <3>4
  <2>3. /\ DOMAIN With(g, "reason", v) = DOMAIN g \union {"reason"}
        /\ \A x \in DOMAIN g \ {"reason"} : With(g, "reason", v)[x] = g[x]
    BY <2>1, ReadOnce
  <2> QED
    BY <2>2, <2>3 DEF g
<1>13. ASSUME NEW n \in RequestSet, n.todo \in Rests(n.kind), "write" \notin Left(n.todo),
              req' = [req EXCEPT ![r] = n], UNCHANGED answer,
              n.kind = q.kind, n.setting = q.setting, n.ok = q.ok, n.text = q.text,
              n.asterisk = q.asterisk, n.online = q.online, n.unsure = q.unsure,
              Left(q.todo) \ Keys \subseteq Left(n.todo),
              \/ n.error = TRUE /\ n.got = NoValues
              \/ /\ n.error = q.error
                 /\ Left(q.todo) = {k} \union Left(n.todo)
                 /\ \E v \in Readings :
                        \/ v = Value(k) /\ n.got = With(q.got, k, v)
                        \/ n.got = With(q.got, "reason", v)
       PROVE  IInv'
  <2>1. req'[r] = n
    BY <1>1, <1>13 DEF Typed
  <2>2. \A x \in Keys : x \in DOMAIN n.got =>
            \/ x \in DOMAIN q.got /\ n.got[x] = q.got[x]
            \/ n.got[x] = Value(x)
    <3>1. CASE n.got = NoValues
      BY <3>1, NoneRead
    <3>2. CASE \E v \in Readings : v = Value(k) /\ n.got = With(q.got, k, v)
      <4>1. PICK v \in Readings : v = Value(k) /\ n.got = With(q.got, k, v)
        BY <3>2
      <4>2. /\ DOMAIN n.got = DOMAIN q.got \union {k} /\ n.got[k] = v
            /\ \A x \in DOMAIN q.got \ {k} : n.got[x] = q.got[x]
        BY <1>12, <4>1
      <4> QED
        BY <4>1, <4>2
    <3>3. CASE \E v \in Readings : n.got = With(q.got, "reason", v)
      <4>1. PICK v \in Readings : n.got = With(q.got, "reason", v)
        BY <3>3
      <4>2. "reason" \notin Keys
        BY DEF Keys
      <4>3. /\ DOMAIN n.got = DOMAIN q.got \union {"reason"}
            /\ \A x \in DOMAIN q.got \ {"reason"} : n.got[x] = q.got[x]
        BY <1>12, <4>1
      <4> QED
        BY <4>2, <4>3
    <3> QED
      BY <1>13, <3>1, <3>2, <3>3
  <2>3. Own(r)'
    <3>1. "P47" \in Keys /\ Value("P47") = config
      BY DEF Value, Keys
    <3> QED
      BY <1>1, <1>6, <1>13, <2>1, <2>2, <3>1 DEF Own
  <2>4. Ground(r)'
    <3>1. "trace" \notin Keys
      BY DEF Keys
    <3> QED
      BY <1>1, <1>7, <1>13, <2>1, <3>1 DEF Ground
  <2>5. Current(r)'
    <3> DEFINE h == held'[r]
    <3>1. SUFFICES ASSUME q.kind = "status_audit" PROVE Current(r)'
      BY <1>13, <2>1 DEF Current
    <3>2. /\ flags' \subseteq h.flagUp /\ Lines \ flags' \subseteq h.flagDown
          /\ contacts' \subseteq h.contactUp /\ Lines \ contacts' \subseteq h.contactDown
          /\ config' \in h.settings
          /\ "P47" \in DOMAIN q.got => q.got["P47"] \in h.settings
          /\ \A l \in Lines : Flag(l) \in DOMAIN q.got =>
                 \/ q.got[Flag(l)] = "Registered" /\ l \in h.flagUp
                 \/ q.got[Flag(l)] = "Not Registered" /\ l \in h.flagDown
      BY <1>6, <1>1, <1>13, <2>1, <3>1, HeardKeeps
    <3>3. /\ \A x \in Keys \ Left(q.todo) :
                 x \in DOMAIN q.got \/ "reason" \in DOMAIN q.got \/ q.error
          /\ q.online \subseteq h.contactUp
          /\ q.asterisk # "offline"
          /\ q.asterisk # "offline" =>
                 \A l \in Lines : Extension[l] \notin Left(q.todo) =>
                     l \in q.online \/ l \in h.contactDown \/ q.unsure
      BY <1>2, <1>6, <1>1, <1>13, <2>1, <3>1, HeardKeeps
    <3>4. "P47" \in DOMAIN n.got => n.got["P47"] \in h.settings
      BY <1>1, <1>6, <2>2, <3>2, Shown DEF Keys
    <3>5. ASSUME NEW l \in Lines, Flag(l) \in DOMAIN n.got
          PROVE  \/ n.got[Flag(l)] = "Registered" /\ l \in h.flagUp
                 \/ n.got[Flag(l)] = "Not Registered" /\ l \in h.flagDown
      <4>1. Flag(l) \in Keys
        BY DEF Flag, Keys
      <4>2. CASE Flag(l) \in DOMAIN q.got /\ n.got[Flag(l)] = q.got[Flag(l)]
        BY <3>2, <4>2
      <4>3. CASE n.got[Flag(l)] = Value(Flag(l))
        <5>1. n.got[Flag(l)] = IF l \in flags THEN "Registered" ELSE "Not Registered"
          BY <1>1, <4>1, <4>3, Shown
        <5> QED
          BY <1>6, <3>2, <5>1
      <4> QED
        BY <2>2, <3>5, <4>1, <4>2, <4>3
    <3>6. \A x \in Keys \ Left(n.todo) :
              x \in DOMAIN n.got \/ "reason" \in DOMAIN n.got \/ n.error
      <4>1. CASE n.error = TRUE
        BY <4>1
      <4>2. CASE /\ n.error = q.error /\ Left(q.todo) = {k} \union Left(n.todo)
                 /\ \E v \in Readings :
                        \/ v = Value(k) /\ n.got = With(q.got, k, v)
                        \/ n.got = With(q.got, "reason", v)
        <5>1. PICK v \in Readings : \/ v = Value(k) /\ n.got = With(q.got, k, v)
                                    \/ n.got = With(q.got, "reason", v)
          BY <4>2
        <5>2. \/ DOMAIN n.got = DOMAIN q.got \union {k}
              \/ DOMAIN n.got = DOMAIN q.got \union {"reason"}
          BY <1>12, <5>1
        <5> QED
          BY <3>3, <4>2, <5>2
      <4> QED
        BY <1>13, <4>1, <4>2
    <3>7. \A l \in Lines : Extension[l] \notin Keys
      BY DEF Extension, Keys, Lines
    <3>8. n.asterisk # "offline" =>
              \A l \in Lines : Extension[l] \notin Left(n.todo) =>
                  l \in n.online \/ l \in h.contactDown \/ n.unsure
      BY <1>13, <3>3, <3>7
    <3> QED
      BY <1>13, <2>1, <3>2, <3>3, <3>4, <3>5, <3>6, <3>8 DEF Current
  <2>6. answer' \in [Requests -> AnswerSet] /\ VerdictHasGrounds'
    BY <1>1, <1>7, <1>13, AnswersKeep
  <2> QED
    BY <1>1, <1>6, <1>8, <1>9, <1>10, <1>13, <2>3, <2>4, <2>5, <2>6, RequestStep
<1>14. CASE Proceed(r, [q EXCEPT !.got = With(@, k, Value(k))])
  <2> DEFINE p == [q EXCEPT !.got = With(@, k, Value(k))]
             n == [p EXCEPT !.todo = Tail(@)]
  <2>1. Value(k) \in Readings /\ With(q.got, k, Value(k)) \in GotSet
    BY <1>1, <1>2, Shown, ReadOnce
  <2>2. /\ p \in RequestSet /\ p.kind = q.kind /\ p.todo = q.todo
        /\ p.got = With(q.got, k, Value(k)) /\ p.setting = q.setting /\ p.ok = q.ok
        /\ p.error = q.error /\ p.text = q.text /\ p.asterisk = q.asterisk
        /\ p.online = q.online /\ p.unsure = q.unsure
    BY <1>2, <2>1 DEF RequestSet
  <2>3. req' = [req EXCEPT ![r] = n] /\ UNCHANGED answer
    BY <1>14 DEF Proceed
  <2> HIDE DEF p
  <2>4. /\ n \in RequestSet /\ n.todo \in Rests(n.kind) /\ "write" \notin Left(n.todo)
        /\ Same(n, p) /\ Left(q.todo) = {k} \union Left(n.todo)
    <3>1. GoesOn(n, p, k)
      BY <1>1, <2>2, Proceeds
    <3> QED
      BY <2>2, <3>1 DEF GoesOn
  <2> HIDE DEF n
  <2> QED
    BY <1>13, <2>1, <2>2, <2>3, <2>4 DEF Same
<1>15. CASE Proceed(r, [q EXCEPT !.got = With(@, "reason", "invalid session")])
  <2> DEFINE p == [q EXCEPT !.got = With(@, "reason", "invalid session")]
             n == [p EXCEPT !.todo = Tail(@)]
  <2>1. /\ "invalid session" \in Readings
        /\ With(q.got, "reason", "invalid session") \in GotSet
    BY <1>2, ReadOnce DEF Readings
  <2>2. /\ p \in RequestSet /\ p.kind = q.kind /\ p.todo = q.todo
        /\ p.got = With(q.got, "reason", "invalid session") /\ p.setting = q.setting
        /\ p.ok = q.ok /\ p.error = q.error /\ p.text = q.text /\ p.asterisk = q.asterisk
        /\ p.online = q.online /\ p.unsure = q.unsure
    BY <1>2, <2>1 DEF RequestSet
  <2>3. req' = [req EXCEPT ![r] = n] /\ UNCHANGED answer
    BY <1>15 DEF Proceed
  <2> HIDE DEF p
  <2>4. /\ n \in RequestSet /\ n.todo \in Rests(n.kind) /\ "write" \notin Left(n.todo)
        /\ Same(n, p) /\ Left(q.todo) = {k} \union Left(n.todo)
    <3>1. GoesOn(n, p, k)
      BY <1>1, <2>2, Proceeds
    <3> QED
      BY <2>2, <3>1 DEF GoesOn
  <2> HIDE DEF n
  <2> QED
    BY <1>13, <2>1, <2>2, <2>3, <2>4 DEF Same
<1>16. CASE Skip(r, [q EXCEPT !.got = NoValues, !.error = TRUE], Keys)
  <2> DEFINE p == [q EXCEPT !.got = NoValues, !.error = TRUE]
  <2>1. /\ p \in RequestSet /\ p.kind = q.kind /\ p.todo = q.todo
        /\ p.got = NoValues /\ p.setting = q.setting /\ p.ok = q.ok
        /\ p.error = TRUE /\ p.text = q.text /\ p.asterisk = q.asterisk
        /\ p.online = q.online /\ p.unsure = q.unsure
    BY <1>2, NoneRead DEF RequestSet
  <2>2. Skip(r, p, Keys)
    BY <1>16
  <2> HIDE DEF p
  <2>3. q.todo \in Seq(Steps) /\ DOMAIN q.todo = 1 .. Len(q.todo)
    BY <1>2, <1>3, RestOfRest, LenProperties
  <2>4. PICK m : /\ Loop(q.todo, Keys, m)
                 /\ req' = [req EXCEPT ![r] = [p EXCEPT !.todo = SubSeq(@, m + 1, Len(@))]]
                 /\ UNCHANGED answer
    BY <2>1, <2>2, <2>3 DEF Skip, Loop
  <2> DEFINE w == SubSeq(q.todo, m + 1, Len(q.todo))
             n == [p EXCEPT !.todo = SubSeq(@, m + 1, Len(@))]
  <2>5. w \in Rests(q.kind) /\ Left(w) = Left(q.todo) \ Keys
    BY <1>2, <1>3, <2>4, RestOfReading
  <2>6. w \in Seq(Steps)
    BY <1>3, <2>5, RestOfRest
  <2>7. /\ n \in RequestSet /\ n.todo = w /\ Same(n, p)
    <3> HIDE DEF w
    <3>1. n = [p EXCEPT !.todo = w]
      BY <2>1 DEF w
    <3> QED
      BY <2>1, <2>6, <3>1 DEF RequestSet, Same
  <2>8. "write" \notin Left(n.todo)
    <3>1. "write" \in Left(q.todo) => Head(q.todo) = "write"
      BY <1>2, <1>3, RestOfRest
    <3> QED
      BY <1>2, <2>5, <2>7, <3>1 DEF Keys
  <2> HIDE DEF w, n
  <2> QED
    BY <1>13, <2>1, <2>4, <2>5, <2>7, <2>8 DEF Same, n
<1> QED
  BY <1>4, <1>11, <1>14, <1>15, <1>16

\* The trace is fetched, and a log of it written.
LEMMA FetchTraceKeeps == ASSUME IInv, NEW r \in Requests, FetchTrace(r) PROVE IInv'
<1> DEFINE q == req[r]
<1>1. /\ Typed /\ World /\ Bools /\ Disk /\ Counts /\ Logs
      /\ Own(r) /\ Ground(r) /\ Current(r) /\ At(r, "trace") /\ Remember
      /\ UNCHANGED <<device, asterisk, backup, forceLog, overwritten, accepted, requests,
                     changes>>
  BY PartsOf DEF IInv, FetchTrace
<1>2. q \in RequestSet /\ q.todo \in Rests(q.kind) /\ q.todo # <<>>
  BY <1>1 DEF Typed, At
<1>3. \/ \E text \in {"present", "empty", "invalid session", "offline"} :
            /\ text = "present" => trace
            /\ Proceed(r, [q EXCEPT !.text = text])
            /\ sipLog' = sipLog \/ sipLog' = [form |-> "capture", text |-> text]
      \/ EndWith(r, "failed") /\ sipLog' = sipLog
  BY DEF FetchTrace
<1>4. session' \in BOOLEAN /\ token' \in BOOLEAN
  BY <1>1, Client DEF FetchTrace
<1>5. World' /\ Counts' /\ config' = config /\ flags' = flags /\ trace' = trace
  BY <1>1 DEF World, Counts, asterisk, device
<1>6. (traced => traced') /\ (trace' => traced') /\ traced' \in BOOLEAN
  BY <1>1, <1>5, RemembersAll DEF Remember
<1>7. Bools'
  BY <1>1, <1>4, <1>6 DEF Bools, asterisk, device
<1>8. Disk' /\ Logs'
  <2>1. CASE sipLog' = sipLog
    BY <1>1, <1>6, <2>1 DEF Disk, Logs
  <2>2. CASE \E text \in {"present", "empty", "invalid session", "offline"} :
                /\ text = "present" => trace
                /\ sipLog' = [form |-> "capture", text |-> text]
    <3>1. PICK text \in {"present", "empty", "invalid session", "offline"} :
              (text = "present" => trace) /\ sipLog' = [form |-> "capture", text |-> text]
      BY <2>2
    <3>2. sipLog'.form = "capture" /\ sipLog'.text = text
      BY <3>1
    <3>3. sipLog' \in [form : {"none", "capture", "report"}, text : Texts]
      BY <3>1 DEF Texts
    <3>4. Disk'
      BY <1>1, <3>3 DEF Disk
    <3>5. Logs'
      BY <1>1, <1>5, <1>6, <3>1, <3>2 DEF Logs
    <3> QED
      BY <3>4, <3>5
  <2> QED
    BY <1>3, <2>1, <2>2
<1>9. \A x \in Requests \ {r} : Respects(x)
  BY <1>1, <1>3, <1>5 DEF Proceed, EndWith, Typed, Respects
<1>10. CASE EndWith(r, "failed")
  BY <1>1, <1>5, <1>6, <1>7, <1>8, <1>9, <1>10, Ends, RequestStep
<1>11. ASSUME NEW text \in {"present", "empty", "invalid session", "offline"},
              text = "present" => trace, Proceed(r, [q EXCEPT !.text = text])
       PROVE  IInv'
  <2> DEFINE p == [q EXCEPT !.text = text]
             n == [p EXCEPT !.todo = Tail(@)]
  <2>1. /\ p \in RequestSet /\ p.kind = q.kind /\ p.todo = q.todo /\ p.got = q.got
        /\ p.setting = q.setting /\ p.ok = q.ok /\ p.error = q.error /\ p.text = text
        /\ p.asterisk = q.asterisk /\ p.online = q.online /\ p.unsure = q.unsure
    BY <1>2 DEF RequestSet, Texts
  <2>2. req' = [req EXCEPT ![r] = n] /\ UNCHANGED answer
    BY <1>11 DEF Proceed
  <2> HIDE DEF p
  <2>3. /\ n \in RequestSet /\ n.todo \in Rests(n.kind) /\ "write" \notin Left(n.todo)
        /\ Same(n, p) /\ Left(q.todo) = {"trace"} \union Left(n.todo)
    <3>1. GoesOn(n, p, "trace")
      BY <1>1, <2>1, Proceeds
    <3> QED
      BY <2>1, <3>1 DEF GoesOn
  <2> HIDE DEF n
  <2>4. /\ req'[r] = n /\ n.kind = q.kind /\ n.got = q.got /\ n.setting = q.setting
        /\ n.ok = q.ok /\ n.error = q.error /\ n.text = text /\ n.asterisk = q.asterisk
        /\ n.online = q.online /\ n.unsure = q.unsure
    BY <1>1, <2>1, <2>2, <2>3 DEF Typed, Same
  <2>5. Own(r)'
    BY <1>1, <1>5, <2>3, <2>4 DEF Own
  <2>6. Ground(r)'
    BY <1>1, <1>5, <1>6, <1>11, <2>4 DEF Ground
  <2>7. Current(r)'
    <3> DEFINE h == held'[r]
    <3>1. SUFFICES ASSUME q.kind = "status_audit" PROVE Current(r)'
      BY <2>4 DEF Current
    <3>2. /\ flags' \subseteq h.flagUp /\ Lines \ flags' \subseteq h.flagDown
          /\ contacts' \subseteq h.contactUp /\ Lines \ contacts' \subseteq h.contactDown
          /\ config' \in h.settings
          /\ "P47" \in DOMAIN q.got => q.got["P47"] \in h.settings
          /\ \A l \in Lines : Flag(l) \in DOMAIN q.got =>
                 \/ q.got[Flag(l)] = "Registered" /\ l \in h.flagUp
                 \/ q.got[Flag(l)] = "Not Registered" /\ l \in h.flagDown
          /\ q.online \subseteq h.contactUp
      BY <1>1, <1>5, <2>4, <3>1, HeardKeeps
    <3>3. /\ \A k \in Keys \ Left(q.todo) :
                 k \in DOMAIN q.got \/ "reason" \in DOMAIN q.got \/ q.error
          /\ q.asterisk # "offline"
          /\ \A l \in Lines : Extension[l] \notin Left(q.todo) =>
                 l \in q.online \/ l \in h.contactDown \/ q.unsure
      BY <1>1, <1>2, <1>5, <2>4, <3>1, HeardKeeps
    <3>4. "trace" \notin Keys /\ \A l \in Lines : Extension[l] # "trace"
      BY DEF Extension, Keys, Lines
    <3>5. /\ \A k \in Keys \ Left(n.todo) :
                 k \in DOMAIN q.got \/ "reason" \in DOMAIN q.got \/ q.error
          /\ \A l \in Lines : Extension[l] \notin Left(n.todo) =>
                 l \in q.online \/ l \in h.contactDown \/ q.unsure
      BY <2>3, <3>3, <3>4
    <3> QED
      BY <2>4, <3>2, <3>3, <3>5 DEF Current
  <2>8. answer' \in [Requests -> AnswerSet] /\ VerdictHasGrounds'
    BY <1>1, <1>6, <2>2, AnswersKeep
  <2> QED
    BY <1>1, <1>5, <1>7, <1>8, <1>9, <2>2, <2>3, <2>5, <2>6, <2>7, <2>8, RequestStep
<1> QED
  BY <1>3, <1>10, <1>11

\* Asterisk is asked for a line.
LEMMA AskAsteriskKeeps ==
    ASSUME IInv, NEW r \in Requests, NEW l \in Lines, AskAsterisk(r, l) PROVE IInv'
<1> DEFINE q == req[r]
           e == Extension[l]
<1>1. /\ Typed /\ World /\ Bools /\ Disk /\ Counts /\ Logs
      /\ Own(r) /\ Ground(r) /\ Current(r) /\ At(r, e) /\ Remember
      /\ UNCHANGED <<device, client, asterisk, disk, overwritten, accepted, requests, changes>>
  BY PartsOf DEF IInv, AskAsterisk
<1>2. /\ q \in RequestSet /\ q.todo \in Rests(q.kind) /\ q.todo # <<>> /\ Head(q.todo) = e
      /\ q.online \subseteq Lines
  BY <1>1 DEF Typed, At, RequestSet
<1>3. /\ q.kind \in Kinds \union {"none"} /\ e \in {"1001", "1002"}
      /\ {Extension[m] : m \in Lines} = {"1001", "1002"}
  BY <1>2 DEF RequestSet, Extension, Lines
<1>4. q.kind \in {"status_audit", "registration_bundle"}
  BY <1>2, <1>3, AtExchange
<1>5. /\ World' /\ Disk' /\ Counts' /\ config' = config /\ trace' = trace /\ contacts' = contacts
      /\ session' = session /\ token' = token
  BY <1>1 DEF World, Counts, Disk, asterisk, device, disk, client
<1>6. (traced => traced') /\ (trace' => traced') /\ traced' \in BOOLEAN
  BY <1>1, <1>5, RemembersAll DEF Remember
<1>7. Bools'
  BY <1>1, <1>5, <1>6 DEF Bools, asterisk, device
<1>8. Logs'
  BY <1>1, <1>6 DEF Logs, disk
<1>9. \/ Proceed(r, [q EXCEPT !.asterisk = "reachable",
                              !.online = IF l \in contacts THEN @ \union {l} ELSE @])
      \/ Proceed(r, [q EXCEPT !.asterisk = "reachable", !.unsure = TRUE])
      \/ Skip(r, [q EXCEPT !.asterisk = "offline", !.online = {}], {"1001", "1002"})
  BY <1>3 DEF AskAsterisk
<1>10. \A x \in Requests \ {r} : Respects(x)
  BY <1>1, <1>5, <1>9 DEF Proceed, Skip, Typed, Respects
<1>11. ASSUME NEW n \in RequestSet, n.todo \in Rests(n.kind), "write" \notin Left(n.todo),
              req' = [req EXCEPT ![r] = n], UNCHANGED answer,
              n.kind = q.kind, n.setting = q.setting, n.ok = q.ok, n.text = q.text,
              n.got = q.got, n.error = q.error,
              \/ n.asterisk = "offline" /\ n.online = {} /\ n.todo = <<>>
                 /\ Left(q.todo) \subseteq {"1001", "1002"}
              \/ /\ n.asterisk = "reachable" /\ Left(q.todo) = {e} \union Left(n.todo)
                 /\ \/ /\ n.online = IF l \in contacts THEN q.online \union {l} ELSE q.online
                       /\ n.unsure = q.unsure
                    \/ n.online = q.online /\ n.unsure = TRUE
       PROVE  IInv'
  <2>1. req'[r] = n
    BY <1>1, <1>11 DEF Typed
  <2>2. Own(r)'
    BY <1>1, <1>5, <1>11, <2>1 DEF Own
  <2>3. "trace" \in Left(q.todo) => "trace" \in Left(n.todo)
    <3>1. e # "trace" /\ "trace" \notin {"1001", "1002"}
      BY <1>3
    <3> QED
      BY <1>11, <3>1
  <2>4. Ground(r)'
    BY <1>1, <1>6, <1>11, <2>1, <2>3 DEF Ground
  <2>5. Current(r)'
    <3> DEFINE h == held'[r]
    <3>1. SUFFICES ASSUME q.kind = "status_audit" PROVE Current(r)'
      BY <1>11, <2>1 DEF Current
    <3>2. /\ flags' \subseteq h.flagUp /\ Lines \ flags' \subseteq h.flagDown
          /\ contacts' \subseteq h.contactUp /\ Lines \ contacts' \subseteq h.contactDown
          /\ config' \in h.settings
          /\ "P47" \in DOMAIN q.got => q.got["P47"] \in h.settings
          /\ \A m \in Lines : Flag(m) \in DOMAIN q.got =>
                 \/ q.got[Flag(m)] = "Registered" /\ m \in h.flagUp
                 \/ q.got[Flag(m)] = "Not Registered" /\ m \in h.flagDown
          /\ q.online \subseteq h.contactUp
      BY <1>1, <1>5, <1>11, <2>1, <3>1, HeardKeeps
    <3>3. /\ \A k \in Keys \ Left(q.todo) :
                 k \in DOMAIN q.got \/ "reason" \in DOMAIN q.got \/ q.error
          /\ q.asterisk # "offline"
          /\ \A m \in Lines : Extension[m] \notin Left(q.todo) =>
                 m \in q.online \/ m \in h.contactDown \/ q.unsure
      BY <1>1, <1>2, <1>5, <1>11, <2>1, <3>1, HeardKeeps
    <3>4. \A k \in Keys : k \notin {"1001", "1002"}
      BY DEF Keys
    <3>5. \A k \in Keys \ Left(n.todo) :
              k \in DOMAIN q.got \/ "reason" \in DOMAIN q.got \/ q.error
      BY <1>3, <1>11, <3>3, <3>4
    <3>6. n.online \subseteq h.contactUp
      BY <1>5, <1>11, <3>2
    <3>7. \A m \in Lines : m # l => Extension[m] # e
      BY DEF Extension, Lines
    <3>8. n.asterisk # "offline" =>
              \A m \in Lines : Extension[m] \notin Left(n.todo) =>
                  m \in n.online \/ m \in h.contactDown \/ n.unsure
      <4> SUFFICES ASSUME n.asterisk # "offline", NEW m \in Lines,
                          Extension[m] \notin Left(n.todo)
                   PROVE  m \in n.online \/ m \in h.contactDown \/ n.unsure
        OBVIOUS
      <4>1. CASE m = l
        BY <1>5, <1>11, <3>2, <4>1
      <4>2. CASE m # l
        BY <1>11, <3>3, <3>7, <4>2
      <4> QED
        BY <4>1, <4>2
    <3>9. n.asterisk = "offline" => n.todo = <<>>
      BY <1>11
    <3> QED
      BY <1>11, <2>1, <3>2, <3>5, <3>6, <3>8, <3>9 DEF Current
  <2>6. answer' \in [Requests -> AnswerSet] /\ VerdictHasGrounds'
    BY <1>1, <1>6, <1>11, AnswersKeep
  <2> QED
    BY <1>1, <1>5, <1>7, <1>8, <1>10, <1>11, <2>2, <2>4, <2>5, <2>6, RequestStep
<1>12. ASSUME NEW p \in RequestSet, p.todo = q.todo, p.kind = q.kind, Proceed(r, p),
              p.setting = q.setting, p.ok = q.ok, p.text = q.text, p.got = q.got,
              p.error = q.error, p.asterisk = "reachable",
              \/ /\ p.online = IF l \in contacts THEN q.online \union {l} ELSE q.online
                 /\ p.unsure = q.unsure
              \/ p.online = q.online /\ p.unsure = TRUE
       PROVE  IInv'
  <2> DEFINE n == [p EXCEPT !.todo = Tail(@)]
  <2>1. /\ n \in RequestSet /\ n.todo \in Rests(n.kind) /\ "write" \notin Left(n.todo)
        /\ Same(n, p) /\ Left(q.todo) = {e} \union Left(n.todo)
    <3>1. GoesOn(n, p, e)
      BY <1>1, <1>12, Proceeds
    <3> QED
      BY <1>12, <3>1 DEF GoesOn
  <2>2. req' = [req EXCEPT ![r] = n] /\ UNCHANGED answer
    BY <1>12 DEF Proceed
  <2> HIDE DEF n
  <2> QED
    BY <1>11, <1>12, <2>1, <2>2 DEF Same
<1>13. CASE Proceed(r, [q EXCEPT !.asterisk = "reachable",
                              !.online = IF l \in contacts THEN @ \union {l} ELSE @])
  <2> DEFINE p == [q EXCEPT !.asterisk = "reachable",
                            !.online = IF l \in contacts THEN @ \union {l} ELSE @]
  <2>1. /\ p \in RequestSet /\ p.todo = q.todo /\ p.kind = q.kind
        /\ p.setting = q.setting /\ p.ok = q.ok /\ p.text = q.text /\ p.got = q.got
        /\ p.error = q.error /\ p.asterisk = "reachable" /\ p.unsure = q.unsure
        /\ p.online = IF l \in contacts THEN q.online \union {l} ELSE q.online
    BY <1>2 DEF RequestSet
  <2> HIDE DEF p
  <2> QED
    BY <1>12, <1>13, <2>1 DEF p
<1>14. CASE Proceed(r, [q EXCEPT !.asterisk = "reachable", !.unsure = TRUE])
  <2> DEFINE p == [q EXCEPT !.asterisk = "reachable", !.unsure = TRUE]
  <2>1. /\ p \in RequestSet /\ p.todo = q.todo /\ p.kind = q.kind
        /\ p.setting = q.setting /\ p.ok = q.ok /\ p.text = q.text /\ p.got = q.got
        /\ p.error = q.error /\ p.asterisk = "reachable" /\ p.unsure = TRUE
        /\ p.online = q.online
    BY <1>2 DEF RequestSet
  <2> HIDE DEF p
  <2> QED
    BY <1>12, <1>14, <2>1 DEF p
<1>15. CASE Skip(r, [q EXCEPT !.asterisk = "offline", !.online = {}], {"1001", "1002"})
  <2> DEFINE p == [q EXCEPT !.asterisk = "offline", !.online = {}]
  <2>1. /\ p \in RequestSet /\ p.kind = q.kind /\ p.todo = q.todo
        /\ p.setting = q.setting /\ p.ok = q.ok /\ p.text = q.text /\ p.got = q.got
        /\ p.error = q.error /\ p.asterisk = "offline" /\ p.online = {}
    BY <1>2 DEF RequestSet
  <2>2. Skip(r, p, {"1001", "1002"})
    BY <1>15
  <2> HIDE DEF p
  <2>3. q.todo \in Seq(Steps) /\ DOMAIN q.todo = 1 .. Len(q.todo)
    BY <1>2, <1>3, RestOfRest, LenProperties
  <2>4. PICK m : /\ Loop(q.todo, {"1001", "1002"}, m)
                 /\ req' = [req EXCEPT ![r] = [p EXCEPT !.todo = SubSeq(@, m + 1, Len(@))]]
                 /\ UNCHANGED answer
    BY <2>1, <2>2, <2>3 DEF Skip, Loop
  <2> DEFINE n == [p EXCEPT !.todo = SubSeq(@, m + 1, Len(@))]
  <2>5. SubSeq(q.todo, m + 1, Len(q.todo)) = <<>>
    BY <1>2, <1>3, <2>4, RestOfAsking
  <2>6. Left(q.todo) \subseteq {"1001", "1002"}
    <3>1. Left(SubSeq(q.todo, m + 1, Len(q.todo))) = Left(q.todo) \ {"1001", "1002"}
      BY <2>3, <2>4, LeftOfSkipped
    <3> QED
      BY <2>5, <3>1, Contents
  <2>7. n \in RequestSet /\ n.todo = <<>> /\ Same(n, p)
    <3>1. n = [p EXCEPT !.todo = <<>>]
      BY <2>1, <2>5
    <3> QED
      BY <2>1, <3>1, ListTypes DEF RequestSet, Same
  <2>8. n.todo \in Rests(n.kind) /\ "write" \notin Left(n.todo)
    <3>1. n.kind \in Kinds \union {"none"}
      BY <2>7 DEF RequestSet
    <3>2. n.todo \in Rests(n.kind)
      BY <2>7, <3>1, NothingLeft
    <3>3. Left(n.todo) = {}
      BY <2>7, Contents
    <3> QED
      BY <3>2, <3>3
  <2> HIDE DEF n
  <2> QED
    BY <1>11, <2>1, <2>4, <2>6, <2>7, <2>8 DEF Same, n
<1> QED
  BY <1>9, <1>13, <1>14, <1>15

\* A snapshot is saved.
LEMMA DownloadKeeps == ASSUME IInv, NEW r \in Requests, Download(r) PROVE IInv'
<1> DEFINE q == req[r]
<1>1. /\ Typed /\ World /\ Bools /\ Disk /\ Counts /\ Logs
      /\ Own(r) /\ Ground(r) /\ At(r, "download") /\ Remember
      /\ UNCHANGED <<device, asterisk, forceLog, sipLog, overwritten, accepted, requests,
                     changes>>
  BY PartsOf DEF IInv, Download
<1>2. /\ q \in RequestSet /\ q.todo \in Rests(q.kind) /\ q.todo # <<>>
      /\ Head(q.todo) = "download"
  BY <1>1 DEF Typed, At
<1>3. q.kind = "snapshot_backup"
  <2>1. q.kind \in Kinds \union {"none"}
    BY <1>2 DEF RequestSet
  <2> QED
    BY <1>2, <2>1, AtExchange
<1>4. Proceed(r, q) \/ EndWith(r, "error") \/ EndWith(r, "failed")
  BY DEF Download
<1>5. session' \in BOOLEAN /\ token' \in BOOLEAN
  BY <1>1, Client DEF Download
<1>6. backup' \in Values
  <2>1. \A k \in Keys : Value(k) \in Settings \union {"Registered", "Not Registered"}
    BY <1>1 DEF World, Value, Keys
  <2>2. ASSUME NEW keys \in {{"P47"}, Keys} PROVE [k \in keys |-> Value(k)] \in Values
    <3>1. keys \in SUBSET Keys
      BY DEF Keys
    <3>2. [k \in keys |-> Value(k)] \in
              [keys -> Settings \union {"Registered", "Not Registered"}]
      BY <2>1, <3>1
    <3> QED
      BY <3>1, <3>2 DEF Values
  <2> QED
    BY <1>1, <2>2, NoneRead DEF Download, Disk
<1>7. World' /\ Disk' /\ Counts' /\ config' = config
  BY <1>1, <1>6 DEF World, Disk, Counts, asterisk, device
<1>8. (traced => traced') /\ (trace' => traced') /\ traced' \in BOOLEAN
  BY <1>1, <1>7, RemembersAll DEF Remember
<1>9. Bools'
  BY <1>1, <1>5, <1>8 DEF Bools, asterisk, device
<1>10. Logs'
  BY <1>1, <1>8 DEF Logs
<1>11. \A x \in Requests \ {r} : Respects(x)
  BY <1>1, <1>4, <1>7 DEF Proceed, EndWith, Typed, Respects
<1>12. CASE EndWith(r, "error") \/ EndWith(r, "failed")
  <2>1. PICK status \in {"error", "failed"} : EndWith(r, status)
    BY <1>12
  <2> QED
    BY <1>1, <1>7, <1>8, <1>9, <1>10, <1>11, <2>1, Ends, RequestStep
<1>13. CASE Proceed(r, q)
  <2> DEFINE n == [q EXCEPT !.todo = Tail(@)]
  <2>1. /\ n \in RequestSet /\ n.todo \in Rests(n.kind) /\ "write" \notin Left(n.todo)
        /\ Same(n, q)
    <3>1. GoesOn(n, q, "download")
      BY <1>1, <1>2, Proceeds
    <3> QED
      BY <1>2, <3>1 DEF GoesOn
  <2>2. req' = [req EXCEPT ![r] = n] /\ UNCHANGED answer
    BY <1>13 DEF Proceed
  <2> HIDE DEF n
  <2>3. req'[r] = n /\ n.kind = "snapshot_backup" /\ n.text = q.text
    BY <1>1, <1>3, <2>1, <2>2 DEF Typed, Same
  <2>4. Own(r)' /\ Ground(r)' /\ Current(r)'
    BY <1>1, <1>8, <2>1, <2>3 DEF Own, Ground, Current, Configuring
  <2>5. answer' \in [Requests -> AnswerSet] /\ VerdictHasGrounds'
    BY <1>1, <1>8, <2>2, AnswersKeep
  <2> QED
    BY <1>1, <1>7, <1>9, <1>10, <1>11, <2>1, <2>2, <2>4, <2>5, RequestStep
<1> QED
  BY <1>4, <1>12, <1>13

\* What an audit is made of.
LEMMA AuditSays ==
    ASSUME Typed, Logs, NEW q \in RequestSet, q.kind \in Audits,
           NEW siplog \in [form : {"none", "capture", "report"}, text : Texts],
           siplog.form = "capture" => siplog.text # "none",
           siplog.text = "present" => traced
    PROVE  LET a == Audit(q, siplog)
           IN  /\ a \in AnswerSet
               /\ a.verdict \in {"sip_trace_present_but_not_registered",
                                 "configured_but_neither_side_registered",
                                 "configured_but_no_register_observed"} => accepted
               /\ a.verdict = "sip_trace_present_but_not_registered" =>
                      traced \/ a.fetched = "invalid session"
               /\ a.verdict \in {"registered", "registered_confirmed_both_sides",
                                 "device_says_registered_but_asterisk_has_no_contact"}
                      <=> Registered(Snapshot(q))
               /\ a.verdict \in {"registered_confirmed_both_sides",
                                 "asterisk_online_but_device_flag_stale"} =>
                      q.asterisk = "reachable" /\ q.online = Lines
               /\ a.verdict \in {"device_says_registered_but_asterisk_has_no_contact",
                                 "configured_but_neither_side_registered",
                                 "neither_side_registered"} =>
                      q.asterisk = "reachable" /\ q.online # Lines
               /\ a.source = "live" => ~q.error
               /\ a.mismatch = (q.kind = "status_audit" /\ Mismatch(q.setting, Snapshot(q)))
<1> DEFINE ast  == AsteriskSays(q)
           reg  == Registered(Snapshot(q))
           seen == TraceState(siplog)
           a    == Audit(q, siplog)
           v    == Verdict(ast, reg, ForceApplied, seen)
<1>1. /\ ast \in {"both", "absent", "unknown"}
      /\ ast = "both" => q.asterisk = "reachable" /\ q.online = Lines
      /\ ast = "absent" => q.asterisk = "reachable" /\ q.online # Lines
  BY DEF AsteriskSays
<1>2. seen \in {"present", "empty", "offline"}
  BY DEF TraceState
<1>3. seen = "present" => traced \/ siplog.text = "invalid session"
  <2>1. siplog.text \in Texts
    OBVIOUS
  <2> QED
    BY <2>1 DEF TraceState, Texts
<1>4. reg \in BOOLEAN /\ ForceApplied \in BOOLEAN
  BY DEF Registered, ForceApplied
<1>5. ForceApplied => accepted
  BY DEF ForceApplied, Logs
<1>6. /\ a.verdict = v /\ a.trace = seen /\ a.fetched = siplog.text /\ a.kind = q.kind
      /\ a.status = "ok"
      /\ a.source = IF q.kind = "status_audit" /\ ~q.error THEN "live" ELSE "latest_backup"
      /\ a.mismatch = (q.kind = "status_audit" /\ Mismatch(q.setting, Snapshot(q)))
  BY DEF Audit
<1>7. a = [status |-> a.status, kind |-> a.kind, verdict |-> a.verdict, source |-> a.source,
           trace |-> a.trace, fetched |-> a.fetched, mismatch |-> a.mismatch]
  BY DEF Audit
<1> HIDE DEF ast, reg, seen, v, a
<1>8. v \in Verdicts
  BY <1>1, <1>2, <1>4, VerdictSays DEF v
<1>9. a \in AnswerSet
  <2>1. a.kind \in Kinds \union {"none"} /\ a.fetched \in Texts
    BY <1>6 DEF RequestSet
  <2>2. a.status \in {"none", "ok", "error", "failed"}
        /\ a.source \in {"none", "live", "latest_backup"}
    BY <1>6
  <2>3. a.mismatch \in BOOLEAN
    BY <1>6
  <2> QED
    BY <1>2, <1>6, <1>7, <1>8, <2>1, <2>2, <2>3 DEF AnswerSet
<1>10. /\ v \in {"sip_trace_present_but_not_registered",
                 "configured_but_neither_side_registered",
                 "configured_but_no_register_observed"} => accepted
       /\ v = "sip_trace_present_but_not_registered" => seen = "present"
  BY <1>1, <1>2, <1>4, <1>5, VerdictSays DEF v
<1>11. v \in {"registered", "registered_confirmed_both_sides",
              "device_says_registered_but_asterisk_has_no_contact"} <=> reg
  BY <1>1, <1>2, <1>4, VerdictSays DEF v
<1>12. /\ v \in {"registered_confirmed_both_sides",
                 "asterisk_online_but_device_flag_stale"} => ast = "both"
       /\ v \in {"device_says_registered_but_asterisk_has_no_contact",
                 "configured_but_neither_side_registered", "neither_side_registered"}
              => ast = "absent"
  BY <1>1, <1>2, <1>4, VerdictSays DEF v
<1>13. a.source = "live" => ~q.error
  BY <1>6
<1> QED
  BY <1>1, <1>3, <1>6, <1>9, <1>10, <1>11, <1>12, <1>13 DEF a, reg

\* The route answers.
LEMMA FinishKeeps == ASSUME IInv, NEW r \in Requests, Finish(r) PROVE IInv'
<1> DEFINE q == req[r]
           log == CASE q.kind = "status_audit" -> [form |-> "capture", text |-> q.text]
                    [] q.kind = "sip_log"      -> [form |-> "report", text |-> q.text]
                    [] OTHER                   -> sipLog
           a == IF q.kind \in Audits THEN Audit(q, log)
                ELSE [NoAnswer EXCEPT !.status = "ok", !.kind = q.kind]
<1>1. /\ Typed /\ World /\ Bools /\ Disk /\ Counts /\ Logs
      /\ Own(r) /\ Ground(r) /\ q.todo = <<>> /\ Remember
      /\ UNCHANGED <<device, client, asterisk, backup, overwritten, accepted, requests,
                     changes>>
  BY PartsOf DEF IInv, Finish
<1>2. /\ forceLog' = IF q.kind # "force_register" THEN forceLog
                     ELSE IF q.ok THEN "applied" ELSE "failed"
      /\ sipLog' = IF q.kind = "sip_log" THEN log ELSE sipLog
      /\ answer' = [answer EXCEPT ![r] = a]
      /\ req' = [req EXCEPT ![r] = Idle]
  BY DEF Finish
<1>3. q \in RequestSet /\ q.text \in Texts /\ q.kind \in Kinds \union {"none"}
  BY <1>1 DEF Typed, RequestSet
<1>4. q.text = "present" => traced
  BY <1>1 DEF Ground
<1>5. q.kind = "status_audit" => q.text # "none"
  <2>1. "trace" \notin Left(q.todo)
    BY <1>1, Contents
  <2> QED
    BY <1>1, <2>1 DEF Ground
<1>6. /\ log \in [form : {"none", "capture", "report"}, text : Texts]
      /\ log.form = "capture" => log.text # "none"
      /\ log.text = "present" => traced
  <2>1. CASE q.kind = "status_audit"
    <3>1. log = [form |-> "capture", text |-> q.text]
      BY <2>1
    <3> HIDE DEF log
    <3> QED
      BY <1>3, <1>4, <1>5, <2>1, <3>1
  <2>2. CASE q.kind = "sip_log"
    <3>1. log = [form |-> "report", text |-> q.text]
      BY <2>2
    <3> HIDE DEF log
    <3> QED
      BY <1>3, <1>4, <3>1
  <2>3. CASE q.kind # "status_audit" /\ q.kind # "sip_log"
    <3>1. log = sipLog
      BY <2>3
    <3> HIDE DEF log
    <3> QED
      BY <1>1, <3>1 DEF Disk, Logs
  <2> QED
    BY <2>1, <2>2, <2>3
<1> HIDE DEF log
<1>7. /\ a \in AnswerSet
      /\ a.verdict \in {"sip_trace_present_but_not_registered",
                        "configured_but_neither_side_registered",
                        "configured_but_no_register_observed"} => accepted
      /\ a.verdict = "sip_trace_present_but_not_registered" =>
             traced \/ a.fetched = "invalid session"
  <2>1. CASE q.kind \in Audits
    <3>1. a = Audit(q, log)
      BY <2>1
    <3> HIDE DEF a
    <3> QED
      BY <1>1, <1>3, <1>6, <2>1, <3>1, AuditSays
  <2>2. CASE q.kind \notin Audits
    <3>1. a = [NoAnswer EXCEPT !.status = "ok", !.kind = q.kind]
      BY <2>2
    <3> HIDE DEF a
    <3>2. a \in AnswerSet /\ a.verdict = "none"
      BY <1>3, <3>1, IdleTyped DEF NoAnswer, AnswerSet
    <3> QED
      BY <3>2
  <2> QED
    BY <2>1, <2>2
<1> HIDE DEF a
<1>8. World' /\ Counts' /\ config' = config
  BY <1>1 DEF World, Counts, asterisk, device
<1>9. Disk'
  BY <1>1, <1>2, <1>6 DEF Disk
<1>10. (traced => traced') /\ (trace' => traced') /\ traced' \in BOOLEAN
  BY <1>1, <1>8, RemembersAll DEF Remember
<1>11. Bools'
  BY <1>1, <1>10 DEF Bools, asterisk, device, client
<1>12. Logs'
  <2>1. forceLog' = "applied" => accepted'
    BY <1>1, <1>2 DEF Logs, Ground
  <2>2. /\ sipLog'.form = "capture" => sipLog'.text # "none"
        /\ sipLog'.text = "present" => traced
    BY <1>1, <1>2, <1>6 DEF Logs
  <2> QED
    BY <1>10, <2>1, <2>2 DEF Logs
<1>13. \A x \in Requests \ {r} : Respects(x)
  BY <1>1, <1>2, <1>8 DEF Typed, Respects
<1>14. answer' \in [Requests -> AnswerSet]
  BY <1>1, <1>2, <1>7 DEF Typed
<1>15. VerdictHasGrounds'
  <2>1. \A x \in Requests : answer'[x] = IF x = r THEN a ELSE answer[x]
    BY <1>1, <1>2 DEF Typed
  <2>2. accepted' = accepted
    BY <1>1
  <2> QED
    BY <1>7, <1>10, <2>1, <2>2 DEF IInv, VerdictHasGrounds
<1>16. req'[r] = Idle
  BY <1>1, <1>2 DEF Typed
<1> QED
  BY <1>1, <1>2, <1>8, <1>9, <1>11, <1>12, <1>13, <1>14, <1>15, <1>16, IdleTyped, IdleKeeps,
     RequestStep

\* A request comes in.
LEMMA StartKeeps == ASSUME IInv, NEW r \in Requests, Start(r) PROVE IInv'
<1>1. /\ Typed /\ World /\ Bools /\ Disk /\ Counts /\ Logs /\ Remember /\ ~Busy(r)
      /\ requests < MaxRequests /\ requests' = requests + 1
      /\ overwritten' = overwritten \ {r}
      /\ answer' = [answer EXCEPT ![r] = NoAnswer]
      /\ UNCHANGED <<device, client, asterisk, disk, accepted, changes>>
  <2>1. Typed /\ World /\ Bools /\ Disk /\ Counts /\ Logs
    BY PartsOf DEF IInv
  <2>2. Remember /\ ~Busy(r) /\ requests < MaxRequests
    BY DEF Start
  <2>3. requests' = requests + 1
    BY DEF Start
  <2>4. overwritten' = overwritten \ {r}
    BY DEF Start
  <2>5. answer' = [answer EXCEPT ![r] = NoAnswer]
    BY DEF Start
  <2>6. UNCHANGED <<device, client, asterisk, disk, accepted, changes>>
    BY DEF Start
  <2> QED
    BY <2>1, <2>2, <2>3, <2>4, <2>5, <2>6
<1>2. PICK k \in Kinds, s \in Settings, reboot \in BOOLEAN :
          /\ reboot => k = "force_register"
          /\ req' = [req EXCEPT ![r] =
                        Begun(k, IF k \in Configuring THEN s ELSE "none", Exchanges(k, reboot))]
  BY DEF Start
<1> DEFINE t == Exchanges(k, reboot)
           n == Begun(k, IF k \in Configuring THEN s ELSE "none", t)
<1>3. t \in Rests(k)
  BY <1>2 DEF Exchanges, Rests, Kinds
<1>4. k = "status_audit" => t = <<"P47", "P4921", "P4922", "trace", "1001", "1002">>
  BY DEF Exchanges
<1>5. t \in Seq(Steps)
  BY <1>3, RestOfRest
<1> HIDE DEF t
<1>6. /\ n.kind = k /\ n.todo = t /\ n.ok = FALSE /\ n.got = NoValues /\ n.error = FALSE
      /\ n.text = "none" /\ n.asterisk = "unchecked" /\ n.online = {} /\ n.unsure = FALSE
      /\ n.setting = IF k \in Configuring THEN s ELSE "none"
  BY DEF Begun
<1>7. n \in RequestSet
  BY <1>5, NoneRead DEF Begun, RequestSet, Texts
<1>8. req' = [req EXCEPT ![r] = n]
  BY <1>2 DEF t
<1> HIDE DEF n
<1>9. req'[r] = n
  BY <1>1, <1>8 DEF Typed
<1>10. World' /\ Disk' /\ config' = config /\ flags' = flags
  BY <1>1 DEF World, Disk, asterisk, device, disk
<1>11. Counts'
  BY <1>1, BoundsAssumption DEF Counts
<1>12. (traced => traced') /\ (trace' => traced') /\ traced' \in BOOLEAN
  BY <1>1, <1>10, RemembersAll DEF Remember
<1>13. Bools'
  BY <1>1, <1>12 DEF Bools, asterisk, device, client
<1>14. Logs'
  BY <1>1, <1>12 DEF Logs, disk
<1>15. \A x \in Requests \ {r} : Respects(x)
  BY <1>1, <1>8, <1>10 DEF Typed, Respects
<1>16. answer' \in [Requests -> AnswerSet]
  BY <1>1, IdleTyped DEF Typed
<1>17. VerdictHasGrounds'
  <2>1. \A x \in Requests : answer'[x] = IF x = r THEN NoAnswer ELSE answer[x]
    BY <1>1 DEF Typed
  <2>2. NoAnswer.verdict = "none" /\ accepted' = accepted
    BY <1>1 DEF NoAnswer
  <2> QED
    BY <1>12, <2>1, <2>2 DEF IInv, VerdictHasGrounds
<1>18. Own(r)'
  <2>1. k \in Configuring => n.setting \in Settings
    BY <1>6
  <2> QED
    BY <1>6, <1>9, <2>1 DEF Own
<1>19. Ground(r)'
  <2>1. k = "status_audit" => "trace" \in Left(t)
    BY <1>4, Contents
  <2> QED
    BY <1>6, <1>9, <2>1 DEF Ground
<1>20. Current(r)'
  <2>1. SUFFICES ASSUME k = "status_audit" PROVE Current(r)'
    BY <1>6, <1>9 DEF Current
  <2>2. Left(t) = {"P47", "P4921", "P4922", "trace", "1001", "1002"}
    BY <1>4, <2>1, Contents
  <2>3. Keys \ Left(t) = {} /\ \A l \in Lines : Extension[l] \in Left(t)
    BY <2>2 DEF Keys, Extension, Lines
  <2>4. /\ flags' \subseteq held'[r].flagUp /\ Lines \ flags' \subseteq held'[r].flagDown
        /\ contacts' \subseteq held'[r].contactUp
        /\ Lines \ contacts' \subseteq held'[r].contactDown
        /\ config' \in held'[r].settings
    BY <1>1, <1>6, <1>9, <1>10, <2>1, Remembers
  <2> QED
    BY <1>6, <1>9, <2>3, <2>4, NoneRead DEF Current
<1> QED
  BY <1>1, <1>3, <1>6, <1>7, <1>8, <1>10, <1>11, <1>13, <1>14, <1>15, <1>16, <1>17, <1>18,
     <1>19, <1>20, RequestStep

\* What happens around the routes.
LEMMA SurroundingsKeep == ASSUME IInv, Surroundings PROVE IInv'
<1>1. /\ Typed /\ World /\ Bools /\ Disk /\ Counts /\ Logs /\ Remember
      /\ changes < MaxChanges /\ changes' = changes + 1
      /\ UNCHANGED <<config, disk, req, answer, overwritten, accepted, requests>>
  BY PartsOf DEF IInv, Surroundings
<1>2. flags' \subseteq Lines /\ contacts' \subseteq Lines
  BY <1>1 DEF World, Surroundings, asterisk
<1>3. World' /\ Disk'
  BY <1>1, <1>2 DEF World, Disk, disk
<1>4. Counts'
  BY <1>1, BoundsAssumption DEF Counts
<1>5. held' \in [Requests -> HeldSet] /\ (traced => traced') /\ (trace' => traced')
  BY <1>1, <1>3, RemembersAll
<1>6. session' \in BOOLEAN /\ token' \in BOOLEAN
  BY <1>1 DEF Bools, Surroundings, Answered, NoLogin, client
<1>7. trace' \in BOOLEAN /\ up' \in BOOLEAN
  BY <1>1 DEF Bools, Surroundings, Answered, NoLogin
<1>8. ari' \in BOOLEAN
  BY <1>1 DEF Bools, Surroundings, asterisk
<1>9. Bools'
  BY <1>1, <1>6, <1>7, <1>8 DEF Bools, Remember
<1>10. Logs'
  BY <1>1, <1>5 DEF Logs, disk
<1>11. Typed'
  BY <1>1, <1>3, <1>4, <1>5, <1>9, Parts DEF Typed
<1>12. VerdictHasGrounds'
  BY <1>1, <1>5 DEF IInv, VerdictHasGrounds
<1>13. \A x \in Requests : Own(x)' /\ Ground(x)' /\ Current(x)'
  BY <1>1, <1>3, OthersKeep DEF Respects
<1> QED
  BY <1>10, <1>11, <1>12, <1>13 DEF IInv

\* A browser or a script commits another setting.
LEMMA CommitKeeps == ASSUME IInv, Commit PROVE IInv'
<1>1. /\ Typed /\ World /\ Bools /\ Disk /\ Counts /\ Logs /\ Remember
      /\ changes < MaxChanges /\ changes' = changes + 1
      /\ config' \in Settings /\ overwritten' = {x \in Requests : req[x].ok}
      /\ session' = FALSE
      /\ UNCHANGED <<flags, trace, up, token, asterisk, disk, req, answer, accepted, requests>>
  BY PartsOf DEF IInv, Commit
<1>2. World' /\ Disk'
  BY <1>1 DEF World, Disk, disk, asterisk
<1>3. Counts'
  BY <1>1, BoundsAssumption DEF Counts
<1>4. held' \in [Requests -> HeldSet] /\ (traced => traced') /\ (trace' => traced')
  BY <1>1, <1>2, RemembersAll
<1>5. Bools'
  BY <1>1 DEF Bools, Remember, asterisk
<1>6. Logs'
  BY <1>1, <1>4 DEF Logs, disk
<1>7. Typed'
  BY <1>1, <1>2, <1>3, <1>4, <1>5, Parts DEF Typed
<1>8. VerdictHasGrounds'
  BY <1>1, <1>4 DEF IInv, VerdictHasGrounds
<1>9. \A x \in Requests : Own(x)' /\ Ground(x)' /\ Current(x)'
  BY <1>1, <1>2, OthersKeep DEF Respects
<1> QED
  BY <1>6, <1>7, <1>8, <1>9 DEF IInv

\* Nothing changes.
LEMMA StutterKeeps == ASSUME IInv, UNCHANGED vars PROVE IInv'
<1>1. /\ UNCHANGED <<config, flags, trace, up, session, token, contacts, ari, backup, forceLog>>
      /\ UNCHANGED <<sipLog, req, answer, held, overwritten, accepted, traced, requests, changes>>
  BY DEF vars
<1>2. World' /\ Bools' /\ Disk' /\ Counts'
  BY <1>1, PartsOf DEF IInv, World, Bools, Disk, Counts
<1>3. Typed'
  BY <1>1, <1>2, Parts DEF IInv, Typed
<1>4. Logs' /\ VerdictHasGrounds'
  BY <1>1 DEF IInv, Logs, VerdictHasGrounds
<1>5. \A r \in Requests : Own(r)' /\ Ground(r)' /\ Current(r)'
  BY <1>1 DEF IInv, Own, Ground, Current
<1> QED
  BY <1>3, <1>4, <1>5 DEF IInv

\* The service starts.
LEMMA InitHolds == Init => IInv
<1> SUFFICES ASSUME Init PROVE IInv
  OBVIOUS
<1> USE DEF Init
<1>1. Idle \in RequestSet /\ Idle.todo \in Rests(Idle.kind) /\ NoAnswer \in AnswerSet
  BY IdleTyped
<1>2. /\ req \in [Requests -> RequestSet] /\ answer \in [Requests -> AnswerSet]
      /\ held \in [Requests -> HeldSet]
      /\ \A r \in Requests : req[r] = Idle /\ answer[r] = NoAnswer
  <2>1. Nothing \in HeldSet
    BY DEF Nothing, HeldSet
  <2> QED
    BY <1>1, <2>1
<1>3. backup \in Values
  <2>1. CASE backup = NoValues
    BY <2>1, NoneRead
  <2>2. CASE backup # NoValues
    <3>1. PICK s \in Settings : backup = [k \in Keys |-> IF k = "P47" THEN s ELSE "Registered"]
      BY <2>2
    <3>2. backup \in [Keys -> Settings \union {"Registered", "Not Registered"}]
      BY <3>1
    <3> QED
      BY <3>2 DEF Values
  <2> QED
    BY <2>1, <2>2
<1>4. \A r \in Requests :
           /\ req[r].kind \in Kinds \union {"none"}
           /\ req[r].online \subseteq Lines /\ req[r].unsure \in BOOLEAN
           /\ req[r].text \in Texts
  BY <1>1, <1>2 DEF RequestSet
<1>5. \A r \in Requests :
           /\ answer[r].status \in {"none", "ok", "error", "failed"}
           /\ answer[r].verdict \in Verdicts \union {"none"}
           /\ answer[r].trace \in {"none", "present", "empty", "offline"}
           /\ answer[r].mismatch \in BOOLEAN
  BY <1>1, <1>2 DEF AnswerSet
<1>6. /\ config \in Settings /\ flags \subseteq Lines /\ contacts \subseteq Lines
      /\ {trace, up, session, token, ari, accepted, traced} \subseteq BOOLEAN
      /\ forceLog \in {"none", "failed", "applied"}
      /\ sipLog \in [form : {"none", "capture", "report"}, text : Texts]
      /\ overwritten \subseteq Requests
  BY DEF Texts
<1>7. requests \in 0 .. MaxRequests /\ changes \in 0 .. MaxChanges
  BY BoundsAssumption
<1>8. Typed
  BY <1>1, <1>2, <1>3, <1>4, <1>5, <1>6, <1>7 DEF Typed, TypeOK
<1>9. Logs
  BY DEF Logs
<1>10. VerdictHasGrounds
  BY <1>2 DEF VerdictHasGrounds, NoAnswer
<1>11. ASSUME NEW r \in Requests PROVE Own(r) /\ Ground(r) /\ Current(r)
  <2>1. /\ req[r].kind = "none" /\ req[r].todo = <<>> /\ req[r].text = "none"
        /\ Left(req[r].todo) = {}
    BY <1>2, Contents DEF Idle, Begun
  <2> QED
    BY <2>1 DEF Own, Ground, Current, Configuring
<1> QED
  BY <1>8, <1>9, <1>10, <1>11 DEF IInv

\* Every step keeps the invariant.
LEMMA StepKeeps == IInv /\ [Next]_vars => IInv'
<1> SUFFICES ASSUME IInv, [Next]_vars PROVE IInv'
  OBVIOUS
<1>1. ASSUME NEW r \in Requests, Start(r) PROVE IInv'
  BY <1>1, StartKeeps
<1>2. ASSUME NEW r \in Requests, Route(r) PROVE IInv'
  <2>1. CASE Write(r)
    BY <2>1, WriteKeeps
  <2>2. CASE Reboot(r)
    BY <2>2, RebootKeeps
  <2>3. CASE FetchTrace(r)
    BY <2>3, FetchTraceKeeps
  <2>4. CASE Download(r)
    BY <2>4, DownloadKeeps
  <2>5. CASE Finish(r)
    BY <2>5, FinishKeeps
  <2>6. ASSUME NEW k \in Keys, Read(r, k) PROVE IInv'
    BY <2>6, ReadKeeps
  <2>7. ASSUME NEW l \in Lines, AskAsterisk(r, l) PROVE IInv'
    BY <2>7, AskAsteriskKeeps
  <2> QED
    BY <1>2, <2>1, <2>2, <2>3, <2>4, <2>5, <2>6, <2>7 DEF Route
<1>3. CASE Surroundings
  BY <1>3, SurroundingsKeep
<1>4. CASE Commit
  BY <1>4, CommitKeeps
<1>5. CASE UNCHANGED vars
  BY <1>5, StutterKeeps
<1> QED
  BY <1>1, <1>2, <1>3, <1>4, <1>5 DEF Next

-----------------------------------------------------------------------------
(* Theorems.                                                               *)

\* The invariant holds throughout.
LEMMA Invariance == Spec => []IInv
BY InitHolds, StepKeeps, PTL DEF Spec

\* Every variable keeps to the values the routes, the device and Asterisk give it
\* (router.py, AsteriskClient).
THEOREM Typing == Spec => []TypeOK
<1>1. IInv => TypeOK
  BY DEF IInv, Typed
<1> QED
  BY <1>1, Invariance, PTL

\* Whatever others do meanwhile, force_register reads back its own setting unless another
\* request, a browser or a script has written since.
THEOREM ReadBack == Spec => []ReadbackIsOwn
<1>1. IInv => ReadbackIsOwn
  BY DEF IInv, Own, ReadbackIsOwn
<1> QED
  BY <1>1, Invariance, PTL

\* Every verdict has its grounds: a force-register the device has taken, a trace it
\* has held (_registration_audit).
THEOREM Grounds == Spec => []VerdictHasGrounds
<1>1. IInv => VerdictHasGrounds
  BY DEF IInv
<1> QED
  BY <1>1, Invariance, PTL

\* What a live audit answers has been so while it ran.
LEMMA AuditStep ==
    ASSUME IInv, NEW r \in Requests, Finish(r), req[r].kind = "status_audit",
           answer'[r].source = "live"
    PROVE  LET q == req[r]
               a == answer'[r]
               h == held[r]
           IN  /\ IF a.verdict \in {"registered", "registered_confirmed_both_sides",
                                    "device_says_registered_but_asterisk_has_no_contact"}
                  THEN h.flagUp = Lines
                  ELSE h.flagDown # {} \/ "reason" \in DOMAIN q.got
               /\ a.verdict \in {"registered_confirmed_both_sides",
                                 "asterisk_online_but_device_flag_stale"} => h.contactUp = Lines
               /\ a.verdict \in {"device_says_registered_but_asterisk_has_no_contact",
                                 "configured_but_neither_side_registered",
                                 "neither_side_registered"} => h.contactDown # {} \/ q.unsure
               /\ ~a.mismatch => q.setting \in h.settings \/ "reason" \in DOMAIN q.got
<1> DEFINE q == req[r]
           h == held[r]
           log == [form |-> "capture", text |-> q.text]
           a == Audit(q, log)
           g == q.got
<1>1. /\ Typed /\ Logs /\ Ground(r) /\ Current(r) /\ q \in RequestSet /\ h \in HeldSet
      /\ q.todo = <<>> /\ q.text \in Texts /\ q.online \subseteq Lines
  BY DEF IInv, Typed, Finish, RequestSet
<1>2. Left(q.todo) = {}
  BY <1>1, Contents
<1>3. answer'[r] = a
  <2>1. q.kind \in Audits
    BY DEF Audits
  <2> QED
    BY <1>1, <2>1 DEF Finish, Typed
<1>4. /\ log \in [form : {"none", "capture", "report"}, text : Texts]
      /\ log.form = "capture" => log.text # "none"
      /\ log.text = "present" => traced
  BY <1>1, <1>2 DEF Ground
<1> HIDE DEF log
<1>5. /\ a.verdict \in {"registered", "registered_confirmed_both_sides",
                        "device_says_registered_but_asterisk_has_no_contact"}
             <=> Registered(Snapshot(q))
      /\ a.verdict \in {"registered_confirmed_both_sides",
                        "asterisk_online_but_device_flag_stale"} =>
             q.asterisk = "reachable" /\ q.online = Lines
      /\ a.verdict \in {"device_says_registered_but_asterisk_has_no_contact",
                        "configured_but_neither_side_registered",
                        "neither_side_registered"} =>
             q.asterisk = "reachable" /\ q.online # Lines
      /\ a.source = "live" => ~q.error
      /\ a.mismatch = (q.kind = "status_audit" /\ Mismatch(q.setting, Snapshot(q)))
  BY <1>1, <1>4, AuditSays DEF Audits
<1> HIDE DEF a
<1>6. ~q.error
  BY <1>3, <1>5
<1>7. /\ "P47" \in DOMAIN g => g["P47"] \in h.settings
      /\ \A l \in Lines : Flag(l) \in DOMAIN g =>
             \/ g[Flag(l)] = "Registered" /\ l \in h.flagUp
             \/ g[Flag(l)] = "Not Registered" /\ l \in h.flagDown
      /\ \A k \in Keys : k \in DOMAIN g \/ "reason" \in DOMAIN g
      /\ q.online \subseteq h.contactUp
      /\ q.asterisk # "offline" =>
             \A l \in Lines : l \in q.online \/ l \in h.contactDown \/ q.unsure
  BY <1>1, <1>2, <1>6 DEF Current
<1>8. Snapshot(q) = g
  <2>1. DOMAIN g # {}
    BY <1>7 DEF Keys
  <2> QED
    BY <2>1, NoneRead DEF Snapshot
<1>9. Flag(1) = "P4921" /\ Flag(2) = "P4922" /\ Lines = {1, 2}
  BY DEF Flag, Lines
<1>10. Registered(g) => h.flagUp = Lines
  <2>1. h.flagUp \subseteq Lines
    BY <1>1 DEF HeldSet
  <2> QED
    BY <1>7, <1>9, <2>1 DEF Registered
<1>11. ~Registered(g) => h.flagDown # {} \/ "reason" \in DOMAIN g
  <2> SUFFICES ASSUME ~Registered(g), "reason" \notin DOMAIN g PROVE h.flagDown # {}
    OBVIOUS
  <2>1. "P4921" \in DOMAIN g /\ "P4922" \in DOMAIN g
    BY <1>7 DEF Keys
  <2>2. g["P4921"] # "Registered" \/ g["P4922"] # "Registered"
    BY <2>1 DEF Registered
  <2> QED
    BY <1>7, <1>9, <2>1, <2>2
<1>12. q.online = Lines => h.contactUp = Lines
  BY <1>1, <1>7 DEF HeldSet
<1>13. q.asterisk = "reachable" /\ q.online # Lines => h.contactDown # {} \/ q.unsure
  BY <1>1, <1>7
<1>14. ~a.mismatch => q.setting \in h.settings \/ "reason" \in DOMAIN g
  <2> SUFFICES ASSUME ~a.mismatch, "reason" \notin DOMAIN g PROVE q.setting \in h.settings
    OBVIOUS
  <2>1. "P47" \in DOMAIN g
    BY <1>7 DEF Keys
  <2>2. ~Mismatch(q.setting, g)
    BY <1>5, <1>8
  <2> QED
    BY <1>7, <2>1, <2>2 DEF Mismatch
<1> QED
  BY <1>3, <1>5, <1>8, <1>10, <1>11, <1>12, <1>13, <1>14

\* A live audit tells what has been so since it began, but for values and lines it got
\* no answer for (status_audit; handout.md:85).
THEOREM Currency == Spec => AuditIsCurrent
<1>1. IInv /\ [Next]_vars =>
          [\A r \in Requests :
             LET q == req[r]
                 a == answer'[r]
                 h == held[r]
             IN  Finish(r) /\ q.kind = "status_audit" /\ a.source = "live" =>
                 /\ IF a.verdict \in {"registered", "registered_confirmed_both_sides",
                                      "device_says_registered_but_asterisk_has_no_contact"}
                    THEN h.flagUp = Lines
                    ELSE h.flagDown # {} \/ "reason" \in DOMAIN q.got
                 /\ a.verdict \in {"registered_confirmed_both_sides",
                                   "asterisk_online_but_device_flag_stale"} =>
                        h.contactUp = Lines
                 /\ a.verdict \in {"device_says_registered_but_asterisk_has_no_contact",
                                   "configured_but_neither_side_registered",
                                   "neither_side_registered"} => h.contactDown # {} \/ q.unsure
                 /\ ~a.mismatch => q.setting \in h.settings \/ "reason" \in DOMAIN q.got]_vars
  BY AuditStep
<1> QED
  BY <1>1, Invariance, PTL DEF Spec, AuditIsCurrent
=============================================================================
