------------------------- MODULE ConfigBackupsProofs -------------------------
(***************************************************************************)
(* Proofs about ConfigBackups, for any callers, any BACKUP_KEEP and any    *)
(* bounds.                                                                 *)
(***************************************************************************)
EXTENDS ConfigBackups, SequenceTheorems, TLAPS

Bodies == Configs \union {Junk}

\* Configurations are numbers, and answers without one are not.
LEMMA ConfigsAreNumbers ==
    /\ \A b \in Configs : b \in Nat
    /\ Junk \notin Configs /\ Nothing \notin Configs /\ Junk # Nothing
BY BoundsAssumption DEF Configs, Junk, Nothing

-----------------------------------------------------------------------------
(* The directory.                                                          *)

\* Written puts a file at the end, or in the place of the last one.
LEMMA WrittenProperties ==
    ASSUME files \in Seq(Files), fresh \in BOOLEAN, NEW f \in Files
    PROVE  /\ Written(f) \in Seq(Files)
           /\ Len(Written(f)) = IF fresh /\ files # <<>> THEN Len(files)
                                                         ELSE Len(files) + 1
           /\ Len(Written(f)) > 0
           /\ Written(f)[Len(Written(f))] = f
           /\ \A i \in 1 .. Len(Written(f)) - 1 :
                 i \in 1 .. Len(files) /\ Written(f)[i] = files[i]
<1>1. Len(files) \in Nat /\ (files # <<>> => Len(files) > 0)
  <2>1. Len(files) \in Nat
    BY LenProperties
  <2>2. files # <<>> => Len(files) \in Nat \ {0}
    BY EmptySeq, Zenon
  <2> QED
    BY <2>1, <2>2
<1>2. CASE fresh /\ files # <<>>
  <2>1. Len(files) \in 1 .. Len(files)
    BY <1>1, <1>2
  <2>2. /\ [files EXCEPT ![Len(files)] = f] \in Seq(Files)
        /\ Len([files EXCEPT ![Len(files)] = f]) = Len(files)
        /\ \A j \in 1 .. Len(files) : [files EXCEPT ![Len(files)] = f][j] =
                                      IF j = Len(files) THEN f ELSE files[j]
    BY <2>1, ExceptSeq
  <2>3. Written(f) = [files EXCEPT ![Len(files)] = f]
    BY <1>2 DEF Written
  <2>4. \A j \in 1 .. Len(files) - 1 : j \in 1 .. Len(files) /\ j # Len(files)
    BY <1>1
  <2>5. Len(Written(f)) = Len(files) /\ Len(files) > 0
    BY <1>1, <1>2, <2>2, <2>3
  <2>6. Written(f)[Len(files)] = f
    <3>1. [files EXCEPT ![Len(files)] = f][Len(files)] = f
      BY <2>1, <2>2
    <3> QED
      BY <2>3, <3>1
  <2>7. \A i \in 1 .. Len(files) - 1 : Written(f)[i] = files[i]
    BY <2>2, <2>3, <2>4
  <2>8. QED
    BY <1>2, <2>2, <2>3, <2>4, <2>5, <2>6, <2>7
<1>3. CASE ~(fresh /\ files # <<>>)
  <2>1. Written(f) = Append(files, f)
    BY <1>3 DEF Written
  <2>2. /\ Append(files, f) \in Seq(Files)
        /\ Len(Append(files, f)) = Len(files) + 1
        /\ \A j \in 1 .. Len(files) : Append(files, f)[j] = files[j]
        /\ Append(files, f)[Len(files) + 1] = f
    BY AppendProperties
  <2>3. QED
    BY <1>1, <1>3, <2>1, <2>2
<1>4. QED
  BY <1>2, <1>3

\* Pruned drops files at the beginning, never the last one.
LEMMA PrunedProperties ==
    ASSUME NEW fs \in Seq(Files), Len(fs) > 0
    PROVE  \E k \in Nat :
              /\ k < Len(fs)
              /\ Pruned(fs) \in Seq(Files)
              /\ Len(Pruned(fs)) = Len(fs) - k
              /\ \A i \in 1 .. Len(fs) - k : Pruned(fs)[i] = fs[i + k]
              /\ KeepLast > 0 => Len(Pruned(fs)) <= KeepLast
              /\ k > 0 => Len(Pruned(fs)) = KeepLast
<1>1. Len(fs) \in Nat /\ KeepLast \in Nat
  BY LenProperties, BoundsAssumption
<1>2. CASE KeepLast = 0 \/ Len(fs) <= KeepLast
  <2>1. Pruned(fs) = fs
    BY <1>2 DEF Pruned
  <2>2. QED
    BY <1>1, <1>2, <2>1
<1>3. CASE ~(KeepLast = 0 \/ Len(fs) <= KeepLast)
  <2> DEFINE k == Len(fs) - KeepLast
  <2>1. k \in Nat /\ k > 0 /\ k < Len(fs) /\ k + 1 \in Int /\ Len(fs) \in Int
    BY <1>1, <1>3
  <2>2. Pruned(fs) = SubSeq(fs, k + 1, Len(fs))
    BY <1>3 DEF Pruned
  <2>3. \A i \in k + 1 .. Len(fs) : fs[i] \in Files
    BY <1>1, <2>1, ElementOfSeq
  <2>4. /\ Pruned(fs) \in Seq(Files)
        /\ Len(Pruned(fs)) = IF k + 1 <= Len(fs) THEN Len(fs) - (k + 1) + 1 ELSE 0
        /\ \A i \in 1 .. Len(fs) - (k + 1) + 1 : Pruned(fs)[i] = fs[(k + 1) + i - 1]
    <3> HIDE DEF k
    <3>1. QED
      BY <2>1, <2>2, <2>3, SubSeqProperties
  <2>5. \A i \in 1 .. Len(fs) - k : Pruned(fs)[i] = fs[i + k]
    <3> HIDE DEF k
    <3>1. \A i \in 1 .. Len(fs) - k : (k + 1) + i - 1 = i + k
      BY <2>1
    <3>2. 1 .. Len(fs) - (k + 1) + 1 = 1 .. Len(fs) - k
      BY <2>1
    <3>3. QED
      BY <2>4, <3>1, <3>2
  <2>6. Len(Pruned(fs)) = Len(fs) - k /\ Len(fs) - k = KeepLast
    BY <1>1, <2>1, <2>4
  <2> HIDE DEF k
  <2>7. KeepLast > 0 => Len(Pruned(fs)) <= KeepLast
    BY <1>1, <2>6
  <2>8. QED
    BY <2>1, <2>4, <2>5, <2>6, <2>7
<1>4. QED
  BY <1>2, <1>3

\* A step that adds file f: the first k files go, f comes last or in the place of
\* the last one, and the others stay in their order.
Added(f, k) ==
    /\ files' \in Seq(Files)
    /\ Len(files') > 0
    /\ files'[Len(files')] = f
    /\ Len(files') + k = IF fresh /\ files # <<>> THEN Len(files) ELSE Len(files) + 1
    /\ \A i \in 1 .. Len(files') - 1 :
          i + k \in 1 .. Len(files) /\ files'[i] = files[i + k]

\* A file that is written is added, and nothing goes.
LEMMA WrittenAdds ==
    ASSUME files \in Seq(Files), fresh \in BOOLEAN, NEW f \in Files, files' = Written(f)
    PROVE  Added(f, 0)
<1>1. \A i \in 1 .. Len(files') - 1 : i + 0 = i
  BY LenProperties, WrittenProperties
<1>2. Len(files') \in Nat /\ Len(files') + 0 = Len(files')
  BY LenProperties, WrittenProperties
<1> DEFINE w == Written(f)
<1>3. /\ w \in Seq(Files) /\ Len(w) > 0 /\ w[Len(w)] = f
      /\ Len(w) = IF fresh /\ files # <<>> THEN Len(files) ELSE Len(files) + 1
      /\ \A i \in 1 .. Len(w) - 1 : i \in 1 .. Len(files) /\ w[i] = files[i]
  BY WrittenProperties
<1>4. files' = w
  OBVIOUS
<1> HIDE DEF w
<1>5. QED
  BY <1>1, <1>2, <1>3, <1>4 DEF Added

\* A backup that is saved is added, and the oldest go if they are too many.
LEMMA SaveAdds ==
    ASSUME files \in Seq(Files), fresh \in BOOLEAN, NEW body \in Bodies, Save(body)
    PROVE  \E k \in Nat : /\ Added([body |-> body, copy |-> FALSE], k)
                          /\ KeepLast > 0 => Len(files') <= KeepLast
                          /\ k > 0 => Len(files') = KeepLast
<1> DEFINE f == [body |-> body, copy |-> FALSE]
           w == Written(f)
<1>1. f \in Files
  BY DEF Files, Bodies
<1>2. /\ w \in Seq(Files) /\ Len(w) > 0 /\ w[Len(w)] = f
      /\ Len(w) = IF fresh /\ files # <<>> THEN Len(files) ELSE Len(files) + 1
      /\ \A i \in 1 .. Len(w) - 1 : i \in 1 .. Len(files) /\ w[i] = files[i]
  BY <1>1, WrittenProperties
<1>3. files' = Pruned(w)
  BY DEF Save
<1> HIDE DEF f, w
<1>4. PICK k \in Nat :
              /\ k < Len(w)
              /\ files' \in Seq(Files)
              /\ Len(files') = Len(w) - k
              /\ \A i \in 1 .. Len(w) - k : files'[i] = w[i + k]
              /\ KeepLast > 0 => Len(files') <= KeepLast
              /\ k > 0 => Len(files') = KeepLast
  BY <1>2, <1>3, PrunedProperties
<1>5. Len(w) \in Nat
  BY <1>2, LenProperties
<1>6. Len(files') > 0 /\ files'[Len(files')] = f /\ Len(files') + k = Len(w)
  <2>1. Len(w) - k \in 1 .. Len(w) - k /\ (Len(w) - k) + k = Len(w) /\ Len(w) - k > 0
    BY <1>4, <1>5
  <2>2. QED
    BY <1>2, <1>4, <2>1
<1>7. \A i \in 1 .. Len(files') - 1 :
          i + k \in 1 .. Len(files) /\ files'[i] = files[i + k]
  <2>1. ASSUME NEW i \in 1 .. Len(files') - 1
        PROVE  i \in 1 .. Len(w) - k /\ i + k \in 1 .. Len(w) - 1
    BY <1>4, <1>5
  <2>2. QED
    BY <1>2, <1>4, <2>1
<1>8. QED
  BY <1>2, <1>4, <1>6, <1>7 DEF Added, f

-----------------------------------------------------------------------------
(* What every step keeps of the variables that stand alone.                *)

Plain ==
    /\ cfg \in Configs
    /\ up \in BOOLEAN
    /\ token \in {"none", "valid", "stale"}
    /\ fresh \in BOOLEAN
    /\ faults \in 0 .. MaxFaults

\* The device never loses a configuration, and faults are only counted up.
LEMMA PlainStep == Plain /\ [Next]_vars => Plain' /\ cfg <= cfg' /\ faults <= faults'
<1> SUFFICES ASSUME Plain, [Next]_vars PROVE Plain' /\ cfg <= cfg' /\ faults <= faults'
  OBVIOUS
<1> DEFINE Numbers == /\ cfg' \in Configs /\ token' \in {"none", "valid", "stale"}
                      /\ faults' \in 0 .. MaxFaults /\ cfg <= cfg' /\ faults <= faults'
           Truths  == up' \in BOOLEAN /\ fresh' \in BOOLEAN
<1> USE BoundsAssumption DEF Plain
<1>1. ASSUME NEW c \in Callers, Ask(c) PROVE Numbers /\ Truths
  <2>1. token' \in {"none", "valid", "stale"} /\ cfg' \in {cfg, cfg + 1} /\ cfg' \in Configs
    BY <1>1 DEF Ask
  <2>2. UNCHANGED <<up, fresh, faults>>
    BY <1>1 DEF Ask
  <2>3. QED
    BY <2>1, <2>2 DEF Configs
<1>2. ASSUME NEW c \in Callers, AskInVain(c) \/ LoginFails(c) \/ RequestFails(c)
      PROVE  Numbers /\ Truths
  BY <1>2 DEF AskInVain, LoginFails, RequestFails, Fault, Configs
<1>3. ASSUME NEW c \in Callers, Return(c) PROVE Numbers /\ Truths
  <2>1. Numbers /\ up' \in BOOLEAN
    BY <1>3 DEF Return, LoseAnswer, ReceiveBackup, Receive, Fault, Configs
  <2>2. fresh' = fresh \/ fresh' = TRUE
    BY <1>3 DEF Return, LoseAnswer, ReceiveBackup, Receive, Save
  <2>3. QED
    BY <2>1, <2>2
<1>4. ASSUME NEW c \in Callers, NEW k \in Kinds, NEW e \in Configs, Call(c, k, e)
      PROVE  Numbers /\ Truths
  BY <1>4 DEF Call, Configs
<1>5. CASE CopyLocal \/ Second
  <2>1. UNCHANGED <<cfg, up, token, faults>> /\ (fresh' = TRUE \/ fresh' = FALSE)
    BY <1>5 DEF CopyLocal, Second
  <2>2. Numbers
    BY <2>1 DEF Configs
  <2>3. Truths
    BY <2>1
  <2>4. QED
    BY <2>2, <2>3
<1>6. CASE Browser
  BY <1>6 DEF Browser, Fault, Configs
<1>7. CASE GoDown \/ ComeUp
  <2>1. (faults' = faults \/ Fault) /\ UNCHANGED <<cfg, fresh>> /\ (up' = TRUE \/ up' = FALSE)
    BY <1>7 DEF GoDown, ComeUp
  <2>2. token' \in {token, "stale"}
    BY <1>7 DEF GoDown, ComeUp
  <2>3. Numbers
    BY <2>1, <2>2 DEF Fault, Configs
  <2>4. Truths
    BY <2>1, <2>2
  <2>5. QED
    BY <2>3, <2>4
<1>8. CASE Crash
  <2>1. Fault /\ token' = "none" /\ UNCHANGED <<cfg, up>>
    BY <1>8 DEF Crash
  <2>2. fresh' = fresh \/ fresh' = TRUE
    BY <1>8 DEF Crash
  <2>3. Numbers
    BY <2>1, <2>2 DEF Fault, Configs
  <2>4. Truths
    BY <2>1, <2>2
  <2>5. QED
    BY <2>3, <2>4
<1>9. CASE UNCHANGED vars
  BY <1>9 DEF vars, Configs
<1>10. Numbers /\ Truths
  BY <1>1, <1>2, <1>3, <1>4, <1>5, <1>6, <1>7, <1>8, <1>9 DEF Next, Exchange
<1>11. QED
  BY <1>10

-----------------------------------------------------------------------------
(* The calls.                                                              *)

CallRecs == [kind : Kinds, at : {"idle", "waiting", "asked", "copying"},
             from : Configs, got : Configs \union {Junk, Nothing}, expected : Configs]

\* What a call says of configurations, when the device has had those up to n: a
\* configuration it got is not older than its start.
Fits(r, n) ==
    /\ r.from <= n
    /\ r.got \in Configs => r.from <= r.got /\ r.got <= n
    /\ r.at = "copying" => r.got # Nothing
    /\ r.at = "asked" /\ r.kind = "backup" => r.got # Nothing

\* One call at a time is with the device, which is what the lock is for; only
\* the script copies.
CallsInv ==
    /\ calls \in [Callers -> CallRecs]
    /\ \A c \in Callers : Fits(calls[c], cfg)
    /\ \A c, d \in Callers : calls[c].at = "asked" /\ calls[d].at = "asked" => c = d
    /\ \A c \in Callers : calls[c].at = "copying" => c = Script

\* What a call says stays true while configurations are added.
LEMMA FitsLater ==
    ASSUME NEW r \in CallRecs, NEW m \in Configs, NEW n \in Configs, m <= n, Fits(r, m)
    PROVE  Fits(r, n)
BY ConfigsAreNumbers DEF Fits, CallRecs

\* No call says nothing.
LEMMA NoCallFits ==
    /\ NoCall \in CallRecs
    /\ NoCall.at = "idle"
    /\ \A n \in Configs : Fits(NoCall, n)
BY ConfigsAreNumbers, BoundsAssumption DEF NoCall, CallRecs, Fits, Configs, Kinds, Nothing

\* The call of one caller changes.
LEMMA CallsUpdate ==
    ASSUME CallsInv, cfg \in Configs, cfg' \in Configs, cfg <= cfg',
           NEW c \in Callers, NEW r \in CallRecs, calls' = [calls EXCEPT ![c] = r],
           Fits(r, cfg'),
           r.at = "asked" => Free,
           r.at = "copying" => c = Script
    PROVE  CallsInv'
<1>1. calls' \in [Callers -> CallRecs]
  BY DEF CallsInv
<1>2. \A d \in Callers : calls'[d] = IF d = c THEN r ELSE calls[d]
  BY DEF CallsInv
<1>3. \A d \in Callers : Fits(calls'[d], cfg')
  <2>1. ASSUME NEW d \in Callers, d # c PROVE Fits(calls[d], cfg')
    BY FitsLater DEF CallsInv
  <2>2. QED
    BY <1>2, <2>1
<1>4. \A a, b \in Callers : calls'[a].at = "asked" /\ calls'[b].at = "asked" => a = b
  BY <1>2 DEF CallsInv, Free
<1>5. \A d \in Callers : calls'[d].at = "copying" => d = Script
  BY <1>2 DEF CallsInv
<1>6. QED
  BY <1>1, <1>3, <1>4, <1>5 DEF CallsInv

\* A call ends.
LEMMA CallEnds ==
    ASSUME CallsInv, Plain, Plain', cfg <= cfg',
           NEW c \in Callers, calls' = [calls EXCEPT ![c] = NoCall]
    PROVE  CallsInv'
BY NoCallFits, CallsUpdate DEF Plain

\* No call changes.
LEMMA CallsStay ==
    ASSUME CallsInv, Plain, Plain', cfg <= cfg', calls' = calls
    PROVE  CallsInv'
BY FitsLater DEF Plain, CallsInv

\* Every step keeps the calls as they should be.
LEMMA CallsStep == Plain /\ CallsInv /\ [Next]_vars => CallsInv'
<1> SUFFICES ASSUME Plain, CallsInv, [Next]_vars PROVE CallsInv'
  OBVIOUS
<1>0. Plain' /\ cfg <= cfg'
  BY PlainStep
<1>1. ASSUME NEW c \in Callers, Ask(c) PROVE CallsInv'
  <2>1. PICK g \in {cfg, Junk, Nothing} :
            /\ calls' = [calls EXCEPT ![c] = [calls[c] EXCEPT !.at = "asked", !.got = g]]
            /\ calls[c].kind = "backup" => g # Nothing
    BY <1>1, ConfigsAreNumbers DEF Ask, Plain
  <2> DEFINE r == [calls[c] EXCEPT !.at = "asked", !.got = g]
  <2>2. calls[c] \in CallRecs /\ Fits(calls[c], cfg)
    BY DEF CallsInv
  <2>3. r \in CallRecs
    BY <2>2 DEF CallRecs, Plain
  <2>4. r.at = "asked" /\ r.got = g /\ r.from = calls[c].from /\ r.kind = calls[c].kind
    BY <2>2 DEF CallRecs
  <2>5. calls' = [calls EXCEPT ![c] = r]
    BY <2>1
  <2> HIDE DEF r
  <2>6. Fits(r, cfg)
    BY <2>1, <2>2, <2>4, ConfigsAreNumbers DEF Fits, Plain
  <2>7. Fits(r, cfg')
    BY <1>0, <2>3, <2>6, FitsLater DEF Plain
  <2>8. Free
    BY <1>1 DEF Ask, MayAsk
  <2>9. QED
    BY <1>0, <2>3, <2>4, <2>5, <2>7, <2>8, CallsUpdate DEF Plain
<1>2. ASSUME NEW c \in Callers, AskInVain(c) PROVE CallsInv'
  <2>1. PICK g \in {Junk, Nothing} :
            calls' = [calls EXCEPT ![c] = [calls[c] EXCEPT !.at = "asked", !.got = g]]
    BY <1>2 DEF AskInVain
  <2> DEFINE r == [calls[c] EXCEPT !.at = "asked", !.got = g]
  <2>2. calls[c] \in CallRecs /\ Fits(calls[c], cfg) /\ calls[c].kind # "backup"
    BY <1>2 DEF CallsInv, AskInVain
  <2>3. r \in CallRecs
    BY <2>2 DEF CallRecs
  <2>4. r.at = "asked" /\ r.got = g /\ r.from = calls[c].from /\ r.kind = calls[c].kind
    BY <2>2 DEF CallRecs
  <2>5. calls' = [calls EXCEPT ![c] = r] /\ cfg' = cfg
    BY <1>2, <2>1 DEF AskInVain
  <2> HIDE DEF r
  <2>6. Fits(r, cfg)
    BY <2>1, <2>2, <2>4, ConfigsAreNumbers DEF Fits
  <2>7. Free
    BY <1>2 DEF AskInVain, MayAsk
  <2>8. QED
    BY <1>0, <2>3, <2>4, <2>5, <2>6, <2>7, CallsUpdate DEF Plain
<1>3. ASSUME NEW c \in Callers, LoginFails(c) \/ RequestFails(c) \/ LoseAnswer(c) \/ Receive(c)
      PROVE  CallsInv'
  BY <1>0, <1>3, CallEnds DEF LoginFails, RequestFails, LoseAnswer, Receive, GiveUp
<1>4. ASSUME NEW c \in Callers, ReceiveBackup(c) PROVE CallsInv'
  <2>1. CASE c # Script
    BY <1>0, <1>4, <2>1, CallEnds DEF ReceiveBackup
  <2>2. CASE c = Script
    <3> DEFINE r == [calls[c] EXCEPT !.at = "copying", !.from = 0]
    <3>1. calls[c] \in CallRecs /\ Fits(calls[c], cfg)
      BY DEF CallsInv
    <3>2. calls[c].at = "asked" /\ calls[c].kind = "backup" /\ cfg' = cfg
      BY <1>4 DEF ReceiveBackup
    <3>3. 0 \in Configs
      BY BoundsAssumption DEF Configs
    <3>4. r \in CallRecs
      BY <3>1, <3>3 DEF CallRecs
    <3>5. r.at = "copying" /\ r.got = calls[c].got /\ r.from = 0
      BY <3>1 DEF CallRecs
    <3>6. calls' = [calls EXCEPT ![c] = r]
      BY <1>4, <2>2 DEF ReceiveBackup
    <3> HIDE DEF r
    <3>7. Fits(r, cfg)
      BY <3>1, <3>2, <3>5, ConfigsAreNumbers DEF Fits, Plain
    <3>8. QED
      BY <1>0, <2>2, <3>2, <3>4, <3>5, <3>6, <3>7, CallsUpdate DEF Plain
  <2>3. QED
    BY <2>1, <2>2
<1>5. ASSUME NEW c \in Callers, NEW k \in Kinds, NEW e \in Configs, Call(c, k, e)
      PROVE  CallsInv'
  <2> DEFINE r == [NoCall EXCEPT !.kind = k, !.at = "waiting",
                                 !.from = IF k \in Asking THEN cfg ELSE 0, !.expected = e]
  <2>0. 0 \in Configs /\ cfg \in Configs
    BY BoundsAssumption DEF Configs, Plain
  <2>1. r \in CallRecs
    BY <2>0, NoCallFits DEF NoCall, CallRecs
  <2>2. r.at = "waiting" /\ r.got = Nothing /\ r.from \in {cfg, 0}
    BY DEF NoCall
  <2>3. calls' = [calls EXCEPT ![c] = r] /\ cfg' = cfg
    BY <1>5 DEF Call
  <2> HIDE DEF r
  <2>4. Fits(r, cfg)
    BY <2>2, ConfigsAreNumbers DEF Fits, Plain
  <2>5. QED
    BY <1>0, <2>1, <2>2, <2>3, <2>4, CallsUpdate DEF Plain
<1>6. CASE CopyLocal
  BY <1>0, <1>6, CallEnds DEF CopyLocal, Callers
<1>7. CASE Second \/ Browser \/ GoDown \/ ComeUp
  BY <1>0, <1>7, CallsStay DEF Second, Browser, GoDown, ComeUp
<1>8. CASE Crash
  <2>1. \A c \in Callers : calls'[c] \in {calls[c], NoCall}
    BY <1>8 DEF Crash
  <2>2. calls' \in [Callers -> CallRecs]
    BY <1>8, NoCallFits DEF Crash, CallsInv
  <2>3. cfg' = cfg
    BY <1>8 DEF Crash
  <2>4. QED
    BY <2>1, <2>2, <2>3, NoCallFits DEF CallsInv, Plain
<1>9. CASE UNCHANGED vars
  BY <1>0, <1>9, CallsStay DEF vars
<1>10. QED
  BY <1>1, <1>2, <1>3, <1>4, <1>5, <1>6, <1>7, <1>8, <1>9 DEF Next, Exchange, Return

-----------------------------------------------------------------------------
(* Three ways in which a step treats the directory.                        *)

\* The directory stays; a call that gets its answer gets the configuration of now.
Quiet ==
    /\ UNCHANGED <<files, since>>
    /\ calls'[Script].at = "copying" => calls'[Script] = calls[Script]
    /\ \A c \in Callers :
          calls'[c].at = "asked" => \/ calls'[c] = calls[c]
                                    \/ calls'[c].got \in {cfg, Junk, Nothing}

\* A backup is saved, whole or not, and with that no call is left at the device.
\* What is not pruned is the fault of a crash.
Saves ==
    \E c \in Callers, body \in Bodies, k \in Nat :
        /\ calls[c].at = "asked" /\ calls[c].kind = "backup"
        /\ body \in {calls[c].got, Junk}
        /\ Added([body |-> body, copy |-> FALSE], k)
        /\ Count(body)
        /\ k > 0 => Len(files') = KeepLast
        /\ \A d \in Callers : calls'[d].at # "asked"
        /\ \/ KeepLast > 0 => Len(files') <= KeepLast
           \/ /\ k = 0 /\ faults' = faults + 1
              /\ calls'[Script].at = "copying" => calls[Script].at = "copying"

\* The script copies.
Copies ==
    /\ calls[Script].at = "copying"
    /\ calls[Script].got \in Bodies
    /\ Added([body |-> calls[Script].got, copy |-> TRUE], 0)
    /\ Count(calls[Script].got)
    /\ calls' = [calls EXCEPT ![Script] = NoCall]

\* There is no fourth way.
LEMMA Moves ==
    ASSUME Plain, CallsInv, files \in Seq(Files), [Next]_vars
    PROVE  Quiet \/ Saves \/ Copies
<1>0. /\ Script \in Callers
      /\ NoCall.at = "idle"
      /\ \A c \in Callers : calls[c] \in CallRecs /\ Fits(calls[c], cfg)
  BY NoCallFits DEF Callers, CallsInv
<1>1. ASSUME NEW c \in Callers, Ask(c) PROVE Quiet
  <2>1. PICK g \in {cfg, Junk, Nothing} :
            calls' = [calls EXCEPT ![c] = [calls[c] EXCEPT !.at = "asked", !.got = g]]
    BY <1>1 DEF Ask
  <2>2. /\ calls'[c] = [calls[c] EXCEPT !.at = "asked", !.got = g]
        /\ \A d \in Callers : d # c => calls'[d] = calls[d]
    BY <2>1 DEF CallsInv
  <2>3. calls'[c].at = "asked" /\ calls'[c].got = g
    BY <1>0, <2>2 DEF CallRecs
  <2>4. UNCHANGED <<files, since>>
    BY <1>1 DEF Ask
  <2>5. QED
    BY <1>0, <2>2, <2>3, <2>4 DEF Quiet
<1>2. ASSUME NEW c \in Callers, AskInVain(c) PROVE Quiet
  <2>1. PICK g \in {Junk, Nothing} :
            calls' = [calls EXCEPT ![c] = [calls[c] EXCEPT !.at = "asked", !.got = g]]
    BY <1>2 DEF AskInVain
  <2>2. /\ calls'[c] = [calls[c] EXCEPT !.at = "asked", !.got = g]
        /\ \A d \in Callers : d # c => calls'[d] = calls[d]
    BY <2>1 DEF CallsInv
  <2>3. calls'[c].at = "asked" /\ calls'[c].got = g
    BY <1>0, <2>2 DEF CallRecs
  <2>4. UNCHANGED <<files, since>>
    BY <1>2 DEF AskInVain
  <2>5. QED
    BY <1>0, <2>2, <2>3, <2>4 DEF Quiet
<1>3. ASSUME NEW c \in Callers, LoginFails(c) \/ RequestFails(c) \/ LoseAnswer(c) \/ Receive(c)
      PROVE  Quiet
  <2>1. UNCHANGED <<files, since>> /\ calls' = [calls EXCEPT ![c] = NoCall]
    BY <1>3 DEF LoginFails, RequestFails, LoseAnswer, Receive, GiveUp
  <2>2. calls'[c] = NoCall /\ \A d \in Callers : d # c => calls'[d] = calls[d]
    BY <2>1 DEF CallsInv
  <2>3. QED
    BY <1>0, <2>1, <2>2 DEF Quiet
<1>4. ASSUME NEW c \in Callers, ReceiveBackup(c) PROVE Saves
  <2> DEFINE body == calls[c].got
  <2>1. calls[c].at = "asked" /\ calls[c].kind = "backup" /\ Save(body)
    BY <1>4 DEF ReceiveBackup
  <2>2. body \in Bodies
    BY <1>0, <2>1 DEF Fits, CallRecs, Bodies
  <2>3. Count(body)
    BY <2>1 DEF Save
  <2>4. /\ calls'[c].at # "asked"
        /\ \A d \in Callers : d # c => calls'[d] = calls[d]
    <3>1. CASE c = Script
      <4>1. calls' = [calls EXCEPT ![c] = [calls[c] EXCEPT !.at = "copying", !.from = 0]]
        BY <1>4, <3>1 DEF ReceiveBackup
      <4>2. /\ calls'[c] = [calls[c] EXCEPT !.at = "copying", !.from = 0]
            /\ \A d \in Callers : d # c => calls'[d] = calls[d]
        BY <4>1 DEF CallsInv
      <4>3. QED
        BY <1>0, <4>2 DEF CallRecs
    <3>2. CASE c # Script
      <4>1. calls' = [calls EXCEPT ![c] = NoCall]
        BY <1>4, <3>2 DEF ReceiveBackup
      <4>2. QED
        BY <1>0, <4>1 DEF CallsInv
    <3>3. QED
      BY <3>1, <3>2
  <2>5. \A d \in Callers : calls'[d].at # "asked"
    BY <2>1, <2>4 DEF CallsInv
  <2> HIDE DEF body
  <2>6. PICK k \in Nat : /\ Added([body |-> body, copy |-> FALSE], k)
                         /\ KeepLast > 0 => Len(files') <= KeepLast
                         /\ k > 0 => Len(files') = KeepLast
    BY <2>1, <2>2, SaveAdds DEF Plain
  <2>7. body \in {calls[c].got, Junk}
    BY DEF body
  <2>8. QED
    BY <2>1, <2>2, <2>3, <2>5, <2>6, <2>7 DEF Saves
<1>5. ASSUME NEW c \in Callers, NEW k \in Kinds, NEW e \in Configs, Call(c, k, e)
      PROVE  Quiet
  <2>1. PICK r : calls' = [calls EXCEPT ![c] = r] /\ r.at = "waiting"
    <3> DEFINE r == [NoCall EXCEPT !.kind = k, !.at = "waiting",
                                   !.from = IF k \in Asking THEN cfg ELSE 0, !.expected = e]
    <3>1. calls' = [calls EXCEPT ![c] = r]
      BY <1>5 DEF Call
    <3>2. r.at = "waiting"
      BY DEF NoCall
    <3> HIDE DEF r
    <3>3. QED
      BY <3>1, <3>2
  <2>2. UNCHANGED <<files, since>>
    BY <1>5 DEF Call
  <2>3. calls'[c] = r /\ \A d \in Callers : d # c => calls'[d] = calls[d]
    BY <2>1 DEF CallsInv
  <2>4. QED
    BY <1>0, <2>1, <2>2, <2>3 DEF Quiet
<1>6. CASE CopyLocal
  <2> DEFINE body == calls[Script].got
             f    == [body |-> body, copy |-> TRUE]
  <2>1. /\ calls[Script].at = "copying"
        /\ files' = Written(f)
        /\ Count(body)
        /\ calls' = [calls EXCEPT ![Script] = NoCall]
    BY <1>6 DEF CopyLocal
  <2>2. body \in Bodies
    BY <1>0, <2>1 DEF Fits, CallRecs, Bodies
  <2>3. f \in Files
    BY <2>2 DEF Files, Bodies
  <2>4. Added(f, 0)
    <3> HIDE DEF f
    <3>1. QED
      BY <2>1, <2>3, WrittenAdds DEF Plain
  <2>5. QED
    BY <2>1, <2>2, <2>4 DEF Copies
<1>7. CASE Second \/ Browser \/ GoDown \/ ComeUp
  BY <1>7 DEF Second, Browser, GoDown, ComeUp, Quiet
<1>8. CASE Crash
  <2>1. /\ \A d \in Callers : calls'[d].at # "asked"
        /\ calls'[Script].at = "copying" => calls'[Script] = calls[Script]
        /\ faults' = faults + 1
    BY <1>0, <1>8 DEF Crash, Fault
  <2>2. CASE UNCHANGED <<files, fresh, since>>
    BY <2>1, <2>2 DEF Quiet
  <2>3. CASE ~UNCHANGED <<files, fresh, since>>
    <3>0. PICK c \in Callers, whole \in BOOLEAN :
              /\ calls[c].at = "asked" /\ calls[c].kind = "backup"
              /\ LET got == IF whole THEN calls[c].got ELSE Junk IN
                    /\ files' = Written([body |-> got, copy |-> FALSE])
                    /\ Count(got)
      BY <1>8, <2>3 DEF Crash
    <3> DEFINE body == IF whole THEN calls[c].got ELSE Junk
    <3>1. /\ body \in {calls[c].got, Junk}
          /\ calls[c].at = "asked" /\ calls[c].kind = "backup"
          /\ files' = Written([body |-> body, copy |-> FALSE])
          /\ Count(body)
      BY <3>0
    <3> HIDE DEF body
    <3>2. body \in Bodies
      BY <1>0, <3>1 DEF Fits, CallRecs, Bodies
    <3> DEFINE f == [body |-> body, copy |-> FALSE]
    <3>3. f \in Files
      BY <3>2 DEF Files, Bodies
    <3>4. Added(f, 0)
      <4>1. files' = Written(f)
        BY <3>1
      <4> HIDE DEF f
      <4>2. QED
        BY <3>3, <4>1, WrittenAdds DEF Plain
    <3>5. 0 \in Nat /\ ~(0 > 0)
      OBVIOUS
    <3> HIDE DEF f
    <3>6. \E k \in Nat : /\ k = 0 /\ Added(f, k)
      BY <3>4, <3>5
    <3>7. QED
      BY <2>1, <3>1, <3>2, <3>5, <3>6 DEF Saves, f
  <2>4. QED
    BY <2>2, <2>3
<1>9. CASE UNCHANGED vars
  BY <1>9 DEF vars, Quiet
<1>10. QED
  BY <1>1, <1>2, <1>3, <1>4, <1>5, <1>6, <1>7, <1>8, <1>9 DEF Next, Exchange, Return

-----------------------------------------------------------------------------
(* The directory along the steps.                                          *)

\* Every configuration on disk is one of the first n.
KnownUpTo(n) == \A i \in DOMAIN files : files[i].body \in Configs => files[i].body <= n

\* While a backup is on its way, everything on disk is older than it, and so is
\* what the script will copy: this is what keeps the backups in order.
NotAhead ==
    \A c \in Callers :
        /\ calls[c].at = "asked" /\ calls[c].kind = "backup" /\ calls[c].got \in Configs
        => /\ KnownUpTo(calls[c].got)
           /\ calls[Script].at = "copying" /\ calls[Script].got \in Configs
                 => calls[Script].got <= calls[c].got

\* The script and the crashes may each add a file too many.
Size ==
    KeepLast > 0 =>
        Len(files) <= KeepLast + faults + (IF calls[Script].at = "copying" THEN 0 ELSE 1)

\* The last good backup has as many files after it as `since` counts.
GoodIsNear ==
    since < KeepLast =>
        \E i \in 1 .. Len(files) : files[i].body \in Configs /\ Len(files) - i <= since

DiskInv ==
    /\ files \in Seq(Files)
    /\ since \in 0 .. KeepLast
    /\ KnownUpTo(cfg)
    /\ BackupsInOrder
    /\ NotAhead
    /\ Size
    /\ GoodIsNear

\* Every file there is after an addition is the new one or was there.
LEMMA AddedFiles ==
    ASSUME files \in Seq(Files), NEW f, NEW k \in Nat, Added(f, k)
    PROVE  /\ Len(files) \in Nat /\ DOMAIN files = 1 .. Len(files)
           /\ Len(files') \in Nat /\ DOMAIN files' = 1 .. Len(files')
           /\ \A i \in 1 .. Len(files') :
                 \/ i = Len(files') /\ files'[i] = f
                 \/ i < Len(files') /\ i + k \in 1 .. Len(files) /\ files'[i] = files[i + k]
<1>1. /\ Len(files) \in Nat /\ DOMAIN files = 1 .. Len(files)
      /\ Len(files') \in Nat /\ DOMAIN files' = 1 .. Len(files')
  BY LenProperties DEF Added
<1> DEFINE n == Len(files')
<1>2. n \in Nat
  BY <1>1
<1> HIDE DEF n
<1>3. \A i \in 1 .. n : i = n \/ (i \in 1 .. n - 1 /\ i < n)
  BY <1>2
<1> USE DEF n
<1>4. QED
  BY <1>1, <1>3 DEF Added

\* Known configurations stay known, if the new one is.
LEMMA KnownKept ==
    ASSUME files \in Seq(Files), NEW f, NEW k \in Nat, Added(f, k),
           NEW n, KnownUpTo(n), f.body \in Configs => f.body <= n
    PROVE  \A i \in DOMAIN files' : files'[i].body \in Configs => files'[i].body <= n
BY AddedFiles DEF KnownUpTo

\* The order stays, if everything on disk is older than a new file that is no copy.
LEMMA OrderKept ==
    ASSUME files \in Seq(Files), NEW f, NEW k \in Nat, Added(f, k), BackupsInOrder,
           f.body \in Configs /\ ~f.copy => KnownUpTo(f.body)
    PROVE  BackupsInOrder'
<1> SUFFICES ASSUME NEW i \in DOMAIN files', NEW j \in DOMAIN files', i < j,
                    files'[i].body \in Configs, files'[j].body \in Configs,
                    ~files'[j].copy
             PROVE  files'[i].body <= files'[j].body
  BY DEF BackupsInOrder
<1>1. i \in 1 .. Len(files') /\ j \in 1 .. Len(files') /\ Len(files') \in Nat
  BY AddedFiles
<1>2. i < Len(files') /\ i + k \in DOMAIN files /\ files'[i] = files[i + k]
  <2>1. i # Len(files')
    BY <1>1
  <2>2. QED
    BY <1>1, <2>1, AddedFiles
<1>3. CASE j = Len(files') /\ files'[j] = f
  BY <1>2, <1>3 DEF KnownUpTo
<1>4. CASE j + k \in DOMAIN files /\ files'[j] = files[j + k]
  <2>1. i + k < j + k
    BY <1>1
  <2>2. QED
    BY <1>2, <1>4, <2>1 DEF BackupsInOrder
<1>5. QED
  BY <1>1, <1>3, <1>4, AddedFiles

\* The count of files after the last good one stays right: pruning takes those
\* at the other end.
LEMMA NearKept ==
    ASSUME files \in Seq(Files), since \in 0 .. KeepLast, GoodIsNear,
           fresh \in BOOLEAN,
           NEW f \in Files, NEW k \in Nat, Added(f, k), k > 0 => Len(files') = KeepLast,
           Count(f.body)
    PROVE  since' \in 0 .. KeepLast /\ GoodIsNear'
<1>1. /\ Len(files) \in Nat /\ Len(files') \in Nat /\ KeepLast \in Nat
      /\ Len(files') \in 1 .. Len(files')
  BY AddedFiles, BoundsAssumption DEF Added
<1>2. CASE f.body \in Configs
  <2>1. since' = 0
    BY <1>2 DEF Count
  <2>2. files'[Len(files')] = f /\ Len(files') - Len(files') = 0
    BY <1>1 DEF Added
  <2>3. QED
    BY <1>1, <1>2, <2>1, <2>2 DEF GoodIsNear
<1>3. CASE f.body \notin Configs /\ Overwrites
  <2>1. since' = KeepLast
    BY <1>3 DEF Count
  <2>2. QED
    BY <1>1, <2>1 DEF GoodIsNear
<1>4. CASE f.body \notin Configs /\ ~Overwrites
  <2>1. since' = IF since < KeepLast THEN since + 1 ELSE since
    BY <1>4 DEF Count
  <2>2. since' \in 0 .. KeepLast
    BY <1>1, <2>1
  <2>3. ASSUME since' < KeepLast PROVE GoodIsNear'
    <3>1. since < KeepLast /\ since' = since + 1
      BY <1>1, <2>1, <2>3
    <3>2. PICK i \in 1 .. Len(files) :
                  files[i].body \in Configs /\ Len(files) - i <= since
      BY <3>1 DEF GoodIsNear
    <3>3. /\ i - k \in 1 .. Len(files') - 1
          /\ Len(files') - (i - k) <= since + 1
      <4>1. CASE fresh /\ files # <<>>
        <5>1. i # Len(files)
          BY <1>4, <3>2, <4>1 DEF Overwrites
        <5>2. Len(files') + k = Len(files)
          BY <4>1 DEF Added
        <5>3. k > 0 => Len(files') = KeepLast
          OBVIOUS
        <5>4. QED
          BY <1>1, <3>1, <3>2, <5>1, <5>2, <5>3
      <4>2. CASE ~(fresh /\ files # <<>>)
        <5>1. Len(files') + k = Len(files) + 1
          BY <4>2 DEF Added
        <5>2. k > 0 => Len(files') = KeepLast
          OBVIOUS
        <5>3. QED
          BY <1>1, <2>3, <3>1, <3>2, <5>1, <5>2
      <4>3. QED
        BY <4>1, <4>2
    <3>4. (i - k) + k = i
      BY <3>2
    <3>5. files'[i - k] = files[i]
      BY <3>3, <3>4 DEF Added
    <3>6. i - k \in 1 .. Len(files')
      BY <1>1, <3>3
    <3>7. QED
      BY <3>1, <3>2, <3>3, <3>5, <3>6 DEF GoodIsNear
  <2>4. QED
    BY <2>2, <2>3 DEF GoodIsNear
<1>5. QED
  BY <1>2, <1>3, <1>4

\* Every step keeps what the directory and the calls know of each other.
LEMMA DiskStep == Plain /\ CallsInv /\ DiskInv /\ [Next]_vars => DiskInv'
<1> SUFFICES ASSUME Plain, CallsInv, DiskInv, [Next]_vars PROVE DiskInv'
  OBVIOUS
<1>0. /\ Script \in Callers /\ NoCall.at = "idle"
      /\ files \in Seq(Files) /\ since \in 0 .. KeepLast /\ KeepLast \in Nat
      /\ cfg \in Int /\ cfg' \in Int /\ cfg <= cfg'
      /\ faults \in Nat /\ faults' \in Nat /\ faults <= faults' /\ Len(files) \in Nat
      /\ \A c \in Callers : calls[c] \in CallRecs /\ Fits(calls[c], cfg)
      /\ \A b \in Configs : b \in Int
      /\ \A i \in DOMAIN files : files[i] \in Files
  BY PlainStep, NoCallFits, BoundsAssumption, ConfigsAreNumbers, LenProperties, ElementOfSeq
  DEF Callers, Plain, DiskInv, CallsInv, Configs
<1>inv. KnownUpTo(cfg) /\ BackupsInOrder /\ NotAhead /\ Size /\ GoodIsNear
  BY DEF DiskInv
<1>1. CASE Quiet
  <2>1. files' = files /\ since' = since
    BY <1>1 DEF Quiet
  <2>2. KnownUpTo(cfg)' /\ BackupsInOrder' /\ GoodIsNear'
    <3>1. KnownUpTo(cfg)'
      <4>1. \A i \in DOMAIN files : files[i].body \in Configs => files[i].body <= cfg'
        BY <1>0, <1>inv DEF KnownUpTo
      <4>2. QED
        BY <2>1, <4>1 DEF KnownUpTo
    <3>2. QED
      BY <1>inv, <2>1, <3>1 DEF BackupsInOrder, GoodIsNear
  <2>3. NotAhead'
    <3> SUFFICES ASSUME NEW c \in Callers, calls'[c].at = "asked",
                        calls'[c].kind = "backup", calls'[c].got \in Configs
                 PROVE  /\ \A i \in DOMAIN files' : files'[i].body \in Configs
                                  => files'[i].body <= calls'[c].got
                        /\ calls'[Script].at = "copying" /\ calls'[Script].got \in Configs
                              => calls'[Script].got <= calls'[c].got
      BY DEF NotAhead, KnownUpTo
    <3>1. calls'[Script].at = "copying" => calls'[Script] = calls[Script]
      BY <1>1 DEF Quiet
    <3>2. CASE calls'[c] = calls[c]
      BY <1>inv, <2>1, <3>1, <3>2 DEF NotAhead, KnownUpTo
    <3>3. CASE calls'[c].got \in {cfg, Junk, Nothing}
      <4>1. calls'[c].got = cfg
        BY <3>3, ConfigsAreNumbers
      <4>2. calls[Script].got \in Configs => calls[Script].got <= cfg
        BY <1>0 DEF Fits
      <4>3. QED
        BY <1>inv, <2>1, <3>1, <4>1, <4>2 DEF KnownUpTo
    <3>4. QED
      BY <1>1, <3>2, <3>3 DEF Quiet
  <2>4. Size'
    <3>1. calls'[Script].at = "copying" => calls[Script].at = "copying"
      BY <1>1 DEF Quiet
    <3>2. QED
      BY <1>0, <1>inv, <2>1, <3>1 DEF Size
  <2>5. QED
    BY <1>0, <2>1, <2>2, <2>3, <2>4 DEF DiskInv
<1>2. CASE Saves
  <2>1. PICK c \in Callers, body \in Bodies, k \in Nat :
            /\ calls[c].at = "asked" /\ calls[c].kind = "backup"
            /\ body \in {calls[c].got, Junk}
            /\ Added([body |-> body, copy |-> FALSE], k)
            /\ Count(body)
            /\ k > 0 => Len(files') = KeepLast
            /\ \A d \in Callers : calls'[d].at # "asked"
            /\ \/ KeepLast > 0 => Len(files') <= KeepLast
               \/ /\ k = 0 /\ faults' = faults + 1
                  /\ calls'[Script].at = "copying" => calls[Script].at = "copying"
    BY <1>2 DEF Saves
  <2> DEFINE f == [body |-> body, copy |-> FALSE]
  <2>2. f \in Files /\ f.body = body /\ f.copy = FALSE /\ Added(f, k) /\ Count(f.body)
    BY <2>1 DEF Files, Bodies
  <2> HIDE DEF f
  <2>3. body \in Configs => body = calls[c].got /\ body <= cfg
    BY <1>0, <2>1, ConfigsAreNumbers DEF Fits
  <2>4. body \in Configs => KnownUpTo(body)
    BY <1>inv, <2>1, <2>3 DEF NotAhead
  <2>5. KnownUpTo(cfg)'
    <3>1. \A i \in DOMAIN files' : files'[i].body \in Configs => files'[i].body <= cfg
      BY <1>0, <1>inv, <2>2, <2>3, KnownKept
    <3>2. \A i \in DOMAIN files' : files'[i] \in Files
      BY <2>2, ElementOfSeq, LenProperties DEF Added
    <3>3. QED
      BY <1>0, <3>1, <3>2 DEF KnownUpTo
  <2>6. BackupsInOrder'
    BY <1>0, <1>inv, <2>2, <2>4, OrderKept
  <2>7. since' \in 0 .. KeepLast /\ GoodIsNear'
    BY <1>0, <1>inv, <2>1, <2>2, NearKept DEF Plain
  <2>8. NotAhead'
    BY <2>1 DEF NotAhead
  <2>9. Size'
    <3>1. Len(files') \in Nat
      BY <1>0, <2>2, AddedFiles
    <3>2. k = 0 => Len(files') <= Len(files) + 1
      BY <1>0, <2>2, <3>1 DEF Added
    <3>3. QED
      BY <1>0, <1>inv, <2>1, <3>1, <3>2 DEF Size
  <2>10. files' \in Seq(Files)
    BY <2>2 DEF Added
  <2>11. QED
    BY <2>5, <2>6, <2>7, <2>8, <2>9, <2>10, BoundsAssumption DEF DiskInv
<1>3. CASE Copies
  <2> DEFINE body == calls[Script].got
             f    == [body |-> body, copy |-> TRUE]
  <2>1. body \in Bodies /\ Added(f, 0) /\ calls[Script].at = "copying"
    BY <1>3 DEF Copies
  <2>2. f \in Files /\ f.body = body /\ f.copy = TRUE /\ Count(f.body)
    BY <1>3, <2>1 DEF Files, Bodies, Copies
  <2>3. /\ calls'[Script] = NoCall
        /\ \A d \in Callers : d # Script => calls'[d] = calls[d]
    BY <1>0, <1>3 DEF Copies, CallsInv
  <2>4. body \in Configs => body <= cfg
    BY <1>0 DEF Fits
  <2>5. 0 \in Nat /\ ~(0 > 0)
    OBVIOUS
  <2> HIDE DEF f
  <2>6. KnownUpTo(cfg)'
    <3>1. \A i \in DOMAIN files' : files'[i].body \in Configs => files'[i].body <= cfg
      BY <1>0, <1>inv, <2>1, <2>2, <2>4, <2>5, KnownKept
    <3>2. \A i \in DOMAIN files' : files'[i] \in Files
      BY <2>1, ElementOfSeq, LenProperties DEF Added
    <3>3. QED
      BY <1>0, <3>1, <3>2 DEF KnownUpTo
  <2>7. BackupsInOrder'
    BY <1>0, <1>inv, <2>1, <2>2, <2>5, OrderKept
  <2>8. since' \in 0 .. KeepLast /\ GoodIsNear'
    BY <1>0, <1>inv, <2>1, <2>2, <2>5, NearKept DEF Plain
  <2>9. NotAhead'
    <3> SUFFICES ASSUME NEW c \in Callers, calls'[c].at = "asked",
                        calls'[c].kind = "backup", calls'[c].got \in Configs
                 PROVE  \A i \in DOMAIN files' : files'[i].body \in Configs
                              => files'[i].body <= calls'[c].got
      BY <1>0, <2>3 DEF NotAhead, KnownUpTo
    <3>1. c # Script /\ calls'[c] = calls[c]
      BY <1>0, <2>3
    <3>2. KnownUpTo(calls[c].got) /\ (body \in Configs => body <= calls[c].got)
      BY <1>inv, <2>1, <3>1 DEF NotAhead
    <3>3. QED
      BY <1>0, <2>1, <2>2, <2>5, <3>1, <3>2, KnownKept
  <2>10. Size'
    <3>1. Len(files') \in Nat /\ Len(files') <= Len(files) + 1
      BY <1>0, <2>1, <2>5, AddedFiles DEF Added
    <3>2. QED
      BY <1>0, <1>inv, <2>1, <2>3, <3>1 DEF Size
  <2>11. files' \in Seq(Files)
    BY <2>1 DEF Added
  <2>12. QED
    BY <2>6, <2>7, <2>8, <2>9, <2>10, <2>11, BoundsAssumption DEF DiskInv
<1>4. QED
  BY <1>0, <1>1, <1>2, <1>3, Moves

-----------------------------------------------------------------------------
(* The answers.                                                            *)

ReplyRecs == [from : Configs, got : Configs \union {Junk, Nothing},
              offline : BOOLEAN, expected : Configs, clean : BOOLEAN]

ReplyInv == reply \in ReplyRecs /\ AnswerIsCurrent /\ CleanIsTrue

\* A step that answers nobody says nothing.
LEMMA NoReplyFits == NoReply \in ReplyRecs /\ NoReply.got = Nothing /\ NoReply.clean = FALSE
<1>1. 0 \in Configs
  BY BoundsAssumption DEF Configs
<1>2. QED
  BY <1>1 DEF NoReply, ReplyRecs

\* What is latest is a configuration the device has had, or none.
LEMMA LatestIsKnown ==
    ASSUME files \in Seq(Files), KnownUpTo(cfg)
    PROVE  /\ Latest \in Configs \union {Junk, Nothing}
           /\ Latest \in Configs => Latest <= cfg
<1>1. CASE files = <<>>
  BY <1>1, ConfigsAreNumbers DEF Latest
<1>2. CASE files # <<>>
  <2>1. Len(files) \in 1 .. Len(files) /\ DOMAIN files = 1 .. Len(files)
    BY <1>2, LenProperties, EmptySeq
  <2>2. files[Len(files)] \in Files
    BY <2>1, ElementOfSeq
  <2>3. QED
    BY <1>2, <2>1, <2>2 DEF Latest, KnownUpTo, Files
<1>3. QED
  BY <1>1, <1>2

\* So every answer property holds of it.
LEMMA SilentReply == Silent => ReplyInv'
BY NoReplyFits, ConfigsAreNumbers DEF Silent, ReplyInv, AnswerIsCurrent, CleanIsTrue

\* An answer with nothing, or with what the call got.
LEMMA CallReply ==
    ASSUME Plain, CallsInv, files \in Seq(Files), KnownUpTo(cfg), cfg' = cfg,
           NEW c \in Callers, NEW got \in {Nothing, calls[c].got}, Reply(c, got)
    PROVE  ReplyInv'
<1>1. calls[c] \in CallRecs /\ Fits(calls[c], cfg)
  BY DEF CallsInv
<1> DEFINE e == calls[c].expected
           clean == calls[c].kind = "diagnose" /\ Matches(got, e)
<1>2. reply' = [from |-> calls[c].from, got |-> got, offline |-> FALSE,
                expected |-> e, clean |-> clean]
  BY DEF Reply
<1>3. clean \in BOOLEAN
  OBVIOUS
<1>4. e \in Configs
  BY <1>1 DEF CallRecs
<1>5. clean => e <= cfg /\ got \in {Junk, Nothing, e}
  BY <1>4, LatestIsKnown DEF Matches
<1>6. got \in Configs => calls[c].from <= got /\ got <= cfg
  BY <1>1, ConfigsAreNumbers DEF Fits
<1>7. got \in Configs \union {Junk, Nothing} /\ calls[c].from \in Configs
  BY <1>1 DEF CallRecs
<1> HIDE DEF clean, e
<1>8. reply' \in ReplyRecs
  BY <1>2, <1>3, <1>4, <1>7 DEF ReplyRecs
<1>9. AnswerIsCurrent'
  BY <1>2, <1>6 DEF AnswerIsCurrent
<1>10. CleanIsTrue'
  BY <1>2, <1>5, <1>6, ConfigsAreNumbers DEF CleanIsTrue
<1>11. QED
  BY <1>8, <1>9, <1>10 DEF ReplyInv

\* The answer out of the latest backup, which is marked as offline.
LEMMA OfflineReply ==
    ASSUME Plain, CallsInv, files \in Seq(Files), KnownUpTo(cfg), cfg' = cfg,
           NEW c \in Callers, OfflineStatus(c)
    PROVE  ReplyInv'
<1>1. calls[c].from \in Configs
  BY DEF CallsInv, CallRecs
<1>2. reply' = [from |-> calls[c].from, got |-> Latest, offline |-> TRUE,
                expected |-> 0, clean |-> FALSE]
  BY DEF OfflineStatus, NoReply
<1>3. Latest \in Configs \union {Junk, Nothing} /\ (Latest \in Configs => Latest <= cfg)
  BY LatestIsKnown
<1>4. 0 \in Configs
  BY BoundsAssumption DEF Configs
<1>5. reply' \in ReplyRecs
  BY <1>1, <1>2, <1>3, <1>4 DEF ReplyRecs
<1>6. QED
  BY <1>2, <1>3, <1>5 DEF ReplyInv, AnswerIsCurrent, CleanIsTrue

\* Every step leaves an answer that is as it should be.
LEMMA ReplyStep == Plain /\ CallsInv /\ DiskInv /\ ReplyInv /\ [Next]_vars => ReplyInv'
<1> SUFFICES ASSUME Plain, CallsInv, DiskInv, ReplyInv, [Next]_vars PROVE ReplyInv'
  OBVIOUS
<1>0. files \in Seq(Files) /\ KnownUpTo(cfg)
  BY DEF DiskInv
<1>1. ASSUME NEW c \in Callers, Ask(c) \/ AskInVain(c) PROVE ReplyInv'
  BY <1>1, SilentReply DEF Ask, AskInVain
<1>2. ASSUME NEW c \in Callers, LoginFails(c) PROVE ReplyInv'
  <2>1. cfg' = cfg /\ (OfflineStatus(c) \/ Reply(c, Nothing))
    BY <1>2 DEF LoginFails
  <2>2. QED
    BY <1>0, <2>1, CallReply, OfflineReply
<1>3. ASSUME NEW c \in Callers, RequestFails(c) \/ LoseAnswer(c) PROVE ReplyInv'
  BY <1>3, SilentReply DEF RequestFails, LoseAnswer, GiveUp
<1>4. ASSUME NEW c \in Callers, ReceiveBackup(c) \/ Receive(c) PROVE ReplyInv'
  <2>1. cfg' = cfg /\ Reply(c, calls[c].got)
    BY <1>4 DEF ReceiveBackup, Receive
  <2>2. QED
    BY <1>0, <2>1, CallReply
<1>5. ASSUME NEW c \in Callers, NEW k \in Kinds, NEW e \in Configs, Call(c, k, e)
      PROVE  ReplyInv'
  BY <1>5, SilentReply DEF Call
<1>6. CASE CopyLocal \/ Second \/ Browser \/ GoDown \/ ComeUp \/ Crash
  BY <1>6, SilentReply DEF CopyLocal, Second, Browser, GoDown, ComeUp, Crash
<1>7. CASE UNCHANGED vars
  BY <1>7 DEF vars, ReplyInv, AnswerIsCurrent, CleanIsTrue
<1>8. QED
  BY <1>1, <1>2, <1>3, <1>4, <1>5, <1>6, <1>7 DEF Next, Exchange, Return

-----------------------------------------------------------------------------
(* The theorems.                                                           *)

Inv == Plain /\ CallsInv /\ DiskInv /\ ReplyInv

\* The invariant at the start.
LEMMA Initially == Init => Inv
<1> SUFFICES ASSUME Init PROVE Inv
  OBVIOUS
<1>1. 0 \in Configs /\ KeepLast \in Nat /\ MaxFaults \in Nat
  BY BoundsAssumption DEF Configs
<1>2. Plain
  <2>1. up \in BOOLEAN /\ fresh \in BOOLEAN
    BY DEF Init
  <2>2. QED
    BY <1>1, <2>1 DEF Init, Plain
<1>3. CallsInv
  BY <1>1, NoCallFits DEF Init, CallsInv
<1>4. DiskInv
  <2>1. files = <<>> /\ files \in Seq(Files) /\ Len(files) = 0 /\ DOMAIN files = {}
    BY EmptySeq DEF Init
  <2>2. NotAhead
    BY NoCallFits DEF Init, NotAhead
  <2>3. Size
    BY <1>1, <2>1, NoCallFits DEF Init, Size, Callers
  <2>4. since \in 0 .. KeepLast /\ GoodIsNear
    BY <1>1 DEF Init, GoodIsNear
  <2>5. QED
    BY <2>1, <2>2, <2>3, <2>4 DEF DiskInv, KnownUpTo, BackupsInOrder
<1>5. ReplyInv
  BY NoReplyFits, ConfigsAreNumbers DEF Init, ReplyInv, AnswerIsCurrent, CleanIsTrue
<1>6. QED
  BY <1>2, <1>3, <1>4, <1>5 DEF Inv

\* The invariant, of the calls, the directory and the answers together.
LEMMA Invariance == Spec => []Inv
<1>1. Init => Inv
  BY Initially
<1>2. Inv /\ [Next]_vars => Inv'
  BY PlainStep, CallsStep, DiskStep, ReplyStep DEF Inv
<1>3. QED
  BY <1>1, <1>2, PTL DEF Spec

\* The types, and the bound of the directory (_prune_backups): a save brings it
\* down to BACKUP_KEEP, and only the copy of backup_ht812.sh and crashes exceed it.
THEOREM Typing == Spec => []TypeOK
<1>1. Inv => TypeOK
  <2> SUFFICES ASSUME Inv PROVE TypeOK
    OBVIOUS
  <2>1. Plain /\ CallsInv /\ DiskInv /\ ReplyInv
    BY DEF Inv
  <2>2. KeepLast > 0 => Len(files) <= KeepLast + MaxFaults + 1
    <3>1. /\ Len(files) \in Nat /\ KeepLast \in Nat /\ MaxFaults \in Nat
          /\ faults \in Nat /\ faults <= MaxFaults
      BY <2>1, BoundsAssumption, LenProperties DEF DiskInv, Plain
    <3>2. QED
      BY <2>1, <3>1 DEF DiskInv, Size
  <2>3. calls \in [Callers -> [kind : Kinds, at : {"idle", "waiting", "asked", "copying"},
                               from : Configs, got : Configs \union {Junk, Nothing},
                               expected : Configs]]
    BY <2>1 DEF CallsInv, CallRecs
  <2>4. reply \in [from : Configs, got : Configs \union {Junk, Nothing},
                   offline : BOOLEAN, expected : Configs, clean : BOOLEAN]
    BY <2>1 DEF ReplyInv, ReplyRecs
  <2>5. files \in Seq(Files) /\ since \in 0 .. KeepLast
    BY <2>1 DEF DiskInv
  <2>6. QED
    BY <2>1, <2>2, <2>3, <2>4, <2>5 DEF Plain, TypeOK
<1>2. QED
  BY <1>1, Invariance, PTL

\* Backups reach the disk in the order of the configurations they hold, whoever
\* takes them (save_config_snapshot under the lock of the client).
THEOREM Order == Spec => []BackupsInOrder
<1>1. Inv => BackupsInOrder
  BY DEF Inv, DiskInv
<1>2. QED
  BY <1>1, Invariance, PTL

\* The last good backup is still there as long as fewer than BACKUP_KEEP others
\* came after it (_prune_backups).
THEOREM Survival == Spec => []GoodBackupSurvives
<1>1. Inv => GoodBackupSurvives
  <2> SUFFICES ASSUME Inv PROVE GoodBackupSurvives
    OBVIOUS
  <2>1. files \in Seq(Files) /\ GoodIsNear
    BY DEF Inv, DiskInv
  <2>2. DOMAIN files = 1 .. Len(files)
    BY <2>1, LenProperties
  <2>3. QED
    BY <2>1, <2>2 DEF GoodIsNear, GoodBackupSurvives
<1>2. QED
  BY <1>1, Invariance, PTL

\* The configuration a caller is given is one of the time of its call, or one of
\* the past that says so (port_status, status_summary and the other routes).
THEOREM Currency == Spec => []AnswerIsCurrent
<1>1. Inv => AnswerIsCurrent
  BY DEF Inv, ReplyInv
<1>2. QED
  BY <1>1, Invariance, PTL

\* A diagnosis without a mismatch is about settings the device has had
\* (_compare_values).
THEOREM Clean == Spec => []CleanIsTrue
<1>1. Inv => CleanIsTrue
  BY DEF Inv, ReplyInv
<1>2. QED
  BY <1>1, Invariance, PTL
=============================================================================
