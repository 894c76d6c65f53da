------------------------- MODULE HT812SessionProofs -------------------------
(***************************************************************************)
(* Proofs about HT812Session, for every set of callers and every bound.    *)
(***************************************************************************)
EXTENDS HT812Session, SequenceTheorems, TLAPS

-----------------------------------------------------------------------------
(* Lemmas.                                                                 *)

\* What the device may answer, and the state it may be left in.
LEMMA EffectsType ==
    ASSUME session \in Nat, issued \in Nat, NEW k, NEW t, NEW e \in Effects(k, t)
    PROVE  /\ e.status \in {"ok", "refused", "invalid"}
           /\ e.token \in Nat
           /\ e.session \in Nat
           /\ e.issued \in Nat
BY DEF Effects, Statuses, NoToken

\* Removing an element of a sequence.
LEMMA RemoveAtProperties ==
    ASSUME NEW S, NEW s \in Seq(S), NEW i \in 1 .. Len(s)
    PROVE  /\ RemoveAt(s, i) \in Seq(S)
           /\ Len(RemoveAt(s, i)) = Len(s) - 1
           /\ \A j \in 1 .. Len(s) - 1 :
                 RemoveAt(s, i)[j] = IF j < i THEN s[j] ELSE s[j + 1]
<1> DEFINE front == SubSeq(s, 1, i - 1)
           back  == SubSeq(s, i + 1, Len(s))
<1>1. Len(s) \in Nat /\ i \in Nat /\ i >= 1 /\ i <= Len(s)
  BY LenProperties
<1>2. /\ front \in Seq(S)
      /\ Len(front) = i - 1
      /\ \A j \in 1 .. i - 1 : front[j] = s[j]
  <2>1. \A j \in 1 .. i - 1 : j \in 1 .. Len(s)
    BY <1>1
  <2>2. QED BY <1>1, <2>1, SubSeqProperties, ElementOfSeq
<1>3. /\ back \in Seq(S)
      /\ Len(back) = Len(s) - i
      /\ \A j \in 1 .. Len(s) - i : back[j] = s[i + j]
  <2>1. \A j \in i + 1 .. Len(s) : j \in 1 .. Len(s)
    BY <1>1
  <2>2. QED BY <1>1, <2>1, SubSeqProperties, ElementOfSeq
<1> HIDE DEF front, back
<1>4. /\ front \o back \in Seq(S)
      /\ Len(front \o back) = Len(s) - 1
      /\ \A j \in 1 .. Len(s) - 1 :
            (front \o back)[j] = IF j < i THEN s[j] ELSE s[j + 1]
  <2>1. /\ front \o back \in Seq(S)
        /\ Len(front \o back) = Len(front) + Len(back)
        /\ \A j \in 1 .. Len(front) + Len(back) :
              (front \o back)[j] = IF j <= Len(front) THEN front[j]
                                    ELSE back[j - Len(front)]
    BY <1>2, <1>3, ConcatProperties
  <2>2. ASSUME NEW j \in 1 .. Len(s) - 1
        PROVE  (front \o back)[j] = IF j < i THEN s[j] ELSE s[j + 1]
    <3>1. CASE j < i
      BY <1>1, <1>2, <1>3, <2>1, <3>1
    <3>2. CASE ~(j < i)
      <4>1. /\ j - (i - 1) \in 1 .. Len(s) - i
            /\ i + (j - (i - 1)) = j + 1
        BY <1>1, <3>2
      <4>2. back[j - (i - 1)] = s[j + 1]
        BY <1>3, <4>1
      <4>3. j \in 1 .. Len(front) + Len(back) /\ ~(j <= Len(front))
        BY <1>1, <1>2, <1>3, <3>2
      <4>4. (front \o back)[j] = back[j - (i - 1)]
        BY <1>2, <2>1, <4>3
      <4>5. QED BY <3>2, <4>2, <4>4
    <3>3. QED BY <3>1, <3>2
  <2>3. QED BY <1>1, <1>2, <1>3, <2>1, <2>2
<1>5. QED BY <1>4 DEF RemoveAt, front, back

\* A sequence without duplicates.
Distinct(s) == \A i, j \in 1 .. Len(s) : s[i] = s[j] => i = j

\* Tail keeps the other elements of such a sequence.
LEMMA DistinctTail ==
    ASSUME NEW S, NEW s \in Seq(S), s # <<>>, Distinct(s)
    PROVE  /\ Distinct(Tail(s))
           /\ \A i \in 1 .. Len(Tail(s)) :
                 /\ Tail(s)[i] # Head(s)
                 /\ \E j \in 1 .. Len(s) : Tail(s)[i] = s[j]
<1>1. Len(s) \in Nat /\ Len(s) >= 1
  BY LenProperties, EmptySeq
<1>2. /\ Len(Tail(s)) = Len(s) - 1
      /\ \A i \in 1 .. Len(s) - 1 : Tail(s)[i] = s[i + 1]
  BY HeadTailProperties
<1>3. Head(s) = s[1]
  OBVIOUS
<1>4. \A i \in 1 .. Len(s) - 1 : i + 1 \in 1 .. Len(s) /\ i + 1 # 1
  BY <1>1
<1>5. 1 \in 1 .. Len(s)
  BY <1>1
<1>6. \A i, j \in 1 .. Len(s) - 1 : i + 1 = j + 1 => i = j
  BY <1>1
<1>7. QED BY <1>2, <1>3, <1>4, <1>5, <1>6 DEF Distinct

\* So does RemoveAt.
LEMMA DistinctRemoveAt ==
    ASSUME NEW S, NEW s \in Seq(S), NEW k \in 1 .. Len(s), Distinct(s)
    PROVE  /\ Distinct(RemoveAt(s, k))
           /\ \A i \in 1 .. Len(RemoveAt(s, k)) :
                 /\ RemoveAt(s, k)[i] # s[k]
                 /\ \E j \in 1 .. Len(s) : RemoveAt(s, k)[i] = s[j]
<1>1. Len(s) \in Nat
  BY LenProperties
<1>2. /\ Len(RemoveAt(s, k)) = Len(s) - 1
      /\ \A i \in 1 .. Len(s) - 1 :
            RemoveAt(s, k)[i] = s[IF i < k THEN i ELSE i + 1]
  BY RemoveAtProperties
<1>3. \A i \in 1 .. Len(s) - 1 :
         /\ (IF i < k THEN i ELSE i + 1) \in 1 .. Len(s)
         /\ (IF i < k THEN i ELSE i + 1) # k
  BY <1>1
<1>4. \A i, j \in 1 .. Len(s) - 1 :
         (IF i < k THEN i ELSE i + 1) = (IF j < k THEN j ELSE j + 1) => i = j
  BY <1>1
<1>5. QED BY <1>2, <1>3, <1>4 DEF Distinct

\* Append adds its element at the end and changes nothing else.
LEMMA DistinctAppend ==
    ASSUME NEW S, NEW s \in Seq(S), NEW e \in S, Distinct(s),
           \A i \in 1 .. Len(s) : s[i] # e
    PROVE  /\ Distinct(Append(s, e))
           /\ \A i \in 1 .. Len(Append(s, e)) :
                 \/ Append(s, e)[i] = e
                 \/ \E j \in 1 .. Len(s) : Append(s, e)[i] = s[j]
<1>1. Len(s) \in Nat
  BY LenProperties
<1>2. /\ Len(Append(s, e)) = Len(s) + 1
      /\ \A i \in 1 .. Len(s) : Append(s, e)[i] = s[i]
      /\ Append(s, e)[Len(s) + 1] = e
  BY AppendProperties
<1>3. \A i \in 1 .. Len(s) + 1 : i \in 1 .. Len(s) \/ i = Len(s) + 1
  BY <1>1
<1>4. QED BY <1>2, <1>3 DEF Distinct

-----------------------------------------------------------------------------
(* Types.                                                                  *)

\* The variables keep their types (TypeOK), whatever the device answers.
THEOREM Typing == Spec => []TypeOK
<1> USE DEF NoToken, NoReply, Pending, Stages, LoginStages, RequestStages,
            Replies, Statuses, Outcomes, client, device, history
<1>1. Init => TypeOK
  BY DEF Init, TypeOK, AllOps
<1>2. TypeOK /\ [Next]_vars => TypeOK'
  <2> SUFFICES ASSUME TypeOK, [Next]_vars
               PROVE  TypeOK'
    OBVIOUS
  <2> USE DEF TypeOK
  <2>1. ASSUME NEW c \in Callers, NEW o \in Ops, Call(c, o)
        PROVE  TypeOK'
    BY <2>1, OpsAssumption, BoundsAssumption, AppendProperties DEF Call
  <2>2. ASSUME NEW c \in Callers, Acquire(c)
        PROVE  TypeOK'
    <3>1. waiters' \in Seq(Callers)
      BY <2>2, HeadTailProperties DEF Acquire
    <3>2. /\ pc' \in [Callers -> {"idle", "waiting"} \union Stages]
          /\ sent' \in [Callers -> Nat]
          /\ reply' \in [Callers -> Replies]
      BY <2>2 DEF Acquire, Send
    <3>3. QED BY <2>2, <3>1, <3>2 DEF Acquire
  <2>3. ASSUME NEW c \in Callers, LoginGranted(c)
        PROVE  TypeOK'
    BY <2>3 DEF LoginGranted, Send
  <2>4. ASSUME NEW c \in Callers, LoginFailed(c)
        PROVE  TypeOK'
    BY <2>4 DEF LoginFailed, LoginError, Finish
  <2>5. ASSUME NEW c \in Callers, Relogin(c)
        PROVE  TypeOK'
    BY <2>5 DEF Relogin, Send
  <2>6. ASSUME NEW c \in Callers, NextKey(c)
        PROVE  TypeOK'
    BY <2>6, AppendProperties DEF NextKey, Captured
  <2>7. ASSUME NEW c \in Callers, Complete(c)
        PROVE  TypeOK'
    BY <2>7 DEF Complete, Finish, Captured
  <2>8. ASSUME NEW c \in Callers, RequestFailed(c)
        PROVE  TypeOK'
    BY <2>8 DEF RequestFailed, Finish
  <2>9. ASSUME NEW c \in Callers, CancelWaiting(c)
        PROVE  TypeOK'
    <3>1. waiters' \in Seq(Callers)
      BY <2>9, RemoveAtProperties DEF CancelWaiting
    <3>2. QED BY <2>9, <3>1 DEF CancelWaiting
  <2>10. ASSUME NEW c \in Callers, CancelHolder(c)
         PROVE  TypeOK'
    BY <2>10 DEF CancelHolder, Finish, Kind, Requests
  <2>11. ASSUME NEW c \in Callers, Respond(c)
         PROVE  TypeOK'
    BY <2>11, EffectsType DEF Respond
  <2>12. ASSUME NEW c \in Callers, GiveUp(c)
         PROVE  TypeOK'
    BY <2>12 DEF GiveUp, Kind, Requests
  <2>13. ASSUME NEW r \in late, ServeLate(r)
         PROVE  TypeOK'
    BY <2>13, EffectsType DEF ServeLate
  <2>14. CASE Evict
    BY <2>14 DEF Evict
  <2>15. CASE Shutdown
    BY <2>15 DEF Shutdown
  <2>16. CASE LogoutReturns
    BY <2>16 DEF LogoutReturns
  <2>17. CASE Closed \/ UNCHANGED vars
    BY <2>17 DEF Closed, vars
  <2>18. QED
    BY <2>1, <2>2, <2>3, <2>4, <2>5, <2>6, <2>7, <2>8, <2>9, <2>10, <2>11,
       <2>12, <2>13, <2>14, <2>15, <2>16, <2>17 DEF Next, Step
<1>3. QED
  BY <1>1, <1>2, PTL DEF Spec

-----------------------------------------------------------------------------
(* Mutual exclusion.                                                       *)

\* One step keeps the lock and the outstanding request together.
LEMMA SingleFlightStep ==
    TypeOK /\ SingleFlight /\ [Next]_vars => SingleFlight'
<1> SUFFICES ASSUME TypeOK, SingleFlight, [Next]_vars
             PROVE  SingleFlight'
  OBVIOUS
<1> USE CallersAssumption DEF TypeOK, SingleFlight, NoReply, Pending, Stages,
        LoginStages, RequestStages, client, device, history
<1>1. ASSUME NEW c \in Callers, NEW o \in Ops, Call(c, o)
      PROVE  SingleFlight'
  BY <1>1 DEF Call
<1>2. ASSUME NEW c \in Callers, Acquire(c)
      PROVE  SingleFlight'
  BY <1>2 DEF Acquire, Send
<1>3. ASSUME NEW c \in Callers, LoginGranted(c)
      PROVE  SingleFlight'
  BY <1>3 DEF LoginGranted, Send
<1>4. ASSUME NEW c \in Callers, LoginFailed(c)
      PROVE  SingleFlight'
  BY <1>4 DEF LoginFailed, Finish
<1>5. ASSUME NEW c \in Callers, Relogin(c)
      PROVE  SingleFlight'
  BY <1>5 DEF Relogin, Send
<1>6. ASSUME NEW c \in Callers, NextKey(c)
      PROVE  SingleFlight'
  BY <1>6 DEF NextKey, Answered
<1>7. ASSUME NEW c \in Callers, Complete(c)
      PROVE  SingleFlight'
  BY <1>7 DEF Complete, Finish, Answered
<1>8. ASSUME NEW c \in Callers, RequestFailed(c)
      PROVE  SingleFlight'
  BY <1>8 DEF RequestFailed, Finish
<1>9. ASSUME NEW c \in Callers, CancelWaiting(c)
      PROVE  SingleFlight'
  BY <1>9 DEF CancelWaiting
<1>10. ASSUME NEW c \in Callers, CancelHolder(c)
      PROVE  SingleFlight'
  BY <1>10 DEF CancelHolder, Finish
<1>11. ASSUME NEW c \in Callers, Respond(c)
      PROVE  SingleFlight'
  <2>1. PICK e \in Effects(Kind(c), sent[c]) :
             reply' = [reply EXCEPT ![c] = [status |-> e.status, token |-> e.token]]
    BY <1>11 DEF Respond
  <2>2. e.status # "none"
    BY EffectsType
  <2>3. QED BY <1>11, <2>1, <2>2 DEF Respond
<1>12. ASSUME NEW c \in Callers, GiveUp(c)
      PROVE  SingleFlight'
  BY <1>12 DEF GiveUp
<1>13. ASSUME NEW r \in late, ServeLate(r)
      PROVE  SingleFlight'
  BY <1>13 DEF ServeLate
<1>14. CASE Evict
  BY <1>14 DEF Evict
<1>15. CASE Shutdown
  BY <1>15 DEF Shutdown
<1>16. CASE LogoutReturns
  BY <1>16 DEF LogoutReturns
<1>17. CASE Closed \/ UNCHANGED vars
  BY <1>17 DEF Closed, vars
<1>18. QED
  BY <1>1, <1>2, <1>3, <1>4, <1>5, <1>6, <1>7, <1>8, <1>9, <1>10, <1>11,
     <1>12, <1>13, <1>14, <1>15, <1>16, <1>17 DEF Next, Step

\* At most one call has a request on the wire, and it is the lock's holder
\* (SingleFlight), for any number of callers and any failures.
THEOREM MutualExclusion == Spec => []SingleFlight
<1>1. Init => SingleFlight
  BY CallersAssumption DEF Init, SingleFlight, NoReply, Stages, LoginStages,
     RequestStages
<1>2. QED
  BY <1>1, SingleFlightStep, Typing, PTL DEF Spec

-----------------------------------------------------------------------------
(* The client's token follows the device's.                                *)

\* Nobody touches the token while a request is under way.
LEMMA SentTokenStep ==
    /\ TypeOK /\ SingleFlight /\ SentTokenCurrent
    /\ [Next]_vars
    => SentTokenCurrent'
<1> SUFFICES ASSUME TypeOK, SingleFlight, SentTokenCurrent, [Next]_vars
             PROVE  SentTokenCurrent'
  OBVIOUS
<1> USE CallersAssumption DEF TypeOK, SingleFlight, SentTokenCurrent, NoReply,
        Pending, Stages, LoginStages, RequestStages, client, device, history
<1>1. ASSUME NEW c \in Callers, NEW o \in Ops, Call(c, o)
      PROVE  SentTokenCurrent'
  BY <1>1 DEF Call
<1>2. ASSUME NEW c \in Callers, Acquire(c)
      PROVE  SentTokenCurrent'
  BY <1>2 DEF Acquire, Send
<1>3. ASSUME NEW c \in Callers, LoginGranted(c)
      PROVE  SentTokenCurrent'
  BY <1>3 DEF LoginGranted, Send
<1>4. ASSUME NEW c \in Callers, LoginFailed(c)
      PROVE  SentTokenCurrent'
  BY <1>4 DEF LoginFailed, Finish
<1>5. ASSUME NEW c \in Callers, Relogin(c)
      PROVE  SentTokenCurrent'
  BY <1>5 DEF Relogin, Send
<1>6. ASSUME NEW c \in Callers, NextKey(c)
      PROVE  SentTokenCurrent'
  BY <1>6 DEF NextKey, Answered
<1>7. ASSUME NEW c \in Callers, Complete(c)
      PROVE  SentTokenCurrent'
  BY <1>7 DEF Complete, Finish, Answered
<1>8. ASSUME NEW c \in Callers, RequestFailed(c)
      PROVE  SentTokenCurrent'
  BY <1>8 DEF RequestFailed, Finish
<1>9. ASSUME NEW c \in Callers, CancelWaiting(c)
      PROVE  SentTokenCurrent'
  BY <1>9 DEF CancelWaiting
<1>10. ASSUME NEW c \in Callers, CancelHolder(c)
       PROVE  SentTokenCurrent'
  BY <1>10 DEF CancelHolder, Finish
<1>11. ASSUME NEW c \in Callers, Respond(c)
       PROVE  SentTokenCurrent'
  BY <1>11 DEF Respond
<1>12. ASSUME NEW c \in Callers, GiveUp(c)
       PROVE  SentTokenCurrent'
  BY <1>12 DEF GiveUp
<1>13. ASSUME NEW r \in late, ServeLate(r)
       PROVE  SentTokenCurrent'
  BY <1>13 DEF ServeLate
<1>14. CASE Evict
  BY <1>14 DEF Evict
<1>15. CASE Shutdown
  BY <1>15 DEF Shutdown
<1>16. CASE LogoutReturns
  BY <1>16 DEF LogoutReturns
<1>17. CASE Closed \/ UNCHANGED vars
  BY <1>17 DEF Closed, vars
<1>18. QED
  BY <1>1, <1>2, <1>3, <1>4, <1>5, <1>6, <1>7, <1>8, <1>9, <1>10, <1>11,
     <1>12, <1>13, <1>14, <1>15, <1>16, <1>17 DEF Next, Step

\* While a request is under way the client's token is the one it was sent with
\* (SentTokenCurrent), until the shutdown logs out without the lock.
THEOREM TokenStableUnderRequest == Spec => []SentTokenCurrent
<1>1. Init => SentTokenCurrent
  BY DEF Init, SentTokenCurrent, RequestStages
<1>2. QED
  BY <1>1, SentTokenStep, Typing, MutualExclusion, PTL DEF Spec

\* Why TokenTracksDevice is preserved.  A login under way finds the client
\* without a token and its answer is the session; a request under way leaves
\* the client, once its answer is captured, with the session; only a granted
\* exchange carries a token.
TokenInv ==
    /\ \A c \in Callers : reply[c].status # "ok" => reply[c].token = NoToken
    /\ losses = 0 /\ logout = "open" =>
         /\ lock = NoCaller => token \in {NoToken, session}
         /\ \A c \in Callers :
               /\ pc[c] \in LoginStages =>
                     /\ token = NoToken
                     /\ reply[c].status = "ok" => reply[c].token = session
               /\ pc[c] \in RequestStages => Captured(c) = session

\* Every step keeps the token in step with the session.
LEMMA TokenInvStep ==
    /\ TypeOK /\ SingleFlight /\ SentTokenCurrent /\ TokenInv
    /\ [Next]_vars
    => TokenInv'
<1> SUFFICES ASSUME TypeOK, SingleFlight, SentTokenCurrent, TokenInv, [Next]_vars
             PROVE  TokenInv'
  OBVIOUS
<1> USE CallersAssumption DEF TypeOK, SingleFlight, SentTokenCurrent, TokenInv,
        Captured, NoReply, Pending, NoToken, Stages, LoginStages, RequestStages,
        Replies, client, device, history
<1>1. ASSUME NEW c \in Callers, NEW o \in Ops, Call(c, o)
      PROVE  TokenInv'
  BY <1>1 DEF Call
<1>2. ASSUME NEW c \in Callers, Acquire(c)
      PROVE  TokenInv'
  BY <1>2 DEF Acquire, Send
<1>3. ASSUME NEW c \in Callers, LoginGranted(c)
      PROVE  TokenInv'
  BY <1>3 DEF LoginGranted, Send
<1>4. ASSUME NEW c \in Callers, LoginFailed(c)
      PROVE  TokenInv'
  BY <1>4 DEF LoginFailed, Finish
<1>5. ASSUME NEW c \in Callers, Relogin(c)
      PROVE  TokenInv'
  BY <1>5 DEF Relogin, Send
<1>6. ASSUME NEW c \in Callers, NextKey(c)
      PROVE  TokenInv'
  BY <1>6 DEF NextKey, Answered
<1>7. ASSUME NEW c \in Callers, Complete(c)
      PROVE  TokenInv'
  BY <1>7 DEF Complete, Finish, Answered
<1>8. ASSUME NEW c \in Callers, RequestFailed(c)
      PROVE  TokenInv'
  BY <1>8 DEF RequestFailed, Finish
<1>9. ASSUME NEW c \in Callers, CancelWaiting(c)
      PROVE  TokenInv'
  BY <1>9 DEF CancelWaiting
<1>10. ASSUME NEW c \in Callers, CancelHolder(c)
       PROVE  TokenInv'
  BY <1>10 DEF CancelHolder, Finish
<1>11. ASSUME NEW c \in Callers, Respond(c)
       PROVE  TokenInv'
  <2>1. PICK e \in Effects(Kind(c), sent[c]) :
             /\ reply' = [reply EXCEPT ![c] = [status |-> e.status,
                                               token  |-> e.token]]
             /\ session' = e.session
             /\ losses' = IF e.session = NoToken /\ session # NoToken
                          THEN losses + 1 ELSE losses
    BY <1>11 DEF Respond
  <2>2. lock = c /\ pc[c] \in Stages /\ reply[c].token = NoToken
    BY <1>11 DEF Respond
  <2>3. UNCHANGED <<token, lock, pc, logout, sent>>
    BY <1>11 DEF Respond
  <2>4. e.status # "ok" => e.token = NoToken
    BY DEF Effects
  <2>5. CASE pc[c] \in LoginStages
    <3>1. e.status = "ok" => e.token = e.session
      BY <2>5 DEF Effects, Kind
    <3>2. QED BY <2>1, <2>2, <2>3, <2>4, <2>5, <3>1
  <2>6. CASE pc[c] \in RequestStages
    <3>1. losses' = 0 /\ logout = "open" => /\ losses = 0
                                           /\ sent[c] = token
                                           /\ token = session
      BY <2>1, <2>2, <2>6
    <3>2. losses' = 0 /\ logout = "open" =>
             (IF e.token # NoToken THEN e.token ELSE token) = e.session
      BY <2>1, <2>6, <3>1 DEF Effects, Kind, AllOps
    <3>3. QED BY <2>1, <2>2, <2>3, <2>4, <2>6, <3>2
  <2>7. QED BY <2>2, <2>5, <2>6
<1>12. ASSUME NEW c \in Callers, GiveUp(c)
       PROVE  TokenInv'
  BY <1>12 DEF GiveUp
<1>13. ASSUME NEW r \in late, ServeLate(r)
       PROVE  TokenInv'
  BY <1>13 DEF ServeLate
<1>14. CASE Evict
  BY <1>14 DEF Evict
<1>15. CASE Shutdown
  BY <1>15 DEF Shutdown
<1>16. CASE LogoutReturns
  BY <1>16 DEF LogoutReturns
<1>17. CASE Closed \/ UNCHANGED vars
  BY <1>17 DEF Closed, vars
<1>18. QED
  BY <1>1, <1>2, <1>3, <1>4, <1>5, <1>6, <1>7, <1>8, <1>9, <1>10, <1>11,
     <1>12, <1>13, <1>14, <1>15, <1>16, <1>17 DEF Next, Step

\* While the device drops no session behind the client's back, the client's
\* next request carries the token the device honours (TokenTracksDevice).
THEOREM RotationsCaptured == Spec => []TokenTracksDevice
<1>1. Init => TokenInv
  BY DEF Init, TokenInv, NoReply, NoToken, LoginStages, RequestStages
<1>2. TokenInv => TokenTracksDevice
  BY DEF TokenInv, TokenTracksDevice
<1>3. QED
  BY <1>1, <1>2, TokenInvStep, Typing, MutualExclusion, TokenStableUnderRequest,
     PTL DEF Spec

-----------------------------------------------------------------------------
(* One retry is enough for one loss of the session.                        *)

\* Why RetryCoversOneLoss is preserved.  An authenticated request always carries
\* a token; it is refused only after a loss, and after the login that follows
\* only a second loss can part the client from the session again.
RetryInv ==
    /\ \A c \in Callers :
         /\ (tainted[c] \/ outcome[c] = "tainted") /\ op[c] # "download"
              => losses >= 2
         /\ pc[c] \in RequestStages => sent[c] # NoToken
         /\ pc[c] \in LoginStages /\ reply[c].status = "ok"
              => reply[c].token # NoToken
    /\ logout = "open" =>
         \A c \in Callers :
            /\ pc[c] = "request" /\ reply[c].status = "invalid" => losses >= 1
            /\ pc[c] = "relogin" =>
                  /\ losses >= 1
                  /\ losses = 1 /\ reply[c].status = "ok" =>
                        reply[c].token = session
            /\ pc[c] = "retry" =>
                  /\ losses >= 1
                  /\ losses = 1 => Captured(c) = session
                  /\ reply[c].status = "invalid" => losses >= 2

\* Every step counts the losses a call has seen.
LEMMA RetryInvStep ==
    /\ TypeOK /\ SingleFlight /\ SentTokenCurrent /\ TokenInv /\ RetryInv
    /\ [Next]_vars
    => RetryInv'
<1> SUFFICES ASSUME TypeOK, SingleFlight, SentTokenCurrent, TokenInv, RetryInv,
                    [Next]_vars
             PROVE  RetryInv'
  OBVIOUS
<1> USE CallersAssumption DEF TypeOK, SingleFlight, SentTokenCurrent, TokenInv,
        RetryInv, Captured, NoReply, Pending, NoToken, Stages, LoginStages,
        RequestStages, Replies, client, device, history
<1>1. ASSUME NEW c \in Callers, NEW o \in Ops, Call(c, o)
      PROVE  RetryInv'
  BY <1>1 DEF Call
<1>2. ASSUME NEW c \in Callers, Acquire(c)
      PROVE  RetryInv'
  BY <1>2 DEF Acquire, Send
<1>3. ASSUME NEW c \in Callers, LoginGranted(c)
      PROVE  RetryInv'
  BY <1>3 DEF LoginGranted, Send
<1>4. ASSUME NEW c \in Callers, LoginFailed(c)
      PROVE  RetryInv'
  BY <1>4 DEF LoginFailed, LoginError, Finish
<1>5. ASSUME NEW c \in Callers, Relogin(c)
      PROVE  RetryInv'
  BY <1>5 DEF Relogin, Send
<1>6. ASSUME NEW c \in Callers, NextKey(c)
      PROVE  RetryInv'
  BY <1>6 DEF NextKey, Answered
<1>7. ASSUME NEW c \in Callers, Complete(c)
      PROVE  RetryInv'
  BY <1>7 DEF Complete, Finish, Answered
<1>8. ASSUME NEW c \in Callers, RequestFailed(c)
      PROVE  RetryInv'
  BY <1>8 DEF RequestFailed, Finish
<1>9. ASSUME NEW c \in Callers, CancelWaiting(c)
      PROVE  RetryInv'
  BY <1>9 DEF CancelWaiting
<1>10. ASSUME NEW c \in Callers, CancelHolder(c)
       PROVE  RetryInv'
  BY <1>10 DEF CancelHolder, Finish
<1>11. ASSUME NEW c \in Callers, Respond(c)
       PROVE  RetryInv'
  <2>1. PICK e \in Effects(Kind(c), sent[c]) :
             /\ reply' = [reply EXCEPT ![c] = [status |-> e.status,
                                               token  |-> e.token]]
             /\ session' = e.session
             /\ losses' = IF e.session = NoToken /\ session # NoToken
                          THEN losses + 1 ELSE losses
    BY <1>11 DEF Respond
  <2>2. lock = c /\ pc[c] \in Stages /\ reply[c].status = "pending"
        /\ reply[c].token = NoToken
    BY <1>11 DEF Respond
  <2>3. UNCHANGED <<token, lock, pc, op, tainted, outcome, logout, sent>>
    BY <1>11 DEF Respond
  <2>4. losses' >= losses /\ losses' \in Nat
    BY <2>1
  <2>5. CASE pc[c] \in LoginStages
    <3>1. /\ e.status = "ok" => e.token = e.session /\ e.token # NoToken
          /\ e.status # "invalid"
      BY <2>5 DEF Effects, Kind
    <3>2. QED BY <2>1, <2>2, <2>3, <2>4, <2>5, <3>1
  <2>6. CASE pc[c] \in RequestStages
    <3>1. /\ e.status = "invalid" => sent[c] # session /\ e.session = session
          /\ e.session # session => e.session = NoToken \/ e.token = e.session
          /\ e.token # NoToken => e.token = e.session
      BY <2>2, <2>6 DEF Effects, Kind, AllOps
    <3>2. logout = "open" /\ e.status = "invalid" =>
             losses >= 1 /\ (pc[c] = "retry" => losses >= 2)
      BY <2>2, <2>6, <3>1
    <3>3. logout = "open" /\ pc[c] = "retry" /\ losses' = 1 =>
             (IF e.token # NoToken THEN e.token ELSE token) = e.session
      BY <2>1, <2>2, <2>4, <2>6, <3>1
    <3>4. QED BY <2>1, <2>2, <2>3, <2>4, <2>6, <3>2, <3>3
  <2>7. QED BY <2>2, <2>5, <2>6
<1>12. ASSUME NEW c \in Callers, GiveUp(c)
       PROVE  RetryInv'
  BY <1>12 DEF GiveUp
<1>13. ASSUME NEW r \in late, ServeLate(r)
       PROVE  RetryInv'
  BY <1>13 DEF ServeLate
<1>14. CASE Evict
  BY <1>14 DEF Evict
<1>15. CASE Shutdown
  BY <1>15 DEF Shutdown
<1>16. CASE LogoutReturns
  BY <1>16 DEF LogoutReturns
<1>17. CASE Closed \/ UNCHANGED vars
  BY <1>17 DEF Closed, vars
<1>18. QED
  BY <1>1, <1>2, <1>3, <1>4, <1>5, <1>6, <1>7, <1>8, <1>9, <1>10, <1>11,
     <1>12, <1>13, <1>14, <1>15, <1>16, <1>17 DEF Next, Step

\* A POST hands an "invalid session" body to its caller only after the device
\* has dropped the session twice (RetryCoversOneLoss).
THEOREM OneLossIsSurvived == Spec => []RetryCoversOneLoss
<1>1. Init => TokenInv /\ RetryInv
  BY DEF Init, TokenInv, RetryInv, NoReply, NoToken, LoginStages, RequestStages
<1>2. TypeOK /\ RetryInv => RetryCoversOneLoss
  BY DEF TypeOK, RetryInv, RetryCoversOneLoss
<1>3. QED
  BY <1>1, <1>2, TokenInvStep, RetryInvStep, Typing, MutualExclusion,
     TokenStableUnderRequest, PTL DEF Spec

-----------------------------------------------------------------------------
(* The client implements SerialDevice.                                     *)

\* The lock's queue holds each waiting caller once.
QueueInv ==
    /\ \A i \in 1 .. Len(waiters) : waiters[i] \in Callers /\ pc[waiters[i]] = "waiting"
    /\ Distinct(waiters)

\* Every step keeps the queue one of callers that wait.
LEMMA QueueInvStep ==
    TypeOK /\ QueueInv /\ [Next]_vars => QueueInv'
<1> SUFFICES ASSUME TypeOK, QueueInv, [Next]_vars
             PROVE  QueueInv'
  OBVIOUS
<1> USE DEF TypeOK, QueueInv, Stages, LoginStages, RequestStages, client, device,
        history
<1>1. ASSUME NEW c \in Callers, NEW o \in Ops, Call(c, o)
      PROVE  QueueInv'
  <2>1. \A i \in 1 .. Len(waiters) : waiters[i] # c
    BY <1>1 DEF Call
  <2>2. Distinct(waiters')
    BY <1>1, <2>1, DistinctAppend DEF Call
  <2>3. \A i \in 1 .. Len(waiters') :
           waiters'[i] = c \/ \E j \in 1 .. Len(waiters) : waiters'[i] = waiters[j]
    BY <1>1, <2>1, DistinctAppend DEF Call
  <2>4. QED BY <1>1, <2>1, <2>2, <2>3 DEF Call
<1>2. ASSUME NEW c \in Callers, Acquire(c)
      PROVE  QueueInv'
  <2>1. Distinct(waiters')
    BY <1>2, DistinctTail DEF Acquire
  <2>2. \A i \in 1 .. Len(waiters') :
           waiters'[i] # c /\ \E j \in 1 .. Len(waiters) : waiters'[i] = waiters[j]
    BY <1>2, DistinctTail DEF Acquire
  <2>3. QED BY <1>2, <2>1, <2>2 DEF Acquire, Send
<1>3. ASSUME NEW c \in Callers, LoginGranted(c)
      PROVE  QueueInv'
  BY <1>3 DEF LoginGranted, Send
<1>4. ASSUME NEW c \in Callers, LoginFailed(c)
      PROVE  QueueInv'
  BY <1>4 DEF LoginFailed, Finish
<1>5. ASSUME NEW c \in Callers, Relogin(c)
      PROVE  QueueInv'
  BY <1>5 DEF Relogin, Send
<1>6. ASSUME NEW c \in Callers, NextKey(c)
      PROVE  QueueInv'
  <2>1. \A i \in 1 .. Len(waiters) : waiters[i] # c
    BY <1>6 DEF NextKey, Answered
  <2>2. Distinct(waiters')
    BY <1>6, <2>1, DistinctAppend DEF NextKey
  <2>3. \A i \in 1 .. Len(waiters') :
           waiters'[i] = c \/ \E j \in 1 .. Len(waiters) : waiters'[i] = waiters[j]
    BY <1>6, <2>1, DistinctAppend DEF NextKey
  <2>4. QED BY <1>6, <2>1, <2>2, <2>3 DEF NextKey
<1>7. ASSUME NEW c \in Callers, Complete(c)
      PROVE  QueueInv'
  BY <1>7 DEF Complete, Finish, Answered
<1>8. ASSUME NEW c \in Callers, RequestFailed(c)
      PROVE  QueueInv'
  BY <1>8 DEF RequestFailed, Finish
<1>9. ASSUME NEW c \in Callers, CancelWaiting(c)
      PROVE  QueueInv'
  <2>1. PICK k \in 1 .. Len(waiters) : /\ waiters[k] = c
                                       /\ waiters' = RemoveAt(waiters, k)
    BY <1>9 DEF CancelWaiting
  <2>2. Distinct(waiters')
    BY <2>1, DistinctRemoveAt
  <2>3. \A i \in 1 .. Len(waiters') :
           waiters'[i] # c /\ \E j \in 1 .. Len(waiters) : waiters'[i] = waiters[j]
    BY <2>1, DistinctRemoveAt
  <2>4. pc' = [pc EXCEPT ![c] = "idle"]
    BY <1>9 DEF CancelWaiting
  <2>5. ASSUME NEW i \in 1 .. Len(waiters')
        PROVE  waiters'[i] \in Callers /\ pc'[waiters'[i]] = "waiting"
    <3>1. PICK j \in 1 .. Len(waiters) : waiters'[i] = waiters[j]
      BY <2>3
    <3>2. waiters'[i] # c
      BY <2>3
    <3>3. QED BY <2>4, <3>1, <3>2
  <2>6. QED BY <2>2, <2>5
<1>10. ASSUME NEW c \in Callers, CancelHolder(c)
       PROVE  QueueInv'
  BY <1>10 DEF CancelHolder, Finish
<1>11. ASSUME NEW c \in Callers, Respond(c)
       PROVE  QueueInv'
  BY <1>11 DEF Respond
<1>12. ASSUME NEW c \in Callers, GiveUp(c)
       PROVE  QueueInv'
  BY <1>12 DEF GiveUp
<1>13. ASSUME NEW r \in late, ServeLate(r)
       PROVE  QueueInv'
  BY <1>13 DEF ServeLate
<1>14. CASE Evict
  BY <1>14 DEF Evict
<1>15. CASE Shutdown
  BY <1>15 DEF Shutdown
<1>16. CASE LogoutReturns
  BY <1>16 DEF LogoutReturns
<1>17. CASE Closed \/ UNCHANGED vars
  BY <1>17 DEF Closed, vars
<1>18. QED
  BY <1>1, <1>2, <1>3, <1>4, <1>5, <1>6, <1>7, <1>8, <1>9, <1>10, <1>11,
     <1>12, <1>13, <1>14, <1>15, <1>16, <1>17 DEF Next, Step

\* Every step of the client is a step of SerialDevice or leaves it unchanged:
\* whatever the device answers, callers are served one at a time and in order,
\* and a turn is at most four requests (SerialSafety).
THEOREM Implementation == Spec => SerialSafety
<1> USE CallersAssumption DEF NoReply, NoToken, Stages, LoginStages,
        RequestStages, client, device, history, Remaining, RequestsLeft
<1>1. Init => Serial!Init
  BY DEF Init, Serial!Init
<1>2. TypeOK /\ SingleFlight /\ QueueInv /\ [Next]_vars => [Serial!Next]_(Serial!vars)
  <2> SUFFICES ASSUME TypeOK, SingleFlight, QueueInv, [Next]_vars
               PROVE  Serial!Next \/ UNCHANGED Serial!vars
    BY DEF Serial!vars
  <2> USE DEF TypeOK, SingleFlight, QueueInv
  <2>1. ASSUME NEW c \in Callers, NEW o \in Ops, Call(c, o)
        PROVE  Serial!Next \/ UNCHANGED Serial!vars
    BY <2>1 DEF Serial!Next, Serial!Join, Call
  <2>2. ASSUME NEW c \in Callers, Acquire(c)
        PROVE  Serial!Next \/ UNCHANGED Serial!vars
    BY <2>2 DEF Serial!Next, Serial!Grant, Acquire, Send
  <2>3. ASSUME NEW c \in Callers, LoginGranted(c)
        PROVE  Serial!Next \/ UNCHANGED Serial!vars
    BY <2>3 DEF Serial!Next, Serial!Exchange, LoginGranted, Send
  <2>4. ASSUME NEW c \in Callers, LoginFailed(c)
        PROVE  Serial!Next \/ UNCHANGED Serial!vars
    BY <2>4 DEF Serial!Next, Serial!Release, LoginFailed, Finish
  <2>5. ASSUME NEW c \in Callers, Relogin(c)
        PROVE  Serial!Next \/ UNCHANGED Serial!vars
    BY <2>5 DEF Serial!Next, Serial!Exchange, Relogin, Send
  <2>6. ASSUME NEW c \in Callers, NextKey(c)
        PROVE  Serial!Next \/ UNCHANGED Serial!vars
    BY <2>6 DEF Serial!Next, Serial!Release, NextKey, Answered
  <2>7. ASSUME NEW c \in Callers, Complete(c)
        PROVE  Serial!Next \/ UNCHANGED Serial!vars
    BY <2>7 DEF Serial!Next, Serial!Release, Complete, Finish, Answered
  <2>8. ASSUME NEW c \in Callers, RequestFailed(c)
        PROVE  Serial!Next \/ UNCHANGED Serial!vars
    BY <2>8 DEF Serial!Next, Serial!Release, RequestFailed, Finish
  <2>9. ASSUME NEW c \in Callers, CancelWaiting(c)
        PROVE  Serial!Next \/ UNCHANGED Serial!vars
    BY <2>9 DEF Serial!Next, Serial!Withdraw, Serial!RemoveAt, RemoveAt, CancelWaiting
  <2>10. ASSUME NEW c \in Callers, CancelHolder(c)
         PROVE  Serial!Next \/ UNCHANGED Serial!vars
    BY <2>10 DEF Serial!Next, Serial!Release, CancelHolder, Finish
  <2>11. ASSUME NEW c \in Callers, Respond(c)
         PROVE  Serial!Next \/ UNCHANGED Serial!vars
    BY <2>11 DEF Serial!vars, Respond
  <2>12. ASSUME NEW c \in Callers, GiveUp(c)
         PROVE  Serial!Next \/ UNCHANGED Serial!vars
    BY <2>12 DEF Serial!vars, GiveUp
  <2>13. ASSUME NEW r \in late, ServeLate(r)
         PROVE  Serial!Next \/ UNCHANGED Serial!vars
    BY <2>13 DEF Serial!vars, ServeLate
  <2>14. CASE Evict
    BY <2>14 DEF Serial!vars, Evict
  <2>15. CASE Shutdown
    BY <2>15 DEF Serial!vars, Shutdown
  <2>16. CASE LogoutReturns
    BY <2>16 DEF Serial!vars, LogoutReturns
  <2>17. CASE Closed \/ UNCHANGED vars
    BY <2>17 DEF Serial!vars, Closed, vars
  <2>18. QED
    BY <2>1, <2>2, <2>3, <2>4, <2>5, <2>6, <2>7, <2>8, <2>9, <2>10, <2>11,
       <2>12, <2>13, <2>14, <2>15, <2>16, <2>17 DEF Next, Step
<1>3. Init => QueueInv
  BY DEF Init, QueueInv, Distinct
<1>4. QED
  BY <1>1, <1>2, <1>3, QueueInvStep, Typing, MutualExclusion, PTL
     DEF Spec, SerialSafety, Serial!Spec
=============================================================================
