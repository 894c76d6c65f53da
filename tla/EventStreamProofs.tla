------------------------- MODULE EventStreamProofs -------------------------
(***************************************************************************)
(* Proofs about EventStream, for any clients, store, replay and view       *)
(* sizes: the types, and that a dashboard that reads alone settles on the  *)
(* events it is due, in order.                                             *)
(*                                                                         *)
(* Views are counted from their newest event: Recent(v, 0) is the last.    *)
(***************************************************************************)
EXTENDS EventStream, Integers, SequenceTheorems, FiniteSetTheorems, TLAPS

\* The event of v that k others follow.
Recent(v, k) == v[Len(v) - k]

\* The smaller of two sizes.
Least(a, b) == IF a < b THEN a ELSE b

\* A list that holds no event twice.
Distinct(v) == \A i, k \in 0 .. Len(v) - 1 : Recent(v, i) = Recent(v, k) => i = k

-----------------------------------------------------------------------------
(* What the operators on lists do.                                         *)

\* The store, the replay and the view are cut to their newest events.
LEMMA LastOfKeeps ==
    ASSUME NEW S, NEW s \in Seq(S), NEW n \in Nat
    PROVE  /\ LastOf(s, n) \in Seq(S)
           /\ Len(LastOf(s, n)) = Least(Len(s), n)
           /\ \A i \in 1 .. Len(LastOf(s, n)) :
                LastOf(s, n)[i] = s[Len(s) - Len(LastOf(s, n)) + i]
<1>1. CASE Len(s) <= n
  BY <1>1 DEF LastOf, Least
<1>2. CASE ~ (Len(s) <= n)
  <2> DEFINE m == Len(s) - n + 1
  <2>1. /\ Len(s) \in Nat
        /\ m \in 1 .. Len(s) + 1
        /\ \A i \in m .. Len(s) : s[i] \in S
    BY <1>2
  <2>2. /\ SubSeq(s, m, Len(s)) \in Seq(S)
        /\ Len(SubSeq(s, m, Len(s))) = (IF m <= Len(s) THEN Len(s) - m + 1 ELSE 0)
        /\ \A i \in 1 .. Len(s) - m + 1 : SubSeq(s, m, Len(s))[i] = s[m + i - 1]
    BY <2>1, SubSeqProperties
  <2>3. LastOf(s, n) = SubSeq(s, m, Len(s))
    BY <1>2 DEF LastOf
  <2>4. Len(LastOf(s, n)) = n
    BY <1>2, <2>1, <2>2, <2>3
  <2>5. \A i \in 1 .. n : m + i - 1 = Len(s) - n + i
    BY <2>1
  <2> QED
    BY <1>2, <2>1, <2>2, <2>3, <2>4, <2>5 DEF Least
<1> QED
  BY <1>1, <1>2

\* An element of a sequence counted from the end.
LEMMA RecentElement ==
    ASSUME NEW S, NEW v \in Seq(S), NEW k \in 0 .. Len(v) - 1
    PROVE  Recent(v, k) \in S /\ Len(v) - k \in DOMAIN v
BY DEF Recent

\* Cutting a list leaves its newest events where they are.
LEMMA LastOfRecent ==
    ASSUME NEW S, NEW s \in Seq(S), NEW n \in Nat, NEW k \in 0 .. Len(LastOf(s, n)) - 1
    PROVE  Recent(LastOf(s, n), k) = Recent(s, k)
<1>1. /\ LastOf(s, n) \in Seq(S)
      /\ \A i \in 1 .. Len(LastOf(s, n)) :
           LastOf(s, n)[i] = s[Len(s) - Len(LastOf(s, n)) + i]
  BY LastOfKeeps
<1>2. Len(s) \in Nat /\ Len(LastOf(s, n)) \in Nat
  BY <1>1
<1>3. Len(LastOf(s, n)) - k \in 1 .. Len(LastOf(s, n))
  BY <1>2
<1>4. Len(s) - Len(LastOf(s, n)) + (Len(LastOf(s, n)) - k) = Len(s) - k
  BY <1>2
<1> QED
  BY <1>1, <1>3, <1>4 DEF Recent

\* The event taken out of a list is the one that p others follow, if it is there.
LEMMA WithoutOne ==
    ASSUME NEW S, NEW v \in Seq(S), NEW e
    PROVE  /\ Without(v, e) \in Seq(S)
           /\ \E p \in 0 .. Len(v) :
                /\ p < Len(v) => Recent(v, p) = e
                /\ p = Len(v) => \A k \in DOMAIN v : v[k] # e
                /\ Len(Without(v, e)) = (IF p < Len(v) THEN Len(v) - 1 ELSE Len(v))
                /\ \A k \in 0 .. Len(Without(v, e)) - 1 :
                     Recent(Without(v, e), k) =
                         IF k < p THEN Recent(v, k) ELSE Recent(v, k + 1)
<1> DEFINE w == Without(v, e)
<1>0. Len(v) \in Nat
  OBVIOUS
<1>1. CASE \A k \in DOMAIN v : v[k] # e
  <2>1. w = v
    BY <1>1 DEF Without
  <2> QED
    BY <1>0, <1>1, <2>1
<1>2. CASE ~ (\A k \in DOMAIN v : v[k] # e)
  <2> DEFINE i == CHOOSE k \in DOMAIN v : v[k] = e
             n == Len(v)
             p == n - i
  <2>1. i \in 1 .. n /\ v[i] = e
    BY <1>2
  <2>2. w = SubSeq(v, 1, i - 1) \o SubSeq(v, i + 1, n)
    BY <1>2 DEF Without
  <2> HIDE DEF i
  <2>3. /\ SubSeq(v, 1, i - 1) \in Seq(S)
        /\ Len(SubSeq(v, 1, i - 1)) = i - 1
        /\ \A j \in 1 .. i - 1 : SubSeq(v, 1, i - 1)[j] = v[j]
    <3>1. i - 1 \in Int /\ 1 \in Int /\ \A j \in 1 .. i - 1 : v[j] \in S
      BY <2>1
    <3>2. /\ SubSeq(v, 1, i - 1) \in Seq(S)
          /\ Len(SubSeq(v, 1, i - 1)) = (IF 1 <= i - 1 THEN i - 1 - 1 + 1 ELSE 0)
          /\ \A j \in 1 .. i - 1 - 1 + 1 : SubSeq(v, 1, i - 1)[j] = v[1 + j - 1]
      BY <3>1, SubSeqProperties
    <3> QED
      BY <2>1, <3>2
  <2>4. /\ SubSeq(v, i + 1, n) \in Seq(S)
        /\ Len(SubSeq(v, i + 1, n)) = n - i
        /\ \A j \in 1 .. n - i : SubSeq(v, i + 1, n)[j] = v[i + j]
    <3>1. i + 1 \in Int /\ n \in Int /\ \A j \in i + 1 .. n : v[j] \in S
      BY <2>1
    <3>2. /\ SubSeq(v, i + 1, n) \in Seq(S)
          /\ Len(SubSeq(v, i + 1, n)) = (IF i + 1 <= n THEN n - (i + 1) + 1 ELSE 0)
          /\ \A j \in 1 .. n - (i + 1) + 1 : SubSeq(v, i + 1, n)[j] = v[i + 1 + j - 1]
      BY <3>1, SubSeqProperties
    <3> QED
      BY <2>1, <3>2
  <2>5. /\ w \in Seq(S)
        /\ Len(w) = n - 1
        /\ \A j \in 1 .. n - 1 : w[j] = IF j <= i - 1 THEN v[j] ELSE v[j + 1]
    <3> DEFINE a == SubSeq(v, 1, i - 1)
               b == SubSeq(v, i + 1, n)
    <3>1. /\ a \o b \in Seq(S)
          /\ Len(a \o b) = Len(a) + Len(b)
          /\ \A j \in 1 .. Len(a) + Len(b) :
               (a \o b)[j] = IF j <= Len(a) THEN a[j] ELSE b[j - Len(a)]
      BY <2>3, <2>4, ConcatProperties
    <3>2. /\ Len(a) = i - 1
          /\ \A j \in 1 .. i - 1 : a[j] = v[j]
      BY <2>3
    <3>3. /\ Len(b) = n - i
          /\ \A j \in 1 .. n - i : b[j] = v[i + j]
      BY <2>4
    <3>4. w = a \o b
      BY <2>2
    <3> HIDE DEF a, b, w
    <3>5. Len(a) + Len(b) = n - 1
      BY <2>1, <3>2, <3>3
    <3>6. ASSUME NEW j \in 1 .. n - 1
          PROVE  w[j] = IF j <= i - 1 THEN v[j] ELSE v[j + 1]
      <4>1. CASE j <= i - 1
        BY <2>1, <3>2, <3>4, <3>1, <3>5, <4>1
      <4>2. CASE ~ (j <= i - 1)
        <5>1. j - (i - 1) \in 1 .. n - i /\ i + (j - (i - 1)) = j + 1
          BY <2>1, <4>2
        <5>2. w[j] = b[j - (i - 1)]
          BY <3>2, <3>4, <3>1, <3>5, <4>2
        <5>3. b[j - (i - 1)] = v[i + (j - (i - 1))]
          BY <3>3, <5>1
        <5> QED
          BY <4>2, <5>1, <5>2, <5>3
      <4> QED
        BY <4>1, <4>2
    <3> QED
      BY <3>4, <3>1, <3>5, <3>6
  <2> HIDE DEF w
  <2>6. p \in 0 .. n /\ p < n
    BY <2>1
  <2>7. Recent(v, p) = e
    <3>1. n - p = i
      BY <2>1
    <3> QED
      BY <2>1, <3>1 DEF Recent
  <2>8. ASSUME NEW k \in 0 .. Len(w) - 1
        PROVE  Recent(w, k) = IF k < p THEN Recent(v, k) ELSE Recent(v, k + 1)
    <3>1. n - 1 - k \in 1 .. n - 1 /\ n - 1 - k + 1 = n - k /\ n - (k + 1) = n - 1 - k
      BY <2>5, <1>0
    <3>2. Recent(w, k) = w[n - 1 - k]
      BY <2>5 DEF Recent
    <3>3. n - 1 - k <= i - 1 <=> ~ (k < p)
      BY <2>1
    <3>4. w[n - 1 - k] = IF n - 1 - k <= i - 1 THEN v[n - 1 - k] ELSE v[n - k]
      BY <2>5, <3>1
    <3>5. Recent(v, k) = v[n - k] /\ Recent(v, k + 1) = v[n - 1 - k]
      BY <3>1 DEF Recent
    <3> QED
      BY <3>2, <3>3, <3>4, <3>5
  <2> HIDE DEF p
  <2>9. p # n
    BY <2>6
  <2> QED
    BY <2>5, <2>6, <2>7, <2>8, <2>9 DEF w
<1> QED
  BY <1>1, <1>2

\* A list with event e shown: what p says of where e was, and where the rest went.
Moved(v, w, e, p) ==
    /\ p \in 0 .. Len(v)
    /\ p < Len(v) => Recent(v, p) = e
    /\ p = Len(v) => \A k \in 0 .. Len(v) - 1 : Recent(v, k) # e
    /\ Len(w) = (IF p < Len(v) THEN Len(v) ELSE Least(Len(v) + 1, ViewSize))
    /\ Recent(w, 0) = e
    /\ \A k \in 1 .. Len(w) - 1 : Recent(w, k) = IF k <= p THEN Recent(v, k - 1) ELSE Recent(v, k)

\* A shown event is the newest, and the older ones close the gap it leaves.
LEMMA ShowMoves ==
    ASSUME NEW S, NEW v \in Seq(S), Len(v) <= ViewSize, NEW e \in S
    PROVE  /\ Show(v, e) \in Seq(S)
           /\ Len(Show(v, e)) \in 1 .. ViewSize
           /\ \E p \in 0 .. Len(v) : Moved(v, Show(v, e), e, p)
<1> DEFINE u == Without(v, e)
           a == Append(u, e)
           w == Show(v, e)
<1>0. Len(v) \in Nat /\ ViewSize \in Nat /\ ViewSize > 0
  BY SizesAssumption
<1>1. u \in Seq(S)
  BY WithoutOne
<1>2. PICK p \in 0 .. Len(v) :
        /\ p < Len(v) => Recent(v, p) = e
        /\ p = Len(v) => \A k \in DOMAIN v : v[k] # e
        /\ Len(u) = (IF p < Len(v) THEN Len(v) - 1 ELSE Len(v))
        /\ \A k \in 0 .. Len(u) - 1 :
             Recent(u, k) = IF k < p THEN Recent(v, k) ELSE Recent(v, k + 1)
  BY WithoutOne
<1> HIDE DEF u
<1>3. /\ a \in Seq(S)
      /\ Len(a) = Len(u) + 1
      /\ a[Len(u) + 1] = e
      /\ \A i \in 1 .. Len(u) : a[i] = u[i]
  BY <1>1
<1>4. w = LastOf(a, ViewSize)
  BY DEF Show, u
<1> HIDE DEF a, w
<1>5. w \in Seq(S) /\ Len(w) = Least(Len(a), ViewSize)
  BY <1>0, <1>3, <1>4, LastOfKeeps
<1>6. \A k \in 0 .. Len(w) - 1 : Recent(w, k) = Recent(a, k)
  BY <1>0, <1>3, <1>4, LastOfRecent
<1>7. Len(u) \in Nat /\ Len(w) \in 1 .. ViewSize
  BY <1>0, <1>1, <1>3, <1>5 DEF Least
<1>8. Len(w) = (IF p < Len(v) THEN Len(v) ELSE Least(Len(v) + 1, ViewSize))
  BY <1>0, <1>2, <1>3, <1>5 DEF Least
<1>9. Recent(w, 0) = e
  <2>1. Recent(a, 0) = e
    BY <1>3, <1>7 DEF Recent
  <2> QED
    BY <1>6, <1>7, <2>1
<1>10. ASSUME NEW k \in 1 .. Len(w) - 1
       PROVE  Recent(w, k) = IF k <= p THEN Recent(v, k - 1) ELSE Recent(v, k)
  <2>1. k - 1 \in 0 .. Len(u) - 1 /\ Len(u) - (k - 1) \in 1 .. Len(u)
    BY <1>3, <1>5, <1>7 DEF Least
  <2>2. Recent(a, k) = Recent(u, k - 1)
    <3>1. Len(a) - k = Len(u) - (k - 1)
      BY <1>3, <1>7
    <3> QED
      BY <1>3, <2>1, <3>1 DEF Recent
  <2>3. Recent(w, k) = Recent(u, k - 1)
    BY <1>6, <2>2, <1>7
  <2>4. Recent(u, k - 1) = IF k - 1 < p THEN Recent(v, k - 1) ELSE Recent(v, k - 1 + 1)
    BY <1>2, <2>1
  <2>5. (k - 1 < p <=> k <= p) /\ k - 1 + 1 = k
    BY <1>0
  <2> QED
    BY <2>3, <2>4, <2>5
<1>11. p = Len(v) => \A k \in 0 .. Len(v) - 1 : Recent(v, k) # e
  BY <1>2, RecentElement DEF Recent
<1> QED
  BY <1>2, <1>5, <1>7, <1>8, <1>9, <1>10, <1>11 DEF Moved, w

\* No event is listed twice after an event is shown.
LEMMA ShowDistinct ==
    ASSUME NEW S, NEW v \in Seq(S), NEW w \in Seq(S), NEW e, NEW p, Moved(v, w, e, p),
           Distinct(v)
    PROVE  Distinct(w)
<1> DEFINE Old(k) == IF k <= p THEN k - 1 ELSE k
<1>1. Len(v) \in Nat /\ Len(w) \in Nat /\ p \in 0 .. Len(v)
  BY DEF Moved
<1>2. ASSUME NEW k \in 0 .. Len(w) - 1, k # 0
      PROVE  /\ Recent(w, k) = Recent(v, Old(k))
             /\ Old(k) \in 0 .. Len(v) - 1
             /\ Old(k) # p
  <2>1. k \in 1 .. Len(w) - 1
    BY <1>2, <1>1
  <2>2. Len(w) <= Len(v) + 1 /\ (p < Len(v) => Len(w) = Len(v))
    BY <1>1 DEF Moved, Least
  <2>3. Recent(w, k) = Recent(v, Old(k))
    BY <2>1 DEF Moved
  <2> QED
    BY <1>1, <2>1, <2>2, <2>3
<1>3. ASSUME NEW k \in 0 .. Len(w) - 1, k # 0
      PROVE  Recent(w, k) # Recent(w, 0)
  <2>1. /\ Recent(w, k) = Recent(v, Old(k))
        /\ Old(k) \in 0 .. Len(v) - 1
        /\ Old(k) # p
    BY <1>2, <1>3
  <2>2. Recent(w, 0) = e
    BY DEF Moved
  <2> HIDE DEF Old
  <2>3. CASE p = Len(v)
    BY <2>1, <2>2, <2>3 DEF Moved
  <2>4. CASE p < Len(v)
    <3>1. Recent(v, p) = e /\ p \in 0 .. Len(v) - 1
      BY <1>1, <2>4 DEF Moved
    <3> QED
      BY <2>1, <2>2, <3>1 DEF Distinct
  <2> QED
    BY <1>1, <2>3, <2>4
<1>4. ASSUME NEW i \in 0 .. Len(w) - 1, NEW k \in 0 .. Len(w) - 1, i # 0, k # 0,
             Recent(w, i) = Recent(w, k)
      PROVE  i = k
  <2>1. Old(i) = Old(k)
    <3>1. /\ Recent(w, i) = Recent(v, Old(i))
          /\ Old(i) \in 0 .. Len(v) - 1
      BY <1>2, <1>4
    <3>2. /\ Recent(w, k) = Recent(v, Old(k))
          /\ Old(k) \in 0 .. Len(v) - 1
      BY <1>2, <1>4
    <3> HIDE DEF Old
    <3> QED
      BY <1>4, <3>1, <3>2 DEF Distinct
  <2>2. Old(i) # p /\ Old(k) # p
    BY <1>2, <1>4
  <2> QED
    BY <1>1, <2>1, <2>2
<1> QED
  BY <1>3, <1>4 DEF Distinct

\* A view ends with the m newest of the events that E lists, or is full of them.
Ends(v, E, m) ==
    /\ Len(v) >= Least(m, ViewSize)
    /\ \A k \in 0 .. Len(v) - 1 : k < m => Recent(v, k) = E[k]

\* An event that is not among them comes on top.
LEMMA ShowAnew ==
    ASSUME NEW S, NEW v \in Seq(S), NEW w \in Seq(S), NEW e, NEW p, Moved(v, w, e, p),
           NEW m \in Nat, NEW E, NEW F, Ends(v, E, m),
           \A k \in 0 .. m - 1 : E[k] # e,
           F[0] = e,
           \A k \in 1 .. m : F[k] = E[k - 1]
    PROVE  Ends(w, F, m + 1)
<1>1. /\ Len(v) \in Nat /\ Len(w) \in Nat /\ p \in 0 .. Len(v)
      /\ ViewSize \in Nat /\ ViewSize > 0
  BY SizesAssumption DEF Moved
<1>2. p < Len(v) => p >= m
  <2> SUFFICES ASSUME p < Len(v), p < m PROVE FALSE
    BY <1>1
  <2>1. p \in 0 .. Len(v) - 1 /\ p \in 0 .. m - 1
    BY <1>1
  <2>2. Recent(v, p) = e /\ Recent(v, p) = E[p]
    BY <2>1 DEF Moved, Ends
  <2> QED
    BY <2>1, <2>2
<1>3. Len(w) = (IF p < Len(v) THEN Len(v) ELSE Least(Len(v) + 1, ViewSize))
  BY DEF Moved
<1>4. Len(w) >= Least(m + 1, ViewSize)
  <2>1. Len(v) >= Least(m, ViewSize)
    BY DEF Ends
  <2> QED
    BY <1>1, <1>2, <1>3, <2>1 DEF Least
<1>5. ASSUME NEW k \in 0 .. Len(w) - 1, k < m + 1
      PROVE  Recent(w, k) = F[k]
  <2>1. CASE k = 0
    BY <2>1 DEF Moved
  <2>2. CASE k # 0
    <3>1. k \in 1 .. Len(w) - 1 /\ k \in 1 .. m
      BY <1>1, <1>5, <2>2
    <3>2. k <= p /\ k - 1 \in 0 .. Len(v) - 1 /\ k - 1 < m
      BY <1>1, <1>2, <1>3, <3>1 DEF Least
    <3>3. Recent(w, k) = Recent(v, k - 1)
      BY <3>1, <3>2 DEF Moved
    <3>4. Recent(v, k - 1) = E[k - 1]
      BY <3>2 DEF Ends
    <3> QED
      BY <3>1, <3>3, <3>4
  <2> QED
    BY <2>1, <2>2
<1> QED
  BY <1>4, <1>5 DEF Ends

\* An event that is the one at q moves to the top.
LEMMA ShowAgain ==
    ASSUME NEW S, NEW v \in Seq(S), NEW w \in Seq(S), NEW e, NEW p, Moved(v, w, e, p),
           NEW m \in Nat, NEW E, NEW F, Ends(v, E, m), Distinct(v), Len(v) <= ViewSize,
           NEW q \in 0 .. m - 1, E[q] = e,
           \A k \in 0 .. m - 1 : k # q => E[k] # e,
           F[0] = e,
           \A k \in 1 .. q : F[k] = E[k - 1],
           \A k \in q + 1 .. m - 1 : F[k] = E[k]
    PROVE  Ends(w, F, m)
<1>1. /\ Len(v) \in Nat /\ Len(w) \in Nat /\ p \in 0 .. Len(v)
      /\ ViewSize \in Nat /\ ViewSize > 0
  BY SizesAssumption DEF Moved
<1>2. p = IF q < Len(v) THEN q ELSE Len(v)
  <2>1. CASE q < Len(v)
    <3>1. q \in 0 .. Len(v) - 1
      BY <1>1, <2>1
    <3>2. Recent(v, q) = e
      BY <3>1 DEF Ends
    <3>3. p # Len(v)
      BY <3>1, <3>2 DEF Moved
    <3>4. p \in 0 .. Len(v) - 1 /\ Recent(v, p) = e
      BY <1>1, <3>3 DEF Moved
    <3> QED
      BY <2>1, <3>1, <3>2, <3>4 DEF Distinct
  <2>2. CASE ~ (q < Len(v))
    <3> SUFFICES ASSUME p < Len(v) PROVE FALSE
      BY <1>1, <2>2
    <3>1. p \in 0 .. Len(v) - 1 /\ p \in 0 .. m - 1 /\ p # q /\ p < m
      BY <1>1, <2>2
    <3>2. Recent(v, p) = e /\ Recent(v, p) = E[p]
      BY <3>1 DEF Moved, Ends
    <3> QED
      BY <3>1, <3>2
  <2> QED
    BY <2>1, <2>2
<1>3. Len(w) = (IF p < Len(v) THEN Len(v) ELSE Least(Len(v) + 1, ViewSize))
  BY DEF Moved
<1>4. Len(w) >= Least(m, ViewSize)
  <2>1. Len(v) >= Least(m, ViewSize)
    BY DEF Ends
  <2> QED
    BY <1>1, <1>3, <2>1 DEF Least
<1>5. ASSUME NEW k \in 0 .. Len(w) - 1, k < m
      PROVE  Recent(w, k) = F[k]
  <2>1. CASE k = 0
    BY <2>1 DEF Moved
  <2>2. CASE k # 0 /\ k <= p
    <3>1. k \in 1 .. Len(w) - 1 /\ k \in 1 .. q
      BY <1>1, <1>2, <1>5, <2>2
    <3>2. k - 1 \in 0 .. Len(v) - 1 /\ k - 1 < m
      BY <1>1, <1>5, <2>2, <3>1
    <3>3. Recent(w, k) = Recent(v, k - 1)
      BY <2>2, <3>1 DEF Moved
    <3>4. Recent(v, k - 1) = E[k - 1]
      BY <3>2 DEF Ends
    <3> QED
      BY <3>1, <3>3, <3>4
  <2>3. CASE k # 0 /\ ~ (k <= p)
    <3>1. k \in 1 .. Len(w) - 1 /\ k \in q + 1 .. m - 1 /\ k \in 0 .. Len(v) - 1
      BY <1>1, <1>2, <1>3, <1>5, <2>3 DEF Least
    <3>2. Recent(w, k) = Recent(v, k)
      BY <2>3, <3>1 DEF Moved
    <3>3. Recent(v, k) = E[k]
      BY <1>5, <3>1 DEF Ends
    <3> QED
      BY <3>1, <3>2, <3>3
  <2> QED
    BY <2>1, <2>2, <2>3
<1> QED
  BY <1>4, <1>5 DEF Ends

-----------------------------------------------------------------------------
(* The types.                                                              *)

\* The clients that have a stream.
Open == {c \in Clients : stream[c] # "none"}

\* Every stream, dead ones too, was opened by a connect of its own.
Streams ==
    /\ IsFiniteSet(Open)
    /\ dead + Cardinality(Open) <= connects

TypeInv == TypeOK /\ Streams

\* A stream more, of a client that had none.
LEMMA OpenMore ==
    ASSUME TypeOK, Streams, NEW c \in Clients, stream[c] = "none",
           NEW s, s # "none", stream' = [stream EXCEPT ![c] = s]
    PROVE  IsFiniteSet(Open') /\ Cardinality(Open') = Cardinality(Open) + 1
<1>1. Open' = Open \union {c} /\ c \notin Open
  BY DEF Open, TypeOK
<1> QED
  BY <1>1, FS_AddElement DEF Streams

\* A stream less.
LEMMA OpenLess ==
    ASSUME TypeOK, Streams, NEW c \in Clients, stream[c] # "none",
           stream' = [stream EXCEPT ![c] = "none"]
    PROVE  IsFiniteSet(Open') /\ Cardinality(Open') = Cardinality(Open) - 1
<1>1. Open' = Open \ {c} /\ c \in Open
  BY DEF Open, TypeOK
<1> QED
  BY <1>1, FS_RemoveElement DEF Streams

\* A stream that goes on.
LEMMA OpenSame ==
    ASSUME TypeOK, NEW c \in Clients, stream[c] # "none",
           NEW s, s # "none", stream' = [stream EXCEPT ![c] = s]
    PROVE  Open' = Open
BY DEF Open, TypeOK

\* The first event of a sequence, and the rest.
LEMMA FirstAndRest ==
    ASSUME NEW S, NEW q \in Seq(S), q # <<>>
    PROVE  /\ Head(q) \in S
           /\ Head(q) = q[1]
           /\ Tail(q) \in Seq(S)
           /\ Len(Tail(q)) = Len(q) - 1
           /\ Len(q) \in Nat \ {0}
           /\ \A i \in 1 .. Len(q) - 1 : Tail(q)[i] = q[i + 1]
OBVIOUS

\* A client's list stays one when an event is shown.
LEMMA ShowTyped ==
    ASSUME TypeOK, NEW c \in Clients, NEW e \in Numbers
    PROVE  /\ Show(view[c], e) \in Seq(Numbers)
           /\ Len(Show(view[c], e)) <= ViewSize
<1>1. view[c] \in Seq(Numbers) /\ Len(view[c]) <= ViewSize
  BY DEF TypeOK
<1>2. Len(Show(view[c], e)) \in 1 .. ViewSize
  BY <1>1, ShowMoves
<1> QED
  BY <1>1, <1>2, ShowMoves, SizesAssumption

\* A step keeps the types, whichever it is.
LEMMA TypeStep ==
    ASSUME TypeInv, [Next]_vars
    PROVE  TypeInv'
<1> USE SizesAssumption, BoundsAssumption
<1>0. TypeOK /\ Streams
  BY DEF TypeInv
<1>1. Cardinality(Open) \in Nat
  BY <1>0, FS_CardinalityType DEF Streams
<1>2. CASE Publish
  <2>1. Append(store, published + 1) \in Seq(Numbers) /\ Append(queue, published + 1) \in Seq(Numbers)
    BY <1>0, <1>2 DEF TypeOK, Publish, Numbers
  <2>2. /\ LastOf(Append(store, published + 1), StoreSize) \in Seq(Numbers)
        /\ Len(LastOf(Append(store, published + 1), StoreSize))
             = Least(Len(Append(store, published + 1)), StoreSize)
    BY <2>1, LastOfKeeps
  <2>3. Len(LastOf(Append(store, published + 1), StoreSize)) <= StoreSize
    BY <2>1, <2>2 DEF Least
  <2>4. TypeOK'
    BY <1>0, <1>2, <2>1, <2>2, <2>3 DEF TypeOK, Publish, history
  <2>5. Open' = Open
    BY <1>2 DEF Publish, Open
  <2> QED
    BY <1>0, <1>2, <2>4, <2>5 DEF TypeInv, Streams, Publish
<1>3. ASSUME NEW c \in Clients, Connect(c)
      PROVE  TypeInv'
  <2>1. LastOf(store, ReplayLimit) \in Seq(Numbers)
    <3>1. store \in Seq(Numbers) /\ ReplayLimit \in Nat
      BY <1>0 DEF TypeOK
    <3> QED
      BY <3>1, LastOfKeeps
  <2>2. TypeOK'
    BY <1>0, <1>3, <2>1 DEF TypeOK, Connect, server
  <2>3. IsFiniteSet(Open') /\ Cardinality(Open') = Cardinality(Open) + 1
    BY <1>0, <1>3, OpenMore DEF Connect
  <2>4. dead' = dead /\ connects' = connects + 1
    BY <1>3 DEF Connect
  <2>5. Streams'
    BY <1>0, <1>1, <2>3, <2>4 DEF Streams, TypeOK
  <2> QED
    BY <2>2, <2>5 DEF TypeInv
<1>4. ASSUME NEW c \in Clients, Replay(c)
      PROVE  TypeInv'
  <2>1. stream[c] = "replay" /\ UNCHANGED <<server, dead, history, connects>>
    BY <1>4 DEF Replay
  <2>2. CASE replay[c] = <<>>
    <3>1. stream' = [stream EXCEPT ![c] = "live"] /\ UNCHANGED <<replay, view>>
      BY <1>4, <2>2 DEF Replay
    <3>2. TypeOK'
      BY <1>0, <2>1, <3>1 DEF TypeOK, server, history
    <3>3. Open' = Open
      BY <1>0, <2>1, <3>1, OpenSame
    <3> QED
      BY <1>0, <2>1, <3>2, <3>3 DEF TypeInv, Streams
  <2>3. CASE replay[c] # <<>>
    <3>1. /\ replay' = [replay EXCEPT ![c] = Tail(replay[c])]
          /\ view' = [view EXCEPT ![c] = Show(view[c], Head(replay[c]))]
          /\ UNCHANGED stream
      BY <1>4, <2>3 DEF Replay
    <3>2. Head(replay[c]) \in Numbers /\ Tail(replay[c]) \in Seq(Numbers)
      BY <1>0, <2>3, FirstAndRest DEF TypeOK
    <3>3. /\ Show(view[c], Head(replay[c])) \in Seq(Numbers)
          /\ Len(Show(view[c], Head(replay[c]))) <= ViewSize
      BY <1>0, <3>2, ShowTyped
    <3>4. TypeOK'
      BY <1>0, <2>1, <3>1, <3>2, <3>3 DEF TypeOK, server, history
    <3>5. Open' = Open
      BY <3>1 DEF Open
    <3> QED
      BY <1>0, <2>1, <3>4, <3>5 DEF TypeInv, Streams
  <2> QED
    BY <2>2, <2>3
<1>5. ASSUME NEW c \in Clients, Deliver(c)
      PROVE  TypeInv'
  <2>1. Head(queue) \in Numbers /\ Tail(queue) \in Seq(Numbers)
    BY <1>0, <1>5, FirstAndRest DEF TypeOK, Deliver
  <2>2. /\ Show(view[c], Head(queue)) \in Seq(Numbers)
        /\ Len(Show(view[c], Head(queue))) <= ViewSize
    BY <1>0, <2>1, ShowTyped
  <2>3. TypeOK'
    BY <1>0, <1>5, <2>1, <2>2 DEF TypeOK, Deliver, history
  <2>4. Open' = Open
    BY <1>5 DEF Deliver, Open
  <2> QED
    BY <1>0, <1>5, <2>3, <2>4 DEF TypeInv, Streams, Deliver
<1>6. ASSUME NEW c \in Clients, Leave(c)
      PROVE  TypeInv'
  <2>1. IsFiniteSet(Open') /\ Cardinality(Open') = Cardinality(Open) - 1
    BY <1>0, <1>6, OpenLess DEF Leave
  <2>2. dead' = dead + 1 /\ connects' = connects
    BY <1>6 DEF Leave
  <2>3. Streams'
    BY <1>0, <1>1, <2>1, <2>2 DEF Streams, TypeOK
  <2>4. Cardinality(Open') \in Nat
    BY <2>1, FS_CardinalityType
  <2>5. dead' \in 0 .. MaxConnects
    BY <1>0, <1>1, <2>1, <2>2, <2>3, <2>4 DEF Streams, TypeOK
  <2>6. <<>> \in Seq(Numbers)
    OBVIOUS
  <2>7. TypeOK'
    BY <1>0, <1>6, <2>5, <2>6 DEF TypeOK, Leave, server, history
  <2> QED
    BY <2>3, <2>7 DEF TypeInv
<1>7. CASE DeliverToDead
  <2>1. Head(queue) \in Numbers /\ Tail(queue) \in Seq(Numbers)
    BY <1>0, <1>7, FirstAndRest DEF TypeOK, DeliverToDead
  <2>2. TypeOK'
    BY <1>0, <1>7, <2>1 DEF TypeOK, DeliverToDead
  <2>3. Open' = Open
    BY <1>7 DEF DeliverToDead, Open
  <2> QED
    BY <1>0, <1>7, <2>2, <2>3 DEF TypeInv, Streams, DeliverToDead
<1>8. CASE Notice
  <2>1. TypeOK'
    BY <1>0, <1>8 DEF TypeOK, Notice, server, history
  <2>2. Open' = Open
    BY <1>8 DEF Notice, Open
  <2>3. dead \in Nat /\ dead > 0 /\ dead' = dead - 1 /\ connects' = connects /\ connects \in Nat
    BY <1>0, <1>8 DEF Notice, TypeOK
  <2>4. Streams'
    BY <1>0, <1>1, <2>2, <2>3 DEF Streams
  <2> QED
    BY <2>1, <2>4 DEF TypeInv
<1>9. CASE UNCHANGED vars
  <2>1. Open' = Open
    BY <1>9 DEF vars, Open
  <2> QED
    BY <1>0, <1>9, <2>1 DEF TypeInv, TypeOK, Streams, vars, server, history
<1> QED
  BY <1>2, <1>3, <1>4, <1>5, <1>6, <1>7, <1>8, <1>9 DEF Next, Serve

\* The variables keep the values the server and the clients give them: the store
\* and the views never outgrow their size (EventStore, the slice of App.tsx).
THEOREM Typing == Spec => []TypeOK
<1>1. Init => TypeInv
  <2> SUFFICES ASSUME Init PROVE TypeInv
    OBVIOUS
  <2>1. <<>> \in Seq(Numbers) /\ Len(<<>>) = 0
    OBVIOUS
  <2>2. TypeOK
    BY <2>1, SizesAssumption, BoundsAssumption DEF Init, TypeOK
  <2>3. Open = {}
    BY DEF Init, Open
  <2>4. Streams
    BY <2>3, FS_EmptySet DEF Streams, Init
  <2> QED
    BY <2>2, <2>4 DEF TypeInv
<1>2. TypeInv /\ [Next]_vars => TypeInv'
  BY TypeStep
<1>3. TypeInv => TypeOK
  BY DEF TypeInv
<1> QED
  BY <1>1, <1>2, <1>3, PTL DEF Spec

-----------------------------------------------------------------------------
(* Where the events are: the queue, the store and each replay hold runs of *)
(* numbers, and each ends where it must.                                   *)

\* Events that have left the queue.
Delivered == published - Len(queue)

\* q is the run of event numbers that ends with n.
Run(q, n) == \A i \in 1 .. Len(q) : q[i] = n - Len(q) + i

\* A client: its replay runs up to the event it joined at.
RunsOf(c) ==
    /\ Len(replay[c]) <= Least(joined[c], ReplayLimit)
    /\ Run(replay[c], joined[c])
    /\ joined[c] <= published
    /\ stream[c] # "none" => c \in opened
    /\ Distinct(view[c])

RunInv ==
    /\ Len(queue) <= published /\ Run(queue, published)
    /\ Len(store) = Least(published, StoreSize) /\ Run(store, published)
    /\ \A c \in Clients : RunsOf(c)

\* An event more at the end of a run.
LEMMA RunLonger ==
    ASSUME NEW S, NEW q \in Seq(S), NEW n \in Nat, Run(q, n), n + 1 \in S
    PROVE  Run(Append(q, n + 1), n + 1)
<1>1. /\ Append(q, n + 1) \in Seq(S)
      /\ Len(Append(q, n + 1)) = Len(q) + 1
      /\ Append(q, n + 1)[Len(q) + 1] = n + 1
      /\ \A i \in 1 .. Len(q) : Append(q, n + 1)[i] = q[i]
  OBVIOUS
<1>2. Len(q) \in Nat
  OBVIOUS
<1>3. ASSUME NEW i \in 1 .. Len(q) + 1
      PROVE  Append(q, n + 1)[i] = n + 1 - (Len(q) + 1) + i
  <2>1. CASE i = Len(q) + 1
    BY <1>1, <1>2, <2>1
  <2>2. CASE i # Len(q) + 1
    <3>1. i \in 1 .. Len(q)
      BY <1>2, <2>2
    <3>2. q[i] = n - Len(q) + i
      BY <3>1 DEF Run
    <3>3. n + 1 - (Len(q) + 1) + i = n - Len(q) + i
      BY <1>2
    <3> QED
      BY <1>1, <3>1, <3>2, <3>3
  <2> QED
    BY <2>1, <2>2
<1> QED
  BY <1>1, <1>3 DEF Run

\* The newest events of a run are a run.
LEMMA RunCut ==
    ASSUME NEW S, NEW q \in Seq(S), NEW n \in Nat, Run(q, n), NEW l \in Nat
    PROVE  Run(LastOf(q, l), n)
<1>1. /\ LastOf(q, l) \in Seq(S)
      /\ Len(LastOf(q, l)) = Least(Len(q), l)
      /\ \A i \in 1 .. Len(LastOf(q, l)) :
           LastOf(q, l)[i] = q[Len(q) - Len(LastOf(q, l)) + i]
  BY LastOfKeeps
<1>2. Len(q) \in Nat /\ Len(LastOf(q, l)) \in Nat /\ Len(LastOf(q, l)) <= Len(q)
  BY <1>1 DEF Least
<1>3. ASSUME NEW i \in 1 .. Len(LastOf(q, l))
      PROVE  LastOf(q, l)[i] = n - Len(LastOf(q, l)) + i
  <2>1. Len(q) - Len(LastOf(q, l)) + i \in 1 .. Len(q)
    BY <1>2
  <2>2. q[Len(q) - Len(LastOf(q, l)) + i] = n - Len(q) + (Len(q) - Len(LastOf(q, l)) + i)
    BY <2>1 DEF Run
  <2> QED
    BY <1>1, <1>2, <2>2
<1> QED
  BY <1>3 DEF Run

\* What is left of a run is a run, and its first event follows those that are gone.
LEMMA RunRest ==
    ASSUME NEW S, NEW q \in Seq(S), NEW n \in Nat, Run(q, n), q # <<>>
    PROVE  Run(Tail(q), n) /\ Head(q) = n - Len(q) + 1
<1>1. /\ Head(q) = q[1]
      /\ Len(Tail(q)) = Len(q) - 1
      /\ Len(q) \in Nat \ {0}
      /\ \A i \in 1 .. Len(q) - 1 : Tail(q)[i] = q[i + 1]
  BY FirstAndRest
<1>2. ASSUME NEW i \in 1 .. Len(q) - 1
      PROVE  Tail(q)[i] = n - (Len(q) - 1) + i
  <2>1. i + 1 \in 1 .. Len(q)
    BY <1>1
  <2>2. q[i + 1] = n - Len(q) + (i + 1)
    BY <2>1 DEF Run
  <2> QED
    BY <1>1, <2>2
<1> QED
  BY <1>1, <1>2 DEF Run

\* A client's list stays free of repetitions when an event is shown.
LEMMA ShowDistinctHere ==
    ASSUME TypeOK, NEW c \in Clients, NEW e \in Numbers, Distinct(view[c])
    PROVE  Distinct(Show(view[c], e))
<1>1. view[c] \in Seq(Numbers) /\ Len(view[c]) <= ViewSize
  BY DEF TypeOK
<1>2. Show(view[c], e) \in Seq(Numbers)
  BY <1>1, ShowMoves
<1>3. PICK p \in 0 .. Len(view[c]) : Moved(view[c], Show(view[c], e), e, p)
  BY <1>1, ShowMoves
<1> QED
  BY <1>1, <1>2, <1>3, ShowDistinct

\* A step keeps the runs.
LEMMA RunStep ==
    ASSUME TypeOK, TypeOK', RunInv, [Next]_vars
    PROVE  RunInv'
<1> USE SizesAssumption
<1>1. /\ Len(queue) <= published /\ Run(queue, published)
      /\ Len(store) = Least(published, StoreSize) /\ Run(store, published)
      /\ \A c \in Clients : RunsOf(c)
  BY DEF RunInv
<1>2. /\ published \in Nat /\ queue \in Seq(Numbers) /\ store \in Seq(Numbers)
      /\ Len(queue) \in Nat /\ Len(store) \in Nat
      /\ \A c \in Clients : /\ replay[c] \in Seq(Numbers) /\ joined[c] \in Nat
                            /\ Len(replay[c]) \in Nat
                            /\ view[c] \in Seq(Numbers)
  BY DEF TypeOK
<1>3. ReplayLimit \in Nat /\ StoreSize \in Nat /\ ReplayLimit <= StoreSize
  OBVIOUS
<1>4. SUFFICES /\ (Len(queue) <= published /\ Run(queue, published))'
               /\ (Len(store) = Least(published, StoreSize) /\ Run(store, published))'
               /\ \A c \in Clients : RunsOf(c)'
  BY DEF RunInv
<1>5. CASE Publish
  <2>1. published + 1 \in Numbers
    BY <1>5 DEF Publish, TypeOK, Numbers
  <2>2. Run(Append(queue, published + 1), published + 1)
    BY <1>1, <1>2, <2>1, RunLonger
  <2>3. Run(Append(store, published + 1), published + 1)
    BY <1>1, <1>2, <2>1, RunLonger
  <2>4. /\ Append(store, published + 1) \in Seq(Numbers) /\ published + 1 \in Nat
        /\ Len(Append(store, published + 1)) = Len(store) + 1
        /\ Len(Append(queue, published + 1)) = Len(queue) + 1
    BY <1>2, <2>1
  <2>5. Run(LastOf(Append(store, published + 1), StoreSize), published + 1)
    BY <1>3, <2>3, <2>4, RunCut
  <2>6. Len(LastOf(Append(store, published + 1), StoreSize)) = Least(Len(store) + 1, StoreSize)
    BY <1>3, <2>4, LastOfKeeps
  <2>7. Least(Len(store) + 1, StoreSize) = Least(published + 1, StoreSize)
    BY <1>1, <1>2, <1>3 DEF Least
  <2>8. (Len(queue) <= published /\ Run(queue, published))'
    BY <1>1, <1>2, <1>5, <2>2, <2>4 DEF Publish
  <2>9. (Len(store) = Least(published, StoreSize) /\ Run(store, published))'
    BY <1>5, <2>5, <2>6, <2>7 DEF Publish
  <2>10. \A c \in Clients : RunsOf(c)'
    BY <1>1, <1>2, <1>5 DEF Publish, RunsOf, history
  <2> QED
    BY <2>8, <2>9, <2>10
<1>6. CASE UNCHANGED server /\ \A c \in Clients : RunsOf(c)'
  BY <1>1, <1>6 DEF server
<1>7. CASE /\ queue # <<>> /\ queue' = Tail(queue) /\ UNCHANGED <<published, store>>
           /\ \A c \in Clients : RunsOf(c)'
  <2>1. Run(Tail(queue), published) /\ Len(Tail(queue)) = Len(queue) - 1
    BY <1>1, <1>2, <1>7, RunRest, FirstAndRest
  <2> QED
    BY <1>1, <1>2, <1>7, <2>1
<1>8. ASSUME NEW c \in Clients, Connect(c)
      PROVE  UNCHANGED server /\ \A d \in Clients : RunsOf(d)'
  <2>1. /\ UNCHANGED server /\ published' = published /\ view' = view
        /\ stream' = [stream EXCEPT ![c] = "replay"]
        /\ replay' = [replay EXCEPT ![c] = LastOf(store, ReplayLimit)]
        /\ joined' = [joined EXCEPT ![c] = published]
        /\ opened' = opened \union {c}
    BY <1>8 DEF Connect, server
  <2>2. Run(LastOf(store, ReplayLimit), published)
    BY <1>1, <1>2, <1>3, RunCut
  <2>3. Len(LastOf(store, ReplayLimit)) = Least(Len(store), ReplayLimit)
    BY <1>2, <1>3, LastOfKeeps
  <2>4. Least(Len(store), ReplayLimit) <= Least(published, ReplayLimit)
    BY <1>1, <1>2, <1>3 DEF Least
  <2>5. ASSUME NEW d \in Clients PROVE RunsOf(d)'
    <3>1. CASE d = c
      BY <1>1, <1>2, <2>1, <2>2, <2>3, <2>4, <3>1 DEF RunsOf, TypeOK
    <3>2. CASE d # c
      BY <1>1, <1>2, <2>1, <3>2 DEF RunsOf, TypeOK
    <3> QED
      BY <3>1, <3>2
  <2> QED
    BY <2>1, <2>5
<1>9. ASSUME NEW c \in Clients, Replay(c)
      PROVE  UNCHANGED server /\ \A d \in Clients : RunsOf(d)'
  <2>1. stream[c] = "replay" /\ UNCHANGED <<server, published, joined, opened>>
    BY <1>9 DEF Replay, server, history
  <2>2. CASE replay[c] = <<>>
    <3>1. stream' = [stream EXCEPT ![c] = "live"] /\ UNCHANGED <<replay, view>>
      BY <1>9, <2>2 DEF Replay
    <3> QED
      BY <1>1, <2>1, <3>1 DEF RunsOf, TypeOK
  <2>3. CASE replay[c] # <<>>
    <3>1. /\ replay' = [replay EXCEPT ![c] = Tail(replay[c])]
          /\ view' = [view EXCEPT ![c] = Show(view[c], Head(replay[c]))]
          /\ UNCHANGED stream
      BY <1>9, <2>3 DEF Replay
    <3>2. Head(replay[c]) \in Numbers /\ Len(Tail(replay[c])) = Len(replay[c]) - 1
      BY <1>2, <2>3, FirstAndRest
    <3>3. Distinct(Show(view[c], Head(replay[c])))
      BY <1>1, <3>2, ShowDistinctHere DEF RunsOf
    <3>4. Run(replay[c], joined[c])
      BY <1>1 DEF RunsOf
    <3>5. Run(Tail(replay[c]), joined[c])
      BY <1>2, <2>3, <3>4, RunRest
    <3>6. Len(Tail(replay[c])) <= Least(joined[c], ReplayLimit)
      BY <1>1, <1>2, <1>3, <3>2 DEF RunsOf, Least
    <3>7. ASSUME NEW d \in Clients PROVE RunsOf(d)'
      <4>1. CASE d = c
        BY <1>1, <2>1, <3>1, <3>3, <3>5, <3>6, <4>1 DEF RunsOf, TypeOK
      <4>2. CASE d # c
        BY <1>1, <2>1, <3>1, <4>2 DEF RunsOf, TypeOK
      <4> QED
        BY <4>1, <4>2
    <3> QED
      BY <2>1, <3>7
  <2> QED
    BY <2>2, <2>3
<1>10. ASSUME NEW c \in Clients, Deliver(c)
       PROVE  /\ queue # <<>> /\ queue' = Tail(queue) /\ UNCHANGED <<published, store>>
              /\ \A d \in Clients : RunsOf(d)'
  <2>1. /\ queue # <<>> /\ queue' = Tail(queue)
        /\ UNCHANGED <<published, store, stream, replay, joined, opened>>
        /\ view' = [view EXCEPT ![c] = Show(view[c], Head(queue))]
    BY <1>10 DEF Deliver, history
  <2>2. Head(queue) \in Numbers
    BY <1>2, <2>1, FirstAndRest
  <2>3. Distinct(Show(view[c], Head(queue)))
    BY <1>1, <2>2, ShowDistinctHere DEF RunsOf
  <2>4. ASSUME NEW d \in Clients PROVE RunsOf(d)'
    <3>1. view'[d] = IF d = c THEN Show(view[c], Head(queue)) ELSE view[d]
      BY <2>1 DEF TypeOK
    <3>2. Distinct(view'[d])
      BY <1>1, <2>3, <3>1 DEF RunsOf
    <3> QED
      BY <1>1, <2>1, <3>2 DEF RunsOf
  <2> QED
    BY <2>1, <2>4
<1>11. ASSUME NEW c \in Clients, Leave(c)
       PROVE  UNCHANGED server /\ \A d \in Clients : RunsOf(d)'
  <2>1. /\ UNCHANGED <<server, published, view, joined, opened>>
        /\ stream' = [stream EXCEPT ![c] = "none"]
        /\ replay' = [replay EXCEPT ![c] = <<>>]
    BY <1>11 DEF Leave, server, history
  <2>2. Len(<<>>) = 0 /\ Run(<<>>, joined[c]) /\ 0 <= Least(joined[c], ReplayLimit)
    BY <1>2 DEF Run, Least
  <2>3. ASSUME NEW d \in Clients PROVE RunsOf(d)'
    <3>1. CASE d = c
      BY <1>1, <2>1, <2>2, <3>1 DEF RunsOf, TypeOK
    <3>2. CASE d # c
      BY <1>1, <2>1, <3>2 DEF RunsOf, TypeOK
    <3> QED
      BY <3>1, <3>2
  <2> QED
    BY <2>1, <2>3
<1>12. CASE DeliverToDead
  BY <1>1, <1>7, <1>12 DEF DeliverToDead, RunsOf
<1>13. CASE Notice
  BY <1>1, <1>6, <1>13 DEF Notice, history, RunsOf, server
<1>14. CASE UNCHANGED vars
  BY <1>1, <1>6, <1>14 DEF vars, server, history, RunsOf
<1> QED
  BY <1>5, <1>6, <1>7, <1>8, <1>9, <1>10, <1>11, <1>12, <1>13, <1>14 DEF Next, Serve

\* The runs, in every state.
LEMMA Runs == Spec => [](TypeOK /\ RunInv)
<1>1. Init => RunInv
  <2> SUFFICES ASSUME Init PROVE RunInv
    OBVIOUS
  <2>1. Len(<<>>) = 0 /\ Distinct(<<>>) /\ Run(<<>>, 0)
    BY DEF Distinct, Run
  <2>2. Least(0, StoreSize) = 0 /\ Least(0, ReplayLimit) = 0
    BY SizesAssumption DEF Least
  <2> QED
    BY <2>1, <2>2 DEF Init, RunInv, RunsOf
<1>2. RunInv /\ TypeOK /\ TypeOK' /\ [Next]_vars => RunInv'
  BY RunStep
<1> QED
  BY <1>1, <1>2, Typing, PTL DEF Spec

-----------------------------------------------------------------------------
(* What the view of a client that reads alone ends with.                   *)

\* The first event that a stream opened after event j replays.
Low(j) == j - Least(j, ReplayLimit) + 1

\* The events that are replayed and not yet delivered once more, d delivered.
Middle(d, j) == IF d >= j THEN 0
                ELSE IF d + 1 < Low(j) THEN j - Low(j) + 1 ELSE j - d

\* The view of a stream that opened after event j with s events delivered, when d
\* are: from the newest, those delivered since it opened, then those replayed and
\* not yet delivered, then those replayed that were delivered before.
Expected(s, d, j) ==
    [k \in Nat |-> IF k < d - s THEN d - k
                   ELSE IF k < d - s + Middle(d, j) THEN j - (k - (d - s))
                   ELSE s - (k - (d - s) - Middle(d, j))]

\* How many that are.
Extent(s, d, j) == d - s + Middle(d, j) + (IF s < Low(j) THEN 0 ELSE s - Low(j) + 1)

\* The view during the replay, of which event r was the last.
Downwards(r) == [k \in Nat |-> r - k]

\* The client has the stream to itself.
Alone(c) == opened = {c} /\ lost = {}

\* A view with all of a replay shown but the last l events, of a stream that was
\* opened after event j.
ReplayedBut(v, l, j) == Ends(v, Downwards(j - l), j - l - Low(j) + 1)

\* A stream that replays has shown its replay so far, and nothing was delivered.
ReplayShown(c) ==
    /\ Delivered <= joined[c]
    /\ ReplayedBut(view[c], Len(replay[c]), joined[c])

\* A live stream shows its replay and what was delivered since.
LiveShown(c) ==
    \E s \in 0 .. joined[c] :
        /\ s <= Delivered
        /\ Ends(view[c], Expected(s, Delivered, joined[c]), Extent(s, Delivered, joined[c]))

ViewInv ==
    \A c \in Clients :
        Alone(c) => /\ stream[c] = "replay" => ReplayShown(c)
                    /\ stream[c] = "live" => LiveShown(c)

\* A replay begins at an event, and not before the first.
LEMMA LowBound ==
    ASSUME NEW j \in Nat
    PROVE  Low(j) \in Nat /\ 1 <= Low(j) /\ Low(j) <= j + 1
BY SizesAssumption DEF Low, Least

\* The next event of the replay comes on top.
LEMMA ReplayOn ==
    ASSUME NEW S, NEW v \in Seq(S), NEW w \in Seq(S), NEW r \in Nat, NEW p,
           Moved(v, w, r + 1, p), NEW m \in Nat, Ends(v, Downwards(r), m)
    PROVE  Ends(w, Downwards(r + 1), m + 1)
<1> DEFINE E == Downwards(r)
           F == Downwards(r + 1)
<1>1. \A k \in 0 .. m - 1 : E[k] # r + 1
  BY DEF Downwards
<1>2. F[0] = r + 1 /\ \A k \in 1 .. m : F[k] = E[k - 1]
  BY DEF Downwards
<1> QED
  BY <1>1, <1>2, ShowAnew

\* What a replay leaves is what a live stream begins with.
LEMMA ReplayEnds ==
    ASSUME NEW j \in Nat, NEW s \in 0 .. j
    PROVE  /\ Extent(s, s, j) = j - Low(j) + 1
           /\ \A k \in 0 .. j - Low(j) : Expected(s, s, j)[k] = Downwards(j)[k]
<1>1. Low(j) \in Nat /\ 1 <= Low(j) /\ Low(j) <= j + 1
  BY LowBound
<1> DEFINE l == Low(j)
<1> HIDE DEF l
<1>2. Middle(s, j) = IF s >= j THEN 0 ELSE IF s + 1 < l THEN j - l + 1 ELSE j - s
  BY DEF Middle, l
<1>3. l \in Nat /\ 1 <= l /\ l <= j + 1
  BY <1>1 DEF l
<1>4. Extent(s, s, j) = s - s + Middle(s, j) + (IF s < l THEN 0 ELSE s - l + 1)
  BY DEF Extent, l
<1>5. Extent(s, s, j) = j - l + 1
  BY <1>2, <1>3, <1>4
<1>6. ASSUME NEW k \in 0 .. j - l
      PROVE  Expected(s, s, j)[k] = j - k
  <2>1. k \in Nat
    BY <1>3
  <2>2. Expected(s, s, j)[k] =
          IF k < s - s THEN s - k
          ELSE IF k < s - s + Middle(s, j) THEN j - (k - (s - s))
          ELSE s - (k - (s - s) - Middle(s, j))
    BY <2>1 DEF Expected
  <2> QED
    BY <1>2, <1>3, <2>1, <2>2
<1>7. \A k \in 0 .. j - l : Downwards(j)[k] = j - k
  BY <1>3 DEF Downwards
<1> QED
  BY <1>5, <1>6, <1>7 DEF l

\* A delivered event that the replay has not shown comes on top.
LEMMA DeliverAnew ==
    ASSUME NEW S, NEW v \in Seq(S), NEW w \in Seq(S), NEW p,
           NEW j \in Nat, NEW s \in 0 .. j, NEW d \in Nat, s <= d,
           Moved(v, w, d + 1, p), Ends(v, Expected(s, d, j), Extent(s, d, j)),
           d + 1 > j \/ d + 1 < Low(j)
    PROVE  Ends(w, Expected(s, d + 1, j), Extent(s, d + 1, j))
<1> DEFINE l == Low(j)
           M == Middle(d, j)
           m == Extent(s, d, j)
           E == Expected(s, d, j)
           F == Expected(s, d + 1, j)
<1>1. l \in Nat /\ 1 <= l /\ l <= j + 1
  BY LowBound
<1>2. M = (IF d >= j THEN 0 ELSE IF d + 1 < l THEN j - l + 1 ELSE j - d)
  BY DEF Middle
<1>3. Middle(d + 1, j) = (IF d + 1 >= j THEN 0 ELSE IF d + 1 + 1 < l THEN j - l + 1 ELSE j - (d + 1))
  BY DEF Middle
<1>4. m = d - s + M + (IF s < l THEN 0 ELSE s - l + 1)
  BY DEF Extent
<1>5. Extent(s, d + 1, j) = d + 1 - s + Middle(d + 1, j) + (IF s < l THEN 0 ELSE s - l + 1)
  BY DEF Extent
<1>6. \A k \in Nat : E[k] = IF k < d - s THEN d - k
                            ELSE IF k < d - s + M THEN j - (k - (d - s))
                            ELSE s - (k - (d - s) - M)
  BY DEF Expected
<1>7. \A k \in Nat : F[k] = IF k < d + 1 - s THEN d + 1 - k
                            ELSE IF k < d + 1 - s + Middle(d + 1, j) THEN j - (k - (d + 1 - s))
                            ELSE s - (k - (d + 1 - s) - Middle(d + 1, j))
  BY DEF Expected
<1>8. d + 1 > j \/ d + 1 < l
  OBVIOUS
<1> HIDE DEF l, M, m, E, F
<1>9. Middle(d + 1, j) = M
  BY <1>1, <1>2, <1>3, <1>8
<1>10. m \in Nat /\ Extent(s, d + 1, j) = m + 1 /\ M \in Nat
  <2>1. M \in Nat
    BY <1>1, <1>2, <1>9
  <2>2. m \in Nat
    BY <1>1, <1>4, <2>1
  <2>3. Extent(s, d + 1, j) = m + 1
    BY <1>1, <1>4, <1>5, <1>9, <2>1
  <2> QED
    BY <2>1, <2>2, <2>3
<1>11. ASSUME NEW k \in 0 .. m - 1
       PROVE  E[k] # d + 1
  <2>1. k \in Nat /\ k < m
    BY <1>10
  <2> QED
    BY <1>1, <1>2, <1>4, <1>6, <1>8, <1>10, <2>1
<1>12. F[0] = d + 1
  BY <1>7
<1>13. ASSUME NEW k \in 1 .. m
       PROVE  F[k] = E[k - 1]
  <2>1. k \in Nat /\ k - 1 \in Nat
    BY <1>10
  <2>2. E[k - 1] = IF k - 1 < d - s THEN d - (k - 1)
                   ELSE IF k - 1 < d - s + M THEN j - (k - 1 - (d - s))
                   ELSE s - (k - 1 - (d - s) - M)
    BY <1>6, <2>1
  <2>3. F[k] = IF k < d + 1 - s THEN d + 1 - k
               ELSE IF k < d + 1 - s + M THEN j - (k - (d + 1 - s))
               ELSE s - (k - (d + 1 - s) - M)
    BY <1>7, <1>9, <2>1
  <2> QED
    BY <1>10, <2>1, <2>2, <2>3
<1>14. Moved(v, w, d + 1, p) /\ Ends(v, E, m)
  BY DEF E, m
<1>15. Ends(w, F, m + 1)
  BY <1>10, <1>11, <1>12, <1>13, <1>14, ShowAnew
<1> QED
  BY <1>10, <1>15 DEF F

\* A delivered event that the replay has shown moves from the end of the middle part.
LEMMA DeliverAgain ==
    ASSUME NEW S, NEW v \in Seq(S), NEW w \in Seq(S), NEW p, Distinct(v), Len(v) <= ViewSize,
           NEW j \in Nat, NEW s \in 0 .. j, NEW d \in Nat, s <= d,
           Moved(v, w, d + 1, p), Ends(v, Expected(s, d, j), Extent(s, d, j)),
           d + 1 <= j, Low(j) <= d + 1
    PROVE  Ends(w, Expected(s, d + 1, j), Extent(s, d + 1, j))
<1> DEFINE l == Low(j)
           m == Extent(s, d, j)
           E == Expected(s, d, j)
           F == Expected(s, d + 1, j)
           q == j - s - 1
<1>1. l \in Nat /\ 1 <= l /\ l <= d + 1
  BY LowBound
<1>2. Middle(d, j) = j - d
  BY <1>1 DEF Middle
<1>3. Middle(d + 1, j) = j - (d + 1)
  BY <1>1 DEF Middle
<1>4. m = j - s + (IF s < l THEN 0 ELSE s - l + 1)
  BY <1>2 DEF Extent
<1>5. Extent(s, d + 1, j) = j - s + (IF s < l THEN 0 ELSE s - l + 1)
  BY <1>3 DEF Extent
<1>6. \A k \in Nat : E[k] = IF k < d - s THEN d - k
                            ELSE IF k < d - s + (j - d) THEN j - (k - (d - s))
                            ELSE s - (k - (d - s) - (j - d))
  BY <1>2 DEF Expected
<1>7. \A k \in Nat : F[k] = IF k < d + 1 - s THEN d + 1 - k
                            ELSE IF k < d + 1 - s + (j - (d + 1)) THEN j - (k - (d + 1 - s))
                            ELSE s - (k - (d + 1 - s) - (j - (d + 1)))
  BY <1>3 DEF Expected
<1>8. d + 1 <= j
  OBVIOUS
<1> HIDE DEF l, m, E, F, q
<1>9. m \in Nat /\ q \in 0 .. m - 1 /\ q = j - s - 1
  BY <1>1, <1>4, <1>8 DEF q
<1>10. E[q] = d + 1
  <2>1. q \in Nat
    BY <1>9
  <2> QED
    BY <1>6, <1>8, <1>9, <2>1
<1>11. ASSUME NEW k \in 0 .. m - 1, k # q
       PROVE  E[k] # d + 1
  <2>1. k \in Nat
    BY <1>9
  <2> QED
    BY <1>6, <1>8, <1>9, <1>11, <2>1
<1>12. F[0] = d + 1
  BY <1>7
<1>13. ASSUME NEW k \in 1 .. q
       PROVE  F[k] = E[k - 1]
  <2>1. k \in Nat /\ k - 1 \in Nat /\ k <= j - s - 1
    BY <1>9
  <2> QED
    BY <1>6, <1>7, <1>8, <2>1
<1>14. ASSUME NEW k \in q + 1 .. m - 1
       PROVE  F[k] = E[k]
  <2>1. k \in Nat /\ k >= j - s
    BY <1>9
  <2> QED
    BY <1>6, <1>7, <1>8, <2>1
<1>15. Moved(v, w, d + 1, p) /\ Ends(v, E, m)
  BY DEF E, m
<1>16. /\ m \in Nat /\ q \in 0 .. m - 1 /\ E[q] = d + 1
       /\ \A k \in 0 .. m - 1 : k # q => E[k] # d + 1
       /\ F[0] = d + 1
       /\ \A k \in 1 .. q : F[k] = E[k - 1]
       /\ \A k \in q + 1 .. m - 1 : F[k] = E[k]
  BY <1>9, <1>10, <1>11, <1>12, <1>13, <1>14
<1>17. Ends(w, F, m)
  BY <1>15, <1>16, ShowAgain
<1>18. Extent(s, d + 1, j) = m
  BY <1>4, <1>5
<1> QED
  BY <1>17, <1>18 DEF F

\* What a step does to a client that keeps its stream, its replay and its view.
LEMMA ShownKept ==
    ASSUME NEW c \in Clients, Delivered' = Delivered,
           stream'[c] = stream[c], replay'[c] = replay[c], view'[c] = view[c],
           joined'[c] = joined[c],
           (stream[c] = "replay" => ReplayShown(c)) /\ (stream[c] = "live" => LiveShown(c))
    PROVE  (stream[c] = "replay" => ReplayShown(c))' /\ (stream[c] = "live" => LiveShown(c))'
BY DEF ReplayShown, LiveShown

\* A client that opens a stream has shown nothing of its replay.
LEMMA ConnectShows ==
    ASSUME TypeOK, RunInv, NEW c \in Clients, Connect(c)
    PROVE  ReplayShown(c)'
<1>1. /\ published' = published /\ queue' = queue
      /\ replay'[c] = LastOf(store, ReplayLimit)
      /\ joined'[c] = published
      /\ view' = view
  BY DEF Connect, server, TypeOK
<1>2. /\ published \in Nat /\ store \in Seq(Numbers) /\ Len(queue) \in Nat
      /\ StoreSize \in Nat /\ ReplayLimit \in Nat /\ ReplayLimit <= StoreSize
      /\ ViewSize \in Nat /\ Len(view[c]) \in Nat
  BY SizesAssumption DEF TypeOK
<1>3. Len(LastOf(store, ReplayLimit)) = Least(Len(store), ReplayLimit)
  BY <1>2, LastOfKeeps
<1>4. Len(store) = Least(published, StoreSize) /\ Len(queue) <= published
  BY DEF RunInv
<1>5. Len(LastOf(store, ReplayLimit)) = Least(published, ReplayLimit)
  BY <1>2, <1>3, <1>4 DEF Least
<1>6. published - Least(published, ReplayLimit) - Low(published) + 1 = 0
  BY <1>2 DEF Low, Least
<1>7. Ends(view[c], Downwards(published - Least(published, ReplayLimit)), 0)
  BY <1>2 DEF Ends, Least
<1>8. Delivered' <= published
  BY <1>1, <1>2 DEF Delivered
<1>9. ReplayedBut(view[c], Least(published, ReplayLimit), published)
  BY <1>6, <1>7 DEF ReplayedBut
<1> QED
  BY <1>1, <1>5, <1>8, <1>9 DEF ReplayShown

\* The replay goes on, or ends and the stream is live.
LEMMA ReplayShows ==
    ASSUME TypeOK, RunInv, NEW c \in Clients, Replay(c), ReplayShown(c)
    PROVE  (stream'[c] = "replay" => ReplayShown(c)') /\ (stream'[c] = "live" => LiveShown(c)')
<1>1. /\ stream[c] = "replay"
      /\ UNCHANGED <<published, queue, joined>>
  BY DEF Replay, server, history
<1>2. /\ published \in Nat /\ Len(queue) \in Nat /\ joined[c] \in Nat
      /\ replay[c] \in Seq(Numbers) /\ Len(replay[c]) \in Nat
      /\ view[c] \in Seq(Numbers) /\ Len(view[c]) <= ViewSize
      /\ ReplayLimit \in Nat
  BY SizesAssumption DEF TypeOK
<1>3. Delivered' = Delivered /\ Delivered \in Int
  BY <1>1, <1>2 DEF Delivered
<1>4. RunsOf(c) /\ Len(queue) <= published
  BY DEF RunInv
<1> DEFINE j == joined[c]
           r == j - Len(replay[c])
           m == r - Low(j) + 1
<1>5. Delivered <= j /\ Ends(view[c], Downwards(r), m)
  BY DEF ReplayShown, ReplayedBut
<1>6. Low(j) \in Nat /\ Low(j) = j - Least(j, ReplayLimit) + 1
  BY <1>2, LowBound DEF Low
<1>7. Len(replay[c]) <= Least(j, ReplayLimit) /\ Least(j, ReplayLimit) <= j
  BY <1>2, <1>4 DEF RunsOf, Least
<1>8. r \in Nat /\ m \in Nat
  <2>1. Least(j, ReplayLimit) \in Nat
    BY <1>2 DEF Least
  <2> QED
    BY <1>2, <1>6, <1>7, <2>1
<1>9. CASE replay[c] = <<>>
  <2>1. /\ stream'[c] = "live" /\ view'[c] = view[c] /\ joined'[c] = j
    BY <1>1, <1>9 DEF Replay, TypeOK
  <2>2. r = j /\ m = j - Low(j) + 1
    BY <1>2, <1>9
  <2>3. Delivered \in 0 .. j
    BY <1>2, <1>3, <1>4, <1>5 DEF Delivered
  <2>4. /\ Extent(Delivered, Delivered, j) = j - Low(j) + 1
        /\ \A k \in 0 .. j - Low(j) : Expected(Delivered, Delivered, j)[k] = Downwards(j)[k]
    BY <1>2, <2>3, ReplayEnds
  <2>5. Ends(view[c], Downwards(j), j - Low(j) + 1)
    BY <1>5, <2>2
  <2>6. Ends(view[c], Expected(Delivered, Delivered, j), Extent(Delivered, Delivered, j))
    <3>1. ASSUME NEW k \in 0 .. Len(view[c]) - 1, k < j - Low(j) + 1
          PROVE  Recent(view[c], k) = Expected(Delivered, Delivered, j)[k]
      <4>1. k \in 0 .. j - Low(j)
        BY <1>2, <1>6, <3>1
      <4>2. Recent(view[c], k) = Downwards(j)[k]
        BY <2>5, <3>1 DEF Ends
      <4> QED
        BY <2>4, <4>1, <4>2
    <3>2. Len(view[c]) >= Least(j - Low(j) + 1, ViewSize)
      BY <2>5 DEF Ends
    <3> QED
      BY <2>4, <3>1, <3>2 DEF Ends
  <2>7. /\ Delivered \in 0 .. joined'[c] /\ Delivered <= Delivered'
        /\ Ends(view'[c], Expected(Delivered, Delivered', joined'[c]),
                Extent(Delivered, Delivered', joined'[c]))
    BY <1>3, <2>1, <2>3, <2>6
  <2>8. LiveShown(c)'
    BY <2>7 DEF LiveShown
  <2> QED
    BY <2>1, <2>8
<1>10. CASE replay[c] # <<>>
  <2>1. /\ replay'[c] = Tail(replay[c])
        /\ view'[c] = Show(view[c], Head(replay[c]))
        /\ stream'[c] = "replay" /\ joined'[c] = j
    BY <1>1, <1>10 DEF Replay, TypeOK
  <2>2. Head(replay[c]) = r + 1 /\ Head(replay[c]) \in Numbers /\ Len(Tail(replay[c])) = Len(replay[c]) - 1
    BY <1>2, <1>4, <1>10, RunRest, FirstAndRest DEF RunsOf
  <2>3. Show(view[c], r + 1) \in Seq(Numbers)
    BY <1>2, <2>2, ShowMoves
  <2>4. PICK p \in 0 .. Len(view[c]) : Moved(view[c], Show(view[c], r + 1), r + 1, p)
    BY <1>2, <2>2, ShowMoves
  <2>5. Ends(Show(view[c], r + 1), Downwards(r + 1), m + 1)
    <3> HIDE DEF r, m
    <3> QED
      BY <1>2, <1>5, <1>8, <2>3, <2>4, ReplayOn
  <2>6. ReplayedBut(Show(view[c], r + 1), Len(replay[c]) - 1, j)
    <3>1. j - (Len(replay[c]) - 1) = r + 1 /\ r + 1 - Low(j) + 1 = m + 1
      BY <1>2, <1>6
    <3>2. j - (Len(replay[c]) - 1) - Low(j) + 1 = m + 1
      BY <1>2, <1>6
    <3>3. Ends(Show(view[c], r + 1), Downwards(j - (Len(replay[c]) - 1)),
               j - (Len(replay[c]) - 1) - Low(j) + 1)
      BY <2>5, <3>1, <3>2
    <3> QED
      BY <3>3 DEF ReplayedBut
  <2>7. Delivered' <= joined'[c]
    BY <1>3, <1>5, <2>1
  <2>8. ReplayShown(c)'
    BY <2>1, <2>2, <2>6, <2>7 DEF ReplayShown
  <2> QED
    BY <2>1, <2>8
<1> QED
  BY <1>9, <1>10

\* A delivery to a live stream.
LEMMA DeliverShows ==
    ASSUME TypeOK, RunInv, NEW c \in Clients, Deliver(c), LiveShown(c)
    PROVE  stream'[c] = "live" /\ LiveShown(c)'
<1>1. /\ stream'[c] = "live" /\ queue # <<>>
      /\ published' = published /\ queue' = Tail(queue) /\ joined' = joined
      /\ view'[c] = Show(view[c], Head(queue))
  BY DEF Deliver, history, TypeOK
<1>2. /\ published \in Nat /\ queue \in Seq(Numbers) /\ Len(queue) \in Nat /\ joined[c] \in Nat
      /\ view[c] \in Seq(Numbers) /\ Len(view[c]) <= ViewSize
  BY DEF TypeOK
<1>3. Run(queue, published) /\ Len(queue) <= published /\ Distinct(view[c])
  BY DEF RunInv, RunsOf
<1> DEFINE d == Delivered
           j == joined[c]
           w == Show(view[c], d + 1)
<1>4. /\ Head(queue) = d + 1 /\ d + 1 \in Numbers
      /\ Len(Tail(queue)) = Len(queue) - 1
      /\ d \in Nat
  BY <1>1, <1>2, <1>3, RunRest, FirstAndRest DEF Delivered
<1>5. Delivered' = d + 1
  BY <1>1, <1>2, <1>4 DEF Delivered
<1>6. PICK s \in 0 .. j : s <= d /\ Ends(view[c], Expected(s, d, j), Extent(s, d, j))
  BY DEF LiveShown
<1> HIDE DEF d, j
<1>7. w \in Seq(Numbers)
  BY <1>2, <1>4, ShowMoves
<1>8. PICK p \in 0 .. Len(view[c]) : Moved(view[c], w, d + 1, p)
  BY <1>2, <1>4, ShowMoves
<1> HIDE DEF w
<1>9. Ends(w, Expected(s, d + 1, j), Extent(s, d + 1, j))
  <2>1. j \in Nat /\ Low(j) \in Nat
    BY <1>2, LowBound DEF j
  <2>2. CASE d + 1 > j \/ d + 1 < Low(j)
    BY <1>2, <1>4, <1>6, <1>7, <1>8, <2>1, <2>2, DeliverAnew
  <2>3. CASE d + 1 <= j /\ Low(j) <= d + 1
    BY <1>2, <1>3, <1>4, <1>6, <1>7, <1>8, <2>1, <2>3, DeliverAgain
  <2> QED
    BY <1>4, <2>1, <2>2, <2>3
<1>10. /\ s \in 0 .. joined'[c] /\ s <= Delivered'
       /\ Ends(view'[c], Expected(s, Delivered', joined'[c]), Extent(s, Delivered', joined'[c]))
  BY <1>1, <1>4, <1>5, <1>6, <1>9 DEF j, w
<1> QED
  BY <1>1, <1>10 DEF LiveShown

\* A step keeps what the views show.
LEMMA ViewStep ==
    ASSUME TypeOK, RunInv, ViewInv, [Next]_vars
    PROVE  ViewInv'
<1> SUFFICES ASSUME NEW c \in Clients, Alone(c)'
             PROVE  (stream[c] = "replay" => ReplayShown(c))' /\ (stream[c] = "live" => LiveShown(c))'
  BY DEF ViewInv
<1>1. opened' = {c} /\ lost' = {}
  BY DEF Alone
<1>2. Alone(c) => /\ stream[c] = "replay" => ReplayShown(c)
                  /\ stream[c] = "live" => LiveShown(c)
  BY DEF ViewInv
<1>3. \A e \in Clients : stream[e] # "none" => e \in opened
  BY DEF RunInv, RunsOf
<1>4. CASE Publish
  <2>1. Alone(c)
    BY <1>1, <1>4 DEF Alone, Publish, history
  <2>2. Delivered' = Delivered
    <3>1. published \in Nat /\ queue \in Seq(Numbers)
      BY DEF TypeOK
    <3>2. Len(queue') = Len(queue) + 1 /\ Len(queue) \in Nat
      BY <1>4, <3>1 DEF Publish
    <3> QED
      BY <1>4, <3>1, <3>2 DEF Publish, Delivered
  <2> QED
    BY <1>2, <1>4, <2>1, <2>2, ShownKept DEF Publish, history
<1>5. ASSUME NEW e \in Clients, Connect(e)
      PROVE  (stream[c] = "replay" => ReplayShown(c))' /\ (stream[c] = "live" => LiveShown(c))'
  <2>1. e = c
    BY <1>1, <1>5 DEF Connect
  <2>2. stream'[c] = "replay"
    BY <1>5, <2>1 DEF Connect, TypeOK
  <2> QED
    BY <1>5, <2>1, <2>2, ConnectShows
<1>6. ASSUME NEW e \in Clients, Replay(e)
      PROVE  (stream[c] = "replay" => ReplayShown(c))' /\ (stream[c] = "live" => LiveShown(c))'
  <2>1. Alone(c)
    BY <1>1, <1>6 DEF Alone, Replay, history
  <2>2. e = c /\ stream[c] = "replay"
    BY <1>3, <1>6, <2>1 DEF Alone, Replay
  <2> QED
    BY <1>2, <1>6, <2>1, <2>2, ReplayShows
<1>7. ASSUME NEW e \in Clients, Deliver(e)
      PROVE  (stream[c] = "replay" => ReplayShown(c))' /\ (stream[c] = "live" => LiveShown(c))'
  <2>1. Alone(c)
    BY <1>1, <1>7 DEF Alone, Deliver, history
  <2>2. e = c /\ stream[c] = "live"
    BY <1>3, <1>7, <2>1 DEF Alone, Deliver
  <2> QED
    BY <1>2, <1>7, <2>1, <2>2, DeliverShows
<1>8. ASSUME NEW e \in Clients, Leave(e)
      PROVE  (stream[c] = "replay" => ReplayShown(c))' /\ (stream[c] = "live" => LiveShown(c))'
  <2>1. Alone(c)
    BY <1>1, <1>8 DEF Alone, Leave, history
  <2>2. e = c
    BY <1>3, <1>8, <2>1 DEF Alone, Leave
  <2>3. stream'[c] = "none"
    BY <1>8, <2>2 DEF Leave, TypeOK
  <2> QED
    BY <2>3
<1>9. CASE DeliverToDead
  BY <1>1, <1>9 DEF DeliverToDead
<1>10. CASE Notice
  <2>1. Alone(c) /\ Delivered' = Delivered
    BY <1>1, <1>10 DEF Alone, Delivered, Notice, server, history
  <2> QED
    BY <1>2, <1>10, <2>1, ShownKept DEF Notice, history
<1>11. CASE UNCHANGED vars
  <2>1. Alone(c) /\ Delivered' = Delivered
    BY <1>1, <1>11 DEF Alone, Delivered, vars, server, history
  <2> QED
    BY <1>2, <1>11, <2>1, ShownKept DEF vars, history
<1> QED
  BY <1>4, <1>5, <1>6, <1>7, <1>8, <1>9, <1>10, <1>11 DEF Next, Serve

\* With the queue drained, a live view ends with the events the client is due.
LEMMA Drained ==
    ASSUME NEW n \in Nat, NEW j \in 0 .. n, NEW s \in 0 .. j
    PROVE  /\ n - Low(j) + 1 <= Extent(s, n, j)
           /\ \A k \in 0 .. n - Low(j) : Expected(s, n, j)[k] = n - k
<1>1. Low(j) \in Nat /\ 1 <= Low(j) /\ Low(j) <= j + 1
  BY LowBound
<1> DEFINE l == Low(j)
<1>2. Middle(n, j) = 0
  BY DEF Middle
<1>3. Extent(s, n, j) = n - s + (IF s < l THEN 0 ELSE s - l + 1)
  BY <1>2 DEF Extent
<1> HIDE DEF l
<1>4. l \in Nat /\ 1 <= l /\ l <= j + 1
  BY <1>1 DEF l
<1>5. ASSUME NEW k \in 0 .. n - l
      PROVE  Expected(s, n, j)[k] = n - k
  <2>1. k \in Nat
    BY <1>4
  <2>2. Expected(s, n, j)[k] = IF k < n - s THEN n - k
                               ELSE IF k < n - s + 0 THEN j - (k - (n - s))
                               ELSE s - (k - (n - s) - 0)
    BY <1>2, <2>1 DEF Expected
  <2> QED
    BY <2>1, <2>2
<1> QED
  BY <1>3, <1>4, <1>5 DEF l

\* Equal lists.
LEMMA SameList ==
    ASSUME NEW S, NEW T, NEW v \in Seq(S), NEW w \in Seq(T), Len(v) = Len(w),
           \A i \in 1 .. Len(v) : v[i] = w[i]
    PROVE  v = w
OBVIOUS

\* What the views show when a client is alone, live and the queue is empty.
LEMMA Settled ==
    ASSUME TypeOK, RunInv, ViewInv
    PROVE  SettledView
<1> SUFFICES ASSUME NEW c \in Clients, opened = {c}, lost = {}, stream[c] = "live", queue = <<>>
             PROVE  LastOf(view[c], Due(c)) =
                      LastOf(LastOf([n \in 1 .. published |-> n], ViewSize), Due(c))
  BY DEF SettledView
<1> DEFINE n == published
           j == joined[c]
           v == view[c]
           b == Due(c)
           all == [i \in 1 .. n |-> i]
           x == LastOf(all, ViewSize)
           y == LastOf(x, b)
           u == LastOf(v, b)
<1>1. /\ n \in Nat /\ j \in 0 .. n /\ v \in Seq(Numbers) /\ Len(v) <= ViewSize
      /\ Len(v) \in Nat /\ ViewSize \in Nat /\ ReplayLimit \in Nat
  BY SizesAssumption DEF TypeOK, RunInv, RunsOf
<1>2. Delivered = n
  BY <1>1 DEF Delivered
<1>3. b = n - Low(j) + 1
  BY <1>1 DEF Due, Low, Least
<1>4. Low(j) \in Nat /\ 1 <= Low(j) /\ Low(j) <= j + 1
  <2>1. j \in Nat
    BY <1>1
  <2> HIDE DEF j
  <2> QED
    BY <2>1, LowBound
<1>5. b \in Nat /\ b <= n
  BY <1>1, <1>3, <1>4
<1>6. PICK s \in 0 .. j : Ends(v, Expected(s, n, j), Extent(s, n, j))
  BY <1>2 DEF ViewInv, Alone, LiveShown
<1>7. /\ b <= Extent(s, n, j)
      /\ \A k \in 0 .. n - Low(j) : Expected(s, n, j)[k] = n - k
  BY <1>1, <1>3, Drained
<1>8. all \in Seq(Nat) /\ Len(all) = n /\ \A i \in 1 .. n : all[i] = i
  BY <1>1
<1> HIDE DEF n, j, v, b, all, x, y, u
<1>9. /\ x \in Seq(Nat) /\ Len(x) = Least(n, ViewSize)
      /\ \A i \in 1 .. Len(x) : x[i] = all[n - Len(x) + i]
  BY <1>1, <1>8, LastOfKeeps DEF x
<1>10. /\ y \in Seq(Nat) /\ Len(y) = Least(Len(x), b)
       /\ \A i \in 1 .. Len(y) : y[i] = x[Len(x) - Len(y) + i]
  BY <1>5, <1>9, LastOfKeeps DEF y
<1>11. /\ u \in Seq(Numbers) /\ Len(u) = Least(Len(v), b)
       /\ \A i \in 1 .. Len(u) : u[i] = v[Len(v) - Len(u) + i]
  BY <1>1, <1>5, LastOfKeeps DEF u
<1>12. /\ Len(x) \in Nat /\ Len(x) <= n /\ Len(y) \in Nat /\ Len(y) <= Len(x)
       /\ Len(u) \in Nat /\ Len(u) <= Len(v) /\ Len(u) <= b
  BY <1>1, <1>5, <1>9, <1>10, <1>11 DEF Least
<1>13. Len(u) = Len(y)
  <2>1. Len(v) >= Least(Extent(s, n, j), ViewSize)
    BY <1>6 DEF Ends
  <2>2. Extent(s, n, j) \in Int
    BY <1>1, <1>4 DEF Extent, Middle
  <2>3. Len(v) >= Least(b, ViewSize)
    BY <1>1, <1>5, <1>7, <2>1, <2>2 DEF Least
  <2> QED
    BY <1>1, <1>5, <1>9, <1>10, <1>11, <2>3 DEF Least
<1>14. ASSUME NEW i \in 1 .. Len(u)
       PROVE  u[i] = y[i]
  <2>1. y[i] = n - Len(y) + i
    <3>1. Len(x) - Len(y) + i \in 1 .. Len(x)
      BY <1>12, <1>13
    <3>2. n - Len(x) + (Len(x) - Len(y) + i) = n - Len(y) + i
      BY <1>1, <1>12
    <3>3. n - Len(y) + i \in 1 .. n
      BY <1>1, <1>12, <1>13
    <3>4. i \in 1 .. Len(y)
      BY <1>13
    <3> QED
      BY <1>8, <1>9, <1>10, <3>1, <3>2, <3>3, <3>4
  <2>2. Len(u) - i \in 0 .. Len(v) - 1 /\ Len(u) - i \in 0 .. n - Low(j)
    BY <1>1, <1>3, <1>4, <1>12
  <2>3. Len(u) - i < Extent(s, n, j)
    <3>1. Extent(s, n, j) \in Int
      BY <1>1, <1>4 DEF Extent, Middle
    <3> QED
      BY <1>5, <1>7, <1>12, <3>1
  <2>4. Recent(v, Len(u) - i) = n - (Len(u) - i)
    BY <1>6, <1>7, <2>2, <2>3 DEF Ends
  <2>5. Len(v) - (Len(u) - i) = Len(v) - Len(u) + i
    BY <1>1, <1>12
  <2>6. u[i] = Recent(v, Len(u) - i)
    BY <1>11, <2>5 DEF Recent
  <2> QED
    BY <1>1, <1>12, <1>13, <2>1, <2>4, <2>6
<1>15. u = y
  BY <1>10, <1>11, <1>13, <1>14, SameList
<1> QED
  BY <1>15 DEF u, y, x, all, v, b, n

\* A dashboard that reads the stream alone shows, once the queue is drained, the
\* events it is due in order, each once and without a gap (EventStore.list, the
\* stream and the slice of App.tsx together).
THEOREM Settling == Spec => []SettledView
<1>1. Init => ViewInv
  BY DEF Init, ViewInv
<1>2. ViewInv /\ TypeOK /\ RunInv /\ [Next]_vars => ViewInv'
  BY ViewStep
<1>3. TypeOK /\ RunInv /\ ViewInv => SettledView
  BY Settled
<1> QED
  BY <1>1, <1>2, <1>3, Runs, PTL DEF Spec
=============================================================================
