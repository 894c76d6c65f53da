-------------------------- MODULE DirectToolsProofs --------------------------
(***************************************************************************)
(* Proofs about DirectTools, for every number of settings, keys and ports  *)
(* and every bound.                                                        *)
(***************************************************************************)
EXTENDS DirectTools, SequenceTheorems, TLAPS

-----------------------------------------------------------------------------
(* Types.                                                                  *)

\* TypeOK is not inductive by itself: that no sequence grows too long rests on
\* where each script stops reading.
ProvTyped ==
    /\ prov \in [at : {"login", "apply", "read", "done", "exited"}, warned : BOOLEAN,
                 read : Seq(Writers \union {Unread})]
    /\ Len(prov.read) <= Settings
    /\ prov.at \in {"login", "apply"} => prov.read = <<>>
    /\ prov.at = "read" => Len(prov.read) < Settings

MonTyped ==
    /\ mon \in [at : {"login", "relogin", "read", "rendered", "asleep", "exited"},
                row : Seq(Hooks \union {Empty})]
    /\ Len(mon.row) <= Keys
    /\ mon.at = "read" => Len(mon.row) < Keys
    /\ mon.at = "rendered" => Len(mon.row) = Keys

RestTyped ==
    /\ up \in BOOLEAN
    /\ session \in Clients \union {Nobody}
    /\ setting \in [1 .. Settings -> Writers]
    /\ hook \in [1 .. Ports -> Hooks]
    /\ had \in [1 .. Ports -> SUBSET Hooks]
    /\ intrusions \in 0 .. MaxIntrusions
    /\ turns \in 0 .. MaxTurns
    /\ faults \in 0 .. MaxFaults

Typed == ProvTyped /\ MonTyped /\ RestTyped

\* The types hold when the scripts start.
LEMMA TypedInit == Init => Typed
<1> SUFFICES ASSUME Init PROVE Typed
  OBVIOUS
<1>1. \A S : <<>> \in Seq(S) /\ Len(<<>>) = 0
  BY EmptySeq
<1>2. ProvTyped
  BY <1>1, BoundsAssumption DEF Init, ProvTyped
<1>3. MonTyped
  BY <1>1, BoundsAssumption DEF Init, MonTyped
<1>4. RestTyped
  BY BoundsAssumption DEF Init, RestTyped, Clients, Nobody, Writers, Hooks
<1>5. QED
  BY <1>2, <1>3, <1>4 DEF Typed

\* A step that makes a script move from one place to another, and empties the
\* sequence or leaves it as it was.
LEMMA ProvMoves ==
    ASSUME ProvTyped, NEW w \in BOOLEAN,
           \/ prov' = [prov EXCEPT !.at = "apply"] /\ prov.at = "login"
           \/ prov' = [prov EXCEPT !.at = "read", !.warned = w] /\ prov.at = "apply"
           \/ prov' = [prov EXCEPT !.at = "exited"]
    PROVE  ProvTyped'
<1>1. prov.at \in {"login", "apply"} => Len(prov.read) = 0
  BY EmptySeq DEF ProvTyped
<1>2. QED
  BY <1>1, BoundsAssumption DEF ProvTyped

\* provision_ht812.py keeps the types.
LEMMA TypedProvision == Typed /\ Provision => Typed'
<1> SUFFICES ASSUME Typed, Provision PROVE Typed'
  OBVIOUS
<1> USE BoundsAssumption
<1>1. CASE ProvLogin
  <2>1. ProvTyped'
    <3>1. \/ prov' = [prov EXCEPT !.at = "apply"] /\ prov.at = "login"
          \/ prov' = [prov EXCEPT !.at = "exited"]
      BY <1>1 DEF ProvLogin, Exit
    <3>2. QED
      BY <3>1, ProvMoves DEF Typed
  <2>2. RestTyped'
    BY <1>1 DEF Typed, RestTyped, ProvLogin, Fault, environment, Clients
  <2>3. QED
    BY <1>1, <2>1, <2>2 DEF Typed, MonTyped, ProvLogin
<1>2. CASE ProvApply
  <2>1. ProvTyped'
    <3>1. prov.warned \in BOOLEAN /\ prov = [prov EXCEPT !.warned = prov.warned]
      BY DEF Typed, ProvTyped
    <3>2. [prov EXCEPT !.at = "read"] = [prov EXCEPT !.at = "read", !.warned = prov.warned]
      BY DEF Typed, ProvTyped
    <3>3. /\ prov.at = "apply"
          /\ prov' \in {[prov EXCEPT !.at = "read"], [prov EXCEPT !.at = "exited"],
                        [prov EXCEPT !.at = "read", !.warned = TRUE]}
      BY <1>2 DEF ProvApply, Exit, Warn
    <3>4. QED
      BY <3>1, <3>2, <3>3, ProvMoves DEF Typed
  <2>2. RestTyped'
    BY <1>2 DEF Typed, RestTyped, ProvApply, Fault, Clients, Nobody, Writers
  <2>3. QED
    BY <1>2, <2>1, <2>2 DEF Typed, MonTyped, ProvApply
<1>3. CASE ProvRead
  <2> DEFINE v == IF session = "prov" THEN setting[Len(prov.read) + 1] ELSE Unread
  <2>1. prov.at = "read" /\ Len(prov.read) < Settings /\ Len(prov.read) \in Nat
    BY <1>3 DEF Typed, ProvTyped, ProvRead
  <2>2. CASE Take(v)
    <3>1. v \in Writers \union {Unread}
      BY <2>1 DEF Typed, RestTyped
    <3> HIDE DEF v
    <3>2. /\ Append(prov.read, v) \in Seq(Writers \union {Unread})
          /\ Len(Append(prov.read, v)) = Len(prov.read) + 1
      BY <3>1, AppendProperties DEF Typed, ProvTyped
    <3>3. prov' = [at |-> IF Len(prov.read) + 1 = Settings THEN "done" ELSE "read",
                   warned |-> prov.warned, read |-> Append(prov.read, v)]
      BY <2>2 DEF Take, Typed, ProvTyped
    <3> HIDE DEF v
    <3>4. ProvTyped'
      BY <2>1, <3>2, <3>3 DEF Typed, ProvTyped
    <3>5. QED
      BY <1>3, <3>4 DEF Typed, MonTyped, RestTyped, ProvRead, Fault, environment
  <2>3. CASE Exit
    <3>1. ProvTyped'
      BY <2>3, ProvMoves DEF Typed, Exit
    <3>2. QED
      BY <1>3, <3>1 DEF Typed, MonTyped, RestTyped, ProvRead, Fault, environment
  <2>4. QED
    BY <1>3, <2>2, <2>3 DEF ProvRead
<1>4. QED
  BY <1>1, <1>2, <1>3 DEF Provision

\* So does the monitor.
LEMMA TypedMonitor == Typed /\ Monitor => Typed'
<1> SUFFICES ASSUME Typed, Monitor PROVE Typed'
  OBVIOUS
<1> USE BoundsAssumption
<1>1. \A S : <<>> \in Seq(S) /\ Len(<<>>) = 0
  BY EmptySeq
<1>2. ASSUME Begin PROVE MonTyped' /\ had' \in [1 .. Ports -> SUBSET Hooks]
  BY <1>1, <1>2 DEF Begin, Typed, MonTyped, RestTyped
<1>3. ASSUME NEW at \in {"relogin", "asleep", "exited"},
             \/ mon' = [mon EXCEPT !.at = at]
             \/ mon' = [mon EXCEPT !.at = at, !.row = <<>>]
      PROVE  MonTyped'
  <2>1. PICK r \in {mon.row, <<>>} : mon' = [at |-> at, row |-> r]
    BY <1>3 DEF Typed, MonTyped
  <2>2. r \in Seq(Hooks \union {Empty}) /\ Len(r) <= Keys
    <3>1. <<>> \in Seq(Hooks \union {Empty}) /\ Len(<<>>) <= Keys
      BY <1>1
    <3>2. mon.row \in Seq(Hooks \union {Empty}) /\ Len(mon.row) <= Keys
      BY DEF Typed, MonTyped
    <3>3. QED
      BY <3>1, <3>2
  <2>3. QED
    BY <2>1, <2>2 DEF MonTyped
<1>4. CASE MonLogin
  <2>1. MonTyped' /\ had' \in [1 .. Ports -> SUBSET Hooks]
    BY <1>2, <1>3, <1>4 DEF MonLogin, Typed, RestTyped
  <2>2. RestTyped'
    BY <1>4, <2>1 DEF Typed, RestTyped, MonLogin, Fault, environment, Clients
  <2>3. QED
    BY <1>4, <2>1, <2>2 DEF Typed, ProvTyped, MonLogin
<1>5. CASE MonRead
  <2> DEFINE v == Value(Len(mon.row) + 1)
  <2>1. mon.at = "read" /\ Len(mon.row) < Keys /\ Len(mon.row) \in Nat
    BY <1>5 DEF Typed, MonTyped, MonRead
  <2>2. CASE Read(v)
    <3>1. v \in Hooks \union {Empty}
      BY <2>1 DEF Typed, RestTyped, Value, Hooks
    <3> HIDE DEF v
    <3>2. /\ Append(mon.row, v) \in Seq(Hooks \union {Empty})
          /\ Len(Append(mon.row, v)) = Len(mon.row) + 1
      BY <3>1, AppendProperties DEF Typed, MonTyped
    <3>3. mon' = [at |-> IF Len(mon.row) + 1 = Keys THEN "rendered" ELSE "read",
                  row |-> Append(mon.row, v)]
      BY <2>2 DEF Read, Typed, MonTyped
    <3>4. MonTyped'
      BY <2>1, <3>2, <3>3 DEF Typed, MonTyped
    <3>5. QED
      BY <1>5, <3>4 DEF Typed, ProvTyped, RestTyped, MonRead, Fault, environment
  <2>3. CASE \/ mon' = [mon EXCEPT !.at = "relogin", !.row = <<>>]
             \/ mon' = [mon EXCEPT !.at = "asleep", !.row = <<>>]
    <3>1. MonTyped'
      BY <1>3, <2>3
    <3>2. QED
      BY <1>5, <3>1 DEF Typed, ProvTyped, RestTyped, MonRead, Fault, environment
  <2>4. QED
    BY <1>5, <2>2, <2>3 DEF MonRead
<1>6. CASE MonWake
  BY <1>2, <1>6 DEF Typed, ProvTyped, RestTyped, MonWake, environment
<1>7. QED
  BY <1>4, <1>5, <1>6 DEF Monitor

\* The others change nothing of the scripts but their session.
LEMMA TypedStep == Typed /\ [Next]_vars => Typed'
<1> SUFFICES ASSUME Typed, [Next]_vars PROVE Typed'
  OBVIOUS
<1> USE BoundsAssumption DEF Typed, ProvTyped, MonTyped, RestTyped
<1>1. CASE Provision
  BY <1>1, TypedProvision
<1>2. CASE Monitor
  BY <1>2, TypedMonitor
<1>3. ASSUME NEW c \in {"api", "browser"}, Intrude(c) PROVE Typed'
  BY <1>3 DEF Intrude, Clients
<1>4. ASSUME NEW c \in {"api", "browser"}, Commit(c) PROVE Typed'
  BY <1>4 DEF Commit, Writers
<1>5. ASSUME NEW p \in 1 .. Ports, Turn(p) PROVE Typed'
  BY <1>5 DEF Turn, Hooks
<1>6. CASE GoDown
  <2>1. faults' \in 0 .. MaxFaults
    BY <1>6 DEF GoDown, Fault
  <2>2. UNCHANGED <<setting, hook, prov, mon, intrusions, turns, had>>
        /\ up' = FALSE /\ session' = Nobody
    BY <1>6 DEF GoDown
  <2>3. QED
    BY <2>1, <2>2
<1>7. CASE ComeUp
  BY <1>7 DEF ComeUp
<1>8. CASE UNCHANGED vars
  BY <1>8 DEF vars
<1>9. QED
  BY <1>1, <1>2, <1>3, <1>4, <1>5, <1>6, <1>7, <1>8 DEF Next

\* Every variable keeps the values the scripts and the device give it, for any number
\* of settings and of ports (_save_and_verify, DirectMonitor).
THEOREM Typing == Spec => []TypeOK
<1>1. Typed => TypeOK
  BY DEF Typed, ProvTyped, MonTyped, RestTyped, TypeOK
<1>2. QED
  BY <1>1, TypedInit, TypedStep, PTL DEF Spec

\* The same in parts, for the proofs below.
LEMMA AlwaysTyped == Spec => []Typed
BY TypedInit, TypedStep, PTL DEF Spec

-----------------------------------------------------------------------------
(* What provision_ht812.py has verified.                                   *)

\* As long as the script has its session since its commit, nobody else has
\* committed; without the session it reads nothing.
OwnReadBack ==
    prov.at \in {"read", "done"} /\ ~prov.warned =>
        /\ \A s \in DOMAIN prov.read : prov.read[s] \in {"prov", Unread}
        /\ prov.at = "read" /\ session = "prov" =>
              \A s \in 1 .. Settings : setting[s] = "prov"

\* Nobody but the script gets its session, and not while it reads.
LEMMA OwnReadBackStep == Typed /\ OwnReadBack /\ [Next]_vars => OwnReadBack'
<1> SUFFICES ASSUME Typed, OwnReadBack, [Next]_vars PROVE OwnReadBack'
  OBVIOUS
<1> USE BoundsAssumption
<1>1. CASE ProvLogin
  BY <1>1 DEF Typed, ProvTyped, MonTyped, RestTyped, OwnReadBack, ProvLogin, Exit
<1>2. CASE ProvApply
  <2>1. prov.read = <<>> /\ prov' \in {[prov EXCEPT !.at = "read"],
             [prov EXCEPT !.at = "read", !.warned = TRUE], [prov EXCEPT !.at = "exited"]}
    BY <1>2 DEF Typed, ProvTyped, ProvApply, Warn, Exit
  <2>2. DOMAIN prov'.read = {}
    <3>1. prov'.read = <<>>
      BY <2>1 DEF Typed, ProvTyped
    <3>2. QED
      BY <3>1, EmptySeq
  <2>3. prov'.at = "read" /\ ~prov'.warned => setting' = [s \in 1 .. Settings |-> "prov"]
    BY <1>2 DEF Typed, ProvTyped, MonTyped, RestTyped, ProvApply, Warn, Exit
  <2>4. QED
    BY <2>1, <2>2, <2>3 DEF Typed, ProvTyped, MonTyped, RestTyped, OwnReadBack
<1>3. CASE ProvRead
  <2> DEFINE v == IF session = "prov" THEN setting[Len(prov.read) + 1] ELSE Unread
  <2>1. CASE Take(v)
    <3>1. prov.at = "read" /\ Len(prov.read) + 1 \in 1 .. Settings
      BY <1>3 DEF Typed, ProvTyped, MonTyped, RestTyped, ProvRead
    <3>2. ~prov.warned => v \in {"prov", Unread}
      BY <3>1 DEF OwnReadBack
    <3>3. v \in Writers \union {Unread}
      BY <3>1 DEF Typed, ProvTyped, MonTyped, RestTyped
    <3> HIDE DEF v
    <3>4. /\ DOMAIN Append(prov.read, v) = 1 .. Len(prov.read) + 1
          /\ \A i \in 1 .. Len(prov.read) : Append(prov.read, v)[i] = prov.read[i]
          /\ Append(prov.read, v)[Len(prov.read) + 1] = v
          /\ DOMAIN prov.read = 1 .. Len(prov.read)
      BY <3>3, AppendProperties DEF Typed, ProvTyped, MonTyped, RestTyped
    <3>5. /\ prov'.read = Append(prov.read, v)
          /\ prov'.warned = prov.warned
      BY <2>1 DEF Take, Typed, ProvTyped, MonTyped, RestTyped
    <3>6. UNCHANGED <<session, setting>>
      BY <1>3 DEF ProvRead, environment
    <3>7. ~prov.warned =>
              \A s \in DOMAIN prov'.read : prov'.read[s] \in {"prov", Unread}
      BY <3>1, <3>2, <3>4, <3>5 DEF OwnReadBack, Typed, ProvTyped, MonTyped, RestTyped
    <3>8. QED
      BY <3>1, <3>5, <3>6, <3>7 DEF OwnReadBack
  <2>2. CASE Exit
    BY <2>2 DEF Exit, Typed, ProvTyped, MonTyped, RestTyped, OwnReadBack
  <2>3. QED
    BY <1>3, <2>1, <2>2 DEF ProvRead
<1>4. CASE MonLogin
  BY <1>4 DEF OwnReadBack, MonLogin, environment
<1>5. CASE MonRead \/ MonWake
  BY <1>5 DEF OwnReadBack, MonRead, MonWake, environment
<1>6. ASSUME NEW c \in {"api", "browser"}, Intrude(c) PROVE OwnReadBack'
  BY <1>6 DEF OwnReadBack, Intrude
<1>7. ASSUME NEW c \in {"api", "browser"}, Commit(c) PROVE OwnReadBack'
  BY <1>7 DEF OwnReadBack, Commit
<1>8. ASSUME NEW p \in 1 .. Ports, Turn(p) PROVE OwnReadBack'
  BY <1>8 DEF OwnReadBack, Turn
<1>9. CASE GoDown
  BY <1>9 DEF OwnReadBack, GoDown, Nobody
<1>10. CASE ComeUp
  BY <1>10 DEF OwnReadBack, ComeUp
<1>11. CASE UNCHANGED vars
  BY <1>11 DEF OwnReadBack, vars
<1>12. QED
  BY <1>1, <1>2, <1>3, <1>4, <1>5, <1>6, <1>7, <1>8, <1>9, <1>10, <1>11
     DEF Next, Provision, Monitor

\* A verification without a warning or a question mark is of the script's own
\* values (VerifiedMeansWritten).
THEOREM Verification == Spec => []VerifiedMeansWritten
<1>1. Init => OwnReadBack
  BY DEF Init, OwnReadBack
<1>2. OwnReadBack => VerifiedMeansWritten
  BY DEF OwnReadBack, VerifiedMeansWritten
<1>3. QED
  BY <1>1, <1>2, OwnReadBackStep, AlwaysTyped, PTL DEF Spec

-----------------------------------------------------------------------------
(* What the monitor shows.                                                 *)

\* The row holds hooks of the time since it was begun, as far as it has come.
RowSoFar ==
    /\ \A p \in 1 .. Ports : hook[p] \in had[p]
    /\ mon.at \in {"read", "rendered"} =>
          \A i \in DOMAIN mon.row : i <= Ports => mon.row[i] \in had[i]

\* The monitor adds to its row what the device has had since the pass began.
LEMMA RowSoFarStep == Typed /\ RowSoFar /\ [Next]_vars => RowSoFar'
<1> SUFFICES ASSUME Typed, RowSoFar, [Next]_vars PROVE RowSoFar'
  OBVIOUS
<1> USE BoundsAssumption
<1>1. CASE MonLogin
  BY <1>1 DEF Typed, ProvTyped, MonTyped, RestTyped, RowSoFar, MonLogin, Begin, environment
<1>2. CASE MonRead
  <2> DEFINE v == Value(Len(mon.row) + 1)
  <2>1. CASE Read(v)
    <3>1. mon.at = "read" /\ Len(mon.row) \in Nat
      BY <1>2 DEF Typed, ProvTyped, MonTyped, RestTyped, MonRead
    <3>2. Len(mon.row) + 1 <= Ports => v \in had[Len(mon.row) + 1]
      BY <3>1 DEF RowSoFar, Value
    <3>3. v \in Hooks \union {Empty}
      BY <3>1 DEF Typed, ProvTyped, MonTyped, RestTyped, Value, Hooks
    <3> HIDE DEF v
    <3>4. /\ DOMAIN Append(mon.row, v) = 1 .. Len(mon.row) + 1
          /\ \A i \in 1 .. Len(mon.row) : Append(mon.row, v)[i] = mon.row[i]
          /\ Append(mon.row, v)[Len(mon.row) + 1] = v
          /\ DOMAIN mon.row = 1 .. Len(mon.row)
      BY <3>3, AppendProperties DEF Typed, ProvTyped, MonTyped, RestTyped
    <3>5. mon'.row = Append(mon.row, v)
      BY <2>1 DEF Read, Typed, ProvTyped, MonTyped, RestTyped
    <3>6. UNCHANGED <<hook, had>>
      BY <1>2 DEF MonRead, environment
    <3>7. \A i \in DOMAIN mon'.row : i <= Ports => mon'.row[i] \in had[i]
      BY <3>1, <3>2, <3>4, <3>5 DEF RowSoFar
    <3>8. QED
      BY <3>6, <3>7 DEF RowSoFar
  <2>2. CASE mon'.at \in {"relogin", "asleep"}
    BY <1>2, <2>2 DEF RowSoFar, MonRead, environment
  <2>3. QED
    BY <1>2, <2>1, <2>2 DEF MonRead, Typed, ProvTyped, MonTyped, RestTyped
<1>3. CASE MonWake
  BY <1>3 DEF Typed, ProvTyped, MonTyped, RestTyped, RowSoFar, MonWake, Begin, environment
<1>4. CASE ProvLogin \/ ProvApply \/ ProvRead
  BY <1>4 DEF RowSoFar, ProvLogin, ProvApply, ProvRead, environment
<1>5. ASSUME NEW c \in {"api", "browser"}, Intrude(c) PROVE RowSoFar'
  BY <1>5 DEF RowSoFar, Intrude
<1>6. ASSUME NEW c \in {"api", "browser"}, Commit(c) PROVE RowSoFar'
  BY <1>6 DEF RowSoFar, Commit
<1>7. ASSUME NEW p \in 1 .. Ports, Turn(p) PROVE RowSoFar'
  <2>1. \A q \in 1 .. Ports : had[q] \subseteq had'[q] /\ hook'[q] \in had'[q]
    BY <1>7 DEF Typed, ProvTyped, MonTyped, RestTyped, RowSoFar, Turn, Hooks
  <2>2. \A i \in DOMAIN mon.row : i \in Nat /\ i >= 1
    BY DEF Typed, ProvTyped, MonTyped, RestTyped
  <2>3. QED
    BY <1>7, <2>1, <2>2 DEF RowSoFar, Turn
<1>8. CASE GoDown
  BY <1>8 DEF RowSoFar, GoDown
<1>9. CASE ComeUp
  BY <1>9 DEF RowSoFar, ComeUp
<1>10. CASE UNCHANGED vars
  BY <1>10 DEF RowSoFar, vars
<1>11. QED
  BY <1>1, <1>2, <1>3, <1>4, <1>5, <1>6, <1>7, <1>8, <1>9, <1>10
     DEF Next, Provision, Monitor

\* A row that is shown has no gap and nothing older than itself (RowsAreTrue).
THEOREM Rows == Spec => []RowsAreTrue
<1>1. Init => RowSoFar
  BY DEF Init, RowSoFar
<1>2. Typed /\ RowSoFar => RowsAreTrue
  <2> SUFFICES ASSUME Typed, RowSoFar, mon.at = "rendered", NEW p \in 1 .. Ports
               PROVE  mon.row[p] \in had[p]
    BY DEF RowsAreTrue
  <2>1. DOMAIN mon.row = 1 .. Keys
    BY DEF Typed, ProvTyped, MonTyped, RestTyped
  <2>2. p \in DOMAIN mon.row /\ p <= Ports
    BY <2>1, BoundsAssumption
  <2>3. QED
    BY <2>2 DEF RowSoFar
<1>3. QED
  BY <1>1, <1>2, RowSoFarStep, AlwaysTyped, PTL DEF Spec
=============================================================================
