---------------------------- MODULE Fleet_proofs ----------------------------
(***************************************************************************)
(* The types hold (TypeCorrect).  Once there is a channel, no two channels *)
(* are ever made for one day, whoever asks for them, whatever fails and    *)
(* however often the process is restarted (OneChannelPerDay), so that the  *)
(* fleet grows by at most one channel a day (OneADay).  A first start that *)
(* nobody interferes with opens at most Target channels, and the fleet     *)
(* grows by at most one a day from there (FirstStartGrowsDaily).           *)
(***************************************************************************)
EXTENDS Fleet, FiniteSetTheorems, SequenceTheorems, TLAPS

LEMMA NobodyCalls == Nobody \notin Callers
BY CallersAssumption DEF Callers

-----------------------------------------------------------------------------
(* Types                                                                   *)

\* No plan reaches into the future.
Planned == \A c \in Callers : \A d \in plan[c] : d <= today

LEMMA MaxOfBounded ==
    ASSUME NEW S \in SUBSET Int, S # {}, NEW hi \in Int, \A x \in S : x <= hi
    PROVE  Max(S) \in S /\ \A x \in S : x <= Max(S)
<1> DEFINE T == {hi - x : x \in S}
<1>1. T \subseteq Nat /\ T # {}
  <2>1. \A x \in S : hi - x \in Nat  OBVIOUS
  <2> QED  BY <2>1
<1>2. PICK m \in T : \A n \in T : ~(<<n, m>> \in OpToRel(<, Nat))
  BY <1>1, NatLessThanWellFounded, WFMin
<1>3. \A n \in T : m <= n
  <2>1. \A n \in T : ~(n < m)  BY <1>1, <1>2, Zenon DEF OpToRel
  <2> HIDE DEF T
  <2> QED  BY <1>1, <2>1
<1>4. \E x \in S : \A y \in S : x >= y
  <2>1. PICK x \in S : m = hi - x  OBVIOUS
  <2>2. \A y \in S : hi - x <= hi - y  BY <1>3, <2>1
  <2> QED  BY <2>2
<1> QED  BY <1>4 DEF Max

LEMMA InitTyping == ASSUME Init PROVE TypeOK /\ Planned
<1> USE DEF Init
<1>1. Cardinality(Founded) \in Nat  BY DaysAssumption, FS_CardinalityType
<1>2. channels \in [1 .. Cardinality(Founded) -> Int]
  BY DaysAssumption DEF Injection
<1>3. channels \in Seq(Int)  BY <1>1, <1>2, SeqDef
<1>4. TypeOK
  BY <1>3, DaysAssumption, MaxCrashAssumption DEF TypeOK, Pc
<1> QED  BY <1>4 DEF Planned

LEMMA StepTyping ==
    ASSUME TypeOK, Planned, [Next]_vars
    PROVE  (TypeOK /\ Planned)'
<1> USE DEF TypeOK, Planned, Goto, At, Pc
<1>1. ASSUME NEW c \in Callers, EnsureFleet(c) PROVE (TypeOK /\ Planned)'
  BY <1>1 DEF EnsureFleet
<1>2. ASSUME NEW c \in Callers, EnsureDailyChannel(c)
      PROVE  (TypeOK /\ Planned)'
  BY <1>2 DEF EnsureDailyChannel
<1>3. ASSUME NEW c \in Callers, Count(c) PROVE (TypeOK /\ Planned)'
  BY <1>3 DEF Count
<1>4. ASSUME NEW c \in Callers, List(c) PROVE (TypeOK /\ Planned)'
  <2>1. Missing(Range(channels)) \subseteq Int
        /\ \A d \in Missing(Range(channels)) : d <= today
    <3> DEFINE lo == today - Target - Cardinality(Range(channels))
    <3>1. Missing(Range(channels)) \subseteq lo .. today  BY DEF Missing
    <3> HIDE DEF lo
    <3> QED  BY <3>1
  <2> QED  BY <1>4, <2>1 DEF List
<1>5. ASSUME NEW c \in Callers, Check(c) PROVE (TypeOK /\ Planned)'
  <2>1. CASE plan[c] # {} /\ day' = [day EXCEPT ![c] = Max(plan[c])]
             /\ plan' = [plan EXCEPT ![c] = @ \ {Max(@)}]
             /\ Goto(c, "bootlock")
    <3>1. Max(plan[c]) \in plan[c]  BY <2>1, MaxOfBounded
    <3> QED  BY <1>5, <2>1, <3>1 DEF Check
  <2>2. CASE plan' = [plan EXCEPT ![c] = {}] /\ Goto(c, "day") /\ UNCHANGED day
    BY <1>5, <2>2 DEF Check
  <2> QED  BY <1>5, <2>1, <2>2 DEF Check
<1>6. ASSUME NEW c \in Callers, Lock(c) PROVE (TypeOK /\ Planned)'
  BY <1>6 DEF Lock
<1>7. ASSUME NEW c \in Callers, Exists(c) PROVE (TypeOK /\ Planned)'
  BY <1>7 DEF Exists
<1>8. ASSUME NEW c \in Callers, Create(c) PROVE (TypeOK /\ Planned)'
  BY <1>8 DEF Create, InBoot
<1>9. ASSUME NEW c \in Callers, Insert(c) PROVE (TypeOK /\ Planned)'
  BY <1>9 DEF Insert, InBoot
<1>10. ASSUME NEW c \in Callers, CreateFails(c) PROVE (TypeOK /\ Planned)'
  BY <1>10 DEF CreateFails, InBoot
<1>11. CASE Midnight  BY <1>11, DaysAssumption DEF Midnight
<1>12. CASE Restart
  BY <1>12, DaysAssumption, MaxCrashAssumption DEF Restart
<1>13. CASE UNCHANGED vars  BY <1>13 DEF vars
<1> QED
  BY <1>1, <1>2, <1>3, <1>4, <1>5, <1>6, <1>7, <1>8, <1>9, <1>10, <1>11,
     <1>12, <1>13 DEF Next, Begin, Continue

LEMMA Typing == Spec => [](TypeOK /\ Planned)
<1>1. Init => TypeOK /\ Planned  BY InitTyping
<1>2. TypeOK /\ Planned /\ [Next]_vars => (TypeOK /\ Planned)'  BY StepTyping
<1> QED  BY <1>1, <1>2, PTL DEF Spec

\* Every variable of the fleet has its type: only startup and the first upload
\* ever run EnsureFleet, the days of the rows are days, and the maximum of a
\* plan, when it is asked for, exists.
THEOREM TypeCorrect == Spec => []TypeOK
BY Typing, PTL

-----------------------------------------------------------------------------
(* A fleet that exists                                                     *)

\* A fleet that exists keeps every caller out of the bootstrap loop; who stands
\* between the check and the row holds s.mu, and the day is still free.
Grown ==
    /\ channels # <<>>
    /\ \A c \in Callers :
          pc[c] \notin {"list", "check", "bootlock", "bootcreate",
                        "bootinsert"}

Held == \A c \in Callers : pc[c] \in {"exists", "create", "insert"} => mu = c

Free ==
    \A c \in Callers :
        pc[c] \in {"create", "insert"} => day[c] \notin Range(channels)

IInv == TypeOK /\ Grown /\ Held /\ Free /\ OnePerDay

LEMMA InitInv == ASSUME Founded # {}, Init PROVE IInv
<1> USE DEF Init
<1>1. channels # <<>>
  <2>1. Cardinality(Founded) \in Nat \ {0}
    BY DaysAssumption, FS_CardinalityType, FS_EmptySet
  <2>2. DOMAIN channels = 1 .. Cardinality(Founded)  BY DEF Injection
  <2> QED  BY <2>1, <2>2
<1>2. IsInjective(channels)  BY DEF Injection
<1> QED  BY <1>1, <1>2, InitTyping DEF IInv, Grown, Held, Free, OnePerDay

\* What createChannelLocked appends keeps the days distinct.
LEMMA AppendNew ==
    ASSUME NEW s \in Seq(Int), IsInjective(s), NEW d \in Int, d \notin Range(s)
    PROVE  /\ Append(s, d) \in Seq(Int) /\ Append(s, d) # <<>>
           /\ IsInjective(Append(s, d))
<1> DEFINE t == Append(s, d)
<1>1. /\ t \in Seq(Int) /\ Len(t) = Len(s) + 1 /\ Len(s) \in Nat
      /\ DOMAIN s = 1 .. Len(s) /\ DOMAIN t = 1 .. (Len(s) + 1)
      /\ \A i \in 1 .. Len(s) : t[i] = s[i]
      /\ t[Len(s) + 1] = d
  OBVIOUS
<1>2. \A i \in 1 .. Len(s) : s[i] # d  BY <1>1 DEF Range
<1>3. \A i, j \in 1 .. Len(s) : s[i] = s[j] => i = j
  BY <1>1 DEF IsInjective
<1>4. \A i, j \in DOMAIN t : t[i] = t[j] => i = j
  BY <1>1, <1>2, <1>3
<1>5. t # <<>>  BY <1>1
<1> QED  BY <1>1, <1>4, <1>5 DEF IsInjective

LEMMA StepInv == ASSUME IInv, [Next]_vars PROVE IInv'
<1> USE NobodyCalls DEF IInv, TypeOK, Grown, Held, Free, Goto, At
<1>1. ASSUME NEW c \in Callers, EnsureFleet(c) PROVE IInv'
  BY <1>1 DEF EnsureFleet, Pc, OnePerDay
<1>2. ASSUME NEW c \in Callers, EnsureDailyChannel(c) PROVE IInv'
  BY <1>2 DEF EnsureDailyChannel, Pc, OnePerDay
<1>3. ASSUME NEW c \in Callers, Count(c) PROVE IInv'
  BY <1>3 DEF Count, Pc, OnePerDay
<1>4. ASSUME NEW c \in Callers, List(c) \/ Check(c) PROVE IInv'
  BY <1>4 DEF List, Check
<1>5. ASSUME NEW c \in Callers, Lock(c) PROVE IInv'
  BY <1>5 DEF Lock, Pc, OnePerDay
<1>6. ASSUME NEW c \in Callers, Exists(c) PROVE IInv'
  BY <1>6 DEF Exists, Pc, OnePerDay
<1>7. ASSUME NEW c \in Callers, Create(c) PROVE IInv'
  BY <1>7 DEF Create, Creating, InBoot, Pc, OnePerDay
<1>8. ASSUME NEW c \in Callers, Insert(c) PROVE IInv'
  <2>1. pc[c] = "insert" /\ ~InBoot(c) /\ day[c] \in Int
    BY <1>8 DEF Insert, Inserting, InBoot
  <2>2. /\ channels' \in Seq(Int) /\ channels' # <<>>
        /\ OnePerDay'
    BY <1>8, <2>1, AppendNew DEF Insert, OnePerDay
  <2>3. /\ pc' = [pc EXCEPT ![c] = "idle"] /\ mu' = Nobody
        /\ UNCHANGED <<today, booted, day, plan, crashes>>
    BY <1>8, <2>1 DEF Insert
  <2>4. \A d \in Callers \ {c} : pc[d] \notin {"exists", "create", "insert"}
    BY <2>1
  <2> QED  BY <2>2, <2>3, <2>4 DEF Pc
<1>9. ASSUME NEW c \in Callers, CreateFails(c) PROVE IInv'
  BY <1>9 DEF CreateFails, Creating, Inserting, InBoot, Pc, OnePerDay
<1>10. CASE Midnight
  BY <1>10 DEF Midnight, OnePerDay
<1>11. CASE Restart
  BY <1>11, DaysAssumption, MaxCrashAssumption DEF Restart, Pc, OnePerDay
<1>12. CASE UNCHANGED vars
  BY <1>12 DEF vars, OnePerDay
<1> QED
  BY <1>1, <1>2, <1>3, <1>4, <1>5, <1>6, <1>7, <1>8, <1>9, <1>10, <1>11, <1>12
     DEF Next, Begin, Continue

\* EnsureFleet, the daily job and the administrator together never open a
\* second channel for a day, provided the fleet is not empty at first.
THEOREM OneChannelPerDay == ASSUME Founded # {} PROVE Spec => []OnePerDay
<1>1. Init => IInv  BY InitInv
<1>2. IInv /\ [Next]_vars => IInv'  BY StepInv
<1>3. IInv => OnePerDay  BY DEF IInv
<1> QED  BY <1>1, <1>2, <1>3, PTL DEF Spec

-----------------------------------------------------------------------------
(* How fast the fleet grows                                                *)

LEMMA AppendRange ==
    ASSUME NEW s \in Seq(Int), NEW d \in Int
    PROVE  Range(Append(s, d)) \subseteq Range(s) \cup {d}
BY DEF Range

LEMMA EmptyRange == Range(<<>>) = {}
BY DEF Range

\* No more channels than there are days to make them for.
LEMMA NoMoreThanDays ==
    ASSUME TypeOK, OnePerDay, NEW S, IsFiniteSet(S), Range(channels) \subseteq S
    PROVE  Len(channels) <= Cardinality(S)
<1>1. /\ channels \in Seq(Int) /\ Len(channels) \in Nat
      /\ DOMAIN channels = 1 .. Len(channels)
  BY DEF TypeOK
<1>2. channels \in [1 .. Len(channels) -> S]  BY <1>1 DEF Range
<1>3. channels \in Injection(1 .. Len(channels), S)
  BY <1>1, <1>2 DEF OnePerDay, Injection
<1>4. Cardinality(1 .. Len(channels)) <= Cardinality(S)
  BY <1>3, FS_Injection
<1>5. Cardinality(1 .. Len(channels)) = Len(channels)
  BY <1>1, FS_Interval, SMTT(30)
<1> QED  BY <1>4, <1>5

\* What is not there at first was made on its day.
Dated ==
    /\ FirstDay <= today
    /\ Range(channels) \subseteq Founded \cup (FirstDay .. today)
    /\ \A c \in Callers :
          pc[c] \in {"lock", "exists", "create", "insert"} =>
              day[c] \in FirstDay .. today

LEMMA InitDated == ASSUME Init PROVE Dated
<1>1. channels \in [1 .. Cardinality(Founded) -> Founded]
  BY DEF Init, Injection
<1>2. Range(channels) \subseteq Founded  BY <1>1 DEF Range
<1> QED  BY <1>2, DaysAssumption DEF Init, Dated

LEMMA StepDated == ASSUME TypeOK, Grown, Dated, [Next]_vars PROVE Dated'
<1> USE DaysAssumption DEF TypeOK, Grown, Dated, Goto, At
<1>1. ASSUME NEW c \in Callers, Insert(c) PROVE Dated'
  <2>1. pc[c] = "insert" /\ ~InBoot(c) /\ day[c] \in FirstDay .. today
    BY <1>1 DEF Insert, Inserting, InBoot
  <2>2. Range(channels') \subseteq Range(channels) \cup {day[c]}
    BY <1>1, AppendRange DEF Insert
  <2>3. /\ Range(channels)' \subseteq Founded \cup (FirstDay .. today)
        /\ pc' = [pc EXCEPT ![c] = "idle"]
        /\ UNCHANGED <<today, day>>
    BY <1>1, <2>1, <2>2 DEF Insert
  <2> QED  BY <2>3
<1>2. ASSUME NEW c \in Callers, EnsureDailyChannel(c) PROVE Dated'
  BY <1>2 DEF EnsureDailyChannel
<1>3. ASSUME NEW c \in Callers, EnsureFleet(c) \/ Count(c) PROVE Dated'
  BY <1>3 DEF EnsureFleet, Count
<1>4. ASSUME NEW c \in Callers, List(c) \/ Check(c) PROVE Dated'
  BY <1>4 DEF List, Check
<1>5. ASSUME NEW c \in Callers, Lock(c) PROVE Dated'
  BY <1>5 DEF Lock
<1>6. ASSUME NEW c \in Callers, Exists(c) PROVE Dated'
  BY <1>6 DEF Exists
<1>7. ASSUME NEW c \in Callers, Create(c) PROVE Dated'
  BY <1>7 DEF Create, Creating, InBoot
<1>8. ASSUME NEW c \in Callers, CreateFails(c) PROVE Dated'
  BY <1>8 DEF CreateFails, Creating, Inserting, InBoot
<1>9. CASE Midnight
  <2>1. FirstDay .. today \subseteq FirstDay .. today'
    BY <1>9 DEF Midnight
  <2>2. FirstDay <= today'  BY <1>9 DEF Midnight
  <2> QED  BY <1>9, <2>1, <2>2 DEF Midnight
<1>10. CASE Restart  BY <1>10 DEF Restart
<1>11. CASE UNCHANGED vars  BY <1>11 DEF vars
<1> QED
  BY <1>1, <1>2, <1>3, <1>4, <1>5, <1>6, <1>7, <1>8, <1>9, <1>10, <1>11
     DEF Next, Begin, Continue

LEMMA DatedGrows ==
    ASSUME TypeOK, OnePerDay, Dated
    PROVE  Len(channels)
             <= Cardinality(Founded \cup {FirstDay}) + (today - FirstDay)
<1> DEFINE A == Founded \cup {FirstDay}
           f == FirstDay + 1
           B == f .. today
<1>1. today \in Int /\ FirstDay \in Int /\ FirstDay <= today
  BY DaysAssumption DEF TypeOK, Dated
<1>2. Range(channels) \subseteq A \cup B
  BY <1>1 DEF Dated
<1>3. IsFiniteSet(A) /\ Cardinality(A) \in Nat
  BY DaysAssumption, FS_AddElement, FS_CardinalityType
<1>4. IsFiniteSet(B) /\ Cardinality(B) = today - FirstDay
  <2>1. f \in Int /\ (IF f > today THEN 0 ELSE today - f + 1) = today - FirstDay
    BY <1>1
  <2> HIDE DEF f
  <2> QED  BY <1>1, <2>1, FS_Interval
<1>5. Cardinality(A \cap B) \in Nat
  <2> HIDE DEF A, B
  <2> QED  BY <1>3, FS_Intersection, FS_CardinalityType
<1>6. /\ IsFiniteSet(A \cup B)
      /\ Cardinality(A \cup B)
           = Cardinality(A) + Cardinality(B) - Cardinality(A \cap B)
  <2> HIDE DEF A, B
  <2> QED  BY <1>3, <1>4, FS_Union
<1>7. Len(channels) <= Cardinality(A \cup B) /\ Len(channels) \in Nat
  <2> HIDE DEF A, B
  <2> QED  BY <1>2, <1>6, NoMoreThanDays DEF TypeOK
<1> HIDE DEF B
<1> QED  BY <1>1, <1>3, <1>4, <1>5, <1>6, <1>7

\* A fleet that is not empty at first gets at most one channel a day, whoever
\* asks for it (startup, first upload, daily job, administrator), whatever
\* fails, and however often the process is restarted.
THEOREM OneADay ==
    ASSUME Founded # {}
    PROVE  Spec => [](Len(channels) <= Cardinality(Founded \cup {FirstDay})
                                         + (today - FirstDay))
<1>1. Init => IInv /\ Dated  BY InitInv, InitDated
<1>2. IInv /\ Dated /\ [Next]_vars => (IInv /\ Dated)'
  BY StepInv, StepDated DEF IInv
<1>3. IInv /\ Dated
        => Len(channels) <= Cardinality(Founded \cup {FirstDay})
                              + (today - FirstDay)
  BY DatedGrows DEF IInv
<1> QED  BY <1>1, <1>2, <1>3, PTL DEF Spec

-----------------------------------------------------------------------------
(* The first start, with nobody else about                                 *)

Days == (FirstDay - Target + 1) .. today

\* The bootstrap plans days that are free and works through them; the daily
\* channel is of a day since the first.
Alone ==
    /\ FirstDay <= today
    /\ Range(channels) \subseteq Days
    /\ \A c \in Callers :
          /\ pc[c] = "list" => channels = <<>>
          /\ pc[c] \in {"check", "bootlock", "bootcreate", "bootinsert"} =>
                plan[c] \subseteq Days \ Range(channels)
          /\ pc[c] \in {"bootlock", "bootcreate", "bootinsert"} =>
                day[c] \in Days \ (Range(channels) \cup plan[c])
          /\ pc[c] \in {"lock", "exists", "create", "insert"} =>
                day[c] \in FirstDay .. today
          /\ pc[c] \in {"create", "insert"} => day[c] \notin Range(channels)

\* The days of a first plan are the Target days up to today.
LEMMA FirstPlan ==
    ASSUME TypeOK, FirstDay <= today
    PROVE  Missing({}) \subseteq Days
<1> SUFFICES ASSUME NEW d \in Missing({}) PROVE d \in Days
  OBVIOUS
<1>1. Cardinality({}) = 0  BY FS_EmptySet
<1>2. /\ d \in (today - Target) .. today
      /\ Cardinality((d + 1) .. today) < Target
  <2>1. /\ d \in (today - Target - Cardinality({})) .. today
        /\ Cardinality(((d + 1) .. today) \ {}) < Target
    BY DEF Missing
  <2>2. ((d + 1) .. today) \ {} = (d + 1) .. today  OBVIOUS
  <2> QED  BY <1>1, <2>1, <2>2, TargetAssumption DEF TypeOK
<1>3. d \in Int /\ d <= today /\ today \in Int /\ Target \in Nat
  BY <1>2, TargetAssumption DEF TypeOK
<1>4. Cardinality((d + 1) .. today) = today - d
  <2> DEFINE e == d + 1
  <2>1. e \in Int /\ (IF e > today THEN 0 ELSE today - e + 1) = today - d
    BY <1>3
  <2> HIDE DEF e
  <2>2. Cardinality(e .. today) = IF e > today THEN 0 ELSE today - e + 1
    BY <1>3, <2>1, FS_Interval
  <2> QED  BY <2>1, <2>2 DEF e
<1> QED  BY <1>2, <1>3, <1>4, DaysAssumption DEF Days

LEMMA InitAlone == ASSUME Founded = {}, Init PROVE Alone /\ OnePerDay
<1>1. Cardinality(Founded) = 0  BY FS_EmptySet
<1>2. /\ channels \in [1 .. 0 -> Founded]
      /\ IsInjective(channels)
  BY <1>1 DEF Init, Injection
<1>3. Range(channels) = {}  BY <1>2 DEF Range
<1> QED  BY <1>2, <1>3, DaysAssumption DEF Init, Alone, OnePerDay

LEMMA StepAlone ==
    ASSUME \A c, d \in Callers : c = d,
           TypeOK, Planned, Alone, OnePerDay, [Next]_vars
    PROVE  Alone' /\ OnePerDay'
<1> USE DaysAssumption, TargetAssumption DEF TypeOK, Alone, Goto, At
<1>1. ASSUME NEW c \in Callers, Insert(c) PROVE Alone' /\ OnePerDay'
  <2>1. day[c] \in Days \ Range(channels) /\ day[c] \in Int
    BY <1>1 DEF Insert, Inserting, Days
  <2>2. /\ Range(channels') \subseteq Range(channels) \cup {day[c]}
        /\ OnePerDay'
    BY <1>1, <2>1, AppendRange, AppendNew DEF Insert, OnePerDay
  <2>3. Range(channels)' \subseteq Days
    BY <2>1, <2>2
  <2>4. CASE pc[c] = "insert"
    BY <1>1, <2>2, <2>3, <2>4 DEF Insert, InBoot, Days
  <2>5. CASE pc[c] = "bootinsert"
    BY <1>1, <2>2, <2>3, <2>5 DEF Insert, InBoot, Days
  <2> QED  BY <1>1, <2>4, <2>5 DEF Insert, Inserting
<1>2. ASSUME NEW c \in Callers, EnsureDailyChannel(c)
      PROVE  Alone' /\ OnePerDay'
  BY <1>2 DEF EnsureDailyChannel, OnePerDay, Days
<1>3. ASSUME NEW c \in Callers, EnsureFleet(c) PROVE Alone' /\ OnePerDay'
  BY <1>3 DEF EnsureFleet, OnePerDay, Days
<1>4. ASSUME NEW c \in Callers, Count(c) PROVE Alone' /\ OnePerDay'
  BY <1>4 DEF Count, OnePerDay, Days
<1>5. ASSUME NEW c \in Callers, List(c) PROVE Alone' /\ OnePerDay'
  <2>1. Missing(Range(channels)) \subseteq Days /\ Range(channels) = {}
    BY <1>5, FirstPlan, EmptyRange DEF List
  <2> QED  BY <1>5, <2>1 DEF List, OnePerDay, Days
<1>6. ASSUME NEW c \in Callers, Check(c) PROVE Alone' /\ OnePerDay'
  <2>1. CASE plan[c] # {} /\ day' = [day EXCEPT ![c] = Max(plan[c])]
             /\ plan' = [plan EXCEPT ![c] = @ \ {Max(@)}]
             /\ Goto(c, "bootlock")
    <3>1. Max(plan[c]) \in plan[c]  BY <2>1, MaxOfBounded DEF Planned
    <3> QED  BY <1>6, <2>1, <3>1 DEF Check, OnePerDay, Days
  <2>2. CASE plan' = [plan EXCEPT ![c] = {}] /\ Goto(c, "day") /\ UNCHANGED day
    BY <1>6, <2>2 DEF Check, OnePerDay, Days
  <2> QED  BY <1>6, <2>1, <2>2 DEF Check
<1>7. ASSUME NEW c \in Callers, Lock(c) PROVE Alone' /\ OnePerDay'
  BY <1>7 DEF Lock, OnePerDay, Days
<1>8. ASSUME NEW c \in Callers, Exists(c) PROVE Alone' /\ OnePerDay'
  BY <1>8 DEF Exists, OnePerDay, Days
<1>9. ASSUME NEW c \in Callers, Create(c) PROVE Alone' /\ OnePerDay'
  BY <1>9 DEF Create, Creating, InBoot, OnePerDay, Days
<1>10. ASSUME NEW c \in Callers, CreateFails(c) PROVE Alone' /\ OnePerDay'
  BY <1>10 DEF CreateFails, Creating, Inserting, InBoot, OnePerDay, Days
<1>11. CASE Midnight
  <2>1. /\ FirstDay .. today \subseteq FirstDay .. today'
        /\ Days \subseteq Days' /\ FirstDay <= today'
    BY <1>11 DEF Midnight, Days
  <2> QED  BY <1>11, <2>1 DEF Midnight, OnePerDay
<1>12. CASE Restart  BY <1>12 DEF Restart, OnePerDay, Days
<1>13. CASE UNCHANGED vars  BY <1>13 DEF vars, OnePerDay, Days
<1> QED
  BY <1>1, <1>2, <1>3, <1>4, <1>5, <1>6, <1>7, <1>8, <1>9, <1>10, <1>11,
     <1>12, <1>13 DEF Next, Begin, Continue

LEMMA AloneGrows == ASSUME TypeOK, Alone, OnePerDay PROVE GrowsDaily
<1> DEFINE e == FirstDay - Target + 1
<1>1. /\ e \in Int /\ today \in Int
      /\ (IF e > today THEN 0 ELSE today - e + 1) = Target + (today - FirstDay)
  BY DaysAssumption, TargetAssumption DEF TypeOK, Alone
<1>2. Days = e .. today  BY DEF Days
<1> HIDE DEF e
<1>3. /\ IsFiniteSet(Days)
      /\ Cardinality(Days) = Target + (today - FirstDay)
  BY <1>1, <1>2, FS_Interval
<1>4. Len(channels) <= Cardinality(Days)
  BY <1>3, NoMoreThanDays DEF Alone
<1> QED  BY <1>3, <1>4 DEF GrowsDaily

\* The first start opens at most Target channels and the fleet then grows by at
\* most one a day, through every failure (the dropped error of CountChannels,
\* too) and restart, provided no second caller comes in between.
THEOREM FirstStartGrowsDaily ==
    ASSUME Founded = {}, \A c, d \in Callers : c = d
    PROVE  Spec => []GrowsDaily
<1>1. Init => Alone /\ OnePerDay  BY InitAlone
<1>2. TypeOK /\ Planned /\ Alone /\ OnePerDay /\ [Next]_vars
        => (Alone /\ OnePerDay)'
  BY StepAlone
<1>3. TypeOK /\ Alone /\ OnePerDay => GrowsDaily  BY AloneGrows
<1> QED  BY <1>1, <1>2, <1>3, Typing, PTL DEF Spec
=============================================================================
