----------------------------- MODULE Page_proofs -----------------------------
(***************************************************************************)
(* Proofs about the upload page, for any number of files, slots, parts and *)
(* retries.  The screen stays truthful because the counter of pump() never *)
(* exceeds the uploads of the present queue, whatever chains of earlier    *)
(* queues still run (Counted).                                             *)
(***************************************************************************)
EXTENDS Page, FiniteSetTheorems, TLAPS

Status == {"none", "waiting", "uploading", "done", "failed"}
Stage == {"pick", "progress", "result"}

\* The files of the queue are started or ended or wait to be, and the ones
\* that upload have a chain that runs; a chain runs only for such files.
Known == \A i \in queue : status[i] # "none"
Chained == \A i \in queue : status[i] = "uploading" => pc[i] \notin Asleep
Uploads == \A i \in Item : pc[i] \notin Asleep => status[i] = "uploading"

\* The counter is never ahead of the uploads of the queue.
Counted == activeCount <= Cardinality(Rows("uploading"))

\* Between a cancel and the next file there is no queue.
Emptied == cancelled => queue = {}

ScreenType ==
    /\ queue \subseteq Item
    /\ activeCount \in 0 .. MAX_CONCURRENT
    /\ stage \in Stage
    /\ status \in [Item -> Status]
    /\ pc \in [Item -> Pc]

ScreenInv ==
    /\ ScreenType /\ ScreenTrue /\ NoStall
    /\ Known /\ Chained /\ Uploads /\ Counted /\ Emptied

\* The items are finitely many.
LEMMA ItemFinite == IsFiniteSet(Item)
  BY ItemsAssumption, FS_Interval DEF Item

-----------------------------------------------------------------------------
(* pump                                                                    *)

\* What pump() finds: a queue q whose items have a status, uploads exactly
\* where a chain runs, and at least n of them.
Ready(q, s, p, n, g) ==
    /\ q \subseteq Item /\ n \in 0 .. MAX_CONCURRENT /\ g \in Stage
    /\ s \in [Item -> Status] /\ p \in [Item -> Pc]
    /\ \A i \in q : s[i] # "none"
    /\ \A i \in q : s[i] = "uploading" => p[i] \notin Asleep
    /\ \A i \in Item : p[i] \notin Asleep => s[i] = "uploading"
    /\ n <= Cardinality({i \in q : s[i] = "uploading"})
    /\ g = "pick" <=> q = {}
    /\ g = "result" => /\ \A i \in q : s[i] \in {"done", "failed"}
                       /\ \E i \in q : s[i] = "done"

\* What pump() does when it starts the items S.
Pumped(q, s, p, n, g, S) ==
    /\ S \subseteq {i \in q : s[i] = "waiting"}
    /\ \A i \in S, j \in q \ S : s[j] = "waiting" => i < j
    /\ IsFiniteSet(S) /\ Cardinality(S) \in Nat
    /\ status' = [i \in Item |-> IF i \in S THEN "uploading" ELSE s[i]]
    /\ pc' = [i \in Item |-> IF i \in S THEN "start" ELSE p[i]]
    /\ activeCount' = n + Cardinality(S) /\ activeCount' <= MAX_CONCURRENT
    /\ (\E i \in q \ S : s[i] = "waiting") => activeCount' = MAX_CONCURRENT
    /\ \/ /\ queue' = q /\ stage' = g
          /\ \/ n # 0 \/ S # {} \/ q = {}
             \/ \E i \in q : s[i] \notin {"done", "failed"}
       \/ /\ n = 0 /\ S = {} /\ q # {}
          /\ \A i \in q : s[i] \in {"done", "failed"}
          /\ \/ (\E i \in q : s[i] = "done") /\ queue' = q /\ stage' = "result"
             \/ queue' = {} /\ stage' = "pick"

\* pump() starts some set of waiting items, and does nothing else.
LEMMA PumpStarts ==
    ASSUME NEW q, NEW s, NEW p, NEW n, NEW g,
           Ready(q, s, p, n, g), Pump(q, s, p, n, g)
    PROVE  \E S \in SUBSET Item : Pumped(q, s, p, n, g, S)
  <1> DEFINE W == {i \in q : s[i] = "waiting"}
             T(S) == [i \in Item |-> IF i \in S THEN "uploading" ELSE s[i]]
             Over(S) == /\ n = 0 /\ S = {} /\ q # {}
                        /\ \A i \in q : T(S)[i] \in {"done", "failed"}
  <1>1. PICK S \in Firsts(W, MAX_CONCURRENT - n) :
            /\ status' = T(S)
            /\ pc' = [i \in Item |-> IF i \in S THEN "start" ELSE p[i]]
            /\ activeCount' = n + Cardinality(S)
            /\ \/ ~Over(S) /\ queue' = q /\ stage' = g
               \/ /\ Over(S) /\ (\E i \in q : T(S)[i] = "done")
                  /\ queue' = q /\ stage' = "result"
               \/ /\ Over(S) /\ ~(\E i \in q : T(S)[i] = "done")
                  /\ queue' = {} /\ stage' = "pick"
    BY DEF Pump
  <1>2. /\ S \subseteq W /\ W \subseteq Item
        /\ Cardinality(S) <= MAX_CONCURRENT - n
        /\ Cardinality(S) = MAX_CONCURRENT - n \/ S = W
        /\ \A i \in S, j \in W \ S : i < j
    BY DEF Firsts, Ready
  <1>3. IsFiniteSet(S) /\ Cardinality(S) \in Nat
    BY <1>2, ItemFinite, FS_Subset, FS_CardinalityType
  <1>4. n \in Nat /\ MAX_CONCURRENT \in Nat \ {0}
    BY ConcurrentAssumption DEF Ready
  <1>5. S = {} => T(S) = s
    BY DEF Ready
  <1>6. /\ activeCount' <= MAX_CONCURRENT
        /\ (\E i \in q \ S : s[i] = "waiting") => activeCount' = MAX_CONCURRENT
    BY <1>1, <1>2, <1>3, <1>4
  <1>7. \/ /\ queue' = q /\ stage' = g
           /\ \/ n # 0 \/ S # {} \/ q = {}
              \/ \E i \in q : s[i] \notin {"done", "failed"}
        \/ /\ n = 0 /\ S = {} /\ q # {}
           /\ \A i \in q : s[i] \in {"done", "failed"}
           /\ \/ (\E i \in q : s[i] = "done") /\ queue' = q /\ stage' = "result"
              \/ queue' = {} /\ stage' = "pick"
    <2>1. CASE ~Over(S) /\ queue' = q /\ stage' = g
      BY <1>5, <2>1
    <2>2. CASE Over(S)
      BY <1>1, <1>5, <2>2
    <2> QED BY <1>1, <2>1, <2>2
  <1> QED BY <1>1, <1>2, <1>3, <1>6, <1>7 DEF Pumped

\* Whatever pump() is called for, it leaves the screen as it should be.
LEMMA PumpInv ==
    ASSUME NEW q, NEW s, NEW p, NEW n, NEW g,
           Ready(q, s, p, n, g), Pump(q, s, p, n, g), ~cancelled'
    PROVE  ScreenInv'
  <1> DEFINE U == {i \in q : s[i] = "uploading"}
  <1>1. PICK S \in SUBSET Item : Pumped(q, s, p, n, g, S)
    BY PumpStarts
  <1>2. /\ n \in Nat /\ MAX_CONCURRENT \in Nat \ {0}
        /\ Cardinality(S) \in Nat /\ activeCount' = n + Cardinality(S)
        /\ activeCount' <= MAX_CONCURRENT
        /\ queue' = q \/ queue' = {}
    BY <1>1, ConcurrentAssumption DEF Ready, Pumped
  <1>3. \A i \in Item : /\ i \in S => status'[i] = "uploading" /\ pc'[i] = "start"
                        /\ i \notin S => status'[i] = s[i] /\ pc'[i] = p[i]
    BY <1>1 DEF Pumped
  <1>4. q \subseteq Item /\ S \subseteq {i \in q : s[i] = "waiting"}
    BY <1>1 DEF Ready, Pumped
  <1>5. ScreenType'
    <2>1. queue' \subseteq Item /\ stage' \in Stage
      BY <1>1 DEF Ready, Pumped, Stage
    <2>2. status' \in [Item -> Status] /\ pc' \in [Item -> Pc]
      BY <1>1 DEF Ready, Pumped, Status, Pc, Asleep
    <2> QED BY <1>2, <2>1, <2>2 DEF ScreenType
  <1>6. Known' /\ Chained'
    BY <1>2, <1>3, <1>4, <1>1 DEF Known, Chained, Ready, Asleep
  <1>7. Uploads'
    BY <1>1, <1>3 DEF Uploads, Ready
  <1>8. Counted'
    <2>1. CASE queue' = q
      <3>1. Rows("uploading")' = U \cup S
        BY <1>3, <1>4, <2>1 DEF Rows
      <3>2. U \cap S = {}
        BY <1>4
      <3>3. IsFiniteSet(U) /\ IsFiniteSet(S)
        BY <1>4, ItemFinite, FS_Subset
      <3>4. Cardinality(U \cup S) = Cardinality(U) + Cardinality(S)
        <4>1. Cardinality(U \cap S) = 0
          BY <3>2, FS_EmptySet
        <4>2. Cardinality(U) \in Nat /\ Cardinality(S) \in Nat
          BY <3>3, FS_CardinalityType
        <4>3. Cardinality(U \cup S) = Cardinality(U) + Cardinality(S) - Cardinality(U \cap S)
          BY <3>3, FS_Union
        <4> QED BY <4>1, <4>2, <4>3
      <3>5. n <= Cardinality(U) /\ Cardinality(U) \in Nat
        BY <1>1, <3>3, FS_CardinalityType DEF Ready
      <3> QED BY <1>2, <3>1, <3>4, <3>5 DEF Counted
    <2>2. CASE queue' = {} /\ q # {}
      <3>1. activeCount' = 0
        BY <1>1, <1>2, <2>2, FS_EmptySet DEF Pumped
      <3>2. Rows("uploading")' = {}
        BY <2>2 DEF Rows
      <3> QED BY <3>1, <3>2, FS_EmptySet DEF Counted
    <2> QED BY <1>2, <2>1, <2>2
  <1>9. NoStall'
    BY <1>1, <1>2, <1>3, <1>4 DEF Pumped, NoStall, Rows
  <1>10. ScreenTrue'
    <2>1. Rows("uploading")' = {} =>
            /\ n = 0 /\ S = {} /\ (\A i \in queue' : status'[i] # "waiting")
      <3> SUFFICES ASSUME Rows("uploading")' = {}
                   PROVE  n = 0 /\ S = {} /\ (\A i \in queue' : status'[i] # "waiting")
        OBVIOUS
      <3>1. Cardinality(Rows("uploading")') = 0
        BY FS_EmptySet
      <3>2. activeCount' = 0
        BY <1>2, <1>8, <3>1 DEF Counted
      <3>3. n = 0 /\ Cardinality(S) = 0
        BY <1>2, <3>2
      <3>4. S = {}
        BY <3>3, <1>4, ItemFinite, FS_Subset, FS_EmptySet
      <3>5. \A i \in queue' : status'[i] # "waiting"
        BY <1>2, <1>9, <3>2 DEF NoStall, Rows
      <3> QED BY <3>3, <3>4, <3>5
    <2>2. \A i \in Rows("uploading")' : i \in Live'
      BY <1>6, <1>4, <1>2 DEF Rows, Chained, Live
    <2>3. CASE queue' = {} /\ stage' = "pick"
      BY <2>3 DEF ScreenTrue
    <2>4. CASE /\ queue' = q /\ stage' = "result" /\ q # {}
               /\ n = 0 /\ S = {}
               /\ \A i \in q : s[i] \in {"done", "failed"}
               /\ \E i \in q : s[i] = "done"
      BY <1>3, <1>4, <2>4 DEF ScreenTrue, Rows
    <2>5. CASE /\ queue' = q /\ stage' = g
               /\ \/ n # 0 \/ S # {} \/ q = {}
                  \/ \E i \in q : s[i] \notin {"done", "failed"}
      <3>1. CASE g = "pick"
        BY <1>1, <2>5, <3>1 DEF Ready, ScreenTrue
      <3>2. CASE g = "progress"
        <4>1. q # {}
          BY <1>1, <3>2 DEF Ready
        <4>2. Rows("uploading")' # {}
          <5> SUFFICES ASSUME Rows("uploading")' = {} PROVE FALSE
            OBVIOUS
          <5>1. PICK i \in q : s[i] \notin {"done", "failed"}
            BY <2>1, <2>5, <4>1
          <5>2. s[i] \in {"waiting", "uploading"}
            BY <1>1, <5>1 DEF Ready, Status
          <5> QED BY <1>3, <1>4, <2>1, <2>5, <5>1, <5>2 DEF Rows
        <4> QED BY <2>2, <2>5, <3>2, <4>1, <4>2 DEF ScreenTrue
      <3>3. CASE g = "result"
        <4>1. /\ \A i \in q : s[i] \in {"done", "failed"}
              /\ \E i \in q : s[i] = "done"
          BY <1>1, <3>3 DEF Ready
        <4>2. S = {}
          BY <1>4, <4>1
        <4> QED BY <1>3, <1>4, <2>5, <3>3, <4>1, <4>2 DEF ScreenTrue, Rows
      <3> QED BY <1>1, <3>1, <3>2, <3>3 DEF Ready, Stage
    <2>6. \/ queue' = {} /\ stage' = "pick"
          \/ /\ queue' = q /\ stage' = "result" /\ q # {}
             /\ n = 0 /\ S = {}
             /\ \A i \in q : s[i] \in {"done", "failed"}
             /\ \E i \in q : s[i] = "done"
          \/ /\ queue' = q /\ stage' = g
             /\ \/ n # 0 \/ S # {} \/ q = {}
                \/ \E i \in q : s[i] \notin {"done", "failed"}
      BY <1>1 DEF Pumped
    <2> QED BY <2>3, <2>4, <2>5, <2>6
  <1>11. Emptied'
    BY DEF Emptied
  <1> QED BY <1>5, <1>6, <1>7, <1>8, <1>9, <1>10, <1>11 DEF ScreenInv

-----------------------------------------------------------------------------
(* The steps that change the screen                                        *)

\* An empty queue is a screen by itself.
LEMMA EmptyScreen ==
    ASSUME queue' = {}, activeCount' = 0, stage' = "pick",
           status' \in [Item -> Status], pc' \in [Item -> Pc], Uploads'
    PROVE  ScreenInv'
  <1>1. \A t : Rows(t)' = {}
    BY DEF Rows
  <1>2. Counted'
    BY <1>1, FS_EmptySet DEF Counted
  <1>3. ScreenTrue' /\ NoStall'
    BY <1>1 DEF ScreenTrue, NoStall
  <1>4. ScreenType'
    BY ConcurrentAssumption DEF ScreenType, Stage
  <1> QED BY <1>2, <1>3, <1>4 DEF ScreenInv, Known, Chained, Emptied

\* But for i, items stay as they are or are started.
Others(i) ==
    \A j \in Item \ {i} :
        \/ pc'[j] = pc[j] /\ status'[j] = status[j]
        \/ status[j] = "waiting" /\ pc'[j] = "start" /\ status'[j] = "uploading"

\* A chain that only goes on leaves the screen as it should be.
LEMMA GotoInv ==
    ASSUME ScreenInv, NEW i \in Item, pc[i] \notin Asleep,
           NEW t \in Pc \ Asleep, Goto(i, t), cancelled' = cancelled
    PROVE  /\ ScreenInv' /\ Others(i) /\ queue' \subseteq queue
           /\ pc'[i] = t /\ status'[i] = "uploading"
  <1>1. /\ pc' = [pc EXCEPT ![i] = t] /\ pc \in [Item -> Pc]
        /\ UNCHANGED <<queue, activeCount, stage, status>>
    BY DEF Goto, screen, ScreenInv, ScreenType
  <1>2. \A j \in Item : pc'[j] \notin Asleep <=> pc[j] \notin Asleep
    BY <1>1
  <1>3. \A u : Rows(u)' = Rows(u)
    BY <1>1 DEF Rows
  <1>4. Live' = Live
    BY <1>2 DEF Live
  <1>5. ScreenType' /\ ScreenTrue' /\ NoStall' /\ Counted'
    BY <1>1, <1>3, <1>4
       DEF ScreenInv, ScreenType, ScreenTrue, NoStall, Counted
  <1>6. Known' /\ Chained' /\ Uploads' /\ Emptied'
    BY <1>1, <1>2 DEF ScreenInv, ScreenType, Known, Chained, Uploads, Emptied
  <1>7. Others(i) /\ pc'[i] = t /\ status'[i] = "uploading"
    BY <1>1 DEF Others, ScreenInv, Uploads
  <1> QED BY <1>1, <1>5, <1>6, <1>7 DEF ScreenInv

\* A chain may hang when its queue has been cancelled.
LEMMA HungInv ==
    ASSUME ScreenInv, NEW i \in Item, Goto(i, "hung"), cancelled, cancelled' = cancelled
    PROVE  /\ ScreenInv' /\ Others(i) /\ queue' \subseteq queue
           /\ pc'[i] = "hung" /\ status'[i] = status[i]
  <1>1. /\ pc' = [pc EXCEPT ![i] = "hung"] /\ pc \in [Item -> Pc]
        /\ UNCHANGED <<queue, activeCount, stage, status>>
    BY DEF Goto, screen, ScreenInv, ScreenType
  <1>2. queue = {} /\ stage = "pick"
    BY DEF ScreenInv, Emptied, ScreenTrue
  <1>3. activeCount = 0
    <2>1. Cardinality(Rows("uploading")) = 0
      BY <1>2, FS_EmptySet DEF Rows
    <2> QED BY <2>1, ConcurrentAssumption DEF ScreenInv, ScreenType, Counted
  <1>4. Uploads' /\ pc' \in [Item -> Pc] /\ Others(i)
    BY <1>1 DEF ScreenInv, ScreenType, Uploads, Asleep, Pc, Others
  <1> QED BY <1>1, <1>2, <1>3, <1>4, EmptyScreen DEF ScreenInv, ScreenType

\* The catch of a URL upload empties the screen.
LEMMA UrlCatchInv ==
    ASSUME ScreenInv, NEW i \in Item, UrlCatch(i)
    PROVE  /\ ScreenInv' /\ Others(i) /\ queue' \subseteq queue
           /\ pc'[i] = "over" /\ status'[i] = "failed"
  <1>1. /\ status' = [status EXCEPT ![i] = "failed"]
        /\ pc' = [pc EXCEPT ![i] = "over"]
        /\ status \in [Item -> Status] /\ pc \in [Item -> Pc]
    BY DEF UrlCatch, ScreenInv, ScreenType
  <1>2. status' \in [Item -> Status] /\ pc' \in [Item -> Pc]
    BY <1>1 DEF Status, Pc, Asleep
  <1>3. Uploads' /\ Others(i)
    BY <1>1 DEF ScreenInv, Uploads, Asleep, Others
  <1> QED BY <1>1, <1>2, <1>3, EmptyScreen DEF UrlCatch

\* What itemDone hands to pump().
StatusOf(i, e) == [status EXCEPT ![i] = e]
PcOver(i) == [pc EXCEPT ![i] = "over"]
OneLess == IF activeCount = 0 THEN 0 ELSE activeCount - 1

\* What itemDone hands to pump() is what pump() expects.
LEMMA ItemDoneReady ==
    ASSUME ScreenInv, NEW i \in Item, pc[i] \notin Asleep,
           NEW e \in {"done", "failed"}
    PROVE  /\ Ready(queue, StatusOf(i, e), PcOver(i), OneLess, stage)
           /\ StatusOf(i, e)[i] = e /\ PcOver(i)[i] = "over"
           /\ status[i] = "uploading"
           /\ \A j \in Item \ {i} : /\ StatusOf(i, e)[j] = status[j]
                                     /\ PcOver(i)[j] = pc[j]
  <1> USE DEF StatusOf, PcOver, OneLess
  <1> DEFINE st == StatusOf(i, e)
             at == PcOver(i)
             n == OneLess
             U == Rows("uploading")
             V == {j \in queue : st[j] = "uploading"}
  <1>1. /\ queue \subseteq Item /\ activeCount \in 0 .. MAX_CONCURRENT
        /\ stage \in Stage /\ status \in [Item -> Status] /\ pc \in [Item -> Pc]
    BY DEF ScreenInv, ScreenType
  <1>2. /\ st \in [Item -> Status] /\ st[i] = e
        /\ at \in [Item -> Pc] /\ at[i] = "over"
        /\ \A j \in Item \ {i} : st[j] = status[j] /\ at[j] = pc[j]
    BY <1>1 DEF Status, Pc, Asleep
  <1>3. status[i] = "uploading"
    BY DEF ScreenInv, Uploads
  <1>4. n \in 0 .. MAX_CONCURRENT /\ n <= Cardinality(V)
    <2>1. IsFiniteSet(U)
      BY <1>1, ItemFinite, FS_Subset DEF Rows
    <2>2. V = U \ {i}
      BY <1>1, <1>2 DEF Rows
    <2>3. activeCount <= Cardinality(U)
      BY DEF ScreenInv, Counted
    <2>4. Cardinality(U) \in Nat /\ Cardinality(V) \in Nat
      BY <2>1, <2>2, FS_Subset, FS_CardinalityType
    <2>5. i \in U => Cardinality(U \ {i}) = Cardinality(U) - 1
      BY <2>1, FS_RemoveElement
    <2>6. i \notin U => U \ {i} = U
      OBVIOUS
    <2>7. Cardinality(V) \in {Cardinality(U) - 1, Cardinality(U)}
      <3> HIDE DEF U, V
      <3> QED BY <2>2, <2>5, <2>6
    <2> QED BY <1>1, <2>3, <2>4, <2>7, ConcurrentAssumption
  <1>5. at \in [Item -> Pc] /\ \A j \in Item : at[j] \notin Asleep => st[j] = "uploading"
    BY <1>2 DEF ScreenInv, Uploads, Asleep
  <1>6. Ready(queue, st, at, n, stage)
    <2>1. \A j \in queue : /\ st[j] # "none"
                           /\ st[j] = "uploading" => at[j] \notin Asleep
      BY <1>1, <1>2 DEF ScreenInv, Known, Chained
    <2>2. stage = "pick" <=> queue = {}
      BY DEF ScreenInv, ScreenTrue
    <2>3. ASSUME stage = "result"
          PROVE  /\ \A j \in queue : st[j] \in {"done", "failed"}
                 /\ \E j \in queue : st[j] = "done"
      <3>1. /\ \A j \in queue : status[j] \in {"done", "failed"}
            /\ \E j \in queue : status[j] = "done"
        BY <2>3 DEF ScreenInv, ScreenTrue, Rows
      <3>2. i \notin queue
        BY <1>3, <3>1
      <3> QED BY <1>1, <1>2, <3>1, <3>2
    <2>4. n <= Cardinality({j \in queue : st[j] = "uploading"})
      BY <1>4
    <2>5. /\ queue \subseteq Item /\ n \in 0 .. MAX_CONCURRENT /\ stage \in Stage
          /\ st \in [Item -> Status] /\ at \in [Item -> Pc]
      BY <1>1, <1>2, <1>4
    <2> HIDE DEF V
    <2> QED BY <1>5, <2>1, <2>2, <2>3, <2>4, <2>5 DEF Ready
  <1> QED BY <1>2, <1>3, <1>6

\* The end of a file leaves the screen as it should be.
LEMMA ItemDoneInv ==
    ASSUME ScreenInv, NEW i \in Item, pc[i] \notin Asleep,
           NEW e \in {"done", "failed"}, ItemDone(i, e), cancelled' = cancelled
    PROVE  /\ ScreenInv' /\ Others(i) /\ queue' \subseteq queue
           /\ pc'[i] = "over" /\ status'[i] = e
  <1> DEFINE st == StatusOf(i, e)
             at == PcOver(i)
             n == OneLess
  <1>1. /\ Ready(queue, st, at, n, stage)
        /\ st[i] = e /\ at[i] = "over"
        /\ \A j \in Item \ {i} : st[j] = status[j] /\ at[j] = pc[j]
    BY ItemDoneReady
  <1>2. /\ st \in [Item -> Status] /\ at \in [Item -> Pc] /\ n \in 0 .. MAX_CONCURRENT
        /\ n <= Cardinality({j \in queue : st[j] = "uploading"})
        /\ \A j \in Item : at[j] \notin Asleep => st[j] = "uploading"
    BY <1>1 DEF Ready
  <1>3. CASE ~cancelled /\ Pump(queue, st, at, n, stage)
    <2>1. ScreenInv'
      BY <1>1, <1>3, PumpInv
    <2>2. PICK S \in SUBSET Item : Pumped(queue, st, at, n, stage, S)
      BY <1>1, <1>3, PumpStarts
    <2>3. i \notin S
      BY <1>1, <2>2 DEF Pumped
    <2>4. Others(i)
      <3> SUFFICES ASSUME NEW j \in Item \ {i}
                   PROVE  \/ pc'[j] = pc[j] /\ status'[j] = status[j]
                          \/ status[j] = "waiting" /\ pc'[j] = "start"
                                /\ status'[j] = "uploading"
        BY DEF Others
      <3>1. CASE j \in S
        BY <1>1, <2>2, <3>1 DEF Pumped
      <3>2. CASE j \notin S
        BY <1>1, <2>2, <3>2 DEF Pumped
      <3> QED BY <3>1, <3>2
    <2>5. /\ pc'[i] = at[i] /\ status'[i] = st[i]
          /\ queue' = queue \/ queue' = {}
      <3> HIDE DEF st, at, n
      <3> QED BY <2>2, <2>3 DEF Pumped
    <2> QED BY <1>1, <2>1, <2>4, <2>5
  <1>4. CASE /\ cancelled
             /\ status' = st /\ pc' = at /\ activeCount' = n
             /\ UNCHANGED <<queue, stage>>
    <2>1. queue = {} /\ stage = "pick"
      BY <1>4 DEF ScreenInv, Emptied, ScreenTrue
    <2>2. n = 0
      <3>1. {j \in queue : st[j] = "uploading"} = {}
        BY <2>1
      <3>2. Cardinality({j \in queue : st[j] = "uploading"}) = 0
        BY <3>1, FS_EmptySet
      <3> HIDE DEF n
      <3> QED BY <1>2, <3>2, ConcurrentAssumption
    <2>3. Uploads'
      BY <1>2, <1>4 DEF Uploads
    <2>4. ScreenInv'
      BY <1>2, <1>4, <2>1, <2>2, <2>3, EmptyScreen
    <2>5. Others(i)
      BY <1>1, <1>4 DEF Others
    <2> QED BY <1>1, <1>4, <2>4, <2>5
  <1> QED BY <1>3, <1>4 DEF ItemDone, StatusOf, PcOver, OneLess

-----------------------------------------------------------------------------
(* The chains and the data                                                 *)

Linked == Heard \cup {"parts", "finish", "finishwait", "poll", "pollwait"}
RowState == {"none", "uploading", "distributing", "ready", "failed", "gone", "expired"}
WasReady == {"ready", "expired"}

\* Where the chain of j is tells what it has: a token, parts that are left.
\* A file that is done has a token, and its row has been ready since the poll
\* was answered.
ChainAt(j) ==
    /\ pc[j] \in Linked \/ status[j] = "done" => j \in tokens
    /\ pc[j] = "heardReady" \/ status[j] = "done" => row[j] \in WasReady
    /\ j > picked => pc[j] = "none" /\ status[j] = "none"
    /\ status[j] = "waiting" => pc[j] = "none"
    /\ pc[j] \in {"none", "start", "startwait"} => idx[j] = 0
    /\ pc[j] = "parts" => idx[j] < PartCount

ChainInv == \A j \in Item : ChainAt(j)

DataType ==
    /\ picked \in 0 .. MaxItems
    /\ byUrl \subseteq 1 .. picked
    /\ queue \subseteq 1 .. picked
    /\ tokens \subseteq 1 .. picked
    /\ tries \in [Item -> 0 .. MaxAttempts]
    /\ idx \in [Item -> 0 .. PartCount]
    /\ row \in [Item -> RowState]
    /\ deletes \subseteq 1 .. picked

\* Nothing in the queue has been given up.
Wanted == queue \cap deletes = {}

Inv == ScreenInv /\ ChainInv /\ DataType /\ Wanted

\* A handler of the chain of i: nothing but i's own part of the data changes.
Own(i) ==
    /\ UNCHANGED <<picks, cancelled, deletes>>
    /\ tokens \subseteq tokens' /\ tokens' \subseteq tokens \cup {i}
    /\ tries' \in [Item -> 0 .. MaxAttempts]
    /\ idx' \in [Item -> 0 .. PartCount]
    /\ row' \in [Item -> RowState]
    /\ \A j \in Item \ {i} : idx'[j] = idx[j] /\ row'[j] = row[j]

\* A handler of i that keeps the screen keeps everything, if it leaves the
\* chain of i where it may be.
LEMMA OwnInv ==
    ASSUME Inv, NEW i \in Item, pc[i] \notin Asleep, Own(i),
           ScreenInv', Others(i), queue' \subseteq queue,
           pc'[i] # "none", status'[i] \in {"uploading", "done", "failed"},
           pc'[i] \in Linked \/ status'[i] = "done" => i \in tokens',
           pc'[i] = "heardReady" \/ status'[i] = "done" => row'[i] \in WasReady,
           pc'[i] \in {"start", "startwait"} => idx'[i] = 0,
           pc'[i] = "parts" => idx'[i] < PartCount
    PROVE  Inv'
  <1>1. picked' = picked /\ byUrl' = byUrl /\ deletes' = deletes
    BY DEF Own, picks
  <1>2. picked \in Nat /\ i \in Nat /\ i <= picked
    <2>1. picked \in Nat /\ i \in Nat
      BY DEF Inv, DataType, Item
    <2>2. ~(i > picked)
      BY DEF Inv, ChainInv, ChainAt, Asleep
    <2> QED BY <2>1, <2>2
  <1>3. ChainAt(i)'
    BY <1>1, <1>2 DEF ChainAt
  <1>4. ASSUME NEW j \in Item \ {i} PROVE ChainAt(j)'
    <2>1. /\ ChainAt(j)
          /\ idx'[j] = idx[j] /\ row'[j] = row[j]
          /\ j \in tokens => j \in tokens'
      BY DEF Inv, ChainInv, Own
    <2>2. CASE pc'[j] = pc[j] /\ status'[j] = status[j]
      BY <1>1, <2>1, <2>2 DEF ChainAt
    <2>3. CASE status[j] = "waiting" /\ pc'[j] = "start" /\ status'[j] = "uploading"
      BY <1>1, <2>1, <2>3 DEF ChainAt, Linked, Heard
    <2> QED BY <2>2, <2>3 DEF Others
  <1>5. DataType'
    <2>1. i \in 1 .. picked
      BY <1>2 DEF Item
    <2> QED BY <1>1, <2>1 DEF Inv, DataType, Own
  <1>6. Wanted'
    BY <1>1 DEF Inv, Wanted
  <1> QED BY <1>3, <1>4, <1>5, <1>6 DEF Inv, ChainInv

\* The four ways a handler of a chain changes the screen.
LEMMA GotoOwn ==
    ASSUME Inv, NEW i \in Item, pc[i] \notin Asleep, Own(i),
           NEW t \in Pc \ Asleep, Goto(i, t),
           t \in Linked => i \in tokens',
           t = "heardReady" => row'[i] \in WasReady,
           t \in {"start", "startwait"} => idx'[i] = 0,
           t = "parts" => idx'[i] < PartCount
    PROVE  Inv'
  <1>1. cancelled' = cancelled
    BY DEF Own
  <1>2. /\ ScreenInv' /\ Others(i) /\ queue' \subseteq queue
        /\ pc'[i] = t /\ status'[i] = "uploading"
    BY <1>1, GotoInv DEF Inv
  <1> QED BY <1>2, OwnInv DEF Asleep

\* ...it ends the file,
LEMMA DoneOwn ==
    ASSUME Inv, NEW i \in Item, pc[i] \notin Asleep, Own(i),
           NEW e \in {"done", "failed"}, ItemDone(i, e),
           e = "done" => i \in tokens' /\ row'[i] \in WasReady
    PROVE  Inv'
  <1>1. cancelled' = cancelled
    BY DEF Own
  <1>2. /\ ScreenInv' /\ Others(i) /\ queue' \subseteq queue
        /\ pc'[i] = "over" /\ status'[i] = e
    BY <1>1, ItemDoneInv DEF Inv
  <1> QED BY <1>2, OwnInv DEF Linked, Heard

\* ...it ends a URL upload with an error,
LEMMA UrlCatchOwn ==
    ASSUME Inv, NEW i \in Item, pc[i] \notin Asleep, Own(i), UrlCatch(i)
    PROVE  Inv'
  <1>1. /\ ScreenInv' /\ Others(i) /\ queue' \subseteq queue
        /\ pc'[i] = "over" /\ status'[i] = "failed"
    BY UrlCatchInv DEF Inv
  <1> QED BY <1>1, OwnInv DEF Linked, Heard

\* ...or it is never heard of again.
LEMMA HungOwn ==
    ASSUME Inv, NEW i \in Item, pc[i] \notin Asleep, Own(i),
           cancelled, Goto(i, "hung")
    PROVE  Inv'
  <1>1. cancelled' = cancelled
    BY DEF Own
  <1>2. /\ ScreenInv' /\ Others(i) /\ queue' \subseteq queue
        /\ pc'[i] = "hung" /\ status'[i] = status[i]
    BY <1>1, HungInv DEF Inv
  <1>3. status[i] = "uploading"
    BY DEF Inv, ScreenInv, Uploads
  <1> QED BY <1>2, <1>3, OwnInv DEF Linked, Heard

\* Every reply and every timer of a chain.
LEMMA AnswerInv ==
    ASSUME Inv, NEW i \in Item, Answer(i)
    PROVE  Inv'
  <1>1. /\ tries \in [Item -> 0 .. MaxAttempts] /\ MaxAttempts \in Nat
        /\ idx \in [Item -> 0 .. PartCount] /\ PartCount \in Nat \ {0}
        /\ row \in [Item -> RowState]
        /\ ChainAt(i)
    BY PartsAssumption, AttemptsAssumption DEF Inv, DataType, ChainInv
  <1>2. CASE Backoff(i)
    <2>1. Own(i)
      BY <1>1, <1>2 DEF Backoff, Own, picks, server
    <2>2. CASE At(i, "start") /\ Goto(i, "startwait")
      <3>1. idx'[i] = 0
        BY <1>1, <1>2, <2>2 DEF Backoff, At, ChainAt
      <3> QED BY <2>1, <2>2, <3>1, GotoOwn DEF At, Pc, Asleep, Linked, Heard
    <2>3. CASE At(i, "finish") /\ Goto(i, "finishwait")
      <3>1. i \in tokens'
        BY <1>1, <1>2, <2>3 DEF Backoff, At, ChainAt, Linked
      <3> QED BY <2>1, <2>3, <3>1, GotoOwn DEF At, Pc, Asleep
    <2> QED BY <1>2, <2>2, <2>3 DEF Backoff
  <1>3. CASE Resend(i)
    <2>1. Own(i)
      BY <1>1, <1>3 DEF Resend, Own, picks, chain, server
    <2>2. CASE At(i, "startwait") /\ Goto(i, "start")
      <3>1. idx'[i] = 0
        BY <1>1, <1>3, <2>2 DEF Resend, At, ChainAt, chain
      <3> QED BY <2>1, <2>2, <3>1, GotoOwn DEF At, Pc, Asleep, Linked, Heard
    <2>3. CASE At(i, "finishwait") /\ Goto(i, "finish")
      <3>1. i \in tokens'
        BY <1>1, <1>3, <2>3 DEF Resend, At, ChainAt, Linked, chain
      <3> QED BY <2>1, <2>3, <3>1, GotoOwn DEF At, Pc, Asleep
    <2> QED BY <1>3, <2>2, <2>3 DEF Resend
  <1>4. CASE StartOk(i)
    <2>1. Own(i)
      BY <1>1, <1>4 DEF StartOk, Returned, Own, picks, RowState
    <2>2. pc[i] = "start" /\ i \in tokens' /\ idx'[i] = 0
      BY <1>1, <1>4 DEF StartOk, At, ChainAt
    <2>3. CASE ItemDone(i, "failed")
      BY <2>1, <2>2, <2>3, DoneOwn DEF Asleep
    <2>4. CASE Goto(i, "parts")
      BY <1>1, <2>1, <2>2, <2>4, GotoOwn DEF Pc, Asleep
    <2> QED BY <1>4, <2>3, <2>4 DEF StartOk
  <1>5. CASE StartFails(i)
    <2>1. row' \in [Item -> RowState] /\ \A j \in Item \ {i} : row'[j] = row[j]
      BY <1>1, <1>5 DEF StartFails, RowState
    <2>2. /\ tries' = [tries EXCEPT ![i] = 0]
          /\ UNCHANGED <<picks, cancelled, tokens, idx, deletes>>
      BY <1>5 DEF StartFails, Returned
    <2>3. Own(i)
      BY <1>1, <2>1, <2>2 DEF Own
    <2> QED BY <1>5, <2>3, DoneOwn DEF StartFails, At, Asleep
  <1>6. CASE PartOk(i)
    <2>1. pc[i] = "parts" /\ idx[i] < PartCount /\ i \in tokens
      BY <1>1, <1>6 DEF PartOk, At, ChainAt, Linked
    <2>2. idx[i] + 1 \in 0 .. PartCount /\ idx' = [idx EXCEPT ![i] = idx[i] + 1]
      BY <1>1, <1>6, <2>1 DEF PartOk
    <2>3. Own(i)
      BY <1>1, <1>6, <2>2 DEF PartOk, Own, picks, server
    <2>4. i \in tokens'
      BY <2>1, <2>3 DEF Own
    <2>5. CASE ItemDone(i, "failed")
      BY <2>1, <2>3, <2>5, DoneOwn DEF Asleep
    <2>6. CASE idx'[i] < PartCount /\ Goto(i, "parts")
      BY <2>1, <2>3, <2>4, <2>6, GotoOwn DEF Pc, Asleep
    <2>7. CASE Goto(i, "finish")
      BY <2>1, <2>3, <2>4, <2>7, GotoOwn DEF Pc, Asleep
    <2> QED BY <1>6, <2>5, <2>6, <2>7 DEF PartOk
  <1>7. CASE PartFails(i)
    <2>1. Own(i)
      BY <1>1, <1>7 DEF PartFails, Own, picks, chain, server
    <2> QED BY <1>7, <2>1, DoneOwn DEF PartFails, At, Asleep
  <1>8. CASE FinishOk(i)
    <2>1. Own(i)
      BY <1>1, <1>8 DEF FinishOk, Returned, Own, picks, RowState
    <2>2. pc[i] = "finish" /\ i \in tokens'
      BY <1>1, <1>8 DEF FinishOk, At, ChainAt, Linked
    <2> QED BY <1>8, <2>1, <2>2, GotoOwn DEF FinishOk, Pc, Asleep
  <1>9. CASE FinishFails(i)
    <2>1. row' \in [Item -> RowState] /\ \A j \in Item \ {i} : row'[j] = row[j]
      BY <1>1, <1>9 DEF FinishFails, RowState
    <2>2. /\ tries' = [tries EXCEPT ![i] = 0]
          /\ UNCHANGED <<picks, cancelled, tokens, idx, deletes>>
      BY <1>9 DEF FinishFails, Returned
    <2>3. Own(i)
      BY <1>1, <2>1, <2>2 DEF Own
    <2> QED BY <1>9, <2>3, DoneOwn DEF FinishFails, At, Asleep
  <1>10. CASE UrlOk(i)
    <2>1. Own(i)
      BY <1>1, <1>10 DEF UrlOk, Own, picks, RowState
    <2>2. pc[i] = "url" /\ i \in tokens'
      BY <1>10 DEF UrlOk, At
    <2> QED BY <1>10, <2>1, <2>2, GotoOwn DEF UrlOk, Pc, Asleep
  <1>11. CASE UrlFails(i)
    <2>1. row' \in [Item -> RowState] /\ \A j \in Item \ {i} : row'[j] = row[j]
      BY <1>1, <1>11 DEF UrlFails, RowState
    <2>2. Own(i)
      BY <1>1, <1>11, <2>1 DEF UrlFails, Own, picks, chain
    <2> QED BY <1>11, <2>2, UrlCatchOwn DEF UrlFails, At, Asleep
  <1>12. CASE PollTimer(i)
    <2>1. Own(i)
      BY <1>1, <1>12 DEF PollTimer, Own, picks, chain, server
    <2>2. pc[i] = "pollwait" /\ i \in tokens'
      BY <1>1, <1>12 DEF PollTimer, At, ChainAt, Linked, chain
    <2> QED BY <1>12, <2>1, <2>2, GotoOwn DEF PollTimer, Pc, Asleep
  <1>13. CASE PollReady(i)
    <2>1. Own(i)
      BY <1>1, <1>13 DEF PollReady, Own, picks, chain, server
    <2>2. pc[i] = "heardReady" /\ i \in tokens' /\ row'[i] \in WasReady
      BY <1>1, <1>13 DEF PollReady, At, ChainAt, Linked, Heard, chain, server
    <2> QED BY <1>13, <2>1, <2>2, DoneOwn DEF PollReady, Asleep
  <1>14. CASE PollFailed(i)
    <2>1. Own(i)
      BY <1>1, <1>14 DEF PollFailed, Own, picks, chain, server
    <2>2. pc[i] \notin Asleep
      BY <1>14 DEF PollFailed, Heard, Asleep
    <2>3. CASE ItemDone(i, "failed")
      BY <2>1, <2>2, <2>3, DoneOwn
    <2>4. CASE UrlCatch(i)
      BY <2>1, <2>2, <2>4, UrlCatchOwn
    <2> QED BY <1>14, <2>3, <2>4 DEF PollFailed
  <1>15. CASE PollAgain(i)
    <2>1. Own(i)
      BY <1>1, <1>15 DEF PollAgain, Own, picks, chain, server
    <2>2. pc[i] = "heardOther" /\ i \in tokens'
      BY <1>1, <1>15 DEF PollAgain, At, ChainAt, Linked, Heard, chain
    <2> QED BY <1>15, <2>1, <2>2, GotoOwn DEF PollAgain, Pc, Asleep
  <1> QED
    BY <1>2, <1>3, <1>4, <1>5, <1>6, <1>7, <1>8, <1>9, <1>10, <1>11, <1>12,
       <1>13, <1>14, <1>15
       DEF Answer

\* A poll is answered, or its answer is lost.
LEMMA PollInv ==
    ASSUME Inv, NEW i \in Item, Poll(i)
    PROVE  Inv'
  <1>1. /\ pc[i] = "poll" /\ i \in tokens
        /\ UNCHANGED <<picks, cancelled, chain, server>>
    BY DEF Poll, Told, PollError, At, Inv, ChainInv, ChainAt, Linked
  <1>2. Own(i) /\ i \in tokens' /\ row' = row
    BY <1>1 DEF Own, picks, chain, server, Inv, DataType
  <1>3. ASSUME NEW answer \in Heard, Told(i, answer) PROVE Inv'
    <2>1. /\ answer \in Pc \ Asleep
          /\ answer = "heardReady" => row'[i] \in WasReady
          /\ answer \notin {"start", "startwait", "parts"}
      BY <1>2, <1>3 DEF Told, Pc, Asleep, Heard, WasReady
    <2> QED BY <1>1, <1>2, <1>3, <2>1, GotoOwn DEF Told, Asleep
  <1>4. CASE Goto(i, "pollwait")
    BY <1>1, <1>2, <1>4, GotoOwn DEF Pc, Asleep
  <1>5. CASE cancelled /\ Goto(i, "hung")
    BY <1>1, <1>2, <1>5, HungOwn DEF Asleep
  <1> QED BY <1>3, <1>4, <1>5 DEF Poll, PollError

\* What enqueueFiles hands to pump().
LEMMA EnqueueReady ==
    ASSUME Inv, NEW k \in Item, EnqueueFiles(k),
           NEW new, new = (picked + 1) .. (picked + k),
           NEW q, q = queue \cup new,
           NEW st, st = [i \in Item |-> IF i \in new THEN "waiting" ELSE status[i]]
    PROVE  /\ Ready(q, st, pc, activeCount, "progress")
           /\ Pump(q, st, pc, activeCount, "progress")
           /\ new \subseteq Item
           /\ \A i \in new : pc[i] = "none" /\ status[i] = "none"
  <1>1. /\ picked \in Nat /\ MaxItems \in Nat /\ picked + k <= MaxItems /\ k \in Nat \ {0}
        /\ picked' = picked + k /\ cancelled' = FALSE
        /\ UNCHANGED <<byUrl, tokens, tries, idx, row, deletes>>
        /\ Pump(q, st, pc, activeCount, "progress")
    BY ItemsAssumption DEF EnqueueFiles, Inv, DataType, Item, chain, server
  <1>2. /\ new \subseteq Item /\ new # {} /\ queue \subseteq 1 .. picked
        /\ \A i \in new : i > picked
        /\ \A i \in Item : i > picked + k => i \notin new /\ i > picked
    <2>1. picked + 1 \in new
      BY <1>1
    <2>2. new \subseteq Item
      BY <1>1 DEF Item
    <2>3. queue \subseteq 1 .. picked
      BY DEF Inv, DataType
    <2>4. \A i \in Nat : i \in new <=> picked < i /\ i <= picked + k
      BY <1>1
    <2> QED BY <1>1, <2>1, <2>2, <2>3, <2>4 DEF Item
  <1>3. \A i \in new : i \notin queue /\ pc[i] = "none" /\ status[i] = "none"
    BY <1>1, <1>2 DEF Inv, ChainInv, ChainAt
  <1>4. /\ st \in [Item -> Status]
        /\ \A i \in Item : /\ i \in new => st[i] = "waiting"
                           /\ i \notin new => st[i] = status[i]
    BY DEF Inv, ScreenInv, ScreenType, Status
  <1>5. {i \in q : st[i] = "uploading"} = Rows("uploading")
    BY <1>2, <1>3, <1>4 DEF Rows, Inv, ScreenInv, ScreenType
  <1>6. Ready(q, st, pc, activeCount, "progress")
    <2>1. /\ q \subseteq Item /\ q # {} /\ activeCount \in 0 .. MAX_CONCURRENT
          /\ pc \in [Item -> Pc]
      BY <1>2 DEF Inv, ScreenInv, ScreenType
    <2>2. \A i \in q : st[i] # "none" /\ (st[i] = "uploading" => pc[i] \notin Asleep)
      BY <1>2, <1>3, <1>4, <2>1 DEF Inv, ScreenInv, Known, Chained
    <2>3. \A i \in Item : pc[i] \notin Asleep => st[i] = "uploading"
      BY <1>3, <1>4 DEF Inv, ScreenInv, Uploads, Asleep
    <2>4. activeCount <= Cardinality({i \in q : st[i] = "uploading"})
      BY <1>5 DEF Inv, ScreenInv, Counted
    <2> QED BY <1>4, <2>1, <2>2, <2>3, <2>4 DEF Ready, Stage
  <1> QED BY <1>1, <1>2, <1>3, <1>6

\* New files, dropped or pasted.
LEMMA EnqueueInv ==
    ASSUME Inv, NEW k \in Item, EnqueueFiles(k)
    PROVE  Inv'
  <1> DEFINE new == (picked + 1) .. (picked + k)
             q == queue \cup new
             st == [i \in Item |-> IF i \in new THEN "waiting" ELSE status[i]]
  <1>1. /\ picked \in Nat /\ MaxItems \in Nat /\ picked + k <= MaxItems /\ k \in Nat \ {0}
        /\ picked' = picked + k /\ cancelled' = FALSE
        /\ UNCHANGED <<byUrl, tokens, tries, idx, row, deletes>>
        /\ Pump(q, st, pc, activeCount, "progress")
    BY ItemsAssumption DEF EnqueueFiles, Inv, DataType, Item, chain, server
  <1>2. /\ new \subseteq Item
        /\ \A i \in Item : i \in new => i <= picked + k
        /\ \A i \in Item : i > picked + k => i \notin new /\ i > picked
    BY <1>1 DEF Item
  <1>3. \A i \in new : pc[i] = "none" /\ status[i] = "none"
    BY EnqueueReady
  <1>4. \A i \in Item : /\ i \in new => st[i] = "waiting"
                        /\ i \notin new => st[i] = status[i]
    OBVIOUS
  <1>5. queue \subseteq 1 .. picked
    BY DEF Inv, DataType
  <1>6. Ready(q, st, pc, activeCount, "progress")
    BY EnqueueReady
  <1>7. ScreenInv'
    BY <1>1, <1>6, PumpInv
  <1>8. PICK S \in SUBSET Item : Pumped(q, st, pc, activeCount, "progress", S)
    BY <1>1, <1>6, PumpStarts
  <1>9. /\ \A i \in Item : /\ i \in S => status'[i] = "uploading" /\ pc'[i] = "start"
                           /\ i \notin S => status'[i] = st[i] /\ pc'[i] = pc[i]
        /\ \A i \in S : i \in q /\ st[i] = "waiting"
        /\ queue' \subseteq q
    <2> HIDE DEF q, st
    <2> QED BY <1>8 DEF Pumped
  <1>10. ASSUME NEW j \in Item PROVE ChainAt(j)'
    <2>1. ChainAt(j) /\ j \in Nat
      BY DEF Inv, ChainInv, Item
    <2>2. CASE j \in new
      <3>1. pc[j] = "none" /\ idx[j] = 0 /\ ~(j > picked')
        BY <1>1, <1>3, <2>1, <2>2 DEF ChainAt
      <3>2. \/ status'[j] = "uploading" /\ pc'[j] = "start"
            \/ status'[j] = "waiting" /\ pc'[j] = "none"
        BY <1>4, <1>9, <2>2, <3>1
      <3> QED BY <1>1, <2>1, <3>1, <3>2 DEF ChainAt, Linked, Heard
    <2>3. CASE j \notin new /\ j \in S
      <3>1. status[j] = "waiting" /\ status'[j] = "uploading" /\ pc'[j] = "start"
        BY <1>4, <1>9, <2>3
      <3>2. ~(j > picked')
        BY <1>1, <1>2, <2>1, <3>1 DEF ChainAt
      <3> QED BY <1>1, <2>1, <3>1, <3>2 DEF ChainAt, Linked, Heard
    <2>4. CASE j \notin new /\ j \notin S
      <3>1. status'[j] = status[j] /\ pc'[j] = pc[j]
        BY <1>4, <1>9, <2>4
      <3> QED BY <1>1, <1>2, <2>1, <3>1 DEF ChainAt
    <2> QED BY <2>2, <2>3, <2>4
  <1>11. DataType'
    <2>1. q \subseteq 1 .. (picked + k) /\ 1 .. picked \subseteq 1 .. (picked + k)
      BY <1>1, <1>5
    <2> HIDE DEF q
    <2> QED BY <1>1, <1>9, <2>1 DEF Inv, DataType
  <1>12. Wanted'
    <2>1. \A j \in new : j \notin deletes
      BY <1>1 DEF Inv, DataType
    <2>2. \A j \in queue : j \notin deletes
      BY DEF Inv, Wanted
    <2> QED BY <1>1, <1>9, <2>1, <2>2 DEF Wanted
  <1> QED BY <1>7, <1>10, <1>11, <1>12 DEF Inv, ChainInv

\* A URL makes a queue of its own.
LEMMA UrlUploadInv ==
    ASSUME Inv, UrlUpload
    PROVE  Inv'
  <1> DEFINE i == picked + 1
  <1>1. /\ i \in Item /\ picked \in Nat /\ MaxItems \in Nat /\ i <= MaxItems
        /\ picked' = i /\ byUrl' = byUrl \cup {i} /\ queue' = {i}
        /\ status' = [status EXCEPT ![i] = "uploading"]
        /\ pc' = [pc EXCEPT ![i] = "url"]
        /\ activeCount' = 1 /\ cancelled' = FALSE /\ stage' = "progress"
        /\ UNCHANGED <<tokens, tries, idx, row, deletes>>
    BY ItemsAssumption DEF UrlUpload, Inv, DataType, Item, chain, server
  <1>2. status \in [Item -> Status] /\ pc \in [Item -> Pc]
    BY DEF Inv, ScreenInv, ScreenType
  <1> HIDE DEF i
  <1>3. ScreenType'
    BY <1>1, <1>2, ConcurrentAssumption DEF ScreenType, Status, Pc, Stage
  <1>4. Rows("uploading")' = {i} /\ Rows("waiting")' = {} /\ i \in Live'
    BY <1>1, <1>2 DEF Rows, Live, Asleep
  <1>5. Counted'
    <2>1. Cardinality({i}) = 1
      BY FS_Singleton
    <2> QED BY <1>1, <1>4, <2>1 DEF Counted
  <1>6. ScreenTrue' /\ NoStall'
    BY <1>1, <1>4 DEF ScreenTrue, NoStall
  <1>7. Known' /\ Chained' /\ Emptied'
    BY <1>1, <1>2 DEF Known, Chained, Emptied, Asleep
  <1>8. Uploads'
    BY <1>1, <1>2 DEF Uploads, Inv, ScreenInv
  <1>9. ASSUME NEW j \in Item PROVE ChainAt(j)'
    <2>1. ChainAt(j) /\ j \in Nat
      BY DEF Inv, ChainInv, Item
    <2>2. CASE j = i
      <3>1. pc[i] = "none" /\ idx[i] = 0
        BY <1>1, <2>1, <2>2 DEF i, ChainAt
      <3>2. ~(i > picked') /\ idx'[i] = 0
        BY <1>1, <2>1, <2>2, <3>1
      <3> QED BY <1>1, <1>2, <2>2, <3>1, <3>2 DEF ChainAt, Linked, Heard
    <2>3. CASE j # i
      <3>1. status'[j] = status[j] /\ pc'[j] = pc[j] /\ (j > picked' => j > picked)
        BY <1>1, <1>2, <2>1, <2>3 DEF i
      <3> QED BY <1>1, <2>1, <3>1 DEF ChainAt
    <2> QED BY <2>2, <2>3
  <1>10. DataType'
    <2>1. i \in 1 .. i /\ 1 .. picked \subseteq 1 .. i /\ i \in 0 .. MaxItems
      BY <1>1 DEF i
    <2> QED BY <1>1, <2>1 DEF Inv, DataType
  <1>11. Wanted'
    BY <1>1 DEF i, Inv, DataType, Wanted
  <1> QED BY <1>3, <1>5, <1>6, <1>7, <1>8, <1>9, <1>10, <1>11
          DEF Inv, ScreenInv, ChainInv

\* Both buttons empty the queue.
LEMMA ButtonsInv ==
    ASSUME Inv, Cancel \/ Again
    PROVE  Inv'
  <1>1. /\ queue' = {} /\ activeCount' = 0 /\ stage' = "pick"
        /\ UNCHANGED <<picked, byUrl, status, tokens, tries, idx, row>>
    BY DEF Cancel, Again, picks, chain, server
  <1>2. /\ pc \in [Item -> Pc] /\ status \in [Item -> Status]
        /\ queue \subseteq Item
    BY DEF Inv, ScreenInv, ScreenType
  <1>3. /\ pc' \in [Item -> Pc] /\ deletes' \subseteq 1 .. picked
        /\ \A j \in Item : \/ pc'[j] = pc[j]
                           \/ pc[j] = "parts" /\ pc'[j] = "hung"
    <2>1. CASE Cancel
      BY <1>2, <2>1 DEF Cancel, At, Rows, Pc, Asleep, Inv, DataType
    <2>2. CASE Again
      BY <1>2, <2>2 DEF Again, server, Inv, DataType
    <2> QED BY <2>1, <2>2
  <1>4. Uploads'
    BY <1>1, <1>3 DEF Uploads, Inv, ScreenInv, Asleep
  <1>5. ScreenInv'
    BY <1>1, <1>2, <1>3, <1>4, EmptyScreen
  <1>6. ASSUME NEW j \in Item PROVE ChainAt(j)'
    <2>1. ChainAt(j)
      BY DEF Inv, ChainInv
    <2> QED BY <1>1, <1>3, <2>1 DEF ChainAt, Linked, Heard
  <1>7. DataType' /\ Wanted'
    BY <1>1, <1>3 DEF Inv, DataType, Wanted
  <1> QED BY <1>5, <1>6, <1>7 DEF Inv, ChainInv

\* Of a row that was ready it can be seen, whatever the server does to it.
LEMMA ServerInv ==
    ASSUME Inv, NEW i \in Item, Server(i)
    PROVE  Inv'
  <1>1. UNCHANGED <<picked, byUrl, queue, activeCount, stage, status, cancelled,
                    pc, tokens, tries, idx, deletes>>
    BY DEF Server, Distributed, CancelArrives, Dropped, picks, screen, chain
  <1>2. row \in [Item -> RowState]
    BY DEF Inv, DataType
  <1>3. /\ row' \in [Item -> RowState]
        /\ \A j \in Item : row[j] \in WasReady => row'[j] \in WasReady
    <2>1. CASE Distributed(i)
      BY <1>2, <2>1 DEF Distributed, RowState, WasReady
    <2>2. CASE CancelArrives(i)
      BY <1>2, <2>2 DEF CancelArrives, RowState, WasReady
    <2>3. CASE Dropped(i)
      BY <1>2, <2>3 DEF Dropped, Vanished, RowState, WasReady
    <2> QED BY <2>1, <2>2, <2>3 DEF Server
  <1>4. ScreenInv'
    BY <1>1 DEF Inv, ScreenInv, ScreenType, ScreenTrue, NoStall, Known, Chained,
                Uploads, Counted, Emptied, Rows, Live
  <1>5. ASSUME NEW j \in Item PROVE ChainAt(j)'
    BY <1>1, <1>3 DEF ChainAt, Inv, ChainInv
  <1>6. DataType' /\ Wanted'
    BY <1>1, <1>3 DEF Inv, DataType, Wanted
  <1> QED BY <1>4, <1>5, <1>6 DEF Inv, ChainInv

-----------------------------------------------------------------------------
(* The theorems                                                            *)

\* The page as it is loaded.
LEMMA InitInv == Init => Inv
  <1> SUFFICES ASSUME Init PROVE Inv
    OBVIOUS
  <1>1. \A t : Rows(t) = {}
    BY DEF Init, Rows
  <1>2. ScreenType /\ Counted
    BY <1>1, ConcurrentAssumption, FS_EmptySet
       DEF Init, ScreenType, Counted, Stage, Status, Pc, Asleep
  <1>3. ScreenTrue /\ NoStall /\ Known /\ Chained /\ Uploads /\ Emptied
    BY <1>1 DEF Init, ScreenTrue, NoStall, Known, Chained, Uploads, Emptied, Asleep
  <1>4. ChainInv
    BY DEF Init, ChainInv, ChainAt, Linked, Heard
  <1>5. DataType /\ Wanted
    BY ItemsAssumption, PartsAssumption, AttemptsAssumption
       DEF Init, DataType, RowState, Wanted
  <1> QED BY <1>2, <1>3, <1>4, <1>5 DEF Inv, ScreenInv

\* Nothing happens.
LEMMA StutterInv == Inv /\ UNCHANGED vars => Inv'
  BY DEF vars, picks, screen, chain, server, Inv, ScreenInv, ScreenType, ScreenTrue,
         NoStall, Known, Chained, Uploads, Counted, Emptied, Rows, Live,
         ChainInv, ChainAt, DataType, Wanted

\* Every handler keeps the invariant.
LEMMA NextInv == Inv /\ [Next]_vars => Inv'
  <1> SUFFICES ASSUME Inv, [Next]_vars PROVE Inv'
    OBVIOUS
  <1>1. CASE PickFiles \/ Paste
    BY <1>1, EnqueueInv DEF PickFiles, Paste
  <1>2. CASE UrlUpload
    BY <1>2, UrlUploadInv
  <1>3. CASE Cancel \/ Again
    BY <1>3, ButtonsInv
  <1>4. ASSUME NEW i \in Item, Answer(i) PROVE Inv'
    BY <1>4, AnswerInv
  <1>5. ASSUME NEW i \in Item, Poll(i) PROVE Inv'
    BY <1>5, PollInv
  <1>6. ASSUME NEW i \in Item, Server(i) PROVE Inv'
    BY <1>6, ServerInv
  <1>7. CASE UNCHANGED vars
    BY <1>7, StutterInv
  <1> QED BY <1>1, <1>2, <1>3, <1>4, <1>5, <1>6, <1>7 DEF Next

\* The inductive invariant of the page: the screen fits the queue, the counter
\* of pump() is never ahead of the uploads of the present queue, and every
\* chain fits the row, the token and the status of its item (static/app.js).
THEOREM PageInv == Spec => []Inv
  BY InitInv, NextInv, PTL DEF Spec

\* `cancelled` is set and cleared, never anything else.
Flag == cancelled \in BOOLEAN

\* The flag that cancel sets and a new batch clears is a Boolean.
LEMMA FlagType == Spec => []Flag
  <1>1. Init => Flag
    BY DEF Init, Flag
  <1>2. Flag /\ [Next]_vars => Flag'
    <2> SUFFICES ASSUME Flag, [Next]_vars PROVE Flag'
      OBVIOUS
    <2> DEFINE Kept == cancelled' = TRUE \/ cancelled' = FALSE \/ cancelled' = cancelled
    <2>1. ASSUME PickFiles \/ Paste PROVE Kept
      BY <2>1, Zenon DEF PickFiles, Paste, EnqueueFiles
    <2>2. ASSUME UrlUpload \/ Cancel \/ Again PROVE Kept
      BY <2>2, Zenon DEF UrlUpload, Cancel, Again
    <2>3. ASSUME NEW i \in Item, Answer(i) PROVE Kept
      BY <2>3, Zenon DEF Answer, Backoff, Resend, StartOk, StartFails, PartOk,
           PartFails, FinishOk, FinishFails, UrlOk, UrlFails, PollReady,
           PollFailed, PollAgain, PollTimer
    <2>4. ASSUME NEW i \in Item, Poll(i) PROVE Kept
      BY <2>4, Zenon DEF Poll, Told, PollError
    <2>5. ASSUME NEW i \in Item, Server(i) PROVE Kept
      BY <2>5, Zenon DEF Server, Distributed, CancelArrives, Dropped
    <2>6. ASSUME UNCHANGED vars PROVE Kept
      BY <2>6, Zenon DEF vars
    <2> HIDE DEF Kept
    <2>7. Kept
      BY <2>1, <2>2, <2>3, <2>4, <2>5, <2>6 DEF Next
    <2> QED BY <2>7 DEF Kept, Flag
  <1> QED BY <1>1, <1>2, PTL DEF Spec

\* Every variable of the page has its type; in particular activeCount stays
\* within 0 .. MAX_CONCURRENT, whatever chains outlive their queue
\* (static/app.js:30 to 99).
THEOREM TypeCorrect == Spec => []TypeOK
  <1>1. ASSUME Inv, Flag PROVE TypeOK
    <2>1. deletes \subseteq Item
      BY <1>1, ItemsAssumption DEF Inv, DataType, Item
    <2>2. row \in [Item -> {"none", "uploading", "distributing", "ready", "failed"}
                               \cup Vanished]
      BY <1>1 DEF Inv, DataType, RowState, Vanished
    <2> QED BY <1>1, <2>1, <2>2
            DEF Flag, Inv, ScreenInv, ScreenType, DataType, TypeOK, Status, Stage
  <1> QED BY <1>1, PageInv, FlagType, PTL

\* The stage the page shows is the one its queue is in: it never freezes in
\* the progress stage, and shows the links only when every file has ended
\* (static/app.js:73 to 93).
THEOREM ScreenTruthful == Spec => []ScreenTrue
  <1>1. Inv => ScreenTrue
    BY DEF Inv, ScreenInv
  <1> QED BY <1>1, PageInv, PTL

\* No file waits while a slot is free, after any cancel, paste or failure
\* (static/app.js:73 to 99).
THEOREM NeverStalls == Spec => []NoStall
  <1>1. Inv => NoStall
    BY DEF Inv, ScreenInv
  <1> QED BY <1>1, PageInv, PTL

\* Every link on the page is that of a file that has become ready and that
\* this page has not given up, however late the answer of its poll is heard
\* and whatever queues were cancelled in between (static/app.js:211 and 262).
THEOREM LinksLead == Spec => []LinksGood
  <1>1. Inv => LinksGood
    BY DEF Inv, ScreenInv, ScreenType, ChainInv, ChainAt, Wanted, WasReady,
           LinksGood, Links, Rows
  <1> QED BY <1>1, PageInv, PTL

-----------------------------------------------------------------------------
(* The queue of files is a pool                                            *)

Waits(s) == {i \in Item : s[i] = "waiting"}
Ends(s) == {i \in Item : s[i] \in {"done", "failed"}}
Lives(p) == {i \in Item : p[i] \notin Asleep}

\* With files only, a chain never outlives its queue: the counter counts the
\* chains exactly, and all that waits or uploads is in the queue.
FilesInv ==
    /\ cancelled = FALSE /\ byUrl = {}
    /\ \A i \in Item : pc[i] # "url"
    /\ \A i \in Item : status[i] \in {"waiting", "uploading"} => i \in queue
    /\ activeCount = Cardinality(Live)

\* What pump() does to the pool.
Filled(s, p, S) ==
    /\ S \subseteq Waits(s)
    /\ Live' = Lives(p) \cup S
    /\ Waits(status)' = Waits(s) \ S
    /\ Ends(status)' = Ends(s)
    /\ Cardinality(Live') <= MAX_CONCURRENT
    /\ Waits(status)' # {} => Cardinality(Live') = MAX_CONCURRENT
    /\ \A i \in S, j \in Waits(status)' : i < j

\* pump() is a step of the pool.
LEMMA PumpPool ==
    ASSUME NEW q, NEW s, NEW p, NEW n, NEW g,
           Ready(q, s, p, n, g), Pump(q, s, p, n, g),
           cancelled' = FALSE, byUrl' = {},
           n = Cardinality(Lives(p)),
           \A i \in Item : s[i] \in {"waiting", "uploading"} => i \in q,
           \A i \in Item : p[i] # "url"
    PROVE  FilesInv' /\ \E S \in SUBSET Item : Filled(s, p, S)
  <1>1. PICK S \in SUBSET Item : Pumped(q, s, p, n, g, S)
    BY PumpStarts
  <1>2. /\ q \subseteq Item
        /\ \A i \in S : i \in q /\ s[i] = "waiting"
        /\ \A i \in Item : /\ i \in S => status'[i] = "uploading" /\ pc'[i] = "start"
                           /\ i \notin S => status'[i] = s[i] /\ pc'[i] = p[i]
    BY <1>1 DEF Ready, Pumped
  <1>3. /\ Live' = Lives(p) \cup S
        /\ Waits(status)' = Waits(s) \ S
        /\ Ends(status)' = Ends(s)
    BY <1>2 DEF Live, Lives, Waits, Ends, Asleep
  <1>4. Lives(p) \cap S = {}
    BY <1>1, <1>2 DEF Lives, Ready
  <1>5. Cardinality(Live') = n + Cardinality(S)
    <2>1. IsFiniteSet(Lives(p)) /\ IsFiniteSet(S)
      BY ItemFinite, FS_Subset DEF Lives
    <2>2. Cardinality(Lives(p) \cup S)
            = Cardinality(Lives(p)) + Cardinality(S) - Cardinality(Lives(p) \cap S)
      BY <2>1, FS_Union
    <2>3. Cardinality(Lives(p) \cap S) = 0
      BY <1>4, FS_EmptySet
    <2>4. Cardinality(Lives(p)) \in Nat /\ Cardinality(S) \in Nat
      BY <2>1, FS_CardinalityType
    <2> QED BY <1>3, <2>2, <2>3, <2>4
  <1>6. activeCount' = Cardinality(Live') /\ activeCount' <= MAX_CONCURRENT
    BY <1>1, <1>5 DEF Pumped
  <1>7. \A j \in Waits(status)' : j \in q \ S /\ s[j] = "waiting"
    BY <1>3 DEF Waits
  <1>8. /\ Waits(status)' # {} => Cardinality(Live') = MAX_CONCURRENT
        /\ \A i \in S, j \in Waits(status)' : i < j
    BY <1>1, <1>6, <1>7 DEF Pumped
  <1>9. \A i \in Item : status'[i] \in {"waiting", "uploading"} => i \in queue'
    <2>1. \A i \in Item : status'[i] \in {"waiting", "uploading"} => i \in q
      BY <1>2
    <2>2. CASE queue' = q
      BY <2>1, <2>2
    <2>3. CASE S = {} /\ \A i \in q : s[i] \in {"done", "failed"}
      BY <1>2, <2>1, <2>3
    <2> QED BY <1>1, <2>2, <2>3 DEF Pumped
  <1>10. \A i \in Item : pc'[i] # "url"
    BY <1>2
  <1>11. S \subseteq Waits(s)
    BY <1>2 DEF Waits
  <1>12. Filled(s, p, S)
    BY <1>3, <1>6, <1>8, <1>11 DEF Filled
  <1> QED BY <1>6, <1>9, <1>10, <1>12 DEF FilesInv

\* A step of the pool, by its three sets.
LEMMA PoolStep ==
    ASSUME NEW new \in SUBSET (Item \ (Waits(status) \cup Live \cup Ends(status))),
           NEW ends \in SUBSET Live,
           NEW starts \in SUBSET (Waits(status) \cup new),
           Waits(status)' = (Waits(status) \cup new) \ starts,
           Live' = (Live \ ends) \cup starts,
           Ends(status)' = Ends(status) \cup ends,
           Cardinality(Live') <= MAX_CONCURRENT,
           Waits(status)' # {} => Cardinality(Live') = MAX_CONCURRENT,
           \A i \in starts, j \in Waits(status)' : i < j
    PROVE  P!Next
  <1>1. \A S : P!Cardinality(S) = Cardinality(S)
    BY DEF P!Cardinality, P!IsFiniteSet, Cardinality, IsFiniteSet
  <1>2. P!Step(new, ends, starts)
    BY <1>1 DEF P!Step, Waits, Ends
  <1> QED BY <1>2 DEF P!Next, Waits, Ends

\* New files are a step of the pool.
LEMMA EnqueuePool ==
    ASSUME Inv, FilesInv, NEW k \in Item, EnqueueFiles(k)
    PROVE  FilesInv' /\ P!Next
  <1> DEFINE new == (picked + 1) .. (picked + k)
             q == queue \cup new
             st == [i \in Item |-> IF i \in new THEN "waiting" ELSE status[i]]
  <1>1. /\ Ready(q, st, pc, activeCount, "progress")
        /\ Pump(q, st, pc, activeCount, "progress")
        /\ new \subseteq Item
        /\ \A i \in new : pc[i] = "none" /\ status[i] = "none"
    BY EnqueueReady
  <1>2. cancelled' = FALSE /\ byUrl' = {}
    BY DEF EnqueueFiles, FilesInv
  <1>3. \A i \in Item : /\ i \in new => st[i] = "waiting"
                        /\ i \notin new => st[i] = status[i]
    OBVIOUS
  <1> HIDE DEF new, st
  <1>4. /\ activeCount = Cardinality(Lives(pc)) /\ Live = Lives(pc)
        /\ \A i \in Item : st[i] \in {"waiting", "uploading"} => i \in q
        /\ \A i \in Item : pc[i] # "url"
    BY <1>3 DEF FilesInv, Live, Lives
  <1> HIDE DEF q
  <1>5. FilesInv' /\ \E S \in SUBSET Item : Filled(st, pc, S)
    BY <1>1, <1>2, <1>4, PumpPool
  <1>6. PICK S \in SUBSET Item : Filled(st, pc, S)
    BY <1>5
  <1>7. /\ Waits(st) = Waits(status) \cup new /\ Ends(st) = Ends(status)
        /\ new \in SUBSET (Item \ (Waits(status) \cup Live \cup Ends(status)))
    BY <1>1, <1>3 DEF Waits, Ends, Live, Asleep
  <1>8. P!Next
    <2>1. {} \in SUBSET Live /\ S \in SUBSET (Waits(status) \cup new)
      BY <1>6, <1>7 DEF Filled
    <2>2. /\ Waits(status)' = (Waits(status) \cup new) \ S
          /\ Live' = (Live \ {}) \cup S
          /\ Ends(status)' = Ends(status) \cup {}
      BY <1>4, <1>6, <1>7 DEF Filled
    <2> QED BY <1>6, <1>7, <2>1, <2>2, PoolStep DEF Filled
  <1> QED BY <1>5, <1>8

\* The end of a file is a step of the pool.
LEMMA ItemDonePool ==
    ASSUME Inv, FilesInv, NEW i \in Item, pc[i] \notin Asleep,
           NEW e \in {"done", "failed"}, ItemDone(i, e), UNCHANGED <<picks, cancelled>>
    PROVE  FilesInv' /\ P!Next
  <1> DEFINE st == StatusOf(i, e)
             at == PcOver(i)
  <1>1. /\ Ready(queue, st, at, OneLess, stage)
        /\ st[i] = e /\ at[i] = "over" /\ status[i] = "uploading"
        /\ \A j \in Item \ {i} : st[j] = status[j] /\ at[j] = pc[j]
    BY ItemDoneReady DEF Inv
  <1>2. Pump(queue, st, at, OneLess, stage) /\ cancelled' = FALSE /\ byUrl' = {}
    BY DEF ItemDone, FilesInv, StatusOf, PcOver, OneLess, picks
  <1> HIDE DEF st, at
  <1>3. Live = Lives(pc) /\ Lives(at) = Live \ {i} /\ i \in Live
    BY <1>1 DEF Live, Lives, Asleep
  <1>4. OneLess = Cardinality(Lives(at))
    <2>1. IsFiniteSet(Live)
      BY ItemFinite, FS_Subset DEF Live
    <2>2. Cardinality(Live \ {i}) = Cardinality(Live) - 1 /\ Cardinality(Live) \in Nat
      BY <1>3, <2>1, FS_RemoveElement, FS_CardinalityType
    <2>3. Cardinality(Live) # 0
      BY <1>3, <2>1, FS_EmptySet
    <2> QED BY <1>3, <2>2, <2>3 DEF OneLess, FilesInv
  <1>5. /\ \A j \in Item : st[j] \in {"waiting", "uploading"} => j \in queue
        /\ \A j \in Item : at[j] # "url"
    BY <1>1 DEF FilesInv
  <1>6. FilesInv' /\ \E S \in SUBSET Item : Filled(st, at, S)
    BY <1>1, <1>2, <1>4, <1>5, PumpPool
  <1>7. PICK S \in SUBSET Item : Filled(st, at, S)
    BY <1>6
  <1>8. Waits(st) = Waits(status) /\ Ends(st) = Ends(status) \cup {i}
    BY <1>1 DEF Waits, Ends
  <1>9. P!Next
    <2>1. /\ {} \in SUBSET (Item \ (Waits(status) \cup Live \cup Ends(status)))
          /\ {i} \in SUBSET Live
          /\ S \in SUBSET (Waits(status) \cup {})
      BY <1>3, <1>7, <1>8 DEF Filled
    <2>2. /\ Waits(status)' = (Waits(status) \cup {}) \ S
          /\ Live' = (Live \ {i}) \cup S
          /\ Ends(status)' = Ends(status) \cup {i}
      BY <1>3, <1>7, <1>8 DEF Filled
    <2> QED BY <1>7, <2>1, <2>2, PoolStep DEF Filled
  <1> QED BY <1>6, <1>9

\* Every other handler leaves the pool as it is.
Idle ==
    /\ UNCHANGED <<activeCount, status, cancelled, byUrl>>
    /\ \A j \in Item : /\ pc'[j] \notin Asleep <=> pc[j] \notin Asleep
                       /\ pc'[j] # "url"
    /\ queue' = queue \/ (\A j \in queue : status[j] \in {"done", "failed"})

\* Such a handler is a stuttering step of the pool.
LEMMA IdlePool ==
    ASSUME FilesInv, Idle
    PROVE  FilesInv' /\ UNCHANGED P!vars
  <1>1. Live' = Live
    BY DEF Idle, Live
  <1>2. UNCHANGED <<status, Live>>
    BY <1>1 DEF Idle
  <1>3. UNCHANGED P!vars
    BY <1>2 DEF P!vars
  <1>4. FilesInv'
    BY <1>1 DEF Idle, FilesInv
  <1> QED BY <1>3, <1>4

\* A chain that goes on is one.
LEMMA GotoIdle ==
    ASSUME Inv, FilesInv, NEW i \in Item, pc[i] \notin Asleep,
           NEW t \in Pc \ (Asleep \cup {"url"}), Goto(i, t),
           UNCHANGED <<picks, cancelled>>
    PROVE  Idle
  <1>1. pc \in [Item -> Pc]
    BY DEF Inv, ScreenInv, ScreenType
  <1> QED BY <1>1 DEF Idle, Goto, screen, picks, FilesInv

\* Every handler of this user is a step of the pool or none.
LEMMA FilesNext ==
    ASSUME Habits \subseteq {"paste"}, Inv, FilesInv, [Next]_vars
    PROVE  FilesInv' /\ (P!Next \/ UNCHANGED P!vars)
  <1> DEFINE Goal == FilesInv' /\ (P!Next \/ UNCHANGED P!vars)
  <1>1. ASSUME PickFiles \/ Paste PROVE Goal
    BY <1>1, EnqueuePool DEF PickFiles, Paste
  <1>2. ASSUME UrlUpload \/ Cancel PROVE Goal
    BY <1>2 DEF UrlUpload, Cancel
  <1>3. ASSUME Again PROVE Goal
    <2>1. \A j \in queue : status[j] \in {"done", "failed"}
      BY <1>3 DEF Again, Inv, ScreenInv, ScreenTrue, Rows
    <2>2. activeCount = 0
      <3>1. Rows("uploading") = {}
        BY <2>1 DEF Rows
      <3>2. Cardinality(Rows("uploading")) = 0
        BY <3>1, FS_EmptySet
      <3> QED BY <3>2, ConcurrentAssumption DEF Inv, ScreenInv, ScreenType, Counted
    <2>3. Idle
      BY <1>3, <2>1, <2>2 DEF Again, Idle, FilesInv, picks
    <2> QED BY <2>3, IdlePool
  <1>4. ASSUME NEW i \in Item, Answer(i) PROVE Goal
    <2>1. ~At(i, "url")
      BY DEF At, FilesInv
    <2>2. /\ UNCHANGED <<picks, cancelled>> /\ pc[i] \notin Asleep
          /\ \/ ItemDone(i, "failed") \/ ItemDone(i, "done")
             \/ \E t \in Pc \ (Asleep \cup {"url"}) : Goto(i, t)
      <3>1. CASE PollReady(i) \/ PollFailed(i) \/ PollAgain(i)
        BY <3>1 DEF PollReady, PollFailed, PollAgain, FilesInv, At, Asleep, Heard, Pc
      <3>2. CASE ~(PollReady(i) \/ PollFailed(i) \/ PollAgain(i))
        BY <1>4, <2>1, <3>2 DEF Answer, Backoff, Resend, StartOk, StartFails, PartOk,
             PartFails, FinishOk, FinishFails, UrlOk, UrlFails, PollTimer, At, Asleep, Pc
      <3> QED BY <3>1, <3>2
    <2> QED BY <2>2, ItemDonePool, GotoIdle, IdlePool
  <1>5. ASSUME NEW i \in Item, Poll(i) PROVE Goal
    <2>1. /\ UNCHANGED <<picks, cancelled>> /\ pc[i] \notin Asleep
          /\ \E t \in Pc \ (Asleep \cup {"url"}) : Goto(i, t)
      BY <1>5 DEF Poll, Told, PollError, FilesInv, At, Asleep, Heard, Pc
    <2> QED BY <2>1, GotoIdle, IdlePool
  <1>6. ASSUME NEW i \in Item, Server(i) PROVE Goal
    <2>1. Idle
      BY <1>6 DEF Server, Distributed, CancelArrives, Dropped, Idle, picks, screen, FilesInv
    <2> QED BY <2>1, IdlePool
  <1>7. ASSUME UNCHANGED vars PROVE Goal
    <2>1. Idle
      BY <1>7 DEF vars, Idle, picks, screen, FilesInv
    <2> QED BY <2>1, IdlePool
  <1> HIDE DEF Goal
  <1>8. Goal
    BY <1>1, <1>2, <1>3, <1>4, <1>5, <1>6, <1>7 DEF Next
  <1> QED BY <1>8 DEF Goal

\* For a user who only picks and pastes files, the queue is a pool of
\* MAX_CONCURRENT slots: first come first served, never over-committed, no
\* slot idle, and nothing started or ended twice (static/app.js:62 to 99).
THEOREM QueueIsPool ==
    ASSUME Habits \subseteq {"paste"}
    PROVE  Spec => Pooled
  <1>1. Init => FilesInv
    <2> SUFFICES ASSUME Init PROVE FilesInv
      OBVIOUS
    <2>1. Live = {}
      BY DEF Init, Live, Asleep
    <2> QED BY <2>1, FS_EmptySet DEF Init, FilesInv
  <1>2. Init => P!Init
    BY DEF Init, P!Init, Live, Asleep
  <1>3. Inv /\ FilesInv /\ [Next]_vars => FilesInv' /\ [P!Next]_(P!vars)
    BY FilesNext
  <1> QED BY <1>1, <1>2, <1>3, PageInv, PTL DEF Spec, Pooled, P!Spec
=============================================================================
