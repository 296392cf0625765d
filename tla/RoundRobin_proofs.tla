-------------------------- MODULE RoundRobin_proofs --------------------------
(***************************************************************************)
(* The types hold and the row lock is never left behind, whatever the      *)
(* table holds at first (TypeCorrect, NoLockLeft).  Where the meta row     *)
(* exists, the lock makes the transactions of any number of callers,       *)
(* whatever fails in them, one sequence of indivisible deals (Atomic), so  *)
(* that no slot goes to two files (NoSlotTwice) and the parts are spread   *)
(* evenly over the channels (EvenlyDealt).                                 *)
(***************************************************************************)
EXTENDS RoundRobin, FiniteSetTheorems, SequenceTheorems, TLAPS

\* Who is in a transaction has a file, with parts.
Sized == \A c \in Callers : pc[c] # "idle" => size[c] \in Sizes

\* Between its SELECT and its COMMIT a caller holds the lock, and what it read
\* is still what is stored.
Locked ==
    /\ meta # Absent
    /\ \A c \in Callers :
          pc[c] \in {"upsert", "commit"} => lock = c /\ start[c] = meta

\* The deals made so far lie one after the other below the counter.
InOrder ==
    /\ Disjoint
    /\ \A j \in DOMAIN dealt : dealt[j].first + dealt[j].parts <= meta

LEMMA NoRowIsNoNumber == Absent \notin Nat
BY DEF Absent

-----------------------------------------------------------------------------
(* Types and the lock, whether or not there is a row.                      *)

LEMMA InitTyping == ASSUME Init PROVE TypeOK /\ Sized /\ LockHeldOpen
<1> USE DEF Init
<1>1. meta \in Nat \cup {Absent}  BY StoredAssumption
<1>2. DealtTypeOK  BY DEF DealtTypeOK
<1> QED  BY <1>1, <1>2 DEF TypeOK, Sized, LockHeldOpen

\* A call that ends, with or without the counter moved.
LEMMA Ending ==
    ASSUME TypeOK, Sized, LockHeldOpen, NEW c \in Callers, Unlock(c),
           meta' \in Nat \cup {Absent}, DealtTypeOK'
    PROVE  (TypeOK /\ Sized /\ LockHeldOpen)'
BY CallersAssumption DEF TypeOK, Sized, LockHeldOpen, Unlock, Goto

LEMMA StepTyping ==
    ASSUME TypeOK, Sized, LockHeldOpen, [Next]_vars
    PROVE  (TypeOK /\ Sized /\ LockHeldOpen)'
<1> USE CallersAssumption DEF TypeOK, Sized, LockHeldOpen, Goto, At
<1>1. ASSUME NEW c \in Callers, Begin(c)
      PROVE  (TypeOK /\ Sized /\ LockHeldOpen)'
  <2>1. DealtTypeOK'  BY <1>1 DEF Begin, DealtTypeOK
  <2> QED  BY <1>1, <2>1 DEF Begin
<1>2. ASSUME NEW c \in Callers, Select(c)
      PROVE  (TypeOK /\ Sized /\ LockHeldOpen)'
  <2>1. DealtTypeOK'  BY <1>2 DEF Select, DealtTypeOK
  <2> QED  BY <1>2, <2>1 DEF Select
<1>3. ASSUME NEW c \in Callers, Upsert(c)
      PROVE  (TypeOK /\ Sized /\ LockHeldOpen)'
  <2>1. DealtTypeOK'  BY <1>3 DEF Upsert, DealtTypeOK
  <2> QED  BY <1>3, <2>1 DEF Upsert
<1>4. ASSUME NEW c \in Callers, Commit(c) \/ CommitLost(c)
      PROVE  (TypeOK /\ Sized /\ LockHeldOpen)'
  <2>1. start[c] \in Nat /\ size[c] \in Sizes /\ size[c] \in Nat
    BY <1>4, SizesAssumption DEF Commit, CommitLost
  <2>2. meta' \in Nat  BY <1>4, <2>1 DEF Commit, CommitLost
  <2>3. [first |-> start[c], parts |-> size[c]] \in [first : Nat, parts : Sizes]
    BY <2>1
  <2>4. DealtTypeOK'
    <3>1. CASE Commit(c)  BY <2>3, <3>1 DEF Commit, DealtTypeOK
    <3>2. CASE CommitLost(c)  BY <3>2 DEF CommitLost, DealtTypeOK
    <3> QED  BY <1>4, <3>1, <3>2
  <2>5. Unlock(c)  BY <1>4 DEF Commit, CommitLost
  <2> QED  BY <2>2, <2>4, <2>5, Ending
<1>5. ASSUME NEW c \in Callers, Abort(c)
      PROVE  (TypeOK /\ Sized /\ LockHeldOpen)'
  <2>1. DealtTypeOK' /\ meta' \in Nat \cup {Absent} /\ Unlock(c)
    BY <1>5 DEF Abort, DealtTypeOK
  <2> QED  BY <2>1, Ending
<1>6. CASE UNCHANGED vars  BY <1>6 DEF vars, DealtTypeOK
<1> QED  BY <1>1, <1>2, <1>3, <1>4, <1>5, <1>6 DEF Next, Pick

LEMMA Typing == Spec => [](TypeOK /\ Sized /\ LockHeldOpen)
<1>1. Init => TypeOK /\ Sized /\ LockHeldOpen  BY InitTyping
<1>2. TypeOK /\ Sized /\ LockHeldOpen /\ [Next]_vars
        => (TypeOK /\ Sized /\ LockHeldOpen)'
  BY StepTyping
<1> QED  BY <1>1, <1>2, PTL DEF Spec

\* Every variable of the dealing has its type, and every plan a positive number
\* of parts, for any callers and whatever the table holds at first.
THEOREM TypeCorrect == Spec => []TypeOK
BY Typing, PTL

\* A transaction that ends, in whatever way, gives its row lock back: no lock
\* without a caller that will still commit or roll back.
THEOREM NoLockLeft == Spec => []LockHeldOpen
BY Typing, PTL

-----------------------------------------------------------------------------
(* One deal after the other, where the row exists.                         *)

LEMMA InitInv == ASSUME Stored # {}, Init PROVE Locked /\ InOrder
<1> USE DEF Init
<1>1. meta \in Nat /\ meta # Absent
  BY StoredAssumption, NoRowIsNoNumber
<1>2. Locked  BY <1>1 DEF Locked
<1>3. InOrder  BY DEF InOrder, Disjoint, Dealer!Disjoint
<1> QED  BY <1>2, <1>3

\* Who ends its transaction gives up its lock and changes no other caller.
LEMMA CommitDeals ==
    ASSUME TypeOK, Sized, Locked, NEW c \in Callers, Commit(c) \/ CommitLost(c)
    PROVE  /\ start[c] = meta /\ size[c] \in Sizes
           /\ meta' = meta + size[c]
           /\ \/ dealt' = Append(dealt, [first |-> meta, parts |-> size[c]])
              \/ UNCHANGED dealt
           /\ \A d \in Callers : d # c => pc[d] \notin {"upsert", "commit"}
BY CallersAssumption DEF TypeOK, Sized, Locked, Commit, CommitLost, At

\* Only a COMMIT moves the counter, and only then is a plan returned.
LEMMA OthersDealNothing ==
    ASSUME [Next]_vars, \A c \in Callers : ~Commit(c) /\ ~CommitLost(c)
    PROVE  UNCHANGED <<meta, dealt>>
BY DEF Next, Pick, Begin, Select, Upsert, Abort, vars

LEMMA StepLocked ==
    ASSUME TypeOK, Sized, Locked, [Next]_vars
    PROVE  Locked'
<1> USE CallersAssumption DEF TypeOK, Locked, Goto, At
<1>1. CASE \E c \in Callers : Commit(c) \/ CommitLost(c)
  <2>1. PICK c \in Callers : Commit(c) \/ CommitLost(c)  BY <1>1
  <2>2. /\ start[c] = meta /\ size[c] \in Sizes /\ meta' = meta + size[c]
        /\ \A d \in Callers : d # c => pc[d] \notin {"upsert", "commit"}
    BY <2>1, CommitDeals
  <2>3. meta \in Nat /\ size[c] \in Nat  BY <2>2, SizesAssumption
  <2>4. meta' # Absent  BY <2>2, <2>3, NoRowIsNoNumber
  <2> QED  BY <2>1, <2>2, <2>4 DEF Commit, CommitLost, Unlock
<1>2. CASE \E c \in Callers : Begin(c)  BY <1>2 DEF Begin
<1>3. CASE \E c \in Callers : Select(c)  BY <1>3 DEF Select
<1>4. CASE \E c \in Callers : Upsert(c)  BY <1>4 DEF Upsert
<1>5. CASE \E c \in Callers : Abort(c)  BY <1>5 DEF Abort, Unlock
<1>6. CASE UNCHANGED vars  BY <1>6 DEF vars
<1> QED  BY <1>1, <1>2, <1>3, <1>4, <1>5, <1>6 DEF Next, Pick

LEMMA StepInOrder ==
    ASSUME TypeOK, Sized, Locked, InOrder, [Next]_vars
    PROVE  InOrder'
<1> USE DEF InOrder, Disjoint, Dealer!Disjoint
<1>1. CASE \E c \in Callers : Commit(c) \/ CommitLost(c)
  <2>1. PICK c \in Callers : Commit(c) \/ CommitLost(c)  BY <1>1
  <2>2. /\ size[c] \in Nat /\ meta \in Nat /\ meta' = meta + size[c]
        /\ \/ dealt' = Append(dealt, [first |-> meta, parts |-> size[c]])
           \/ UNCHANGED dealt
    BY <2>1, CommitDeals, SizesAssumption DEF TypeOK, Locked
  <2>3. /\ Len(dealt) \in Nat /\ DOMAIN dealt = 1 .. Len(dealt)
        /\ \A j \in DOMAIN dealt :
              dealt[j].first \in Nat /\ dealt[j].parts \in Nat
    <3>1. dealt \in Seq([first : Nat, parts : Sizes])
      BY DEF TypeOK, DealtTypeOK
    <3>2. Len(dealt) \in Nat /\ DOMAIN dealt = 1 .. Len(dealt)
      BY <3>1
    <3>3. \A j \in DOMAIN dealt : dealt[j] \in [first : Nat, parts : Sizes]
      BY <3>1, <3>2, ElementOfSeq
    <3> QED  BY <3>2, <3>3, SizesAssumption
  <2>4. CASE UNCHANGED dealt
    BY <2>2, <2>3, <2>4
  <2>5. CASE dealt' = Append(dealt, [first |-> meta, parts |-> size[c]])
    <3>1. /\ DOMAIN dealt' = 1 .. (Len(dealt) + 1)
          /\ \A j \in DOMAIN dealt : dealt'[j] = dealt[j]
          /\ dealt'[Len(dealt) + 1] = [first |-> meta, parts |-> size[c]]
      BY <2>5 DEF TypeOK, DealtTypeOK
    <3>2. \A j \in DOMAIN dealt' :
             dealt'[j].first + dealt'[j].parts <= meta'
      BY <2>2, <2>3, <3>1, SMTT(30)
    <3>3. \A i, j \in DOMAIN dealt' :
             i < j => dealt'[i].first + dealt'[i].parts <= dealt'[j].first
      BY <2>2, <2>3, <3>1
    <3> QED  BY <3>2, <3>3
  <2> QED  BY <2>2, <2>4, <2>5
<1>2. CASE \A c \in Callers : ~Commit(c) /\ ~CommitLost(c)
  BY <1>2, OthersDealNothing
<1> QED  BY <1>1, <1>2

LEMMA Invariance ==
    ASSUME Stored # {}
    PROVE  Spec => [](TypeOK /\ Sized /\ Locked /\ InOrder)
<1>1. Init => Locked /\ InOrder  BY InitInv
<1>2. TypeOK /\ Sized /\ Locked /\ InOrder /\ [Next]_vars
        => (Locked /\ InOrder)'
  BY StepLocked, StepInOrder
<1> QED  BY <1>1, <1>2, Typing, PTL DEF Spec

\* Two files never get the same slot of the rotation, however many finish
\* requests draw at once and whichever of their statements fail.
THEOREM NoSlotTwice == ASSUME Stored # {} PROVE Spec => []Disjoint
<1>1. InOrder => Disjoint  BY DEF InOrder
<1> QED  BY <1>1, Invariance, PTL

\* "Read and increment are atomic": every step of every transaction is one
\* deal of the abstract dealer, or none.
THEOREM Atomic == ASSUME Stored # {} PROVE Spec => Deals
<1>1. Init => Dealer!Init
  BY InitInv, InitTyping DEF Init, TypeOK, Locked, Dealer!Init
<1>2. TypeOK /\ Sized /\ Locked /\ [Next]_vars
        => [Dealer!Next]_<<IF meta = Absent THEN 0 ELSE meta, dealt>>
  <2> SUFFICES ASSUME TypeOK, Sized, Locked, [Next]_vars
               PROVE  \/ Dealer!Next
                      \/ UNCHANGED <<meta, dealt>>
    OBVIOUS
  <2>1. CASE \E c \in Callers : Commit(c) \/ CommitLost(c)
    <3>1. PICK c \in Callers : Commit(c) \/ CommitLost(c)  BY <2>1
    <3>2. /\ size[c] \in Sizes /\ meta' = meta + size[c]
          /\ \/ dealt' = Append(dealt, [first |-> meta, parts |-> size[c]])
             \/ UNCHANGED dealt
      BY <3>1, CommitDeals
    <3>3. meta # Absent /\ meta' # Absent
      BY StepLocked DEF Locked
    <3> QED
      BY <3>2, <3>3 DEF Dealer!Next, Dealer!Deal, Dealer!Skip
  <2>2. CASE \A c \in Callers : ~Commit(c) /\ ~CommitLost(c)
    BY <2>2, OthersDealNothing
  <2> QED  BY <2>1, <2>2
<1> QED  BY <1>1, <1>2, Invariance, PTL DEF Spec, Deals, Dealer!Spec

-----------------------------------------------------------------------------
(* The rotation: slot x belongs to channel x % Channels.                   *)

LEMMA Multiples ==
    ASSUME NEW k \in Int, NEW r \in Int, r = Channels * k,
           -Channels < r, r < Channels
    PROVE  r = 0
<1> USE ChannelsAssumption
<1>1. CASE k >= 1
  <2>1. Channels * k >= Channels  BY <1>1, Z3
  <2> QED  BY <2>1
<1>2. CASE k <= -1
  <2>1. Channels * k <= -Channels  BY <1>2, Z3
  <2> QED  BY <2>1
<1>3. CASE k = 0  BY <1>3
<1> QED  BY <1>1, <1>2, <1>3

LEMMA Division ==
    ASSUME NEW x \in Int
    PROVE  \E q \in Int : /\ x % Channels \in 0 .. (Channels - 1)
                          /\ x = Channels * q + (x % Channels)
<1>1. /\ x \div Channels \in Int
      /\ x % Channels \in 0 .. (Channels - 1)
      /\ x = Channels * (x \div Channels) + (x % Channels)
  BY ChannelsAssumption, Z3
<1> QED  BY <1>1

\* The same channel comes round again after Channels slots, not before.
LEMMA Apart ==
    ASSUME NEW x \in Int, NEW y \in Int, x % Channels = y % Channels, x < y
    PROVE  y >= x + Channels
<1> USE ChannelsAssumption
<1>1. PICK p \in Int : x = Channels * p + (x % Channels)  BY Division
<1>2. PICK q \in Int : y = Channels * q + (y % Channels)  BY Division
<1>3. x % Channels \in Int  BY Division
<1> DEFINE k == q - p
<1>4. k \in Int /\ y - x \in Int /\ y - x = Channels * k
  <2>1. \A c, r \in Int :
           (Channels * q + r) - (Channels * p + r) = Channels * (q - p)
    BY Z3
  <2> QED  BY <1>1, <1>2, <1>3, <2>1
<1> HIDE DEF k
<1> QED  BY <1>4, Multiples

\* Who is d slots after a slot of channel x % Channels.
LEMMA Ahead ==
    ASSUME NEW x \in Int, NEW d \in Int, NEW b \in 0 .. (Channels - 1),
           (x % Channels) + d \in {b, b + Channels}
    PROVE  (x + d) % Channels = b
<1> USE ChannelsAssumption
<1>1. PICK p \in Int : /\ x % Channels \in 0 .. (Channels - 1)
                       /\ x = Channels * p + (x % Channels)
  BY Division
<1>2. PICK q \in Int :
         /\ (x + d) % Channels \in 0 .. (Channels - 1)
         /\ x + d = Channels * q + ((x + d) % Channels)
  <2> DEFINE y == x + d
  <2>1. y \in Int  OBVIOUS
  <2> HIDE DEF y
  <2>2. \E q \in Int : /\ y % Channels \in 0 .. (Channels - 1)
                       /\ y = Channels * q + (y % Channels)
    BY <2>1, Division
  <2> QED  BY <2>2 DEF y
<1> DEFINE s == (x + d) % Channels
<1>3. s \in Int /\ x % Channels \in Int  BY <1>1, <1>2
<1>4. PICK e \in {0, 1} : x + d = Channels * (p + e) + b
  <2>1. CASE (x % Channels) + d = b
    <3>1. x + d = Channels * (p + 0) + b  BY <1>1, <1>3, <2>1, Z3
    <3> QED  BY <3>1
  <2>2. CASE (x % Channels) + d = b + Channels
    <3>1. x + d = Channels * (p + 1) + b  BY <1>1, <1>3, <2>2, Z3
    <3> QED  BY <3>1
  <2> QED  BY <2>1, <2>2
<1> DEFINE k == q - (p + e)
<1>5. k \in Int /\ b - s \in Int /\ b - s = Channels * k
  <2>1. Channels * q + s = Channels * (p + e) + b  BY <1>2, <1>4
  <2>2. Channels * (q - (p + e)) = Channels * q - Channels * (p + e)  BY Z3
  <2>3. Channels * q \in Int /\ Channels * (p + e) \in Int  BY Z3
  <2> HIDE DEF s
  <2> QED  BY <1>3, <2>1, <2>2, <2>3
<1>6. b - s = 0
  <2>1. -Channels < b - s /\ b - s < Channels  BY <1>2
  <2> HIDE DEF k, s
  <2> QED  BY <1>5, <2>1, Multiples
<1> QED  BY <1>3, <1>6

\* The plan gives part i the channel of its slot.
LEMMA PlanFollows ==
    ASSUME NEW first \in Nat, NEW k \in Nat, NEW i \in 0 .. (k - 1)
    PROVE  PlanOf(first, k)[i] = (first + i) % Channels
<1> USE ChannelsAssumption
<1>1. PlanOf(first, k)[i] = ((first % Channels) + i) % Channels
  BY DEF PlanOf
<1> DEFINE base == first % Channels
<1>2. PICK p \in Int : base \in 0 .. (Channels - 1) /\ first = Channels * p + base
  <2>1. first \in Int  OBVIOUS
  <2>2. \E p \in Int : /\ first % Channels \in 0 .. (Channels - 1)
                       /\ first = Channels * p + (first % Channels)
    BY <2>1, Division
  <2> QED  BY <2>2
<1> DEFINE b == (base + i) % Channels
<1>3. PICK q \in Int : b \in 0 .. (Channels - 1) /\ base + i = Channels * q + b
  <2>1. base + i \in Int  BY <1>2
  <2> HIDE DEF base
  <2> QED  BY <2>1, Division
<1>4. (first + i) % Channels = b
  <2>1. PICK r \in Int :
           /\ (first + i) % Channels \in 0 .. (Channels - 1)
           /\ first + i = Channels * r + ((first + i) % Channels)
    <3> DEFINE y == first + i
    <3>1. y \in Int  OBVIOUS
    <3> HIDE DEF y
    <3>2. \E r \in Int : /\ y % Channels \in 0 .. (Channels - 1)
                         /\ y = Channels * r + (y % Channels)
      BY <3>1, Division
    <3> QED  BY <3>2 DEF y
  <2> DEFINE s == (first + i) % Channels
             m == r - (p + q)
  <2>2. Channels * (r - (p + q)) = Channels * r - Channels * p - Channels * q
    BY Z3
  <2>3. Channels * r \in Int /\ Channels * p \in Int /\ Channels * q \in Int
    BY Z3
  <2>4. m \in Int /\ b - s \in Int /\ b - s = Channels * m
    <3> HIDE DEF b, s, base
    <3>1. first + i = Channels * r + s  BY <2>1 DEF s
    <3>2. s \in Int  BY <2>1 DEF s
    <3> QED  BY <1>2, <1>3, <2>2, <2>3, <3>1, <3>2
  <2>5. -Channels < b - s /\ b - s < Channels  BY <1>3, <2>1
  <2> HIDE DEF m, b, s
  <2>6. b - s = 0  BY <2>4, <2>5, Multiples
  <2> QED  BY <1>3, <2>1, <2>6 DEF s
<1> QED  BY <1>1, <1>4

-----------------------------------------------------------------------------
(* Any stretch of the rotation serves the channels evenly.                 *)

Column(lo, hi, ch) == {x \in lo .. (hi - 1) : x % Channels = ch}

LEMMA ColumnFinite ==
    ASSUME NEW lo \in Int, NEW hi \in Int, NEW ch
    PROVE  /\ IsFiniteSet(Column(lo, hi, ch))
           /\ Cardinality(Column(lo, hi, ch)) \in Nat
<1>1. IsFiniteSet(lo .. (hi - 1))  BY FS_Interval
<1>2. Column(lo, hi, ch) \in SUBSET (lo .. (hi - 1))  BY DEF Column
<1>3. IsFiniteSet(Column(lo, hi, ch))  BY <1>1, <1>2, FS_Subset
<1> QED  BY <1>3, FS_CardinalityType

LEMMA ColumnsEven ==
    ASSUME NEW lo \in Int, NEW hi \in Int,
           NEW a \in 0 .. (Channels - 1), NEW b \in 0 .. (Channels - 1)
    PROVE  Cardinality(Column(lo, hi, a)) <= Cardinality(Column(lo, hi, b)) + 1
<1> USE ChannelsAssumption
<1> DEFINE d == IF a <= b THEN b - a ELSE b - a + Channels
           Late == {x \in Column(lo, hi, a) : x + d >= hi}
           Soon == Column(lo, hi, a) \ Late
           f == [x \in Soon |-> x + d]
<1>1. d \in 0 .. (Channels - 1)  OBVIOUS
<1>2. f \in Injection(Soon, Column(lo, hi, b))
  <2>1. ASSUME NEW x \in Soon PROVE x \in Int /\ f[x] \in Column(lo, hi, b)
    <3>1. x \in lo .. (hi - 1) /\ x % Channels = a /\ x + d < hi
      BY <1>1 DEF Column
    <3>2. a + d \in {b, b + Channels} /\ d \in Int  OBVIOUS
    <3> HIDE DEF d, Soon
    <3>3. (x + d) % Channels = b
      <4>1. x \in Int /\ (x % Channels) + d \in {b, b + Channels}
        BY <3>1, <3>2
      <4> QED  BY <3>2, <4>1, Ahead
    <3>4. x + d \in lo .. (hi - 1)  BY <1>1, <3>1
    <3> QED  BY <3>1, <3>3, <3>4 DEF Column
  <2>2. f \in [Soon -> Column(lo, hi, b)]
    <3> HIDE DEF d, Soon
    <3> QED  BY <2>1
  <2>3. \A x, y \in Soon : f[x] = f[y] => x = y
    <3> HIDE DEF d
    <3> QED  BY <1>1, <2>1
  <2> QED  BY <2>2, <2>3 DEF Injection, IsInjective
<1>3. Cardinality(Soon) <= Cardinality(Column(lo, hi, b))
  <2> HIDE DEF f, Soon
  <2> QED  BY <1>2, ColumnFinite, FS_Injection
<1>4. \A x, y \in Late : x = y
  <2> SUFFICES ASSUME NEW x \in Late, NEW y \in Late, x < y PROVE FALSE
    BY SMTT(30) DEF Column
  <2>1. /\ x \in Int /\ y \in Int /\ x % Channels = y % Channels
        /\ x + d >= hi /\ y < hi
    BY DEF Column
  <2>2. y >= x + Channels  BY <2>1, Apart
  <2> HIDE DEF d
  <2> QED  BY <1>1, <2>1, <2>2
<1>5. IsFiniteSet(Late) /\ Cardinality(Late) \in 0 .. 1
  <2> HIDE DEF Late
  <2>1. CASE Late = {}  BY <2>1, FS_EmptySet
  <2>2. ASSUME NEW x \in Late PROVE IsFiniteSet(Late) /\ Cardinality(Late) = 1
    <3>1. Late = {x}  BY <1>4
    <3> QED  BY <3>1, FS_Singleton
  <2> QED  BY <2>1, <2>2
<1>6. /\ Cardinality(Soon) \in Nat
      /\ Cardinality(Column(lo, hi, a)) = Cardinality(Soon) + Cardinality(Late)
  <2>1. Column(lo, hi, a) \cap Late = Late  OBVIOUS
  <2>2. /\ IsFiniteSet(Soon)
        /\ Cardinality(Soon)
             = Cardinality(Column(lo, hi, a)) - Cardinality(Column(lo, hi, a) \cap Late)
    BY ColumnFinite, FS_Difference
  <2> HIDE DEF Late, Soon
  <2>3. Cardinality(Column(lo, hi, a)) \in Nat  BY ColumnFinite
  <2>4. Cardinality(Soon) \in Nat  BY <2>2, FS_CardinalityType
  <2> QED  BY <1>5, <2>1, <2>2, <2>3, <2>4
<1> HIDE DEF Late, Soon, f
<1> QED  BY <1>3, <1>5, <1>6, ColumnFinite

-----------------------------------------------------------------------------
(* The parts dealt lie in the rotation without overlap.                    *)

Slot(p) == dealt[p[1]].first + p[2]
Loaded(ch) ==
    {p \in Parts : PlanOf(dealt[p[1]].first, dealt[p[1]].parts)[p[2]] = ch}
First == dealt[1].first
Last == End(dealt[Len(dealt)])

LEMMA DealsTyped ==
    ASSUME TypeOK
    PROVE  /\ Len(dealt) \in Nat /\ DOMAIN dealt = 1 .. Len(dealt)
           /\ dealt # <<>> => Len(dealt) # 0
           /\ \A j \in DOMAIN dealt :
                 dealt[j].first \in Nat /\ dealt[j].parts \in Nat
<1>1. dealt \in Seq([first : Nat, parts : Sizes])
  BY DEF TypeOK, DealtTypeOK
<1>2. /\ Len(dealt) \in Nat /\ DOMAIN dealt = 1 .. Len(dealt)
      /\ dealt # <<>> => Len(dealt) # 0
  BY <1>1
<1>3. \A j \in DOMAIN dealt : dealt[j] \in [first : Nat, parts : Sizes]
  BY <1>1, <1>2, ElementOfSeq
<1> QED  BY <1>2, <1>3, SizesAssumption

LEMMA PartsLaid ==
    ASSUME TypeOK, Disjoint, dealt # <<>>
    PROVE  /\ First \in Nat /\ Last \in Nat /\ First <= Last
           /\ \A p \in Parts :
                 /\ Slot(p) \in First .. (Last - 1)
                 /\ PlanOf(dealt[p[1]].first, dealt[p[1]].parts)[p[2]]
                      = Slot(p) % Channels
           /\ \A p, q \in Parts : Slot(p) = Slot(q) => p = q
<1> DEFINE n == Len(dealt)
<1>1. /\ n \in Nat \ {0} /\ DOMAIN dealt = 1 .. n
      /\ \A j \in 1 .. n : dealt[j].first \in Nat /\ dealt[j].parts \in Nat
      /\ \A i, j \in 1 .. n :
            i < j => dealt[i].first + dealt[i].parts <= dealt[j].first
  BY DealsTyped DEF Disjoint, Dealer!Disjoint
<1>2. \A p \in Parts : /\ p[1] \in 1 .. n
                       /\ p[2] \in 0 .. (dealt[p[1]].parts - 1)
                       /\ p = <<p[1], p[2]>>
  BY <1>1 DEF Parts
<1>3. First \in Nat /\ Last \in Nat /\ First <= Last
  BY <1>1 DEF First, Last, End
<1>4. ASSUME NEW p \in Parts
      PROVE  /\ Slot(p) \in First .. (Last - 1)
             /\ PlanOf(dealt[p[1]].first, dealt[p[1]].parts)[p[2]]
                  = Slot(p) % Channels
  <2>1. /\ p[1] \in 1 .. n /\ p[2] \in 0 .. (dealt[p[1]].parts - 1)
        /\ dealt[p[1]].first \in Nat /\ dealt[p[1]].parts \in Nat
    BY <1>1, <1>2
  <2>2. \A k \in 1 .. n : First <= dealt[k].first /\ End(dealt[k]) <= Last
    <3> SUFFICES ASSUME NEW k \in 1 .. n
                 PROVE  First <= dealt[k].first /\ End(dealt[k]) <= Last
      OBVIOUS
    <3> HIDE DEF n
    <3>1. /\ n \in Nat \ {0} /\ 1 \in 1 .. n /\ n \in 1 .. n
          /\ Last = dealt[n].first + dealt[n].parts
          /\ First = dealt[1].first
      BY <1>1 DEF n, First, Last, End
    <3>2. First <= dealt[k].first
      <4>1. k = 1 \/ 1 < k  BY <3>1
      <4> QED  BY <1>1, <3>1, <4>1
    <3>3. dealt[k].first + dealt[k].parts <= Last
      <4>1. k = n \/ k < n  BY <3>1
      <4> QED  BY <1>1, <3>1, <4>1
    <3> QED  BY <3>2, <3>3 DEF End
  <2>3. /\ First <= dealt[p[1]].first
        /\ dealt[p[1]].first + dealt[p[1]].parts <= Last
    BY <2>1, <2>2 DEF End
  <2>4. Slot(p) \in First .. (Last - 1)
    <3> DEFINE u == dealt[p[1]].first
               v == dealt[p[1]].parts
               w == p[2]
    <3>1. /\ u \in Nat /\ v \in Nat /\ w \in 0 .. (v - 1)
          /\ First <= u /\ u + v <= Last
      BY <2>1, <2>3
    <3> HIDE DEF u, v, w
    <3>2. u + w \in First .. (Last - 1)  BY <1>3, <3>1
    <3> QED  BY <3>2 DEF Slot, u, w
  <2> QED  BY <2>1, <2>4, PlanFollows DEF Slot
<1>5. ASSUME NEW p \in Parts, NEW q \in Parts, Slot(p) = Slot(q)
      PROVE  p = q
  <2> DEFINE i == p[1]
             j == q[1]
  <2>1. /\ i \in 1 .. n /\ p[2] \in 0 .. (dealt[i].parts - 1)
        /\ j \in 1 .. n /\ q[2] \in 0 .. (dealt[j].parts - 1)
        /\ dealt[i].first + p[2] = dealt[j].first + q[2]
    BY <1>2, <1>5 DEF Slot
  <2>2. /\ dealt[i].first \in Nat /\ dealt[i].parts \in Nat
        /\ dealt[j].first \in Nat /\ dealt[j].parts \in Nat
    BY <1>1, <2>1
  <2>3. ~(i < j) /\ ~(j < i)
    <3> DEFINE u == dealt[i].first
               v == dealt[j].first
               x == dealt[i].parts
               y == dealt[j].parts
               k == p[2]
               l == q[2]
    <3>1. (i < j => u + x <= v) /\ (j < i => v + y <= u)
      BY <1>1, <2>1
    <3>2. /\ u \in Nat /\ v \in Nat /\ x \in Nat /\ y \in Nat
          /\ k \in 0 .. (x - 1) /\ l \in 0 .. (y - 1) /\ u + k = v + l
      BY <2>1, <2>2
    <3> HIDE DEF i, j, u, v, x, y, k, l
    <3>3. ~(u + x <= v) /\ ~(v + y <= u)  BY <3>2
    <3> QED  BY <3>1, <3>3
  <2>4. i = j /\ p[2] = q[2]
    <3> HIDE DEF i, j, n
    <3> QED  BY <1>1, <2>1, <2>2, <2>3
  <2> QED  BY <1>2, <2>4
<1> QED  BY <1>3, <1>4, <1>5

\* What a channel was given lies in its column, one part in each slot.
LEMMA LoadFits ==
    ASSUME TypeOK, Disjoint, dealt # <<>>, NEW ch
    PROVE  /\ IsFiniteSet(Loaded(ch))
           /\ Cardinality(Loaded(ch)) <= Cardinality(Column(First, Last, ch))
<1> DEFINE f == [p \in Loaded(ch) |-> Slot(p)]
<1>1. \A p \in Loaded(ch) : Slot(p) \in Column(First, Last, ch)
  BY PartsLaid DEF Loaded, Column
<1>2. \A p, q \in Loaded(ch) : Slot(p) = Slot(q) => p = q
  BY PartsLaid DEF Loaded
<1>3. f \in Injection(Loaded(ch), Column(First, Last, ch))
  BY <1>1, <1>2 DEF Injection, IsInjective
<1>4. IsFiniteSet(Column(First, Last, ch))  BY PartsLaid, ColumnFinite
<1> HIDE DEF f
<1> QED  BY <1>3, <1>4, FS_Injection

\* A slot of a channel's column went to a part or is among the missed ones.
LEMMA ColumnCovered ==
    ASSUME TypeOK, Disjoint, dealt # <<>>, NEW ch
    PROVE  /\ Missed \in Nat /\ Cardinality(Loaded(ch)) \in Nat
           /\ Cardinality(Column(First, Last, ch))
                <= Cardinality(Loaded(ch)) + Missed
<1> DEFINE U == First .. (Last - 1)
           Taken == {Slot(p) : p \in Parts}
           Mine == {Slot(p) : p \in Loaded(ch)}
           Gap == U \ Taken
           f == [p \in Parts |-> Slot(p)]
           g == [p \in Loaded(ch) |-> Slot(p)]
<1>1. First \in Nat /\ Last \in Nat /\ First <= Last  BY PartsLaid
<1>2. IsFiniteSet(U) /\ Cardinality(U) = Last - First
  <2> DEFINE e == Last - 1
  <2>1. e \in Int /\ (IF First > e THEN 0 ELSE e - First + 1) = Last - First
    BY <1>1
  <2> HIDE DEF e
  <2>2. /\ IsFiniteSet(First .. e)
        /\ Cardinality(First .. e) = IF First > e THEN 0 ELSE e - First + 1
    BY <1>1, <2>1, FS_Interval
  <2> QED  BY <2>1, <2>2 DEF e
<1>3. Taken \subseteq U  BY PartsLaid
<1>4. IsFiniteSet(Taken) /\ Cardinality(Taken) \in Nat
  BY <1>2, <1>3, FS_Subset, FS_CardinalityType
<1>5. f \in Injection(Parts, Taken) /\ f \in Surjection(Parts, Taken)
  <2>1. \A p, q \in Parts : Slot(p) = Slot(q) => p = q  BY PartsLaid
  <2> QED  BY <2>1 DEF Injection, IsInjective, Surjection
<1>6. Cardinality(Parts) = Cardinality(Taken)
  <2> HIDE DEF f, Taken
  <2> QED  BY <1>4, <1>5, FS_Injection
<1>7. IsFiniteSet(Gap) /\ Cardinality(Gap) = Cardinality(U) - Cardinality(Taken)
  <2>1. U \cap Taken = Taken  BY <1>3
  <2>2. /\ IsFiniteSet(Gap)
        /\ Cardinality(Gap) = Cardinality(U) - Cardinality(U \cap Taken)
    <3> HIDE DEF U, Taken
    <3> QED  BY <1>2, FS_Difference
  <2> QED  BY <2>1, <2>2
<1>8. Missed = Cardinality(Gap)
  BY <1>1, <1>2, <1>4, <1>6, <1>7 DEF Missed, First, Last
<1>9. Cardinality(Gap) \in Nat  BY <1>7, FS_CardinalityType
<1>10. IsFiniteSet(Loaded(ch)) /\ Cardinality(Loaded(ch)) \in Nat
  BY LoadFits, FS_CardinalityType
<1>11. IsFiniteSet(Mine) /\ Cardinality(Mine) <= Cardinality(Loaded(ch))
  <2>1. g \in Surjection(Loaded(ch), Mine)  BY DEF Surjection
  <2> HIDE DEF g, Mine
  <2> QED  BY <1>10, <2>1, FS_Surjection
<1>12. Column(First, Last, ch) \subseteq Mine \cup Gap
  <2> SUFFICES ASSUME NEW x \in Column(First, Last, ch), x \in Taken
               PROVE  x \in Mine
    BY DEF Column
  <2>1. PICK p \in Parts : x = Slot(p)  OBVIOUS
  <2>2. p \in Loaded(ch)  BY <2>1, PartsLaid DEF Loaded, Column
  <2> QED  BY <2>1, <2>2
<1> HIDE DEF U, Taken, Mine, Gap, f, g
<1>13. /\ IsFiniteSet(Mine \cup Gap)
       /\ Cardinality(Mine \cup Gap)
            = Cardinality(Mine) + Cardinality(Gap) - Cardinality(Mine \cap Gap)
  BY <1>7, <1>11, FS_Union
<1>14. Cardinality(Mine \cap Gap) \in Nat /\ Cardinality(Mine) \in Nat
  BY <1>11, FS_Intersection, FS_CardinalityType
<1>15. Cardinality(Column(First, Last, ch)) <= Cardinality(Mine \cup Gap)
  BY <1>12, <1>13, FS_Subset
<1>16. Cardinality(Column(First, Last, ch)) \in Nat
  BY <1>1, ColumnFinite
<1> QED
  BY <1>8, <1>9, <1>10, <1>11, <1>13, <1>14, <1>15, <1>16

LEMMA InOrderIsEven == ASSUME TypeOK, Disjoint PROVE Balanced
<1> SUFFICES ASSUME NEW a \in 0 .. (Channels - 1),
                    NEW b \in 0 .. (Channels - 1)
             PROVE  Load(a) <= Load(b) + 1 + Missed
  BY DEF Balanced
<1>1. Load(a) = Cardinality(Loaded(a)) /\ Load(b) = Cardinality(Loaded(b))
  BY DEF Load, Loaded
<1>2. CASE dealt = <<>>
  <2>1. Parts = {}  BY <1>2 DEF Parts
  <2>2. Loaded(a) = {} /\ Loaded(b) = {}  BY <2>1 DEF Loaded
  <2> QED  BY <1>1, <1>2, <2>2, FS_EmptySet DEF Missed
<1>3. CASE dealt # <<>>
  <2>1. /\ Cardinality(Loaded(a)) <= Cardinality(Column(First, Last, a))
        /\ Cardinality(Loaded(a)) \in Nat
    BY <1>3, LoadFits, ColumnCovered
  <2>2. /\ Missed \in Nat /\ Cardinality(Loaded(b)) \in Nat
        /\ Cardinality(Column(First, Last, b))
             <= Cardinality(Loaded(b)) + Missed
    BY <1>3, ColumnCovered
  <2>3. /\ Cardinality(Column(First, Last, a))
             <= Cardinality(Column(First, Last, b)) + 1
        /\ Cardinality(Column(First, Last, a)) \in Nat
        /\ Cardinality(Column(First, Last, b)) \in Nat
    BY <1>3, PartsLaid, ColumnsEven, ColumnFinite
  <2> QED  BY <1>1, <2>1, <2>2, <2>3
<1> QED  BY <1>2, <1>3

\* "In turn and equally": however many finish requests draw at once, and
\* whichever of them fail, no channel is ever two parts ahead of another, but
\* for the slots whose COMMIT took effect and was reported as failed.
THEOREM EvenlyDealt == ASSUME Stored # {} PROVE Spec => []Balanced
<1>1. TypeOK /\ InOrder => Balanced  BY InOrderIsEven DEF InOrder
<1> QED  BY <1>1, Invariance, PTL
=============================================================================
