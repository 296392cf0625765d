----------------------------- MODULE Edge_proofs -----------------------------
(***************************************************************************)
(* Proofs about module Edge, for any readers, probes and times.            *)
(***************************************************************************)
EXTENDS Edge, FiniteSetTheorems, TLAPS

\* What every step changes: one of the groups of Next, or nothing.
LEMMA Steps ==
    ASSUME [Next]_vars
    PROVE  \/ HealthStatus
           \/ \E p \in Probes : ProbeEnds(p)
           \/ \E r \in Readers : Ask(r)
           \/ \E r \in Readers : Handle(r)
           \/ BecomesReady \/ AdminDelete \/ Expire \/ Purge
           \/ OriginTurns \/ Tick
           \/ UNCHANGED vars
  BY DEF Next

-----------------------------------------------------------------------------
(* Types                                                                   *)

\* The first state has the right types.
LEMMA TypeInit == Init => TypeOK
  BY TimesAssumption, DownloadsAssumption DEF Init, TypeOK, Held, None, Pc

\* A response keeps the type of its records.
LEMMA ReplyType ==
    ASSUME TypeOK, NEW r \in Readers, Handle(r)
    PROVE  /\ reply' \in [Readers -> Held]
           /\ pc' \in [Readers -> Pc]
           /\ copy' \in Held
  <1>0. CASE ProxyError(r)
    BY <1>0, TimesAssumption DEF TypeOK, ProxyError, Goto, Held, Pc
  <1>1. CASE Cut(r)
    BY <1>1, TimesAssumption DEF TypeOK, Cut, Away, Goto, Held, None, Pc
  <1>2. CASE Refuse(r) \/ FirstFails(r)
    BY <1>2, TimesAssumption DEF TypeOK, Refuse, FirstFails, Refusal, Goto, Held, Pc
  <1>3. CASE Check(r) \/ Admit(r)
    BY <1>3 DEF TypeOK, Check, Admit, Goto, Pc
  <1>4. CASE FirstSegment(r)
    <2>1. MaxAge \in (0 .. DayTTL) \cup (0 .. Longest)
      BY TimesAssumption DEF MaxAge, TypeOK
    <2> QED BY <1>4, <2>1 DEF TypeOK, FirstSegment, Goto, Held, Body, Pc
  <1>5. CASE RestSegments(r)
    <2>1. PICK k \in {reply[r].kind, "twice", "short"} :
            reply' = [reply EXCEPT ![r].kind = k]
      BY <1>5 DEF RestSegments
    <2>2. [reply[r] EXCEPT !.kind = k] \in Held
      BY <2>1 DEF TypeOK, Held, Body
    <2> QED BY <1>5, <2>1, <2>2 DEF TypeOK, RestSegments, Goto, Pc
  <1>6. CASE Deliver(r)
    <2>1. reply[r] \in Held /\ None \in Held
      BY TimesAssumption DEF TypeOK, Held, None
    <2> QED BY <1>6, <2>1 DEF TypeOK, Deliver, Away, Goto, Pc
  <1> QED BY <1>0, <1>1, <1>2, <1>3, <1>4, <1>5, <1>6 DEF Handle

-----------------------------------------------------------------------------
(* The download slots                                                      *)

Streaming == {r \in Readers : pc[r] \in {"first", "rest"}}

\* Whoever begins or ends to stream takes or gives back one slot.
LEMMA SlotsStep ==
    ASSUME TypeOK, SlotsKept, NEW r \in Readers, Handle(r)
    PROVE  SlotsKept' /\ slots' \in 0 .. MaxDownloads
  <1> SUFFICES slots' = Cardinality(Streaming') /\ slots' \in 0 .. MaxDownloads
    BY DEF SlotsKept, Streaming
  <1>1. IsFiniteSet(Streaming) /\ slots = Cardinality(Streaming)
    BY ReadersAssumption, FS_Subset DEF Streaming, SlotsKept
  <1>2. slots \in 0 .. MaxDownloads /\ MaxDownloads \in Nat
    BY DownloadsAssumption DEF TypeOK
  <1>3. CASE Admit(r)
    <2>1. Streaming' = Streaming \cup {r} /\ r \notin Streaming
      BY <1>3 DEF Admit, Goto, Streaming, TypeOK
    <2>2. Cardinality(Streaming') = Cardinality(Streaming) + 1
      BY <1>1, <2>1, FS_AddElement
    <2> QED BY <1>1, <1>2, <1>3, <2>2 DEF Admit
  <1>4. CASE \/ FirstFails(r) \/ RestSegments(r)
             \/ (ProxyError(r) \/ Cut(r)) /\ pc[r] \in {"first", "rest"}
    <2>1. Streaming' = Streaming \ {r} /\ r \in Streaming /\ slots' = slots - 1
      BY <1>4 DEF FirstFails, RestSegments, ProxyError, Cut, Away, Goto,
                  Streaming, TypeOK
    <2>2. Cardinality(Streaming') = Cardinality(Streaming) - 1
      BY <1>1, <2>1, FS_RemoveElement
    <2>3. Cardinality(Streaming') \in Nat
      BY <1>1, <2>1, FS_RemoveElement, FS_CardinalityType
    <2> QED BY <1>1, <1>2, <2>1, <2>2, <2>3
  <1>5. CASE \/ Refuse(r) \/ Check(r) \/ FirstSegment(r) \/ Deliver(r)
             \/ (ProxyError(r) \/ Cut(r)) /\ pc[r] \notin {"first", "rest"}
    <2>1. Streaming' = Streaming /\ slots' = slots
      BY <1>5 DEF ProxyError, Refuse, Check, FirstSegment, Cut, Deliver, Away,
                  Goto, Streaming, TypeOK
    <2> QED BY <1>1, <1>2, <2>1
  <1> QED BY <1>3, <1>4, <1>5 DEF Handle

-----------------------------------------------------------------------------
(* The probes: one on its way was sent when lastCheckAt was set, and it    *)
(* ends before the next is due                                             *)

Timed == \A p \in Probes : probes[p] # -1 => probes[p] = idle

\* A probe ends before the next one is due.
LEMMA ProbesStep ==
    ASSUME TypeOK, OneProbe, Timed, [Next]_vars
    PROVE  /\ OneProbe' /\ Timed'
           /\ idle' \in 0 .. (ProbeEvery + 1)
           /\ probes' \in [Probes -> -1 .. ProbeTimeout]
  <1> USE TimesAssumption
  <1>1. CASE Opportunity
    <2>1. CASE idle <= ProbeEvery
      BY <1>1, <2>1 DEF Opportunity, TypeOK, OneProbe, Timed
    <2>2. CASE idle > ProbeEvery
      <3>1. \A q \in Probes : probes[q] = -1
        BY <2>2 DEF TypeOK, Timed
      <3>2. PICK p \in Probes : probes' = [probes EXCEPT ![p] = 0] /\ idle' = 0
        BY <1>1, <2>2 DEF Opportunity, TypeOK
      <3> QED BY <3>1, <3>2 DEF TypeOK, OneProbe, Timed
    <2> QED BY <2>1, <2>2 DEF TypeOK
  <1>2. ASSUME NEW p \in Probes, ProbeEnds(p)
        PROVE  probes' = [probes EXCEPT ![p] = -1] /\ idle' = idle
    BY <1>2 DEF ProbeEnds
  <1>3. ASSUME NEW p \in Probes, probes' = [probes EXCEPT ![p] = -1], idle' = idle
        PROVE  /\ OneProbe' /\ Timed'
               /\ idle' \in 0 .. (ProbeEvery + 1)
               /\ probes' \in [Probes -> -1 .. ProbeTimeout]
    BY <1>3 DEF TypeOK, OneProbe, Timed
  <1>4. CASE Tick
    <2>1. /\ \A p \in Probes : probes[p] < ProbeTimeout
          /\ idle' = IF idle > ProbeEvery THEN idle ELSE idle + 1
          /\ probes' = [p \in Probes |-> IF probes[p] = -1 THEN -1 ELSE probes[p] + 1]
      BY <1>4 DEF Tick
    <2> QED BY <2>1 DEF TypeOK, OneProbe, Timed
  <1>5. CASE UNCHANGED <<idle, probes>>
    BY <1>5 DEF TypeOK, OneProbe, Timed
  <1>6. \/ Opportunity \/ \E p \in Probes : ProbeEnds(p)
        \/ Tick \/ UNCHANGED <<idle, probes>>
    <2>1. ASSUME NEW r \in Readers, Handle(r) PROVE UNCHANGED <<idle, probes>>
      BY <2>1 DEF Handle, ProxyError, Refuse, Check, Admit, FirstSegment,
                  FirstFails, RestSegments, Cut, Deliver, watch
    <2>2. CASE BecomesReady \/ AdminDelete \/ Expire \/ Purge \/ OriginTurns
               \/ UNCHANGED vars
      BY <2>2 DEF BecomesReady, AdminDelete, Expire, Purge, OriginTurns, watch, vars
    <2> QED BY <2>1, <2>2, Steps DEF HealthStatus, Ask
  <1> QED BY <1>1, <1>2, <1>3, <1>4, <1>5, <1>6

-----------------------------------------------------------------------------
(* What is kept, and for how long                                          *)

\* Only a body is being sent after the headers.
Begun == \A r \in Readers : pc[r] = "rest" => reply[r].kind \in Body

\* A handler gives no body a longer life than the file has left.
LEMMA KeptHandle ==
    ASSUME TypeOK, WithinLife, Begun, NEW r \in Readers, Handle(r)
    PROVE  WithinLife' /\ Begun'
  <1>1. life' = life
    BY DEF Handle, ProxyError, Refuse, Check, Admit, FirstSegment, FirstFails,
           RestSegments, Cut, Deliver, origin
  <1>2. life \in Int /\ pc \in [Readers -> Pc] /\ reply \in [Readers -> Held]
    BY TimesAssumption DEF TypeOK
  <1>3. None.kind \notin Body /\ Refusal.kind \notin Body
    BY DEF None, Refusal, Body
  <1>4. ASSUME NEW h, h.kind \notin Body, reply' = [reply EXCEPT ![r] = h],
               NEW p \in {"away", "sent"}, Goto(r, p), copy' \in {copy, reply[r]}
        PROVE  WithinLife' /\ Begun'
    <2>1. /\ pc'[r] # "rest" /\ reply'[r].kind \notin Body
          /\ \A q \in Readers \ {r} : pc'[q] = pc[q] /\ reply'[q] = reply[q]
      BY <1>2, <1>4 DEF Goto
    <2> QED BY <1>1, <1>4, <2>1 DEF WithinLife, Begun
  <1>5. CASE ProxyError(r)
    <2>1. PICK t \in 0 .. DayTTL :
            reply' = [reply EXCEPT ![r] = [kind |-> "error", left |-> t]]
      BY <1>5 DEF ProxyError
    <2>2. [kind |-> "error", left |-> t].kind \notin Body
      BY DEF Body
    <2> QED BY <1>4, <1>5, <2>1, <2>2 DEF ProxyError
  <1>6. CASE Refuse(r) \/ FirstFails(r)
    BY <1>3, <1>4, <1>6 DEF Refuse, FirstFails
  <1>7. CASE Cut(r) \/ Deliver(r)
    BY <1>3, <1>4, <1>7 DEF Cut, Deliver, Away
  <1>8. CASE Check(r) \/ Admit(r)
    <2>1. /\ copy' = copy /\ reply' = reply
          /\ \A q \in Readers : pc'[q] = "rest" => pc[q] = "rest"
      BY <1>2, <1>8 DEF Check, Admit, Goto
    <2> QED BY <1>1, <2>1 DEF WithinLife, Begun
  <1>9. CASE FirstSegment(r)
    <2>1. life > 0 => MaxAge <= life
      BY <1>2, TimesAssumption DEF MaxAge
    <2>2. PICK k \in {"whole", "twice"} :
            reply' = [reply EXCEPT ![r] = [kind |-> k, left |-> MaxAge]]
      BY <1>9 DEF FirstSegment
    <2>3. /\ copy' = copy
          /\ reply'[r].kind \in Body /\ reply'[r].left = MaxAge
          /\ \A q \in Readers \ {r} : pc'[q] = pc[q] /\ reply'[q] = reply[q]
      BY <1>2, <1>9, <2>2 DEF FirstSegment, Goto, Body
    <2> QED BY <1>1, <2>1, <2>3 DEF WithinLife, Begun
  <1>10. CASE RestSegments(r)
    <2>1. PICK k \in {reply[r].kind, "twice", "short"} :
            reply' = [reply EXCEPT ![r].kind = k]
      BY <1>10 DEF RestSegments
    <2>2. reply[r].kind \in Body /\ copy' = copy
      BY <1>10 DEF RestSegments, Begun
    <2>3. /\ reply'[r].left = reply[r].left /\ pc'[r] = "sent"
          /\ \A q \in Readers \ {r} : pc'[q] = pc[q] /\ reply'[q] = reply[q]
      BY <1>2, <1>10, <2>1 DEF RestSegments, Goto, Held
    <2> QED BY <1>1, <2>2, <2>3 DEF WithinLife, Begun
  <1> QED BY <1>5, <1>6, <1>7, <1>8, <1>9, <1>10 DEF Handle

\* The file and the copies of it age together.
LEMMA KeptTick ==
    ASSUME TypeOK, WithinLife, Begun, Tick
    PROVE  /\ WithinLife' /\ Begun'
           /\ copy' \in Held /\ reply' \in [Readers -> Held]
           /\ life' \in -1 .. Longest
  <1> USE TimesAssumption
  <1>1. /\ life' = IF life > 0 THEN life - 1 ELSE life
        /\ copy' = Older(copy)
        /\ reply' = [r \in Readers |-> IF reply[r].left > 0
                        THEN [reply[r] EXCEPT !.left = @ - 1] ELSE reply[r]]
        /\ pc' = pc
    BY DEF Tick
  <1>2. copy \in Held /\ reply \in [Readers -> Held] /\ life \in -1 .. Longest
    BY DEF TypeOK
  <1>3. \A h \in Held : h.left > 0 =>
            /\ [h EXCEPT !.left = @ - 1] \in Held
            /\ [h EXCEPT !.left = @ - 1].left = h.left - 1
            /\ [h EXCEPT !.left = @ - 1].kind = h.kind
    BY DEF Held
  <1>4. \A h \in Held : h.left \in Nat
    BY DEF Held
  <1>5. /\ copy' \in Held
        /\ copy'.kind \in {copy.kind, "none"}
        /\ copy'.left = IF copy.left <= 1 THEN 0 ELSE copy.left - 1
    BY <1>1, <1>2, <1>3, <1>4 DEF Older, None, Held
  <1>6. \A r \in Readers :
            /\ reply'[r] \in Held
            /\ reply'[r].kind = reply[r].kind
            /\ reply'[r].left = IF reply[r].left > 0 THEN reply[r].left - 1 ELSE 0
    BY <1>1, <1>2, <1>3, <1>4
  <1>7. reply' \in [Readers -> Held]
    BY <1>1, <1>6
  <1>8. Begun'
    BY <1>1, <1>6 DEF Begun
  <1>9. WithinLife'
    <2> SUFFICES ASSUME life' > 0
                 PROVE  /\ copy'.kind \in Body => copy'.left <= life'
                        /\ \A r \in Readers :
                              reply'[r].kind \in Body => reply'[r].left <= life'
      BY DEF WithinLife
    <2>1. life > 0 /\ life' = life - 1
      BY <1>1, <1>2
    <2>2. /\ copy.kind \in Body => copy.left <= life
          /\ \A r \in Readers : reply[r].kind \in Body => reply[r].left <= life
      BY <2>1 DEF WithinLife
    <2>3. copy'.kind \in Body => copy.kind \in Body
      BY <1>5 DEF Body
    <2> QED BY <1>2, <1>4, <1>5, <1>6, <2>1, <2>2, <2>3
  <1> QED BY <1>1, <1>2, <1>5, <1>7, <1>8, <1>9

-----------------------------------------------------------------------------

IInv ==
    /\ TypeOK /\ SlotsKept /\ OneProbe /\ Timed
    /\ WithinLife /\ Begun

\* The first state satisfies the invariant.
LEMMA InitInv == Init => IInv
  <1> SUFFICES ASSUME Init PROVE IInv
    OBVIOUS
  <1>1. SlotsKept
    <2>1. {r \in Readers : pc[r] \in {"first", "rest"}} = {}
      BY DEF Init
    <2> QED BY <2>1, FS_EmptySet DEF Init, SlotsKept
  <1>2. /\ \A p \in Probes : probes[p] = -1
        /\ \A r \in Readers : reply[r] = None
        /\ \A r \in Readers : pc[r] = "away"
        /\ copy = None
        /\ None.kind \notin Body
    BY DEF Init, None, Body
  <1>3. OneProbe /\ Timed
    BY <1>2 DEF OneProbe, Timed
  <1>4. WithinLife /\ Begun
    BY <1>2 DEF WithinLife, Begun
  <1> QED BY <1>1, <1>3, <1>4, TypeInit DEF IInv

\* Every step keeps the invariant.
LEMMA NextInv == IInv /\ [Next]_vars => IInv'
  <1> SUFFICES ASSUME IInv, [Next]_vars PROVE IInv'
    OBVIOUS
  <1> USE DEF IInv
  <1>1. /\ OneProbe' /\ Timed'
        /\ idle' \in 0 .. (ProbeEvery + 1)
        /\ probes' \in [Probes -> -1 .. ProbeTimeout]
    BY ProbesStep
  <1>2. ASSUME NEW r \in Readers, Handle(r) PROVE IInv'
    <2>1. UNCHANGED <<origin, up, health>>
      BY <1>2 DEF Handle, ProxyError, Refuse, Check, Admit, FirstSegment,
                  FirstFails, RestSegments, Cut, Deliver, watch
    <2> QED BY <1>1, <1>2, <2>1, ReplyType, SlotsStep, KeptHandle
            DEF TypeOK, origin
  <1>3. CASE Tick
    <2>1. UNCHANGED <<row, purge, pc, slots, up, health>>
      BY <1>3 DEF Tick
    <2> QED BY <1>1, <1>3, <2>1, KeptTick DEF TypeOK, SlotsKept
  <1>4. CASE \/ HealthStatus \/ \E p \in Probes : ProbeEnds(p)
             \/ OriginTurns \/ UNCHANGED vars
    <2>1. /\ UNCHANGED <<row, life, purge, copy, pc, reply, slots>>
          /\ health' \in {"unknown", "ok", "failing"}
      BY <1>4 DEF HealthStatus, ProbeEnds, OriginTurns, vars, watch, origin, TypeOK
    <2>2. up' \in BOOLEAN
      <3>1. CASE OriginTurns
        BY <3>1, Zenon DEF OriginTurns
      <3>2. up' = up \/ OriginTurns
        BY <1>4, Zenon DEF HealthStatus, ProbeEnds, vars
      <3> QED BY <3>1, <3>2, Zenon DEF TypeOK
    <2> QED BY <1>1, <2>1, <2>2
            DEF TypeOK, SlotsKept, WithinLife, Begun
  <1>5. CASE \E r \in Readers : Ask(r)
    <2>1. PICK r \in Readers : Ask(r)
      BY <1>5
    <2>2. UNCHANGED <<row, life, purge, copy, reply, slots, up, health>>
      BY <2>1 DEF Ask, origin
    <2>3. /\ pc' \in [Readers -> Pc]
          /\ Streaming' = Streaming
          /\ \A q \in Readers : pc'[q] = "rest" => pc[q] = "rest"
      BY <2>1 DEF Ask, Goto, TypeOK, Streaming, Pc
    <2> QED BY <1>1, <2>2, <2>3
            DEF TypeOK, SlotsKept, Streaming, WithinLife, Begun
  <1>6. CASE BecomesReady \/ AdminDelete \/ Expire \/ Purge
    <2>1. UNCHANGED <<life, pc, reply, slots, up, health>>
      BY <1>6 DEF BecomesReady, AdminDelete, Expire, Purge, watch
    <2>2. row' \in {"uploading", "ready", "gone"} /\ purge' \in {"no", "file", "everything"}
      BY <1>6 DEF BecomesReady, AdminDelete, Expire, Purge, TypeOK
    <2>3. copy' \in {copy, None}
      BY <1>6 DEF BecomesReady, AdminDelete, Expire, Purge
    <2>4. copy' \in Held
      BY <2>3, TimesAssumption DEF TypeOK, Held, None
    <2>5. None.kind \notin Body
      BY DEF None, Body
    <2>6. WithinLife'
      BY <2>1, <2>3, <2>5 DEF WithinLife
    <2> QED BY <1>1, <2>1, <2>2, <2>4, <2>6 DEF TypeOK, SlotsKept, Begun
  <1> QED BY <1>2, <1>3, <1>4, <1>5, <1>6, Steps

\* The inductive invariant of the edge.
LEMMA Invariant == Spec => []IInv
  <1> QED BY InitInv, NextInv, PTL DEF Spec

\* Every variable of the edge model keeps its type.
THEOREM TypeCorrect == Spec => []TypeOK
  <1>1. IInv => TypeOK
    BY DEF IInv
  <1> QED BY <1>1, Invariant, PTL

\* While a file lives no copy of it is given more time than the file has,
\* however long the first segment took and whatever was purged.
THEOREM LifeRespected == Spec => []WithinLife
  <1>1. IInv => WithinLife
    BY DEF IInv
  <1> QED BY <1>1, Invariant, PTL

\* For any number of concurrent downloads every slot comes back.
THEOREM SlotsReturned == Spec => []SlotsKept
  <1>1. IInv => SlotsKept
    BY DEF IInv
  <1> QED BY <1>1, Invariant, PTL

\* A probe's timeout is shorter than the pause between two, so that there is
\* one at a time, for any number of concurrent requests.
THEOREM NoDoubleProbe == Spec => []OneProbe
  <1>1. IInv => OneProbe
    BY DEF IInv
  <1> QED BY <1>1, Invariant, PTL
=============================================================================
