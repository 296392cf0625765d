------------------------------ MODULE Dealing ------------------------------
(***************************************************************************)
(* What PickUploadChannelsBalanced promises (internal/storage/             *)
(* roundrobin.go): the slots of an endless rotation over the channels are  *)
(* dealt to the files in order, each file getting as many consecutive      *)
(* slots as it has parts, in one indivisible step.                         *)
(***************************************************************************)
EXTENDS Integers, Sequences

CONSTANT Sizes              \* the part counts files may have

VARIABLES
    next,                   \* the first slot not dealt yet
    dealt                   \* the deals made: first slot and number of parts

Init == next \in Nat /\ dealt = <<>>

Deal(k) ==
    /\ next' = next + k
    /\ dealt' = Append(dealt, [first |-> next, parts |-> k])

\* The slots are gone, but nobody learned it got them.
Skip(k) ==
    /\ next' = next + k
    /\ UNCHANGED dealt

Next == \E k \in Sizes : Deal(k) \/ Skip(k)

Spec == Init /\ [][Next]_<<next, dealt>>

\* No slot goes to two files, and a later file gets later slots.
Disjoint ==
    \A i, j \in DOMAIN dealt :
        i < j => dealt[i].first + dealt[i].parts <= dealt[j].first
=============================================================================
