-------------------------- MODULE UsageAccounting --------------------------
(***************************************************************************)
(* What the outbox of the ClickHouse backend promises to its two sides: an *)
(* event is accepted at most once, whatever is sent again, and every table *)
(* of events counts an accepted event at most once, however often a flush  *)
(* is repeated.                                                            *)
(***************************************************************************)
EXTENDS Naturals

CONSTANT Events

VARIABLES
    accepted,  \* events that were answered as inserted
    counted    \* how often the additive table counts each event

Init ==
    /\ accepted = {}
    /\ counted = [e \in Events |-> 0]

Accept(S) ==
    /\ S # {} /\ S \intersect accepted = {}
    /\ accepted' = accepted \union S
    /\ UNCHANGED counted

Count(S) ==
    /\ S # {} /\ S \subseteq accepted
    /\ \A e \in S : counted[e] = 0
    /\ counted' = [e \in Events |-> IF e \in S THEN 1 ELSE counted[e]]
    /\ UNCHANGED accepted

Next == \E S \in SUBSET Events : Accept(S) \/ Count(S)

Spec == Init /\ [][Next]_<<accepted, counted>>
=============================================================================
