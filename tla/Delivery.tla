------------------------------ MODULE Delivery ------------------------------
(***************************************************************************)
(* What publishing promises for each item (an event for a target): it      *)
(* reaches the outside at most once, and is recorded as published only     *)
(* after it did.                                                           *)
(***************************************************************************)
EXTENDS Naturals

CONSTANT Items

VARIABLES
    sent,       \* item -> times it reached the outside
    recorded    \* the items recorded as published

vars == <<sent, recorded>>

Init == sent = [x \in Items |-> 0] /\ recorded = {}

Send(x) == /\ sent[x] = 0
           /\ sent' = [sent EXCEPT ![x] = 1]
           /\ UNCHANGED recorded

Record(x) == /\ sent[x] = 1 /\ x \notin recorded
             /\ recorded' = recorded \cup {x}
             /\ UNCHANGED sent

Next == \E x \in Items : Send(x) \/ Record(x)

Spec == Init /\ [][Next]_vars

=============================================================================
