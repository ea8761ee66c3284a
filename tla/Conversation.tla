---------------------------- MODULE Conversation ----------------------------
(***************************************************************************)
(* What the driver of a session promises of it: the product is asked the   *)
(* messages one by one and in their order, the next one only when the one  *)
(* before is answered; a verdict is of the answer to the last, and once    *)
(* there is a result nothing is asked any more.                            *)
(***************************************************************************)
EXTENDS Naturals

VARIABLES
    total,      \* messages to ask
    asked,      \* those that reached the product
    answered,   \* those it has answered
    outcome,    \* "pending", or what the conversation came to
    judged      \* the message whose answer is judged, 0 when none is

vars == <<total, asked, answered, outcome, judged>>

Init ==
    /\ total \in Nat /\ asked = {} /\ answered = {}
    /\ outcome = "pending" /\ judged = 0

(* The next message, once the one before is answered.                     *)
Ask(m) ==
    /\ outcome = "pending" /\ asked = 1 .. m - 1 /\ answered = asked
    /\ asked' = 1 .. m
    /\ UNCHANGED <<total, answered, outcome, judged>>

(* The product answers the message it was asked last.                      *)
Answer ==
    /\ outcome = "pending" /\ answered # asked
    /\ answered' = asked
    /\ UNCHANGED <<total, asked, outcome, judged>>

(* The answer to the last message is the one that is judged.               *)
Judge ==
    /\ outcome = "pending" /\ total # 0 /\ answered = 1 .. total
    /\ outcome' = "verdict" /\ judged' = total
    /\ UNCHANGED <<total, asked, answered>>

(* It may end at any time without a verdict.                               *)
GiveUp ==
    /\ outcome = "pending"
    /\ outcome' \in {"environment", "raised"}
    /\ UNCHANGED <<total, asked, answered, judged>>

Next == (\E m \in 1 .. total : Ask(m)) \/ Answer \/ Judge \/ GiveUp

Spec == Init /\ [][Next]_vars

=============================================================================
