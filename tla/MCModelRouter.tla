---------------------------- MODULE MCModelRouter ----------------------------
(* A router for TLC: tokens and cost, two candidates, four kinds of request. *)
EXTENDS ModelRouter

CONSTANTS b1, b2, fa, fb

TwoBatches    == {b1, b2}
OneBatch      == {b1}
TwoCandidates == {fa, fb}
OneCandidate  == {fa}

Resource2 == {"input_tokens", "estimated_cost"}
Budget2   == [r \in Resource2 |-> IF r = "input_tokens" THEN 2 ELSE 1]
Usage(t, c) == [r \in Resource2 |-> IF r = "input_tokens" THEN t ELSE c]
Usages3   == {Usage(1, 0), Usage(1, 1), Usage(3, 0)}

Verified    == [role |-> "strong", trigger |-> "machine-verified-failure", verified |-> TRUE]
Unverified  == [Verified EXCEPT !.verified = FALSE]
OwnTrigger  == [Verified EXCEPT !.trigger = "model-confidence"]
Cheap       == [role |-> "cheap", trigger |-> "coverage-gap", verified |-> FALSE]
AllRequests == {Verified, Unverified, OwnTrigger, Cheap}
OneRequest  == {Verified}
Triggers    == {"machine-verified-failure", "coverage-gap"}
=============================================================================
