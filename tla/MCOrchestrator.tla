--------------------------- MODULE MCOrchestrator ---------------------------
(* Plans small enough for TLC. *)
EXTENDS Orchestrator

CONSTANTS fa, fb

MCLevels == {"L1", "L2", "L3"}
Fps2 == {fa, fb}

Strong(l, f) == [level |-> l, certified |-> FALSE, nondet |-> FALSE, fps |-> {f}]
Certified(f) == [level |-> "L2", certified |-> TRUE, nondet |-> FALSE, fps |-> {f}]
Clue         == [level |-> "L4", certified |-> FALSE, nondet |-> FALSE, fps |-> {}]

(* one of each kind of scenario, and a clue *)
PlanMixed == << Certified(fb), Strong("L1", fa), Clue >>
=============================================================================
