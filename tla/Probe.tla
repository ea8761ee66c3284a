------------------------------- MODULE Probe --------------------------------
(***************************************************************************)
(* One scenario on its way through the oracles (orchestrator.py:           *)
(* _generate_signal and _verification_runner): the executor runs it step   *)
(* by step, the oracle of its level judges what was seen, and a failure is *)
(* run and judged once more.  (A channel that asks for several             *)
(* reproductions repeats the second half; Orchestrator counts them.)       *)
(***************************************************************************)
EXTENDS Oracles, Executors

CONSTANTS
    Scenarios,      \* [level, strategy, entry, relation, steps]
    ResultsOf(_)    \* what the executor can return for a step of a scenario

(* What the executor returns of a run of Playwright                        *)
(* (_execution_result_from_report).                                        *)
SpecResult(run) ==
    [available |-> EnvironmentThere(run), run |-> run, at |-> NoMoment,
     hard |-> [Told("answered", 200, FALSE) EXCEPT !.exit_code = ExitCode(run)],
     passed |-> IF PlaywrightPassed(run) THEN "yes" ELSE "no",
     terminal |-> IF run.reported THEN FailedAssertions(run.report) ELSE {}]

RunsSpec(s) == s.level = "L2" /\ s.strategy = "playwright_spec"

ASSUME StepsAssumption == \A s \in Scenarios : s.steps \in Nat

ASSUME SpecsAssumption ==
    \A s \in Scenarios : RunsSpec(s) =>
        \A r \in ResultsOf(s) : PlaywrightRun(r.run) /\ r = SpecResult(r.run)

VARIABLES
    scenario,
    phase,      \* "generate", "verify" or "done"
    results,    \* what the steps of this run have shown
    first,      \* what those of the first run showed, if it failed
    signal,     \* the failures found: none or the fingerprint of one
    calls,      \* steps executed so far
    outcome

vars == <<scenario, phase, results, first, signal, calls, outcome>>

Init ==
    /\ scenario \in Scenarios
    /\ phase = "generate" /\ results = <<>> /\ first = <<>>
    /\ signal = {} /\ calls = 0 /\ outcome = "pending"

-----------------------------------------------------------------------------
(* Running a scenario *)

(* A stateful relation runs its baseline, and then all steps in one        *)
(* session; a differential one without steps runs the test command.        *)
StepsOf(s) ==
    CASE s.level = "L4" -> 0
      [] s.level \in {"L1", "L2"} -> 1
      [] s.level = "L3" /\ s.strategy = "metamorphic_stateful" -> 2
      [] s.level = "L3" /\ s.strategy = "sibling_consistency" -> s.steps
      [] OTHER -> IF s.steps = 0 THEN 1 ELSE s.steps

(* A state that tells a rejected input (_is_rejected).                     *)
Rejected(r) == r.error \/ r.passed = "no" \/ r.success = "no"

Terminals(rs) == [i \in DOMAIN rs |-> rs[i].terminal]

Rejections(rs) == [i \in DOMAIN rs |-> Rejected(rs[i])]

(* What the oracles say of a run, told that its L2 state was read at "at". *)
Judgement(s, rs, at) ==
    CASE s.level = "L4" -> Inconclusive("opaque")
      [] s.level = "L1" -> Verdict(HardFailure(rs[1].hard) = NoFailure)
      [] s.level = "L2" /\ s.strategy = "playwright_spec" -> Verdict(rs[1].passed # "no")
      [] s.level = "L2" /\ s.strategy = "machine_check" -> EvaluateL2(s.entry, rs[1].state, at)
      [] s.strategy = "sibling_consistency" -> EvaluateSiblings(Rejections(rs))
      [] s.strategy = "differential" -> EvaluateDifferential(Terminals(rs))
      [] s.strategy \in {"metamorphic", "metamorphic_stateful"} ->
            EvaluateMetamorphic(s.relation, rs[1].terminal, rs[2].terminal)

Fingerprint_Volatile(s, rs) ==      \* mutant: keeps what is never the same again
    [strategy |-> s.strategy, steps |-> Len(rs), elapsed |-> calls]

(* The fingerprint of a failure: what it keeps of the run.                 *)
Fingerprint(s, rs) ==
    CASE s.level = "L1" ->
           [type |-> HardFailure(rs[1].hard), exit_code |-> rs[1].hard.exit_code,
            http_status |-> rs[1].hard.http_status]
      [] s.level = "L2" /\ s.strategy = "playwright_spec" ->
           [exit_code |-> rs[1].hard.exit_code, spec |-> rs[1].terminal]
      [] s.level = "L2" /\ s.strategy = "machine_check" ->
           [exit_code |-> rs[1].hard.exit_code,
            expected |-> ExpectedShape(s.entry.check, rs[1].state),
            actual |-> ActualShape(s.entry.check, rs[1].state)]
      [] s.strategy = "sibling_consistency" ->
           [rejects |-> MajorityRejects(Rejections(rs)), deviants |-> Deviants(Rejections(rs))]
      [] s.strategy = "differential" ->
           [baseline |-> rs[1].terminal, index |-> Diverged(Terminals(rs)),
            actual |-> rs[Diverged(Terminals(rs))].terminal]
      [] OTHER -> [base |-> rs[1].terminal, transformed |-> rs[2].terminal]

(* The strategy is looked at when the steps have run; a relation needs two *)
(* runs.                                                                   *)
BadScenario(s) ==
    \/ s.strategy = "unknown" /\ s.level \in {"L2", "L3"}
    \/ s.strategy = "metamorphic" /\ StepsOf(s) < 2

MoreSteps == Len(results) < StepsOf(scenario)

(* One step.  An environment that is not there ends the run: in the first  *)
(* one it ends the batch, in the second the failure was not reproduced.    *)
Execute(r) ==
    /\ phase # "done" /\ MoreSteps
    /\ calls' = calls + 1
    /\ IF r.available
       THEN results' = Append(results, r) /\ UNCHANGED <<phase, outcome>>
       ELSE /\ phase' = "done" /\ UNCHANGED results
            /\ outcome' = IF phase = "generate" THEN "environment" ELSE "not-reproduced"
    /\ UNCHANGED <<scenario, first, signal>>

-----------------------------------------------------------------------------
(* Judging it *)

(* A scenario without a failure.  Only L2 tells "inconclusive" apart from   *)
(* "passed"; L4 is not counted.                                            *)
Withheld(s, status) ==
    CASE s.level = "L4" -> "suggestion"
      [] s.level = "L1" -> "no-signal"
      [] s.level = "L2" /\ status = "inconclusive" -> "inconclusive"
      [] OTHER -> "passed"

(* Only an L2 state is read at a moment.                                   *)
MomentOf(s, rs) == IF s.level = "L2" THEN rs[1].at ELSE NoMoment

Generate ==
    /\ phase = "generate" /\ ~ MoreSteps
    /\ IF BadScenario(scenario)
       THEN phase' = "done" /\ outcome' = "schema-error" /\ UNCHANGED <<results, first, signal>>
       ELSE LET judged == Judgement(scenario, results, MomentOf(scenario, results))
            IN  IF judged.status = "fail"
                THEN /\ phase' = "verify" /\ results' = <<>> /\ first' = results
                     /\ signal' = {Fingerprint(scenario, results)}
                     /\ UNCHANGED outcome
                ELSE /\ phase' = "done"
                     /\ outcome' = Withheld(scenario, judged.status)
                     /\ UNCHANGED <<results, first, signal>>
    /\ UNCHANGED <<scenario, calls>>

(* The same failure again. *)
Recurs(judged) == judged.status = "fail" /\ signal = {Fingerprint(scenario, results)}

(* The second run's L2 state is judged without the moment it was read at.  *)
Verify ==
    /\ phase = "verify" /\ ~ MoreSteps
    /\ phase' = "done"
    /\ outcome' = IF Recurs(Judgement(scenario, results, NoMoment))
                  THEN "reproduced" ELSE "not-reproduced"
    /\ UNCHANGED <<scenario, results, first, signal, calls>>

Next ==
    \/ \E r \in ResultsOf(scenario) : Execute(r)
    \/ Generate \/ Verify

Spec == Init /\ [][Next]_vars

-----------------------------------------------------------------------------
(* Properties *)

(* The attempts and specs that went wrong in the product, read off the     *)
(* report alone.                                                           *)
WrongInProduct(report) ==
    \E s \in report.specs :
        \/ \E t \in s.tests : \E a \in ToSet(t.attempts) : WentWrong(a) /\ ~ a.env
        \/ ~ s.ok /\ s.tests = {} /\ ~ s.env

NamesEnvironment(run) ==
    \/ run.artifacts
    \/ \E s \in run.report.specs :
          s.env \/ \E t \in s.tests : \E a \in ToSet(t.attempts) : a.env

(* A spec that Playwright itself failed counts as a reproduced failure     *)
(* only if both runs had something go wrong in the product, not just in    *)
(* the suite or its environment; and an error outside the tests, or on     *)
(* stderr, hides no failure of the product.                                *)
SpecsBlameProduct ==
    RunsSpec(scenario) =>
        /\ outcome = "reproduced" =>
             \A r \in {first[1], results[1]} :
                r.run.reported /\ ExitCode(r.run) # 0 => WrongInProduct(r.run.report)
        /\ phase = "generate" /\ results # <<>> =>
             LET seen == results[1].run
             IN  seen.reported /\ WrongInProduct(seen.report) /\ ~ NamesEnvironment(seen) =>
                    \A r \in ResultsOf(scenario) :
                        r.run.reported /\ r.run.report.specs = seen.report.specs
                          /\ ~ r.run.artifacts => r.available

DeclaresMoment(s) ==
    s.level = "L2" /\ s.strategy = "machine_check" /\ s.entry.when # NoMoment

(* A product that shows the second run what it showed the first has its    *)
(* failure reproduced: the two runs are judged alike, though they are      *)
(* judged at two places in the code.  (Entries that declare a moment are   *)
(* the exception, see MatchingMomentIsJudged.)                             *)
SameRunReproduces ==
    outcome = "not-reproduced" /\ ~ DeclaresMoment(scenario) => results # first

(* docs/adapters.md: a state read at the declared moment gets its verdict, *)
(* in the second run too.                                                  *)
MatchingMomentIsJudged ==
    outcome = "not-reproduced" /\ DeclaresMoment(scenario) => results # first

(* A failure is reproduced only by two complete runs, both judged to fail, *)
(* with one fingerprint; and nothing is run more than twice.               *)
ReproducedTwice ==
    /\ outcome = "reproduced" =>
         /\ Len(first) = StepsOf(scenario) /\ Len(results) = StepsOf(scenario)
         /\ Judgement(scenario, first, MomentOf(scenario, first)).status = "fail"
         /\ Judgement(scenario, results, NoMoment).status = "fail"
         /\ Fingerprint(scenario, first) = Fingerprint(scenario, results)
    /\ calls <= 2 * StepsOf(scenario)

(* What MatchingMomentIsJudged shows of one run: the second run judges a    *)
(* state as if no moment had been told, so an entry that declares one has  *)
(* no failure reproduced, whatever the product does.                       *)
MomentNeverReproduced == DeclaresMoment(scenario) => outcome # "reproduced"

L2Judged(r) == EvaluateL2(scenario.entry, r.state, r.at)

MachineChecked ==
    scenario.level = "L2" /\ scenario.strategy = "machine_check" /\ results # <<>>

Others == {r \in ResultsOf(scenario) : r.available /\ r.at = results[1].at}

(* A verdict on a state stands however much more of it is observed: what   *)
(* was not seen can make a check inconclusive, and never decides it.       *)
MoreIsNoOther ==
    MachineChecked /\ L2Judged(results[1]).status # "inconclusive" =>
        \A more \in Others :
            (\A f \in DOMAIN results[1].state :
                f \in DOMAIN more.state /\ more.state[f] = results[1].state[f])
            => L2Judged(more) = L2Judged(results[1])

(* A check that compares with a text field all the same: its value_from    *)
(* has a blank in front of the name, or behind it, until it is read.       *)
ReadsText(c) ==
    /\ c.op = "eq" /\ c.value = {}
    /\ c.from \notin TextFields /\ Stripped(c.from) \in TextFields

Untexted(r) == [x \in DOMAIN r.state \ TextFields |-> r.state[x]]

Wordless(r) == [x \in DOMAIN r.state \ TextFields |-> Unworded(r.state[x])]

(* What the product says in words reaches a verdict in two ways only, both *)
(* by "eq": a value_from with a blank at its end, and text inside a value  *)
(* of another field, which is compared as a whole.  Otherwise two states   *)
(* that differ in text fields get the same result, and without "eq" any    *)
(* two that differ in wording; and a state that shows text fields alone    *)
(* never gets a verdict.                                                   *)
WordingOnlyByEq ==
    MachineChecked =>
        LET c == scenario.entry.check
            untexted == Untexted(results[1])
            wordless == Wordless(results[1])
            result == L2Judged(results[1])
        IN  /\ ~ ReadsText(c) =>
                 \A r \in Others : Untexted(r) = untexted => L2Judged(r) = result
            /\ c.op # "eq" =>
                 \A r \in Others : Wordless(r) = wordless => L2Judged(r) = result
            /\ untexted = <<>> => result.status = "inconclusive"

Shuffled(rs, p) == [i \in DOMAIN rs |-> rs[p[i]]]

(* Which run of several comes first makes no difference to whether they    *)
(* agree.                                                                  *)
OrderFree ==
    scenario.level = "L3" /\ scenario.strategy \in {"differential", "sibling_consistency"}
      /\ ~ MoreSteps =>
        \A p \in Bijection(DOMAIN results, DOMAIN results) :
            Judgement(scenario, Shuffled(results, p), NoMoment).status
              = Judgement(scenario, results, NoMoment).status

(* No more siblings are accused than not, and never all of one opinion.    *)
DeviantsAreFew ==
    scenario.strategy = "sibling_consistency" /\ ~ MoreSteps =>
        LET rejected == Rejections(results)
            accused  == Deviants(rejected)
        IN  /\ 2 * Cardinality(accused) <= Len(rejected)
            /\ accused # {} => \E i, j \in DOMAIN rejected : rejected[i] # rejected[j]

=============================================================================
