------------------------------ MODULE Executors ------------------------------
(***************************************************************************)
(* What the executors make of a child process: whether the environment was *)
(* there, and what the oracles are told (playwright_executor.py, and       *)
(* ExternalExecutor in orchestrator.py).  A text is reduced to whether it  *)
(* names the environment, that is, matches one of ENVIRONMENT_PATTERNS.    *)
(***************************************************************************)
EXTENDS Naturals, FiniteSets, Sequences, SequencesExt

-----------------------------------------------------------------------------
(* Playwright: a run is [started, dry, exit, output, artifacts, reported,  *)
(* report].  "started" is false for every way to have no process to judge: *)
(* bad paths, a missing variable, no npx, a timeout.  "output" and         *)
(* "artifacts" say whether stderr, or an error-context file, names the     *)
(* environment.  A report has the global errors and the specs; a spec is   *)
(* [ok, env, tests], a test [status, attempts], an attempt [status, error, *)
(* env], where env says whether the texts of its failure name it.          *)

Failure(global, env) == [global |-> global, env |-> env]

(* _top_level_failures: beside another one, a global error that names the  *)
(* environment is not told.                                                *)
TopLevelFailures(report) ==
    LET told == IF "other" \in report.errors THEN {"other"} ELSE report.errors
    IN  {Failure(TRUE, e = "environment") : e \in told}

Good(test, attempt) ==
    /\ attempt.status \in {"passed", "skipped"} /\ ~ attempt.error
    /\ test.status \in {"expected", "skipped"}

(* Every attempt that went wrong is a failure, also of a test that passed  *)
(* in the end; a spec that failed without one is a failure itself.         *)
SpecFailures(spec) ==
    LET failed == UNION {{a \in ToSet(t.attempts) : ~ Good(t, a)} : t \in spec.tests}
    IN  {Failure(FALSE, a.env) : a \in failed}
          \cup (IF ~ spec.ok /\ failed = {} THEN {Failure(FALSE, spec.env)} ELSE {})

FailedAssertions(report) ==
    TopLevelFailures(report) \cup UNION {SpecFailures(s) : s \in report.specs}

ProductFailures(failures) == {x \in failures : ~ x.global /\ ~ x.env}

AllTestsSkipped(report) ==
    LET statuses == UNION {{t.status : t \in s.tests} : s \in report.specs}
    IN  statuses = {"skipped"}

SpecPassed(run) ==
    FailedAssertions(run.report) = {} /\ (run.dry \/ run.exit = 0)

(* normalized_exit_code: a dry run has none of its own.                    *)
ExitCode(run) ==
    IF run.dry THEN (IF run.reported /\ SpecPassed(run) THEN 0 ELSE 1) ELSE run.exit

OnlyTopLevel_Never(failures) == FALSE   \* mutant: a global error is a failure like others

(* _top_level_failure_summary                                              *)
OnlyTopLevel(failures) == failures # {} /\ \A x \in failures : x.global

(* _execution_result_from_report: when a run with a report is blamed on    *)
(* the environment.  Global errors count only without a product failure.   *)
BlamesEnvironment(run) ==
    LET failures == FailedAssertions(run.report)
        product  == ProductFailures(failures)
    IN  \/ AllTestsSkipped(run.report)
        \/ /\ ExitCode(run) # 0
           /\ \/ product = {} /\ OnlyTopLevel(failures)
              \/ \E x \in failures : x.env /\ (x.global => product = {})
              \/ run.artifacts
              \/ product = {} /\ run.output

EnvironmentThere(run) ==
    /\ run.started
    /\ IF run.reported THEN ~ BlamesEnvironment(run)
       ELSE ~ (~ run.dry /\ run.exit # 0 /\ run.output)

PlaywrightPassed(run) == run.reported /\ SpecPassed(run)

(* What Playwright promises of a run that it was not interrupted in, with  *)
(* no test marked to fail: it exits with an error for a reason the report  *)
(* gives; an attempt with an error went wrong; a test went wrong as a      *)
(* whole, or at first, if an attempt did, and is not reported as skipped   *)
(* then; and a spec fails by one of its tests, if tests are reported.      *)
WentWrong(attempt) == attempt.status \notin {"passed", "skipped"}

ReportOfTest(t) ==
    LET attempts == ToSet(t.attempts)
    IN  /\ \A a \in attempts : a.error => WentWrong(a)
        /\ t.status \notin {"expected", "skipped"} => \E a \in attempts : WentWrong(a)
        /\ t.status = "skipped" => \A a \in attempts : ~ WentWrong(a)

PlaywrightRun(run) ==
    LET specs == run.report.specs
    IN  run.reported =>
          /\ run.started
          /\ ~ run.dry /\ run.exit # 0 => run.report.errors # {} \/ \E s \in specs : ~ s.ok
          /\ \A s \in specs : \A t \in s.tests : ReportOfTest(t)
          /\ \A s \in specs : ~ s.ok =>
               \/ \E t \in s.tests : t.status = "unexpected"
               \/ \A x \in specs : x.tests = {}

-----------------------------------------------------------------------------
(* The external command: a run is [started, answered, wrapped, flag, exit, *)
(* state, at].  It has answered if stdout is JSON, whatever its exit code. *)
(* The answer is {"observed_state": ...} or the state itself, which then   *)
(* tells no moment; the flag counts in the answer and in the state.        *)

CommandThere(run) == run.started /\ run.answered /\ ~ run.flag

MomentTold(run, none) == IF run.wrapped THEN run.at ELSE none

=============================================================================
