------------------------------ MODULE MCProbe -------------------------------
(***************************************************************************)
(* Scenarios of every level and strategy for TLC, and what an executor can *)
(* return for them.                                                        *)
(***************************************************************************)
EXTENDS Probe

CONSTANTS f, g, note, spaced, at1, at2

(* "spaced" is the name of note with a blank in front of it.              *)
MCStripped(name) == IF name = spaced THEN note ELSE name

-----------------------------------------------------------------------------
(* Contracts: sound ones of every kind of check, and every way to be wrong. *)

Check(op, fields, value, from) == [op |-> op, fields |-> fields, value |-> value, from |-> from]

(* Values that hold or are a text of one wording or another.               *)
MapOf(k, word) == Map({k}, {}, {word})
ListOf(word)   == List(2, {}, {word})

Checks ==
    { Check("eq", {f}, {Num(1)}, NoField), Check("eq", {f}, {Bool(TRUE)}, NoField),
      Check("eq", {f}, {Short({"yes"})}, NoField), Check("eq", {f}, {}, g),
      Check("eq", {f}, {MapOf("k", "a")}, NoField),
      Check("eq", {f}, {}, NoField), Check("eq", {f}, {}, note), Check("eq", {f}, {}, spaced),
      Check("present", {f}, {}, NoField), Check("present", {note}, {}, NoField),
      Check("present", {spaced}, {}, NoField),
      Check("contains_key", {f}, {Name("k")}, NoField),
      Check("contains_key", {f}, {}, NoField),
      Check("count_ge", {f}, {Num(2)}, NoField),
      Check("count_ge", {f}, {Bool(TRUE)}, NoField),
      Check("all_true", {f, g}, {}, NoField), Check("any_true", {f, g}, {}, NoField),
      Check("all_true", {}, {}, NoField), Check("any_true", {f, note}, {}, NoField),
      Check("like", {f}, {Num(1)}, NoField) }

Entries ==
    [terminal : {TRUE}, when : {NoMoment, at1}, registered : {TRUE}, check : Checks]
    \cup [terminal : BOOLEAN, when : {at1}, registered : {FALSE},
          check : {Check("present", {f}, {}, NoField)}]

AnyEntry == [terminal |-> TRUE, when |-> NoMoment, registered |-> TRUE,
             check |-> Check("present", {f}, {}, NoField)]

Scenario(level, strategy, entry, relation, steps) ==
    [level |-> level, strategy |-> strategy, entry |-> entry,
     relation |-> relation, steps |-> steps]

MCScenarios ==
    {Scenario(level, "any", AnyEntry, "none", 0) : level \in {"L1", "L4"}}
    \cup {Scenario("L2", "machine_check", e, "none", 0) : e \in Entries}
    \cup {Scenario("L2", strategy, AnyEntry, "none", 0) :
            strategy \in {"playwright_spec", "unknown"}}
    \cup {Scenario("L3", "unknown", AnyEntry, "none", 1)}
    \cup {Scenario("L3", "differential", AnyEntry, "none", n) : n \in {0, 2, 3}}
    \cup {Scenario("L3", "metamorphic", AnyEntry, relation, n) :
            relation \in {"equal", "subset", "superset"}, n \in {1, 2}}
    \cup {Scenario("L3", "metamorphic_stateful", AnyEntry, "restored", 2)}
    \cup {Scenario("L3", "sibling_consistency", AnyEntry, "none", n) : n \in {0, 2, 3, 4}}

-----------------------------------------------------------------------------
(* What a step shows *)

Atom == [kind |-> "other", items |-> <<1>>]

NoHard == Told("answered", 200, FALSE)

Shown(hard, state, at, passed, terminal, error, success) ==
    [available |-> TRUE, hard |-> hard, state |-> state, at |-> at, passed |-> passed,
     terminal |-> terminal, error |-> error, success |-> success]

Lost == [Shown(NoHard, <<>>, NoMoment, "unknown", Atom, FALSE, "unknown")
           EXCEPT !.available = FALSE]

(* HTTP probes, and a command that exits with an error.                    *)
Hards == {Told(end, status, crashes) :
            end \in ProbeEnds, status \in {200, 404, 500, 503}, crashes \in BOOLEAN}
         \cup {[NoHard EXCEPT !.exit_code = 1]}

States ==
    LET Words == {"a", "b"}
        Texts == {Wording({word}) : word \in Words}
        Values == {Bool(TRUE), Bool(FALSE), Num(1), Num(2), Null, Empty, Short({"yes"}),
                   MapOf("l", "a")}
                  \cup Texts \cup {MapOf("k", word) : word \in Words}
                  \cup {ListOf(word) : word \in Words}
    IN  {<<>>} \cup [{f} -> Values] \cup [{note} -> Texts]
        \cup [{f, g} -> {Bool(TRUE), Bool(FALSE), MapOf("k", "a"), MapOf("k", "b")}]
        \cup [{f, note} -> {Bool(TRUE)} \cup Texts]

MCTerminals ==
    {Atom} \cup [kind : {"list"}, items : {<<>>, <<1>>, <<1, 2>>, <<2, 1>>}]
    \cup [kind : {"map"}, items : {<<>>, <<1>>, <<1, 1>>, <<2>>}]

-----------------------------------------------------------------------------
(* Runs of Playwright: one test that passes, is skipped, fails, fails      *)
(* twice, is too slow, or passes at its second attempt; a spec that fails  *)
(* without one.                                                            *)

Attempt(status, env) ==
    [status |-> status, error |-> status \notin {"passed", "skipped"}, env |-> env]

Test(status, attempts) == [status |-> status, attempts |-> attempts]

MCTests ==
    {Test("expected", <<Attempt("passed", FALSE)>>), Test("skipped", <<Attempt("skipped", FALSE)>>)}
    \cup {Test("unexpected", <<Attempt(status, e)>>) : status \in {"failed", "timedOut"}, e \in BOOLEAN}
    \cup {Test("unexpected", <<Attempt("failed", x), Attempt("failed", y)>>) : x, y \in BOOLEAN}
    \cup {Test("flaky", <<Attempt("failed", e), Attempt("passed", FALSE)>>) : e \in BOOLEAN}

Spec1(test) == [ok |-> test.status # "unexpected", env |-> FALSE, tests |-> {test}]

MCSpecs == {{}} \cup {{Spec1(t)} : t \in MCTests}
           \cup {{[ok |-> FALSE, env |-> e, tests |-> {}]} : e \in BOOLEAN}

NoReport == [errors |-> {}, specs |-> {}]

MCReports == [errors : SUBSET {"environment", "other"}, specs : MCSpecs]

RunOf(dry, exit, output, artifacts, reported, report) ==
    [started |-> TRUE, dry |-> dry, exit |-> exit, output |-> output, artifacts |-> artifacts,
     reported |-> reported, report |-> report]

(* Playwright exits with an error exactly if a test or the suite failed.   *)
Exit(report) ==
    IF report.errors # {} \/ \E s \in report.specs : ~ s.ok THEN 1 ELSE 0

MCRuns ==
    {RunOf(FALSE, Exit(p), output, artifacts, TRUE, p) :
       p \in MCReports, output \in BOOLEAN, artifacts \in BOOLEAN}
    \cup {RunOf(TRUE, 0, FALSE, FALSE, TRUE, p) : p \in MCReports}
    \cup {RunOf(dry, exit, output, FALSE, FALSE, NoReport) :
            dry \in BOOLEAN, exit \in {0, 1}, output \in BOOLEAN}
    \cup {[RunOf(FALSE, 1, FALSE, FALSE, FALSE, NoReport) EXCEPT !.started = FALSE]}

(* Runs of an external command.                                            *)
CommandRun(state, at) ==
    [started |-> TRUE, answered |-> TRUE, wrapped |-> TRUE, flag |-> FALSE, exit |-> 0,
     state |-> state, at |-> at]

SomeRun == CommandRun([x \in {f} |-> Bool(TRUE)], NoMoment)

MCCommandRuns(moments) ==
    {CommandRun(state, at) : state \in States, at \in moments}
    \cup {[SomeRun EXCEPT !.started = FALSE], [SomeRun EXCEPT !.answered = FALSE],
          [SomeRun EXCEPT !.exit = 1], [SomeRun EXCEPT !.flag = TRUE],
          [SomeRun EXCEPT !.wrapped = FALSE, !.at = at1]}

CommandResult(run) ==
    [Shown([NoHard EXCEPT !.exit_code = run.exit], run.state, MomentTold(run, NoMoment),
           "unknown", Atom, FALSE, "unknown") EXCEPT !.available = CommandThere(run)]

MCResultsOf(s) ==
    CASE s.level = "L1" ->
           {Lost} \cup {[Shown(h, <<>>, NoMoment, "unknown", Atom, FALSE, "unknown")
                          EXCEPT !.available = h.available] : h \in Hards}
      [] s.level = "L2" /\ s.strategy = "playwright_spec" -> {SpecResult(run) : run \in MCRuns}
      [] s.level = "L2" /\ s.strategy # "playwright_spec" ->
           {CommandResult(run) : run \in MCCommandRuns(
              IF s.entry.when = NoMoment THEN {NoMoment, at1} ELSE {NoMoment, at1, at2})}
      [] s.strategy = "sibling_consistency" ->
           {Lost} \cup {Shown(NoHard, <<>>, NoMoment, x[1], Atom, x[2], x[3]) :
              x \in {<<"yes", FALSE, "unknown">>, <<"no", TRUE, "unknown">>,
                     <<"yes", FALSE, "no">>}}
      [] OTHER ->
           {Lost} \cup {Shown(NoHard, <<>>, NoMoment, "yes", terminal, FALSE, "unknown") :
              terminal \in IF s.steps > 2 THEN {Atom} \cup [kind : {"list"}, items : {<<>>, <<1>>}]
                           ELSE MCTerminals}
=============================================================================
