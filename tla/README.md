# A verification project for VeriPipe

VeriPipe tests a product under test with scenarios whose verdicts come from machine checks
("oracles"), reproduces each failure, keeps flaky failures in an observation zone, files
the rest as reports in a local queue, and publishes the queue only behind an owner's
manifest. Its promises are of the kind tests reach badly: what survives a crash between
two commits, what two processes do to the same files, which of several counters bounds
what. These modules model that part of the code. They are written from the source; line
numbers in comments and in `PROJECT.json` refer to `src/`. `P/` below is
`shared-skills/pipeline-v2/scripts/pipeline_v2/`.

## The system

| Component | State | Operations | Interacts with |
| --- | --- | --- | --- |
| ledger (`P/ledger.py`, `schema.py`) | SQLite tables `cases`, `hits`, `batches`, `model_calls`, one commit per write | upsert_case, set_case_status, update_case_refs, record_hit, upsert_batch, patch_batch, record_model_call | written by the orchestrator, the observation zone and the model router |
| batch and funnel (`P/orchestrator.py`, `funnel.py`, `verification.py`, `observation.py`, `brief.py`, `suggestion.py`) | locals of `run_batch`; queue file, brief file | sentinels, scan, environment loss, funnel (reproduce, freshness, veto, report or observe), expiry, red lines, brief | executor and oracles (calls), ledger, local queue |
| guarded publishing (`P/publishing.py`) | queue, receipts (JSON lines), one claim file per event and target | flush_reviewed_queue: gates, queue, receipts, claims, command, receipt | external tracker, through commands; several processes share the files |
| model routing (`P/model_routing.py`) | call rows in the ledger; error count and open circuit in memory | begin_batch, invoke, review_verified_candidate | external model; the funnel's veto |
| loop runner (`P/loop_runner.py`) | round records in memory, `summary.json`, a directory per round | preflight, hook, batch with environment retries, repeated-blocker stop, sleep | child processes: preflight, hook, orchestrator |
| installer (`scripts/installer/installer.py`) | managed files, manifest with their SHA-256 | install, upgrade, uninstall, doctor | the user, who edits the same files |
| oracles L1/L2/L3, fingerprint (`P/oracle_l1.py`, `oracle_l2.py`, `oracle_l3.py`, `fingerprint.py`) | none | pure functions of one observation or several | called by the orchestrator on an executor's results, once in the scan and again for each reproduction |
| WebSocket driver (`P/http_driver.py`) | session, socket, the step it is at, events seen | run, run_session_sequence | the product under test; called by the orchestrator |
| fuzz, Playwright and external executors (`P/orchestrator.py`, `playwright_executor.py`) | none | run a scenario | the product under test, child processes; told to the oracles |
| target plan (`P/code_map.py`, `change_impact.py`, builders and preflights in `orchestrator.py`) | code map, target plan and adapter, as files | compute_impacted, build_test_plan, build_profile_seed_plan, the builders of the channels, preflights | reads the product's changes; hands the executors their scenarios |
| knowledge audit and export (`P/knowledge_audit.py`, `knowledge_export.py`) | none | audit of maps, profile, plan and cases; rendered pages | reads the ledger and the files the loop is given; decides whether the loop starts |
| GitHub publisher (`publish-github/scripts/github_publisher.py`) | none | select findings, post them with `gh` | command line, or the command of a guarded flush |
| false-positive report (`P/fp_report.py`) | none | summary of results | the results of `run_batch` |
| MCP server, CI scripts | none that outlives a call | start the tools, scan texts | command line |

What is hard: the orchestrator is serial but makes many commits per signal and can stop
between any two, and the loop then runs the same batch id again on the same ledger and
queue. Flushes of one queue run in parallel and meet only on disk; an external command may
have published when its answer is lost. The router's limits are partly in the ledger and
partly in an object that a restart or `begin_batch` renews. The loop kills children by
timeout and cannot know what they had queued. A failure is judged twice, at two places in
the code that must agree. The driver hears a product that answers late, talks unasked or
goes away. A target plan speaks of an adapter that may be edited before the batch is
built. The knowledge gate speaks of a product that moves on. The installer checks digests
first and overwrites later. `PROJECT.json` lists these hazards one by one with the line
where each bites.

What makes the components correct:

* batch and funnel: a report needs all its reproductions and a veto gate that let it
  through; ledger and queue agree after any crash; an intermittent case owes its
  status to different batches; the counters balance; a void batch files nothing.
* publishing: at most one delivery per target, never forgotten, and every flush ends.
* routing: no candidate passes without a recorded allow within the budgets; recorded
  and attempted calls are bounded.
* loop: retries are spent on environment events only, a repeated blocker ends it, the
  summary keeps up with the rounds, and the loop ends.
* knowledge: a loop that runs under the gate does so on maps and bugs of the commit it
  tests, and what the audit calls covered the export does too.
* oracles: a failure that shows again is reproduced; nothing is decided on what was not
  observed or on the order of runs, and wording decides only through `eq`, in two ways. What is wrong with the suite or its environment
  alone is not the product's failure.
* target plan: a batch with a plan runs all of it and nothing else, or is refused; what a
  preflight found ready is not refused; more changes select no less.
* driver: the event that is judged answers the last message; the network's failures are
  environment events; a run ends and leaves no socket open.
* installer: a user's edits are kept, only recorded files are removed.

## Modules

| Module | Models |
| --- | --- |
| `Ledger` | the tables and their writes, as operators on `cases`, `hits`, `batches` |
| `Orchestrator` | `run_batch` from sentinels to brief, one action per commit or executor call |
| `CaseFiling` | abstract: what the pipeline promises about filed reports |
| `Publishing` | `flush_reviewed_queue`, any number of processes, and the owner's reconciliation |
| `GithubPublisher` | the GitHub publisher as the command of such a flush |
| `Delivery` | abstract: an item is sent at most once and recorded only after it was sent |
| `ModelRouter` | `ModelRouter.begin_batch`, `invoke`, `review_verified_candidate` |
| `LoopRunner` | `run_loop` |
| `Knowledge` | the audit's blockers, the gate made of them, the entries audit and export call covered, as operators |
| `GatedLoop` | `run_loop` together with the audit of the files it is given |
| `Installer` | install, upgrade, uninstall, doctor, file by file |
| `Executors` | what the Playwright and external executors make of a child process, as operators |
| `Oracles` | the verdicts of L1, L2 and L3 and what a fingerprint keeps, as operators |
| `Probe` | one scenario from its first step to its reproduction: executor, oracle, oracle again |
| `Driver` | `HttpAgentExecutor.run` and `run_session_sequence`, frame by frame |
| `Conversation` | abstract: messages are asked one at a time and in order, and the last answer is judged |
| `TargetPlan` | from changed files to the scenarios a batch runs, and the preflights |
| `MC*` | constants for TLC |
| `OrchestratorProofs`, `PublishingProofs`, `ModelRouterProofs`, `LoopRunnerProofs`, `InstallerProofs`, `DriverProofs`, `TargetPlanProofs`, `ProbeProofs` | theorems |

Each module follows one scheme: `pc` says where the code stands, an action is the
code from one durable effect (or external call) to just before the next, `Crash` is
the process ending between two of them, whether it is killed or an exception leaves
the function. Operators with a suffix behind an underscore (`AllMatched_OneShort`)
are mutations used to show that a property can fail; nothing else refers to them.

### Ledger, Orchestrator, CaseFiling

`cases`, `hits` and `batches` are the tables reduced to the columns that steer
something; texts are left out. `run` holds the locals of `run_batch` and
`process_batch` that steer it, `stats` those that are only counted. `Begin(b)` calls
`run_batch` with the current batch id (a rerun) or a later one. The scan takes the
scenarios of `Plan` in order (`SkipClue` for L4, `ScanUnavailable`,
`ScanInconclusive`, `ScanClean`, `ScanSignal`), the funnel takes the signals one by
one: `Reproduced`/`NotReproduced`, `Verified`, then either the zone (`ObserveCase`,
`ObserveHit`, `ObserveUpgrade`, `SetVetoed`) or the report (`ReportCase`, `ReportHit`,
`Publish`, `SetReportRef`). `CloseBatch` to `Finish` is what follows: expiry,
environment event, red lines, brief.

The oracles' verdicts (made in `Probe`), freshness, and the veto are chosen freely:
`Verified(mismatch, veto)` takes both. Fingerprints are model values, and different
scenarios have different ones, because the hashed source includes the scenario id. The
number of unrelated fingerprints of an environment event is a constant. One process uses a
ledger. `Summarize` is what `fp_report.py` makes of the result; it is applied to the
result of the batch that has just finished, and its counts (not its rates, nor the trend
over several files) are held against the counters they come from. An event of the scan is
one action because nothing durable happens in it; what it counts is `Tallied`.
`CaseFiling` has three variables, sightings, whether the last verification was complete,
and what was filed, and says that a report is filed only for a case seen and fully
reproduced; `Sightings`, `Proven` and `Filed` are the refinement mapping.

### Publishing, Delivery

`queue`, `receipts`, `torn` and `claims` are the shared files, `pc`, `manifest`, `scope`,
`pending`, `item` the locals of each flusher. An event's identity is the hash of its
payload, so an event is one value. All gates that look only at the arguments, when one of
them is closed, are `GateClosed`. `Deliver` is the instant the tracker has the event:
behind it the answer may be lost, the flusher may die, and a receipt may be torn.
`DropClaim`, `AddReceipt` and `MendReceipts` are external: the manual reconciliation the
code's error messages ask for, by an owner who looks at the tracker and at no item a
living flusher holds. At most once holds per receipts file and target: flushes with
different receipts files do not see each other's claims.

### GithubPublisher

`GithubPublisher` EXTENDS `Publishing` and puts the tool where `Publishing` has any
command: `GhPosts`, `GhFails` and `NothingToPost` are its three ends (`gh` may be missing
or fail whatever there is to post), `ReadAnswer` is the flush that reads what it printed, a
set of fields. Each of its steps is one of `Publishing` (`GithubFlushIsFlush`). Of a payload it keeps what
`Eligible` asks for and the fingerprint. `posts` is what was posted on GitHub. The tool
itself has no memory: what it posted in an earlier call it does not know.

### ModelRouter

`calls` keeps per batch the number of rows, the sum per resource and the candidates
a row allows. `invocations`, `begins` and `answered` are history: how often the model
ran, how often a batch was begun, what was recorded since. `Refuse` is every early
error of `invoke`, `RunnerFails` every error of the call or its validation,
`RunnerAnswers` the commit of a valid answer, `CheckTotals` the comparison with the
budgets that follows it. `enabled` is always true, as `build_opt_in_model_router`
sets it; parsing of policies and overlays is left out.

### LoopRunner

`args` are the two arguments that steer a call, `max_rounds` and `stop_on_not_ready`;
`index`, `attempts`, `rounds`, `stop` are locals of `run_loop`, `summary` is
`summary.json`, `queued` the number of reports in each round directory's queue. A batch is
*processed*, *void*, *killed* (timeout, or an exit without JSON) or an *adapter error*;
void and killed are the environment events that are retried, and a killed one may have
queued reports the loop counts as 0. The environment flag of a processed batch makes a
blocker but is not retried. A preflight is ok or not ready; the knowledge gate is an
argument of `Start`, which `GatedLoop` fills in. Children take `Times` ticks. The summary
is written in place, so a crash in a write may leave it unreadable.

### Knowledge, GatedLoop

A set of files is a record: the product's commit, the two maps, the adapter, the cases of
the ledger, the profile and the plan, each reduced to what a blocker depends on; a commit
is a name, and an anchor counts if its path check would succeed. `AuditBlockers`
is what `knowledge_audit` reports as blockers, `Gate` what `_knowledge_audit_metadata`
hands to the loop, in the order in which the code gives up. `Candidate` and `Confirmed`
are the same filter, written down twice in the code and here. `GatedLoop` EXTENDS
`LoopRunner` and `Knowledge`: a call of the loop finds some files (`FilesOf`), is
audited once, and the files may be others at the next call. A map that names no commit
and a product without git are both `NoCommit`.

### Installer

`disk` and `manifest` are the product directory; `home` is the framework version.
A digest is its content. The check (`InstallVerdict`, `UninstallVerdict`) is one step:
an edit between the hashing of two files is an edit before or after it. Files are
written and removed one by one in sorted order, the manifest last, and the user may
edit or delete a file, or update the framework, between any two of them. One product
and one command at a time; temporary files, symlinks and path checks are left out.

### Executors, Oracles, Probe

A value is its kind and what an oracle looks at: a truth value, a number, a length, the
keys of a mapping, whether a text is empty, short or long. What else tells two values
apart is in `kept` (which short text, what a list or a mapping holds) and in `words` (the
wording of another text, or of texts inside). `Same` is Python's equality of whole values,
for which `True` is 1; `Shape`, what the fingerprint keeps, drops `words`. `HardFailure` is the
order in which L1 asks, `Told` what the fuzz executor tells it. `EvaluateL2` goes through
contract, moment and check in the order of the code, and tells *contract* from
*observation* as `reason_class` does. A nested path is one field, by the name that is written;
`TextFields` are the names of which a part is in `TEXT_STATE_KEYS`, and `Stripped` takes
the blanks off a name's ends. The fields of a check are stripped for the text rule and read
as written; `value_from` is tested as written and stripped to be read. L3 compares terminal states: lists and mappings
of numbers, or atoms that can only be equal; `_shape`'s cut behind three items is above
the size of the lists.

`Executors` says what a child process is taken for. A Playwright run has an exit code,
perhaps a report (global errors, specs, tests, attempts), an output and artifacts; of
every text only whether one of `ENVIRONMENT_PATTERNS` matches it is kept. `FailedAssertions`
and `BlamesEnvironment` are the two questions the executor asks of it, in its order. A
command has answered if its output is JSON. What the oracles are told of a run of
Playwright is `SpecResult` in `Probe`; of a command it is put together in `MCProbe`, for
every run it lists. `PlaywrightRun` is external: what Playwright's reporter promises of a
run that nobody interrupted, with no test that is marked to fail. It exits with an error
for a reason its report gives, an attempt with an error went wrong, a test's status agrees
with its attempts, and a spec fails by one of its tests if tests are reported at all.

`Probe` runs one scenario: `Execute` is a step (a run of the executor), `Generate` is
what `_generate_signal` does with the results, `Verify` what `_verification_runner` and
`run_reproduction_validation` do with those of the second run. The code has the judging
twice; read side by side, the two places differ in the moment alone, so both actions use
one `Judgement` and differ in its argument `at`. `SameRunReproduces` thus shows that the
moment is ignored where none is declared and that the fingerprint keeps nothing volatile;
another argument forgotten at one place is beyond it. The outcomes are
the counters of the scan, the environment event, a schema error, and *reproduced* or
*not-reproduced*. A channel with several reproductions repeats the second half;
`Orchestrator` counts them, and takes from here that the verdict can be any.

### Driver

`pc` is the place in `run` or `run_session_sequence`, `count` the loop's counter, `sock`
the WebSocket, `frames` what is under way. The product (`Push`, `Answer`, `GoAway`) is
external. A frame carries the message it answers, which only the properties look at: the
driver cannot see it, and that is the hazard. A receive that finds nothing is a timeout
or a lost connection, which the code does not tell apart; a frame that is no JSON object
ends a wait like one. `Send` on a lost socket may go unnoticed or raise (`SendRaises`).
`Conversation` sees of it the messages that reached the product, those it has answered,
and the result.

### TargetPlan

`changed` is the difference of the product to the code map, `adapter`, `acknowledged` and
`plan` are what the builders read, `ready` and `batch` what the last preflight and the last
builder made of them; they are void as soon as one of those changes. `TestPlan` is
`build_test_plan`, `SeedPlan` is `build_profile_seed_plan`, `Built` the builder of a channel
with its target-plan filter. A list the code walks through is a set whose elements carry
their place `at`, where which one comes first decides. `sound` stands for the checks of
single fields of an item, `sane` for what a preflight looks at outside of plan and adapter
(node, browsers, hosts, paths); mock runs, and the reasons a plan gives, are left out.

## Runs

| Run | Module | Bounds | Question |
| --- | --- | --- | --- |
| crash | MCOrchestrator | 3 scenarios (certified L2, L1, L4), 2 fingerprints, 2 attempts, 2 batch ids, environment loss, ageing, upgrade at 2, crashes, fairness | do ledger and queue agree, do the counters and the false-positive report balance, are reports filed as `CaseFiling` promises and never from a void batch, is an intermittent case earned in different batches and the zone swept, whatever was interrupted, and does a batch end? |
| briefs | MCOrchestrator | 2 attempts on 1 batch id | finding, below |
| race | MCPublishing | 2 flushers, 2 events, 2 evidence levels of one target, 3 flushes, crashes, fairness | at most once, nothing forgotten, every flush ends? |
| gate | MCModelRouter | 2 batches begun twice each, 2 candidates, 4 kinds of request, 2 resources, 3 usages, 3 invocations, 2 recorded calls, crashes | who passes the gate, and how many calls are made? |
| loop | MCLoopRunner | loops of 2 rounds and of no number of rounds, with and without stop_on_not_ready, duration 3, children of 1 or 2 ticks, 1 retry, blockers 2 in a row, 2 kinds of detail, preflight and hook, 2 calls with one run id, the gate enforced or not, 26 sets of files that are sound but for one thing, crashes, fairness | on what knowledge does a loop run, what ends it, do counts, summary and deadline hold across restarts, and do audit and export agree? |
| edits | MCInstaller | 3 paths, 2 versions (one file changed, one dropped, one added), 3 commands, 2 edits, 1 update, crashes | are edits kept, and do doctor and installer agree? |
| select | MCTargetPlan | 4 files, 5 endpoints, 4 links, 3 adapters that are exchanged for each other | does a batch run its plan, do preflight and builder agree, do more changes select more? |
| command | MCGithubPublisher | 1 flusher, one exact finding and one suggestion, 2 flushes, crashes | finding, below |
| drive | Driver | 3 messages, 2 events drained, 3 events waited for, 3 frames under way, events of other types and broken frames, fairness | are messages asked one by one, is the right event judged, and does every run end? |
| lost | Driver | as drive | finding, below |
| judge | MCProbe | every level and strategy, 42 contracts, 3 fields (one of text, also named with a blank in front) with values of every kind, two wordings, up to 4 siblings and 3 paths, Playwright runs with at most one spec, one test (timed out ones, too) and two attempts, commands that answer or do not | are failures judged alike twice, what can decide a verdict, and who is blamed? |
| moment | MCProbe | as judge | finding, below |

The bounds are the smallest at which the interesting cases meet: two attempts are needed
for a rerun to find what a crash left, two fingerprints for one signal to be filed and the
next interrupted; upgrading at two batches, with two attempts that may share an id, lets a
repeated batch id be told from a new one. Three flushes allow a retry while another
flusher is at work, and two events let it fail in the middle. Two invocations open a
circuit whose stop is 2, the third needs it closed again. Two rounds in a row make a
repeated blocker, and a loop that went on after them would be seen asleep. Three commands
are install, upgrade, uninstall, each with an edit or a crash before the next. A sequence
of three messages has a first, a middle and a last one, and three frames under way hold an
answer between two other events; `max_events` is as small, so that a product that does not
stop reaches it. Four siblings are the smallest tie that is judged, three paths the
smallest with a difference behind the first pair; two attempts of a test are the smallest
that fail for different reasons. Each set of files differs from a sound one in what one
blocker looks at, and two calls let the files get old between them. Counters of calls and
attempts (`MaxAttempts`, `MaxFlushes`, `MaxBegins`, `MaxInvocations`, `MaxRuns`,
`MaxCommands`, `MaxEdits`) and sizes (`MaxBatch`, `MaxQueue`, `MaxFiled`) bound the models
alone, never the code; when they are used up the models stop, which is why deadlock is
not checked, except in *select*, which has no counter.

Fairness. `Orchestrator!FairSpec`: a batch that runs takes its next step, since every call
it waits for has a timeout. `Publishing!FairSpec`: the same for each flusher, whose
commands run under a timeout. `LoopRunner!FairSpec`: the loop goes on, since its children
are killed at theirs. `GatedLoop!GatedFairSpec` is the same for the loop with its audit.
`Driver!FairSpec`: a receive returns with a frame or at its timeout (`settimeout`).
`Probe` has only safety properties. No fairness is assumed of the environment, the
product, the user, the owner or a call of any of the programs, and a crash is never
required not to happen: it ends the obligation.

### Where the code and its documents disagree

* **briefs**: an environment retry that ends void twice appends the same brief twice,
  with the same event id, and `P/publishing.py:480` refuses to flush such a queue. It takes
  a batch id that is used again: with new ones it does not happen
  (`NewIdsKeepEventsDistinct`).
* **lost**: `ws.send_json` (`P/http_driver.py:156`) is the one call on the network whose
  failure nobody turns into an environment event; a connection lost between two messages
  ends the batch with an exception. The class says of the network and timeout errors that
  they are all turned into `TransportError` and an environment event
  (`P/http_driver.py:224`).
* **moment**: the second run of a failure is judged without `observed_at`
  (`P/orchestrator.py:853`), so an entry that declares `observed_when` can fail but is never
  reproduced. `docs/adapters.md:145` excludes a verdict "unless the executor reports
  exactly the same `observed_at`", which it may well do.
  `DeclaredMomentsAreLost` proves it of every such entry.
* **command**: a flush asks its command for an attestation and a card or report reference
  (`P/publishing.py:255`, `263`-`279`); the GitHub publisher prints neither
  (`publish-github/scripts/github_publisher.py:285`). With it as the command, a flush posts
  one finding, takes that for a failure and leaves a claim without receipt
  (`GithubFlushesNeverSucceed`: so does every flush).
  `publish-github/SKILL.md:26` says that it "can be used directly as an adapter
  `publishing.create_bug_command`".

Noticed, and allowed by the models without a run of their own:

* the coverage report of a batch counts every scenario of the plan, also in a void batch
  that executed none (`P/orchestrator.py:487`), while `P/suggestion.py:100` speaks of the
  entries a batch actually touched;
* two items of one identity under different entries: the target-plan filter keeps the first
  only (`P/orchestrator.py:1431`), so a planned target is dropped without a word
  (`Unambiguous` excludes it);
* a fuzz case or L3 scenario without id becomes a target the builder refuses; a case
  without method is GET for the builder and is never planned; external scenarios are
  never planned at all;
* an endpoint may be listed as open although a planned case probes it, since a case is
  taken for its first endpoint only;
* the Playwright preflight holds testdata gates against the scenarios the plan leaves, the
  builder against the whole whitelist;
* with `max_rounds` the deadline of the loop is ignored;
* an install that dies half-way leaves files that no manifest names
  (`TrackedUnlessKilled` excludes it);
* a crash between the observation zone's status and the veto's own leaves an
  intermittent case the gate had blocked;
* `PublishingSafetyError`, "Raised before any external command" (`P/publishing.py:56`), also
  leaves a flush that has already published when another flusher takes the next claim
  (`P/publishing.py:632`);
* `max_calls_per_batch` bounds recorded answers, and failed calls are not counted, though
  `README.md:194` speaks of call limits; `InvocationsBounded` says what does bound them;
* wording can decide an L2 verdict: `value_from: " message"` is no text field when it is
  checked (`P/oracle_l2.py:160`) and is stripped before it is read (`P/oracle_l2.py:388`),
  and `eq` on a list or a mapping compares the texts inside it (`P/oracle_l2.py:290`), while
  `examples/demo.py:38` says "The oracle judges structured state only; the agent's wording
  is never evidence." `WordingOnlyByEq` says that nothing else lets it in;
* a pair of L3 runs that cannot be judged counts as passed, where L2 counts as
  inconclusive (`Withheld`);
* at a tie of the siblings those that rejected the input are accused, though nobody is in
  the majority;
* an error event in the middle of a sequence ends its step like a result, and the sequence
  goes on (`P/http_driver.py:131`); a product that sends an error and then a result for
  one message shifts every later answer by a step. `KeepsConversation` assumes one
  terminal event for each message, and none unasked;
* the callers of what changed are collected and reported, but the entries that links give
  for them are not selected (`P/change_impact.py:111`), though the module's own picture
  (`P/change_impact.py:5`) draws them among what is looked up in the links;
* `github_publisher.py --max 0` still posts one finding, since the count is looked at
  behind the append (`SelectFindings`); a payload it does not post is no error, exit 0
  with count 0; when `gh` fails in the middle of several, nothing is printed of those
  already posted, and the next call posts them again;
* a run of Playwright with a flaky test, or one that ends by another status than
  `expected`, is not passed although it exits with 0, and then no environment text is
  looked for, so that an attempt only the environment failed is judged as the product's
  (`BlamesEnvironment`); and one failure, or an error-context file, that names the
  environment makes the whole run an environment event, with real failures in it;
* the knowledge audit runs once, before the first round, and a loop may run for days on
  it; the plan's own commit is not looked at; a commit is compared as text with
  `git rev-parse --short HEAD`, so that a map with the full hash is stale;
* the audit finds a probe for an endpoint by its whole route, `P/change_impact.py` by a
  prefix; `owner-review-required`, which both coverage filters name, is no triage result
  the ledger takes;
* the false-positive report counts every executed check of a void batch as withheld,
  although its breakdown does not list all of them (`Accounting` is for batches that
  are not void);
* with `min_unrelated_fingerprints` 0 any number of failures, also none, makes a batch an
  environment event, and `ZoneSwept` can say nothing: the theorem assumes another value;
* `HttpAgentExecutor` never reports `observed_at`, so entries that declare a moment are
  always inconclusive with it.

## Theorems

All theorems are of `Spec` (no fairness), for every value of the constants that meets
the modules' assumptions, every plan, policy, number of processes and number of
attempts. Each proof has an inductive invariant `IInv`, defined in the module itself
(in `ProbeProofs` for `Probe`), checked once with TLC before it was proved, and one lemma
per action.

Liveness cannot be proved here, but its safety half can. `EverNearer` in `Publishing`,
`Driver`, `LoopRunner` and `Orchestrator` says that a running program only gets nearer to
its end, whatever the others do: each step that is not the others' leaves a place for
good, or uses up a part of something that is bounded (the pending events, the messages and
the limit of events, the rounds and attempts, the scenarios, signals, reruns and due
cases). What `FlushEnds`, `RunEnds`, `LoopEnds` and `BatchEnds` say beyond that is that
such a step is enabled and taken, which is left to TLC and to fairness.

* `OrchestratorProofs`: `TypeCorrect`, `IntermittentIsEarned`, `BugEventsAreDistinct`,
  `FiledReportsHaveHits`, `ReferencesHaveEvents`, `FiledReportsAreReproduced`,
  `VetoComesAfterEvidence`, `BooksBalance`, `ZoneIsSwept`, `VoidBatchesFileNothing`, and
  the refinement `PipelineKeepsFilingPromise`. The properties are not inductive: that a
  new bug event differs from the queued ones holds because an event carries the hit count
  of its case, which only grows (`EventsBehind`), and that a reported case has its hit and
  evidence has to be carried from commit to commit (`ReportPath`, `VetoPath`).
  `BooksBalance` has an invariant of its own, `Books`, that says at every place of the
  batch how far each counter has come: the scan (`ScanBooks`), a signal in hand that is
  counted but not yet decided (`FunnelBooks`), and the row in the ledger that follows
  (`RowBooks`). `ZoneIsSwept` rests on `Sweep`: what `expire` lists covers what is due,
  and stays due until it is marked. It assumes `EnvironmentMin # 0`.
  `VoidBatchesFileNothing` needs that a triggered sentinel leaves only the end of the
  batch (`VoidEnds`). `BatchOnlyGetsNearer` needs that a signal's matching reruns are
  never more than its policy asks for (`RerunsNeverPass`), or the funnel would wait before it
  for ever. `NewIdsKeepEventsDistinct` assumes of the caller that each batch has a larger id
  than the one before (`NewIds`), the complement of the finding *briefs*; `BriefsBehind`
  says that a queued brief is of an earlier batch or of the one that has just queued it.
* `PublishingProofs`: `TypeCorrect`, `DeliveredAtMostOnce`, `DeliveryIsNeverForgotten`,
  `FlushedMeansDelivered`, `LoneScopeStaysReadable`, and the refinement
  `PublisherKeepsPromise`. The invariant says what a claim file is for: a flusher in
  the middle of an item holds its claim alone, and no receipt speaks of it
  (`HoldersApart`); a receipt stands for one delivery (`ReceiptsTrue`); what a flush
  crossed off was delivered (`Progress`). `FlushOnlyGetsNearer` and `LoopFindsTheNext` are
  why a flush ends, the second by the least position in a queue that others append to.
  `GithubFlushIsFlush` is the refinement of `Publishing` by `GithubPublisher`, so that
  `GithubKeepsPromise` follows; `GithubFlushesNeverSucceed` and
  `GithubReceiptsAreTheOwners` state the finding *command* for every queue.
* `ModelRouterProofs`: `TypeCorrect`, `GateFailsClosed`, `CallLimit`,
  `BoundedInvocations`, `OverrunByOneCall`. The bound on invocations needs an account
  of the errors the current batch may still make (`ErrorsCounted`), the rest follows
  the steps of one review (`RoomLeft`, `CircuitOpen`, `RunningUndecided`,
  `AnswerIsRecorded`). `SpendIsBounded` says in tokens or money what `OverrunByOneCall`
  says in calls, for a model whose single call is bounded.
* `LoopRunnerProofs`: `TypeCorrect`, `OnlyEnvironmentIsRetried`, `CountsAreTrue`,
  `RepeatedBlockerEnds`, `SummaryIsCurrent`, `CompletionIsExplained`; of the loop with its
  audit `GatedLoopIsLoop`, so that all of these hold of it,
  `GatedRoundsRunOnCurrentKnowledge` and `CoverageIsAgreed`, for all files the calls may
  find: an open gate is carried through the call (`GateWasOpen`), and no blocker means
  what the properties say. The invariant follows the loop from place to place: which round
  is under way and what is known of it (`InRound`, `Attempted`), which directories hold a
  queue (`Directories`), what the summary already tells (`Summarised`), and why the loop
  stops (`Reasoned`). `EveryRoundTakesTime` and `RoundsStayInBudget` bound the rounds of a
  loop that was given none, by its duration and that a child process takes at least one unit
  of it; with them `LoopOnlyGetsNearer`.
* `InstallerProofs`: `TypeCorrect`, `InstallsAreComplete`, `FilesAreTracked`,
  `DoctorAndInstallerAgree`, `UserEditsAreKept`, `OnlyRecordedFilesGo`. What the check
  found stays true of every file the command has still to touch and the user has not
  edited since (`CheckedBefore`), what it has written is there unless it was edited
  (`WrittenSoFar`), and what it has written or removed was its own (`OwnedSoFar`).
* `DriverProofs`: `TypeCorrect`, `JudgedAnswerIsLast`, `EnvironmentIsExplained`,
  `SocketIsClosed`, `RunOnlyGetsNearer`, and the refinement `DriverKeepsConversation`. At
  most one final frame is under way, it answers the step the driver is at, and at most one
  message has no answer yet (`Quiet`, `Awaiting`). The refinement, and `JudgedAnswerIsLast`
  that it contains, need a product whose unasked events are not final, which the code takes
  for granted where it stops at the first final one (`P/http_driver.py:129`).
* `TargetPlanProofs`: `TypeCorrect`, `BatchesRunThePlan`, `ReadyBatchesAreAccepted`,
  `MoreChangesChooseMore`. What was built and checked is what would be built and checked
  again (`BatchIsCurrent`, `ReadyIsCurrent`); that the filter loses no target rests on a
  scenario being dropped only for another of its identity that is found strictly before it
  (`FoundBeforeIsStrict`, `AllMatchingAreKept`), and that more changes select no less on
  the first spec of a name staying the first when others join (`FirstIsKept`).
* `ProbeProofs`: `SameRunsReproduce`, `MoreNeverChangesAVerdict`, `WordingEntersByEqOnly`,
  `OrderDoesNotMatter`, `AccusedAreFew`, `SpecFailuresAreTheProducts`,
  `ReproducedIsSeenTwice`, `DeclaredMomentsAreLost`, for every set of scenarios and whatever an
  executor returns. The first goes through every oracle, where the second run is judged
  with another moment than the first; two and three are about every contract, state and
  moment, by what an oracle has looked at (`JudgedAlike`) and that all but `eq` look at
  values without their words (`WordlessAlike`); the fourth renumbers the pairs
  of two runs by a bijection; the fifth counts the accused siblings for any number of them.
  `SpecFailuresAreTheProducts` is about every report, of any number of specs, tests and
  attempts, under `SpecsAssumption`: what an executor returns for such a scenario is
  `SpecResult` of a run that meets `PlaywrightRun`. TLC evaluates the assumption on every run
  that `MCProbe` lists.

Only model-checked: the liveness properties (`BatchEnds`, `FlushEnds`, `LoopEnds`,
`RunEnds`) beyond the half said above, which the prover cannot reach. What
`Summarize`, `SelectFindings` and the folds of other modules compute for every input needs
induction over data, which is out of its reach too. `CompletedIsExplained`,
`RetriesSpent`, `RemovesOnlyRecorded`, `JudgedOnLastAnswer` and the type invariants are proved and no longer
checked by a run of their own.

## Plan

1. Done: the modules above, their runs and the theorems of eight of them.
2. Done: a proof of `SpecsBlameProduct`, from what Playwright promises of its report as an
   assumption, and the safety half of each liveness property.
3. Compositions: batch and publishing on one queue, with `CaseFiling` and `Delivery`
   as one promise from failure to tracker; router and funnel on one ledger; loop and
   batch, where a retry reuses the batch id.
4. Triage synchronisation, two installers on one directory, and flushes of one queue with
   different receipts files, as modules of their own.

## Not modelled

* The MCP server and the CI scripts: they keep no state, start the tools, and scan texts.
* Two processes on one ledger: `upsert_case` reads and rewrites a row in Python and would
  lose an update.
* Of publishing, secret scanning, fixture rules, `TriageSync`, and flushes of one queue with
  different receipts files, which do not see each other's claims; of the installer, two
  of them on one directory, path safety, symlinks and damaged manifests.
* Of the knowledge tools, the findings that are no blockers, the next step they are sorted
  by, endpoints without a probe, the path checks of single anchors, and the pages the
  export renders.
* Of the scan, the schema errors of a stateful relation without baseline step, of an executor
  without `run_session_sequence` and of a missing entry; of L3, the `TypeError` of
  `set(items())` on values that cannot be hashed (`P/oracle_l3.py:98`), which nothing catches.
* Of the executors, the paths and variables checked before a process is started, redaction,
  and which text a failure is told with; of fingerprints, the normalisation of texts and
  the hash.
* Rates, trend and rendering of the false-positive report; drafts of the GitHub publisher.
* Parsing and validation of configuration everywhere; wording of briefs and reports.
