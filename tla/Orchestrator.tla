---------------------------- MODULE Orchestrator ----------------------------
(***************************************************************************)
(* One batch of pipeline v2 from the sentinels to the brief:               *)
(* PipelineV2Orchestrator.run_batch, the Funnel it drives, the observation *)
(* zone, the brief and the local queue.  The process is serial; what makes *)
(* it hard is that it writes the ledger, the queue and the brief one       *)
(* commit at a time and may stop between any two (a crash, or an exception *)
(* that leaves run_batch), and that the next attempt, under a new batch id *)
(* or the same one, starts from whatever was left.                         *)
(*                                                                         *)
(* One action stands for the code from one durable write (or one call of   *)
(* the executor) to just before the next.                                  *)
(***************************************************************************)
EXTENDS Ledger

CONSTANTS
    Plan,           \* the scenarios of a batch, in order
    Sentinels,      \* the statuses _run_sentinels can return
    StrongRuns,     \* VerificationPolicy.strong_runs
    WeakRuns,       \* VerificationPolicy.weak_runs
    AgentUnderTest, \* VerificationPolicy.agent_under_test
    UpgradeBatches, \* ObservationStateMachine.upgrade_batches
    ExpireBatches,  \* ObservationStateMachine.expire_batches
    EnvironmentMin, \* min_unrelated_fingerprints of the environment event
    MaxAttempts,    \* bound: calls of run_batch
    CanCrash,       \* whether a run_batch may stop half-way
    CanAge          \* whether expire_days may pass between two batches

ASSUME PolicyAssumption ==
    /\ StrongRuns \in Nat \ {0} /\ WeakRuns \in Nat \ {0}
    /\ UpgradeBatches \in Nat /\ ExpireBatches \in Nat /\ EnvironmentMin \in Nat
    /\ Sentinels \subseteq {"skipped", "passed", "triggered"}

(* A scenario has an oracle level, the two attributes that choose its      *)
(* channel, and the fingerprints a failure of it may have: one scenario    *)
(* can fail in more than one shape.                                        *)
Scenario == [level : {"L1", "L2", "L3", "L4"}, certified : BOOLEAN,
             nondet : BOOLEAN, fps : SUBSET Fingerprints]

ASSUME PlanAssumption == Plan \in Seq(Scenario) /\ {"L1", "L2", "L3"} \subseteq Levels

VARIABLES
    queue,      \* the publish queue file (JSONL): a sequence of events
    brief,      \* the brief file
    pc,         \* where run_batch stands
    attempts,   \* calls of run_batch so far
    run,        \* the locals of run_batch and process_batch that steer it
    stats       \* the locals that are only counted and returned

vars == <<ledger, queue, brief, pc, attempts, run, stats>>

-----------------------------------------------------------------------------
Countable(s) == s.level \in {"L1", "L2", "L3"}

(* classify_channel: the number of reproductions a signal needs. *)
RequiredRuns(s) ==
    CASE s.level = "L2" /\ s.certified -> 0
      [] s.level = "L1"                -> StrongRuns
      [] s.level = "L2" /\ ~ s.certified /\ ~ AgentUnderTest /\ ~ s.nondet -> StrongRuns
      [] OTHER                         -> WeakRuns

Signal(s, f) == [fp |-> f, level |-> s.level, required |-> RequiredRuns(s)]

ZeroTally == [executed |-> 0, pass |-> 0, noSignal |-> 0, inconclusive |-> 0]

(* The locals when run_batch starts on batch b. *)
Fresh(b) ==
    [batch |-> b,
     sentinel |-> "skipped",
     scan |-> 1,            \* the scenario to execute next
     signals |-> <<>>,      \* the signals still to funnel, the current first
     matched |-> 0,         \* reproductions of the current signal so far
     vetoed |-> FALSE,      \* the veto gate blocked the current signal
     triage |-> "none",     \* its triage result
     pending |-> {},        \* fingerprints a loop over cases still updates
     event |-> FALSE,       \* environment_event of the result
     touched |-> {}]        \* fingerprints this attempt has written

ZeroStats ==
    [tally |-> ZeroTally,
     counters |-> ZeroCounters,
     total |-> 0,           \* len(signals) on entry of the funnel
     expired |-> 0]

cur == Head(run.signals)

(* One more of each of these. *)
Counted(names) ==
    stats' = [stats EXCEPT !.counters =
                [name \in DOMAIN stats.counters |->
                    IF name \in names THEN stats.counters[name] + 1
                                      ELSE stats.counters[name]]]

Verify == [required |-> cur.required, matched |-> run.matched]

NoBrief == [kind |-> "none"]

Init ==
    /\ LedgerInit
    /\ queue = <<>> /\ brief = NoBrief
    /\ pc = "idle" /\ attempts = 0
    /\ run = Fresh(1) /\ stats = ZeroStats

-----------------------------------------------------------------------------
(* Sentinels and signal generation *)

(* run_batch is called with any batch id from the current one on: a new    *)
(* number, or, for a rerun, the one the ledger already knows.              *)
Begin(b) ==
    /\ pc \in {"idle", "done"}
    /\ attempts < MaxAttempts
    /\ b >= run.batch
    /\ pc' = "sentinel" /\ attempts' = attempts + 1
    /\ run' = Fresh(b) /\ stats' = ZeroStats
    /\ UNCHANGED <<ledger, queue, brief>>

(* A failing sentinel makes the batch void; no scenario is executed. *)
RunSentinels(outcome) ==
    /\ pc = "sentinel"
    /\ run' = [run EXCEPT !.sentinel = outcome]
    /\ pc' = IF outcome = "triggered" THEN "void" ELSE "scan"
    /\ UNCHANGED <<ledger, queue, brief, attempts, stats>>

Scanning == pc = "scan" /\ run.scan <= Len(Plan)

Advance == run' = [run EXCEPT !.scan = @ + 1]

(* executed_count counts the scenario before it is executed. *)
Tallied(field) ==
    stats' = [stats EXCEPT !.tally.executed = @ + 1, !.tally[field] = @ + 1]

(* An L4 clue is never executed and never counted. *)
SkipClue ==
    /\ Scanning /\ Plan[run.scan].level = "L4"
    /\ Advance
    /\ UNCHANGED <<ledger, queue, brief, pc, attempts, stats>>

ScanUnavailable_GoesOn ==   \* mutant: the scan is not abandoned
    /\ Scanning /\ Countable(Plan[run.scan])
    /\ run' = [run EXCEPT !.scan = @ + 1, !.sentinel = "triggered"]
    /\ stats' = [stats EXCEPT !.tally.executed = @ + 1]
    /\ UNCHANGED <<ledger, queue, brief, pc, attempts>>

(* The environment vanishes: signals found so far are thrown away. *)
ScanUnavailable ==
    /\ Scanning /\ Countable(Plan[run.scan])
    /\ run' = [run EXCEPT !.scan = @ + 1, !.sentinel = "triggered", !.signals = <<>>]
    /\ stats' = [stats EXCEPT !.tally.executed = @ + 1]
    /\ pc' = "void"
    /\ UNCHANGED <<ledger, queue, brief, attempts>>

(* Only the machine oracle of L2 can be inconclusive. *)
ScanInconclusive ==
    /\ Scanning /\ Plan[run.scan].level = "L2"
    /\ Advance /\ Tallied("inconclusive")
    /\ UNCHANGED <<ledger, queue, brief, pc, attempts>>

(* No failure: an L1 run proves nothing, an L2 or L3 run is a pass. *)
ScanClean ==
    /\ Scanning /\ Countable(Plan[run.scan])
    /\ Advance
    /\ Tallied(IF Plan[run.scan].level = "L1" THEN "noSignal" ELSE "pass")
    /\ UNCHANGED <<ledger, queue, brief, pc, attempts>>

ScanSignal(f) ==
    /\ Scanning /\ Countable(Plan[run.scan]) /\ f \in Plan[run.scan].fps
    /\ run' = [run EXCEPT !.scan = @ + 1,
                          !.signals = Append(@, Signal(Plan[run.scan], f))]
    /\ stats' = [stats EXCEPT !.tally.executed = @ + 1]
    /\ UNCHANGED <<ledger, queue, brief, pc, attempts>>

-----------------------------------------------------------------------------
(* The funnel *)

EnterFunnel ==
    /\ pc = "scan" /\ run.scan > Len(Plan)
    /\ stats' = [stats EXCEPT !.total = Len(run.signals)]
    /\ pc' = "candidate"
    /\ UNCHANGED <<ledger, queue, brief, attempts, run>>

(* The void batch: only its row is written. *)
VoidBatch ==
    /\ pc = "void"
    /\ UpsertBatch(run.batch, [NoBatch EXCEPT !.sentinel = "triggered",
                                 !.flags = {"sentinel_environment_event"}])
    /\ run' = [run EXCEPT !.event = TRUE]
    /\ pc' = "expire"
    /\ UNCHANGED <<cases, hits, queue, brief, attempts, stats>>

TakeSignal_StaleVeto ==     \* mutant: the last signal's verdict is kept
    /\ pc = "candidate" /\ run.signals # <<>>
    /\ run' = [run EXCEPT !.matched = 0, !.triage = "none"]
    /\ stats' = [stats EXCEPT !.counters.level[cur.level] = @ + 1]
    /\ pc' = "verify"
    /\ UNCHANGED <<ledger, queue, brief, attempts>>

TakeSignal ==
    /\ pc = "candidate" /\ run.signals # <<>>
    /\ run' = [run EXCEPT !.matched = 0, !.vetoed = FALSE, !.triage = "none"]
    /\ stats' = [stats EXCEPT !.counters.level[cur.level] = @ + 1]
    /\ pc' = "verify"
    /\ UNCHANGED <<ledger, queue, brief, attempts>>

(* run_reproduction_validation: a rerun shows the same fingerprint ...     *)
Reproduced ==
    /\ pc = "verify" /\ run.matched < cur.required
    /\ run' = [run EXCEPT !.matched = @ + 1]
    /\ UNCHANGED <<ledger, queue, brief, pc, attempts, stats>>

(* ... or does not: no failure, another fingerprint, no environment.       *)
NotReproduced ==
    /\ pc = "verify" /\ run.matched < cur.required
    /\ Counted({"blocked"})
    /\ pc' = "observe.case"
    /\ UNCHANGED <<ledger, queue, brief, attempts, run>>

AllMatched_OneShort == run.matched + 1 >= cur.required    \* mutant
AllMatched_OneOver  == run.matched > cur.required         \* mutant

AllMatched == run.matched = cur.required

(* All reruns matched: the freshness check may set the triage result, the  *)
(* veto gate may send the candidate to the observation zone.               *)
Verified(mismatch, veto) ==
    /\ pc = "verify" /\ AllMatched
    /\ run' = [run EXCEPT
                 !.triage = IF mismatch THEN "contract-mismatch-doc" ELSE "none",
                 !.vetoed = veto]
    /\ Counted(IF mismatch THEN {"passed", "mismatch"} ELSE {"passed"})
    /\ pc' = IF veto THEN "observe.case" ELSE "report.case"
    /\ UNCHANGED <<ledger, queue, brief, attempts>>

-----------------------------------------------------------------------------
(* The observation zone: record_observation *)

ObserveCase ==
    /\ pc = "observe.case"
    /\ UpsertCase(cur.fp, "observing", run.batch, Verify, "none")
    /\ run' = [run EXCEPT !.touched = @ \cup {cur.fp}]
    /\ pc' = "observe.hit"
    /\ UNCHANGED <<hits, batches, created, queue, brief, attempts, stats>>

ObserveHit ==
    /\ pc = "observe.hit"
    /\ RecordHit(cur.fp, run.batch)
    /\ pc' = "observe.upgrade"
    /\ UNCHANGED <<cases, batches, created, queue, brief, attempts, run, stats>>

Earned(f) == DistinctHitBatches(f) >= UpgradeBatches

NextSignal == run' = [run EXCEPT !.signals = Tail(@)]

(* The upgrade, and the end of the blocked branch of process_batch; after  *)
(* a veto the status is still to be overwritten.                           *)
ObserveUpgrade ==
    /\ pc = "observe.upgrade"
    /\ IF Earned(cur.fp) THEN SetCaseStatus(cur.fp, "intermittent")
                         ELSE UNCHANGED cases
    /\ IF run.vetoed
       THEN pc' = "veto.status" /\ UNCHANGED <<run, stats>>
       ELSE /\ pc' = "candidate"
            /\ NextSignal
            /\ Counted(IF Earned(cur.fp) THEN {"entered", "upgraded"} ELSE {"entered"})
    /\ UNCHANGED <<hits, batches, created, queue, brief, attempts>>

SetVetoed_NotEntered ==     \* mutant: a vetoed case is not counted as observed
    /\ pc = "veto.status"
    /\ SetCaseStatus(cur.fp, "vetoed")
    /\ NextSignal
    /\ Counted({"vetoed"})
    /\ pc' = "candidate"
    /\ UNCHANGED <<hits, batches, created, queue, brief, attempts>>

SetVetoed ==
    /\ pc = "veto.status"
    /\ SetCaseStatus(cur.fp, "vetoed")
    /\ NextSignal
    /\ Counted({"vetoed", "entered"})
    /\ pc' = "candidate"
    /\ UNCHANGED <<hits, batches, created, queue, brief, attempts>>

-----------------------------------------------------------------------------
(* Reporting *)

ReportCase ==
    /\ pc = "report.case"
    /\ UpsertCase(cur.fp, "reported", run.batch, Verify, run.triage)
    /\ run' = [run EXCEPT !.touched = @ \cup {cur.fp}]
    /\ pc' = "report.hit"
    /\ UNCHANGED <<hits, batches, created, queue, brief, attempts, stats>>

ReportHit_RefFirst ==       \* mutant: the reference is stored before the event
    /\ pc = "report.hit"
    /\ RecordHit(cur.fp, run.batch)
    /\ pc' = "report.ref"
    /\ UNCHANGED <<cases, batches, created, queue, brief, attempts, run, stats>>

ReportHit ==
    /\ pc = "report.hit"
    /\ RecordHit(cur.fp, run.batch)
    /\ pc' = "publish"
    /\ UNCHANGED <<cases, batches, created, queue, brief, attempts, run, stats>>

(* The event's payload carries the case row as read back, so its identity  *)
(* (a hash of the payload) has the row's hit count in it.                  *)
BugEvent(f) == [kind |-> "bug_report", fp |-> f, batch |-> cases[f].last,
                count |-> cases[f].hitCount, verify |-> cases[f].verify]

Publish ==
    /\ pc = "publish"
    /\ queue' = Append(queue, BugEvent(cur.fp))
    /\ pc' = "report.ref"
    /\ UNCHANGED <<ledger, brief, attempts, run, stats>>

SetReportRef ==
    /\ pc = "report.ref"
    /\ UpdateCaseRefs(cur.fp)
    /\ NextSignal
    /\ Counted({"reported"})
    /\ pc' = "candidate"
    /\ UNCHANGED <<hits, batches, created, queue, brief, attempts>>

CloseBatch ==
    /\ pc = "candidate" /\ run.signals = <<>>
    /\ UpsertBatch(run.batch, [sentinel |-> run.sentinel, signals |-> stats.total,
                               counters |-> stats.counters, expired |-> 0,
                               flags |-> {}])
    /\ pc' = "expire"
    /\ UNCHANGED <<cases, hits, queue, brief, attempts, run, stats>>

-----------------------------------------------------------------------------
(* The end of run_batch *)

Overdue_OneLate(f) == run.batch > cases[f].last + ExpireBatches + 1   \* mutant

Overdue(f) == run.batch > cases[f].last + ExpireBatches

(* expire_stale lists the observing cases once: those out of the batch     *)
(* window, and any not written in this attempt whose updated_at may be     *)
(* more than expire_days old.                                              *)
ListStale(aged) ==
    /\ pc = "expire"
    /\ LET observing == ListCases("observing")
       IN  run' = [run EXCEPT !.pending =
                     {f \in observing : Overdue(f) \/ f \in aged \ run.touched}]
    /\ pc' = "expiring"
    /\ UNCHANGED <<ledger, queue, brief, attempts, stats>>

Visited(f) ==
    run' = [run EXCEPT !.pending = @ \ {f}, !.touched = @ \cup {f}]

ExpireOne(f) ==
    /\ pc = "expiring" /\ f \in run.pending
    /\ SetCaseStatus(f, "expired")
    /\ Visited(f)
    /\ stats' = [stats EXCEPT !.expired = @ + 1]
    /\ UNCHANGED <<hits, batches, created, queue, brief, pc, attempts>>

(* The failures of the batch itself that are still unexplained.            *)
Storm == HitsForBatch(run.batch) \cap ListCases("observing")

Stormy == Cardinality(Storm) >= EnvironmentMin

(* detect_batch_environment_event, skipped for a void batch. *)
DetectEnvironment ==
    /\ pc = "expiring" /\ run.pending = {}
    /\ IF ~ run.event /\ Stormy
       THEN run' = [run EXCEPT !.pending = Storm, !.event = TRUE]
       ELSE UNCHANGED run
    /\ pc' = "marking"
    /\ UNCHANGED <<ledger, queue, brief, attempts, stats>>

MarkEnvironment(f) ==
    /\ pc = "marking" /\ f \in run.pending
    /\ SetCaseStatus(f, "environment-event")
    /\ Visited(f)
    /\ UNCHANGED <<hits, batches, created, queue, brief, pc, attempts, stats>>

(* _patch_batch_observation_counts rewrites the row as it stands. *)
PatchBatch ==
    /\ pc = "marking" /\ run.pending = {}
    /\ IF stats.expired = 0 THEN UNCHANGED <<batches, created>>
       ELSE UpsertBatch(run.batch,
                        [batches[run.batch] EXCEPT !.expired = stats.expired])
    /\ pc' = "redlines"
    /\ UNCHANGED <<cases, hits, queue, brief, attempts, run, stats>>

(* detect_redlines: the flags the other counters of the model decide. *)
Redlines(b) ==
    LET silent(x)    == batches[x].counters.reported = 0
        triggered(x) == batches[x].sentinel = "triggered"
        recent(n)    == ToSet(RecentBatches(n))
    IN  (IF Len(created) >= 3 /\ (\A x \in recent(3) : silent(x))
         THEN {"zero_report_output_3_batches"} ELSE {})
        \cup (IF triggered(b) THEN {"sentinel_environment_event"} ELSE {})
        \cup (IF triggered(b) /\ Len(created) >= 2 /\ (\A x \in recent(2) : triggered(x))
              THEN {"sentinel_environment_event_2_batches"} ELSE {})

DetectRedlines ==
    /\ pc = "redlines"
    /\ UpdateRedlineFlags(run.batch, Redlines(run.batch))
    /\ pc' = "brief"
    /\ UNCHANGED <<cases, hits, created, queue, brief, attempts, run, stats>>

(* What the brief of a batch says: a void one has no funnel section. *)
BriefOf(b) ==
    [kind |-> "batch_brief", batch |-> b, row |-> batches[b],
     recent |-> IF batches[b].sentinel = "triggered" THEN <<>>
                ELSE [i \in DOMAIN RecentBatches(5) |-> batches[RecentBatches(5)[i]]],
     reported |-> IF batches[b].sentinel = "triggered" THEN {}
                  ELSE {<<f, cases[f].ref>> : f \in ListReportedCasesForBatch(b)}]

WriteBrief ==
    /\ pc = "brief"
    /\ brief' = BriefOf(run.batch)
    /\ pc' = "brief.queue"
    /\ UNCHANGED <<ledger, queue, attempts, run, stats>>

PublishBrief ==
    /\ pc = "brief.queue"
    /\ queue' = Append(queue, BriefOf(run.batch))
    /\ pc' = "coverage"
    /\ UNCHANGED <<ledger, brief, attempts, run, stats>>

(* _emit_coverage_and_suggestions, whose file nothing reads, and the result. *)
Finish ==
    /\ pc = "coverage"
    /\ pc' = "done"
    /\ UNCHANGED <<ledger, queue, brief, attempts, run, stats>>

(* What fp_report.py makes of the result that run_batch returned.          *)
Summarize(tally, counters) ==
    [executed  |-> tally.executed,
     filed     |-> counters.reported,
     withheld  |-> IF tally.executed > counters.reported
                   THEN tally.executed - counters.reported ELSE 0,
     passed    |-> tally.pass,
     undecided |-> tally.noSignal + tally.inconclusive,
     observed  |-> counters.entered]

(* The process dies, or an exception leaves run_batch: its locals are gone. *)
Crash ==
    /\ CanCrash /\ pc \notin {"idle", "done"}
    /\ pc' = "idle"
    /\ run' = Fresh(run.batch) /\ stats' = ZeroStats
    /\ UNCHANGED <<ledger, queue, brief, attempts>>

-----------------------------------------------------------------------------
Generate ==
    \/ \E outcome \in Sentinels : RunSentinels(outcome)
    \/ SkipClue \/ ScanUnavailable \/ ScanInconclusive \/ ScanClean
    \/ \E f \in Fingerprints : ScanSignal(f)

Funnel ==
    \/ EnterFunnel \/ VoidBatch \/ TakeSignal \/ Reproduced \/ NotReproduced
    \/ \E mismatch, veto \in BOOLEAN : Verified(mismatch, veto)
    \/ ObserveCase \/ ObserveHit \/ ObserveUpgrade \/ SetVetoed
    \/ ReportCase \/ ReportHit \/ Publish \/ SetReportRef \/ CloseBatch

Close ==
    \/ \E aged \in (IF CanAge THEN SUBSET Fingerprints ELSE {{}}) : ListStale(aged)
    \/ \E f \in Fingerprints : ExpireOne(f) \/ MarkEnvironment(f)
    \/ DetectEnvironment \/ PatchBatch \/ DetectRedlines
    \/ WriteBrief \/ PublishBrief \/ Finish

Step == Generate \/ Funnel \/ Close

Next == (\E b \in BatchIds : Begin(b)) \/ Step \/ Crash

Spec == Init /\ [][Next]_vars

(* A batch that is running keeps running: every call it makes returns. *)
FairSpec == Spec /\ WF_vars(Step)

-----------------------------------------------------------------------------
(* Properties *)

Scanned(t, n) == t.executed = t.pass + t.noSignal + t.inconclusive + n

LevelSum(c) == c.level["L1"] + c.level["L2"] + c.level["L3"]

BugEvents == {i \in DOMAIN queue : queue[i].kind = "bug_report"}

SignalRow == [fp : Fingerprints, level : Levels, required : Nat]

PCs == {"idle", "sentinel", "scan", "void", "candidate", "verify",
        "observe.case", "observe.hit", "observe.upgrade", "veto.status",
        "report.case", "report.hit", "publish", "report.ref", "expire",
        "expiring", "marking", "redlines", "brief", "brief.queue", "coverage",
        "done"}

(* States that have a current signal. *)
Holding == {"verify", "observe.case", "observe.hit", "observe.upgrade",
            "veto.status", "report.case", "report.hit", "publish", "report.ref"}

RunRow ==
    [batch : BatchIds, sentinel : {"skipped", "passed", "triggered"},
     scan : Nat \ {0}, signals : Seq(SignalRow), matched : Nat, vetoed : BOOLEAN,
     triage : Triages, pending : SUBSET Fingerprints, event : BOOLEAN,
     touched : SUBSET Fingerprints]

TablesOK == /\ cases \in [Fingerprints -> CaseRow]
            /\ hits \subseteq Fingerprints \X BatchIds

QueueOK ==
    /\ queue \in Seq({queue[i] : i \in DOMAIN queue})
    /\ \A i \in BugEvents : queue[i] \in [kind : {"bug_report"}, fp : Fingerprints,
                                       batch : Nat, count : Nat, verify : Verification]

ControlOK == /\ pc \in PCs
             /\ run \in RunRow
             /\ pc \in Holding => run.signals # <<>>

(* Types of the tables, the queue and the locals the code computes with;   *)
(* a signal is at hand wherever the code uses one.                         *)
TypeOK == TablesOK /\ QueueOK /\ ControlOK

(* A case is intermittent only when it was hit in at least UpgradeBatches  *)
(* different batches (observation.py: the upgrade exit of the zone), and   *)
(* no crash, rerun of a batch id or later change of status undoes that.    *)
IntermittentEarned ==
    \A f \in Fingerprints : cases[f].status = "intermittent"
        => Cardinality(HitBatches(f)) >= UpgradeBatches

(* No two bug reports of the queue carry the same row of a case: an event  *)
(* id (publishing.py:build_queue_event, a hash of the payload) is never    *)
(* repeated by a rerun or a restart.  A flush refuses a queue in which one *)
(* is.                                                                     *)
DistinctBugEvents ==
    \A i, j \in BugEvents :
        queue[i].fp = queue[j].fp /\ queue[i].count = queue[j].count => i = j

(* A queued bug report is backed by the ledger: its fingerprint has a case *)
(* and a hit in the batch it names, whatever stopped the batch afterwards. *)
FiledHasHit ==
    \A i \in BugEvents : <<queue[i].fp, queue[i].batch>> \in hits

(* A report reference in the ledger is never dangling: the event it stands *)
(* for was queued before.                                                  *)
RefHasEvent ==
    \A f \in Fingerprints : cases[f].ref => \E i \in BugEvents : queue[i].fp = f

(* A report is filed only with every rerun of its channel matching.        *)
FiledIsReproduced ==
    \A i \in BugEvents : queue[i].verify.matched = queue[i].verify.required

(* funnel.py, VetoResult: the gate "can only block a candidate after       *)
(* machine evidence exists": a case is vetoed only when its last           *)
(* verification passed.                                                    *)
VetoAfterEvidence ==
    \A f \in Fingerprints : cases[f].status = "vetoed"
        => cases[f].verify.matched = cases[f].verify.required

(* A void batch is void: once a sentinel triggered or the environment      *)
(* vanished, the attempt files nothing and records no hit, also when       *)
(* signals had been found before.                                          *)
VoidFilesNothing ==
    [][run.sentinel = "triggered" /\ run' # Fresh(run.batch)
         => /\ hits' = hits
            /\ {i \in DOMAIN queue' : queue'[i].kind = "bug_report"} = BugEvents]_vars

(* Nothing is lost between the counters of a finished batch: every         *)
(* executed scenario passed, was silent or inconclusive, or gave a signal; *)
(* every signal was verified or blocked, and reported or put in the        *)
(* observation zone; the ledger's row says the same; and what the          *)
(* false-positive report calls withheld is what its breakdown lists.       *)
Accounting ==
    pc = "done" /\ run.sentinel # "triggered" =>
      LET t == stats.tally  c == stats.counters  n == stats.total
          told == Summarize(t, c)
      IN /\ Scanned(t, n)
         /\ n = c.passed + c.blocked
         /\ n = LevelSum(c)
         /\ c.passed = c.reported + c.vetoed
         /\ c.entered = c.blocked + c.vetoed
         /\ c.upgraded <= c.blocked
         /\ batches[run.batch].counters = c
         /\ batches[run.batch].signals = n
         /\ batches[run.batch].expired = stats.expired
         /\ told.withheld = told.passed + told.undecided + told.observed

(* A batch that ends leaves no case behind in the observation zone that    *)
(* one of the zone's exits applies to: none outside the batch window, and, *)
(* unless the batch was void, fewer than the environment's number among    *)
(* the batch's own hits.                                                   *)
ZoneSwept ==
    pc = "done" =>
      /\ \A f \in ListCases("observing") : run.batch <= cases[f].last + ExpireBatches
      /\ run.sentinel # "triggered" => ~ Stormy

(* The pipeline keeps the promise of CaseFiling: the hit count of a row    *)
(* numbers the sightings, its last verification says whether the sighting  *)
(* was proven, and the queue holds what was filed.                         *)
Sightings == [f \in Fingerprints |-> cases[f].hitCount]
Proven    == [f \in Fingerprints |-> cases[f].verify.matched = cases[f].verify.required]
Filed     == [f \in Fingerprints |->
                {queue[i].count : i \in {j \in BugEvents : queue[j].fp = f}}]

Filing == INSTANCE CaseFiling
    WITH sightings <- Sightings, proven <- Proven, filed <- Filed

KeepsFilingPromise == Filing!Spec

(* A batch that is started ends, with a result or by a crash.              *)
BatchEnds == (pc = "sentinel") ~> (pc \in {"done", "idle"})

(* Why it ends: a batch goes on from stage to stage and never back; it     *)
(* executes no scenario of its plan twice, funnels one signal after the    *)
(* other, each from its reruns to its end with no rerun too many, and      *)
(* leaves a loop over cases with fewer of them to do at every turn.        *)
Stage ==
    CASE pc = "sentinel" -> 10
      [] pc = "scan" -> 9
      [] pc \in Holding \cup {"candidate", "void"} -> 8
      [] pc = "expire" -> 7
      [] pc = "expiring" -> 6
      [] pc = "marking" -> 5
      [] pc = "redlines" -> 4
      [] pc = "brief" -> 3
      [] pc = "brief.queue" -> 2
      [] pc = "coverage" -> 1
      [] OTHER -> 0

Place ==
    CASE pc = "candidate" -> 5
      [] pc = "verify" -> 4
      [] pc \in {"observe.case", "report.case"} -> 3
      [] pc \in {"observe.hit", "report.hit"} -> 2
      [] pc \in {"observe.upgrade", "publish"} -> 1
      [] OTHER -> 0

SameSignals ==
    /\ run'.signals = run.signals
    /\ \/ Place' < Place
       \/ pc' = "verify" /\ pc = "verify" /\ run.matched < run'.matched /\ run'.matched <= cur.required

Nearer ==
    /\ run'.batch = run.batch
    /\ \/ pc' = "idle"
       \/ Stage' < Stage
       \/ pc' = "scan" /\ pc = "scan" /\ run.scan < run'.scan /\ run'.scan <= Len(Plan) + 1
       \/ Stage' = 8 /\ Stage = 8 /\ (SameSignals \/ Len(run'.signals) < Len(run.signals))
       \/ /\ pc \in {"expiring", "marking"} /\ pc' = pc
          /\ run'.pending \subseteq run.pending /\ run'.pending # run.pending

EverNearer == [][pc \notin {"done", "idle"} => Nearer]_vars

(* A batch is never stuck before a signal with more matching reruns than   *)
(* it asks for, at which the funnel would wait for ever.                   *)
NeverPast == pc = "verify" => run.matched <= cur.required

-----------------------------------------------------------------------------
(* The inductive invariant of the safety properties that survive a crash:  *)
(* what the code relies on between two of its commits.                     *)

ProvenCase(f) == cases[f].verify.matched = cases[f].verify.required

(* No event is newer than its row, and the sighting about to be filed has  *)
(* none yet.                                                               *)
EventsBehind ==
    /\ \A i \in BugEvents : queue[i].count <= cases[queue[i].fp].hitCount
    /\ pc \in {"report.hit", "publish"} =>
         \A i \in BugEvents : queue[i].fp = cur.fp
                                => queue[i].count < cases[cur.fp].hitCount

(* What the report path knows about the current signal.                    *)
ReportPath ==
    /\ pc = "report.case" => AllMatched
    /\ pc \in {"report.hit", "publish"} => ProvenCase(cur.fp)
                                          /\ cases[cur.fp].last = run.batch
    /\ pc = "publish" => <<cur.fp, run.batch>> \in hits
    /\ pc = "report.ref" => \E i \in BugEvents : queue[i].fp = cur.fp

(* What the observation path knows about a candidate the gate blocked.     *)
VetoPath ==
    /\ pc = "verify" => ~ run.vetoed
    /\ pc = "veto.status" => run.vetoed
    /\ pc = "observe.case" /\ run.vetoed => AllMatched
    /\ pc \in {"observe.hit", "observe.upgrade", "veto.status"} /\ run.vetoed
         => ProvenCase(cur.fp)

IInv == /\ TypeOK /\ EventsBehind /\ ReportPath /\ VetoPath
        /\ IntermittentEarned /\ DistinctBugEvents /\ FiledHasHit /\ RefHasEvent
        /\ FiledIsReproduced /\ VetoAfterEvidence

(* The books of a running batch.  Each step counts one thing, so between   *)
(* two of them a signal is in the course of being booked: its level is     *)
(* counted, its verdict may be, and what became of it is not.              *)

TallyRow == [executed : Nat, pass : Nat, noSignal : Nat, inconclusive : Nat]

CounterRow == [level : [Levels -> Nat], passed : Nat, blocked : Nat,
               mismatch : Nat, vetoed : Nat, reported : Nat, entered : Nat,
               upgraded : Nat]

RedlineFlags == {"zero_report_output_3_batches", "sentinel_environment_event",
                 "sentinel_environment_event_2_batches"}

BatchRow == [sentinel : {"absent", "skipped", "passed", "triggered"},
             signals : Nat, counters : CounterRow, expired : Nat,
             flags : SUBSET RedlineFlags]

StatsRow == [tally : TallyRow, counters : CounterRow, total : Nat, expired : Nat]

BooksTyped ==
    /\ stats \in StatsRow
    /\ batches \in [BatchIds -> BatchRow]
    /\ \A i \in DOMAIN run.signals : run.signals[i].level \in {"L1", "L2", "L3"}

Observing == {"observe.case", "observe.hit", "observe.upgrade"}
Closing   == {"expire", "expiring", "marking", "redlines", "brief",
              "brief.queue", "coverage", "done"}

(* The current signal: whether there is one, whether it was proven, and    *)
(* whether it was blocked, and not yet booked as what it became.           *)
InHand == IF pc \in Holding THEN 1 ELSE 0

Proving ==
    IF pc \in Holding \ (Observing \cup {"verify"}) \/ (pc \in Observing /\ run.vetoed)
    THEN 1 ELSE 0

Dropping == IF pc \in Observing /\ ~ run.vetoed THEN 1 ELSE 0

ScanBooks ==
    pc \in {"sentinel", "scan"} =>
      /\ Scanned(stats.tally, Len(run.signals))
      /\ stats.counters = ZeroCounters /\ stats.expired = 0
      /\ run.sentinel # "triggered"

(* With n signals, left of them still to go, and these three numbers.      *)
Booked(c, n, left, inHand, proving, dropping) ==
    /\ LevelSum(c) + left = n + inHand
    /\ c.passed + c.blocked + left = n + proving + dropping
    /\ c.passed = c.reported + c.vetoed + proving
    /\ c.entered + dropping = c.blocked + c.vetoed
    /\ c.upgraded + dropping <= c.blocked

FunnelBooks ==
    /\ Scanned(stats.tally, stats.total)
    /\ Booked(stats.counters, stats.total, Len(run.signals), InHand, Proving, Dropping)

RowBooks ==
    LET row == batches[run.batch]
    IN  /\ run.signals = <<>>
        /\ row.counters = stats.counters /\ row.signals = stats.total
        /\ row.expired = IF pc \in {"expire", "expiring", "marking"}
                         THEN 0 ELSE stats.expired

Books ==
    /\ BooksTyped /\ ScanBooks
    /\ pc \in Holding \cup {"candidate"} => FunnelBooks /\ stats.expired = 0
    /\ pc \in Closing /\ run.sentinel # "triggered" => FunnelBooks /\ RowBooks
    /\ pc = "expire" => stats.expired = 0
    /\ pc = "void" => stats.expired = 0 /\ run.sentinel = "triggered"

(* A triggered sentinel leaves only the end of the batch.                  *)
VoidEnds == run.sentinel = "triggered" => pc \in {"void"} \cup Closing

(* The sweep of the zone: what is listed covers what is due, and stays due *)
(* until it is marked.                                                     *)
Swept == {"marking", "redlines", "brief", "brief.queue", "coverage", "done"}

Sweep ==
    /\ pc \notin Swept => (run.event => run.sentinel = "triggered")
    /\ pc = "expiring" =>
         \A f \in ListCases("observing") : Overdue(f) => f \in run.pending
    /\ pc \in Swept => \A f \in ListCases("observing") : ~ Overdue(f)
    /\ pc = "marking" /\ run.sentinel # "triggered" =>
         \/ Storm \subseteq run.pending
         \/ ~ Stormy /\ run.pending = {}
    /\ pc \in Swept \ {"marking"} /\ run.sentinel # "triggered" =>
         ~ Stormy

(* Callers that give every call of run_batch a new batch id.               *)
NewIds == [][attempts' # attempts /\ attempts # 0 => run'.batch > run.batch]_vars

(* Then a brief in the queue is of an earlier batch, or of the one that    *)
(* has just queued it.                                                     *)
BriefsBehind ==
    /\ attempts \in Nat /\ (attempts = 0 => pc = "idle" /\ queue = <<>>)
    /\ \A i \in DOMAIN queue \ BugEvents :
         /\ queue[i].batch \in Nat /\ queue[i].batch <= run.batch
         /\ pc \notin {"idle", "coverage", "done"} => queue[i].batch < run.batch

-----------------------------------------------------------------------------
(* What the documents say and the code does not do. *)

(* publishing.py:480 refuses a queue with a "duplicate queue event id": no  *)
(* two events of a queue are the same, briefs included.                    *)
DistinctEvents ==
    \A i, j \in DOMAIN queue : queue[i] = queue[j] => i = j

=============================================================================
