------------------------- MODULE OrchestratorProofs -------------------------
(***************************************************************************)
(* Proofs about Orchestrator for every plan, policy and number of runs.    *)
(***************************************************************************)
EXTENDS Orchestrator, SequenceTheorems, FiniteSetTheorems, TLAPS

(* Appending to a sequence of anything: its length, and its elements.      *)
LEMMA AppendAny ==
    ASSUME NEW q, q \in Seq({q[i] : i \in DOMAIN q}), NEW e
    PROVE  LET r == Append(q, e)
           IN /\ r \in Seq({r[i] : i \in DOMAIN r})
              /\ DOMAIN q = 1 .. Len(q) /\ Len(q) \in Nat
              /\ DOMAIN r = 1 .. Len(q) + 1
              /\ \A i \in DOMAIN q : r[i] = q[i]
              /\ r[Len(q) + 1] = e
<1> DEFINE S == {q[i] : i \in DOMAIN q} \cup {e}
           r == Append(q, e)
<1>1. q \in Seq(S)
  OBVIOUS
<1> HIDE DEF S
<1>2. e \in S
  BY DEF S
<1>3. /\ r \in Seq(S) /\ Len(r) = Len(q) + 1 /\ Len(q) \in Nat
      /\ DOMAIN q = 1 .. Len(q) /\ DOMAIN r = 1 .. Len(r)
      /\ \A i \in 1 .. Len(q) : r[i] = q[i]
      /\ r[Len(q) + 1] = e
  BY <1>1, <1>2, AppendProperties
<1> HIDE DEF r
<1>4. r = [i \in 1 .. Len(r) |-> r[i]] /\ Len(r) \in Nat
  BY <1>3
<1>5. r \in Seq({r[i] : i \in DOMAIN r})
  BY <1>3, <1>4
<1> QED
  BY <1>3, <1>5 DEF r

-----------------------------------------------------------------------------
(* Type correctness *)

LEMMA NoCaseType == NoCase \in CaseRow
BY DEF NoCase, CaseRow, Verification, NoVerification, Statuses, Triages

LEMMA FreshType ==
    ASSUME NEW b \in BatchIds
    PROVE  Fresh(b) \in RunRow
BY DEF Fresh, RunRow, Triages, SignalRow

LEMMA SignalType ==
    ASSUME NEW i \in 1 .. Len(Plan), NEW f \in Fingerprints, Countable(Plan[i])
    PROVE  Signal(Plan[i], f) \in SignalRow
<1>1. Plan[i] \in Scenario
  BY PlanAssumption
<1>2. Plan[i].level \in Levels
  BY PlanAssumption DEF Countable
<1>3. RequiredRuns(Plan[i]) \in Nat
  BY <1>1, PolicyAssumption, 0 \in Nat DEF RequiredRuns, Scenario
<1> QED
  BY <1>2, <1>3 DEF Signal, SignalRow

(* Where a signal is at hand, it is one, and the rest are signals too.     *)
LEMMA CurrentSignal ==
    ASSUME TypeOK, pc \in Holding \/ run.signals # <<>>
    PROVE  /\ cur \in SignalRow
           /\ cur.fp \in Fingerprints /\ cur.level \in Levels /\ cur.required \in Nat
           /\ Tail(run.signals) \in Seq(SignalRow)
           /\ Verify \in Verification
<1>1. run.signals \in Seq(SignalRow) /\ run.signals # <<>> /\ run.matched \in Nat
  BY DEF TypeOK, ControlOK, RunRow
<1>2. cur \in SignalRow /\ Tail(run.signals) \in Seq(SignalRow)
  BY <1>1, HeadTailProperties DEF cur
<1> QED
  BY <1>1, <1>2 DEF SignalRow, Verify, Verification

(* The writes of the ledger keep the rows well typed. *)
LEMMA UpsertCaseType ==
    ASSUME cases \in [Fingerprints -> CaseRow], NEW f \in Fingerprints,
           NEW st \in Statuses, NEW b \in Nat, NEW v \in Verification,
           NEW t \in Triages, UpsertCase(f, st, b, v, t)
    PROVE  /\ cases' \in [Fingerprints -> CaseRow]
           /\ cases'[f].status = st /\ cases'[f].last = b /\ cases'[f].verify = v
           /\ cases'[f].hitCount = cases[f].hitCount + 1
           /\ cases'[f].ref = cases[f].ref
           /\ \A g \in Fingerprints \ {f} : cases'[g] = cases[g]
BY DEF UpsertCase, CaseRow

LEMMA SetCaseStatusType ==
    ASSUME cases \in [Fingerprints -> CaseRow], NEW f \in Fingerprints,
           NEW st \in Statuses, SetCaseStatus(f, st)
    PROVE  /\ cases' \in [Fingerprints -> CaseRow]
           /\ cases'[f] = [cases[f] EXCEPT !.status = st]
           /\ \A g \in Fingerprints \ {f} : cases'[g] = cases[g]
BY DEF SetCaseStatus, CaseRow

LEMMA UpdateCaseRefsType ==
    ASSUME cases \in [Fingerprints -> CaseRow], NEW f \in Fingerprints,
           UpdateCaseRefs(f)
    PROVE  /\ cases' \in [Fingerprints -> CaseRow]
           /\ cases'[f] = [cases[f] EXCEPT !.ref = TRUE]
           /\ \A g \in Fingerprints \ {f} : cases'[g] = cases[g]
BY DEF UpdateCaseRefs, CaseRow

LEMMA QueueAppend ==
    ASSUME TypeOK, NEW e, queue' = Append(queue, e)
    PROVE  /\ queue' \in Seq({queue'[i] : i \in DOMAIN queue'})
           /\ DOMAIN queue = 1 .. Len(queue) /\ Len(queue) \in Nat
           /\ DOMAIN queue' = 1 .. Len(queue) + 1
           /\ \A i \in DOMAIN queue : queue'[i] = queue[i]
           /\ queue'[Len(queue) + 1] = e
           /\ BugEvents \subseteq DOMAIN queue
           /\ BugEvents' = BugEvents \cup
                (IF e.kind = "bug_report" THEN {Len(queue) + 1} ELSE {})
<1>1. queue \in Seq({queue[i] : i \in DOMAIN queue})
  BY DEF TypeOK, QueueOK
<1>2. /\ queue' \in Seq({queue'[i] : i \in DOMAIN queue'})
      /\ DOMAIN queue = 1 .. Len(queue) /\ Len(queue) \in Nat
      /\ DOMAIN queue' = 1 .. Len(queue) + 1
      /\ \A i \in DOMAIN queue : queue'[i] = queue[i]
      /\ queue'[Len(queue) + 1] = e
  BY <1>1, AppendAny
<1> QED
  BY <1>2 DEF BugEvents


(* The locals: one step per action that assigns one. *)
LEMMA ControlType ==
    ASSUME TypeOK, Next
    PROVE  ControlOK'
<1> USE DEF PCs, Holding
<1> DEFINE s == Plan[run.scan]
<1>0. /\ run \in RunRow /\ pc \in PCs /\ run.signals \in Seq(SignalRow)
      /\ run.scan \in Nat \ {0} /\ run.matched \in Nat /\ run.batch \in BatchIds
      /\ run.touched \in SUBSET Fingerprints /\ run.pending \in SUBSET Fingerprints
  BY DEF TypeOK, ControlOK, RunRow
<1>a. pc \in Holding => run.signals # <<>>
  BY DEF TypeOK, ControlOK
<1>b. pc \in Holding => cur.fp \in Fingerprints /\ Tail(run.signals) \in Seq(SignalRow)
  BY CurrentSignal
<1>1. CASE \E b \in BatchIds : Begin(b)
  BY <1>1, FreshType DEF Begin, ControlOK
<1>2. CASE Crash
  BY <1>0, <1>2, FreshType DEF Crash, ControlOK
<1>3. CASE \E outcome \in Sentinels : RunSentinels(outcome)
  BY <1>0, <1>3, PolicyAssumption DEF RunSentinels, RunRow, ControlOK
<1>4. CASE SkipClue \/ ScanInconclusive \/ ScanClean
  <2>1. run' = [run EXCEPT !.scan = run.scan + 1] /\ pc' = pc /\ pc = "scan"
    BY <1>4 DEF SkipClue, ScanInconclusive, ScanClean, Advance, Scanning
  <2> QED
    BY <1>0, <2>1 DEF RunRow, ControlOK
<1>5. CASE ScanUnavailable
  <2> DEFINE n == run.scan + 1
             q == <<>>
  <2>1. n \in Nat \ {0} /\ q \in Seq(SignalRow)
    BY <1>0
  <2>2. /\ run' = [run EXCEPT !.scan = n, !.sentinel = "triggered", !.signals = q]
        /\ pc' = "void"
    BY <1>5 DEF ScanUnavailable
  <2> HIDE DEF n, q
  <2> QED
    BY <1>0, <2>1, <2>2 DEF RunRow, ControlOK
<1>6. ASSUME NEW f \in Fingerprints, ScanSignal(f) PROVE ControlOK'
  <2>1. Signal(s, f) \in SignalRow
    BY <1>0, <1>6, SignalType DEF ScanSignal, Scanning
  <2> DEFINE n == run.scan + 1
             q == Append(run.signals, Signal(s, f))
  <2>2. n \in Nat \ {0} /\ q \in Seq(SignalRow)
    BY <1>0, <2>1
  <2>3. run' = [run EXCEPT !.scan = n, !.signals = q]
    BY <1>6, Zenon DEF ScanSignal
  <2>4. pc' = "scan"
    BY <1>6 DEF ScanSignal, Scanning
  <2> HIDE DEF n, q
  <2> QED
    BY <1>0, <2>2, <2>3, <2>4 DEF RunRow, ControlOK
<1>7. CASE UNCHANGED run /\ pc' \in PCs /\ (pc' \in Holding => pc \in Holding)
  BY <1>0, <1>a, <1>7 DEF ControlOK
<1>8. CASE VoidBatch
  BY <1>0, <1>8 DEF VoidBatch, RunRow, ControlOK
<1>9. CASE TakeSignal
  BY <1>0, <1>9 DEF TakeSignal, RunRow, ControlOK, Triages
<1>10. CASE Reproduced
  BY <1>0, <1>a, <1>10 DEF Reproduced, RunRow, ControlOK
<1>11. ASSUME NEW mismatch \in BOOLEAN, NEW veto \in BOOLEAN, Verified(mismatch, veto)
       PROVE  ControlOK'
  <2>1. /\ run' = [run EXCEPT !.triage = IF mismatch THEN "contract-mismatch-doc"
                                                     ELSE "none",
                              !.vetoed = veto]
        /\ pc' \in {"observe.case", "report.case"} /\ pc = "verify"
    BY <1>11 DEF Verified
  <2> QED
    BY <1>0, <1>a, <2>1 DEF RunRow, ControlOK, Triages
<1>12. CASE ObserveCase \/ ReportCase
  <2>1. /\ run' = [run EXCEPT !.touched = run.touched \cup {cur.fp}]
        /\ pc \in Holding /\ pc' \in {"observe.hit", "report.hit"}
    BY <1>12 DEF ObserveCase, ReportCase
  <2> DEFINE t == run.touched \cup {cur.fp}
  <2>2. t \in SUBSET Fingerprints
    BY <1>0, <1>b, <2>1
  <2> HIDE DEF t
  <2>3. run' = [run EXCEPT !.touched = t]
    BY <2>1 DEF t
  <2> QED
    BY <1>0, <1>a, <2>1, <2>2, <2>3 DEF RunRow, ControlOK
<1>13. CASE NextSignal /\ pc \in Holding /\ pc' = "candidate"
  BY <1>0, <1>b, <1>13 DEF NextSignal, RunRow, ControlOK
<1>14. ASSUME NEW aged \in SUBSET Fingerprints, ListStale(aged) PROVE ControlOK'
  <2> DEFINE p == {f \in ListCases("observing") :
                     Overdue(f) \/ f \in aged \ run.touched}
  <2>1. p \in SUBSET Fingerprints
    BY DEF ListCases
  <2>2. run' = [run EXCEPT !.pending = p] /\ pc' = "expiring"
    BY <1>14 DEF ListStale
  <2> HIDE DEF p
  <2> QED
    BY <1>0, <2>1, <2>2 DEF RunRow, ControlOK
<1>15. ASSUME NEW f \in Fingerprints, ExpireOne(f) \/ MarkEnvironment(f)
       PROVE  ControlOK'
  <2> DEFINE p == run.pending \ {f}
             t == run.touched \cup {f}
  <2>1. p \in SUBSET Fingerprints /\ t \in SUBSET Fingerprints
    BY <1>0
  <2>2. /\ run' = [run EXCEPT !.pending = p, !.touched = t]
        /\ pc' = pc /\ pc \in {"expiring", "marking"}
    BY <1>15 DEF ExpireOne, MarkEnvironment, Visited
  <2> HIDE DEF p, t
  <2> QED
    BY <1>0, <2>1, <2>2 DEF RunRow, ControlOK
<1>16. CASE DetectEnvironment
  <2>1. Storm \in SUBSET Fingerprints
    BY DEF Storm, ListCases
  <2>2. /\ run' = [run EXCEPT !.pending = Storm, !.event = TRUE] \/ run' = run
        /\ pc' = "marking"
    BY <1>16 DEF DetectEnvironment
  <2> QED
    BY <1>0, <2>1, <2>2 DEF RunRow, ControlOK
<1>17. CASE Generate
  BY <1>3, <1>4, <1>5, <1>6, <1>17 DEF Generate
<1>18. CASE Funnel
  <2>1. CASE EnterFunnel \/ NotReproduced \/ ObserveHit \/ ReportHit \/ Publish
              \/ CloseBatch
    BY <1>7, <2>1
       DEF EnterFunnel, NotReproduced, ObserveHit, ReportHit, Publish, CloseBatch
  <2>2. CASE ObserveUpgrade
    BY <1>7, <1>13, <2>2 DEF ObserveUpgrade
  <2>3. CASE SetVetoed \/ SetReportRef
    BY <1>13, <2>3 DEF SetVetoed, SetReportRef
  <2> QED
    BY <1>8, <1>9, <1>10, <1>11, <1>12, <1>18, <2>1, <2>2, <2>3 DEF Funnel
<1>19. CASE Close
  <2>1. CASE PatchBatch \/ DetectRedlines \/ WriteBrief \/ PublishBrief \/ Finish
    BY <1>7, <2>1 DEF PatchBatch, DetectRedlines, WriteBrief, PublishBrief, Finish
  <2> QED
    BY <1>14, <1>15, <1>16, <1>19, <2>1 DEF Close
<1> QED
  BY <1>1, <1>2, <1>17, <1>18, <1>19 DEF Next, Step

LEMMA TablesType ==
    ASSUME TypeOK, Next
    PROVE  TablesOK'
<1>0. /\ cases \in [Fingerprints -> CaseRow] /\ hits \subseteq Fingerprints \X BatchIds
      /\ run.batch \in BatchIds /\ run.batch \in Nat /\ run.triage \in Triages
  BY DEF TypeOK, TablesOK, ControlOK, RunRow, BatchIds
<1>1. pc \in Holding => cur.fp \in Fingerprints /\ Verify \in Verification
  BY CurrentSignal
<1>2. CASE UNCHANGED <<cases, hits>>
  BY <1>0, <1>2 DEF TablesOK
<1>3. CASE ObserveCase
  BY <1>0, <1>1, <1>3, UpsertCaseType
     DEF ObserveCase, TablesOK, Holding, Statuses, Triages
<1>4. CASE ReportCase
  BY <1>0, <1>1, <1>4, UpsertCaseType DEF ReportCase, TablesOK, Holding, Statuses
<1>5. CASE ObserveHit \/ ReportHit
  BY <1>0, <1>1, <1>5 DEF ObserveHit, ReportHit, RecordHit, TablesOK, Holding
<1>6. ASSUME NEW f \in Fingerprints, NEW st \in Statuses,
             SetCaseStatus(f, st), UNCHANGED hits
      PROVE  TablesOK'
  BY <1>0, <1>6, SetCaseStatusType DEF TablesOK
<1>7. CASE ObserveUpgrade
  BY <1>1, <1>2, <1>6, <1>7 DEF ObserveUpgrade, Holding, Statuses
<1>8. CASE SetVetoed
  BY <1>1, <1>6, <1>8 DEF SetVetoed, Holding, Statuses
<1>9. ASSUME NEW f \in Fingerprints, ExpireOne(f) \/ MarkEnvironment(f)
      PROVE  TablesOK'
  BY <1>6, <1>9 DEF ExpireOne, MarkEnvironment, Statuses
<1>10. CASE SetReportRef
  BY <1>0, <1>1, <1>10, UpdateCaseRefsType DEF SetReportRef, TablesOK, Holding
<1>11. CASE Generate
  BY <1>2, <1>11 DEF Generate, RunSentinels, SkipClue, ScanUnavailable,
     ScanInconclusive, ScanClean, ScanSignal, ledger
<1>12. CASE Funnel
  BY <1>2, <1>3, <1>4, <1>5, <1>7, <1>8, <1>10, <1>12
     DEF Funnel, EnterFunnel, VoidBatch, TakeSignal, Reproduced, NotReproduced,
         Verified, Publish, CloseBatch, ledger
<1>13. CASE Close
  BY <1>2, <1>9, <1>13 DEF Close, ListStale, DetectEnvironment, PatchBatch,
     DetectRedlines, WriteBrief, PublishBrief, Finish, ledger
<1> QED
  BY <1>2, <1>11, <1>12, <1>13 DEF Next, Step, Begin, Crash, ledger

LEMMA QueueType ==
    ASSUME TypeOK, Next
    PROVE  QueueOK'
<1>1. CASE UNCHANGED queue
  BY <1>1 DEF TypeOK, QueueOK, BugEvents
<1>2. ASSUME NEW e, queue' = Append(queue, e),
             e.kind = "bug_report"
               => e \in [kind : {"bug_report"}, fp : Fingerprints, batch : Nat,
                         count : Nat, verify : Verification]
      PROVE  QueueOK'
  BY <1>2, QueueAppend DEF TypeOK, QueueOK
<1>3. CASE Publish
  <2>1. cases[cur.fp] \in CaseRow /\ cur.fp \in Fingerprints
    BY <1>3, CurrentSignal DEF Publish, Holding, TypeOK, TablesOK
  <2> QED
    BY <1>2, <1>3, <2>1 DEF Publish, BugEvent, CaseRow
<1>4. CASE PublishBrief
  BY <1>2, <1>4 DEF PublishBrief, BriefOf
<1>5. CASE Generate
  BY <1>1, <1>5 DEF Generate, RunSentinels, SkipClue, ScanUnavailable,
     ScanInconclusive, ScanClean, ScanSignal
<1>6. CASE Funnel
  BY <1>1, <1>3, <1>6
     DEF Funnel, EnterFunnel, VoidBatch, TakeSignal, Reproduced, NotReproduced,
         Verified, ObserveCase, ObserveHit, ObserveUpgrade, SetVetoed, ReportCase,
         ReportHit, SetReportRef, CloseBatch
<1>7. CASE Close
  BY <1>1, <1>4, <1>7 DEF Close, ListStale, ExpireOne, MarkEnvironment,
     DetectEnvironment, PatchBatch, DetectRedlines, WriteBrief, Finish
<1> QED
  BY <1>1, <1>5, <1>6, <1>7 DEF Next, Step, Begin, Crash

LEMMA TypeInit == Init => TypeOK
<1> SUFFICES ASSUME Init PROVE TypeOK
  OBVIOUS
<1>1. Fresh(1) \in RunRow
  BY FreshType, MaxBatchAssumption DEF BatchIds
<1>2. TablesOK
  BY NoCaseType DEF Init, LedgerInit, TablesOK
<1>3. QueueOK
  BY DEF Init, QueueOK, BugEvents
<1> QED
  BY <1>1, <1>2, <1>3 DEF Init, TypeOK, ControlOK, PCs, Holding

LEMMA TypeStep == TypeOK /\ [Next]_vars => TypeOK'
<1>1. ASSUME TypeOK, Next PROVE TypeOK'
  BY <1>1, ControlType, TablesType, QueueType DEF TypeOK
<1>2. ASSUME TypeOK, UNCHANGED vars PROVE TypeOK'
  BY <1>2 DEF vars, ledger, TypeOK, ControlOK, TablesOK, QueueOK, BugEvents
<1> QED
  BY <1>1, <1>2

(* The tables, the queue and the locals of run_batch keep their types, and *)
(* no step reads a current signal where there is none.                     *)
THEOREM TypeCorrect == Spec => []TypeOK
<1> QED
  BY TypeInit, TypeStep, PTL DEF Spec

-----------------------------------------------------------------------------
(* Safety: the inductive invariant *)

(* The only steps that write a case, a hit or the queue. *)
Writes ==
    \/ ObserveCase \/ ObserveHit \/ ObserveUpgrade \/ SetVetoed
    \/ ReportCase \/ ReportHit \/ Publish \/ SetReportRef \/ PublishBrief
    \/ \E f \in Fingerprints : ExpireOne(f) \/ MarkEnvironment(f)

(* The program counters of which the invariant says something. *)
Committed == {"observe.case", "observe.hit", "observe.upgrade", "veto.status",
              "report.case", "report.hit", "publish", "report.ref"}

(* The other steps leave the tables alone, and all but two of them leave    *)
(* the two paths or stay outside.                                          *)
LEMMA StepKinds ==
    ASSUME Next
    PROVE  \/ Writes
           \/ NotReproduced
           \/ \E mismatch, veto \in BOOLEAN : Verified(mismatch, veto)
           \/ UNCHANGED <<cases, hits, queue>> /\ pc' \notin Committed
<1> USE DEF Committed, ledger
<1>1. CASE Generate
  BY <1>1 DEF Generate, RunSentinels, SkipClue, ScanUnavailable,
     ScanInconclusive, ScanClean, ScanSignal, Scanning
<1>2. CASE Funnel
  BY <1>2 DEF Funnel, Writes, EnterFunnel, VoidBatch, TakeSignal, Reproduced,
     CloseBatch
<1>3. CASE Close
  BY <1>3 DEF Close, Writes, ListStale, DetectEnvironment, PatchBatch,
     DetectRedlines, WriteBrief, Finish
<1> QED
  BY <1>1, <1>2, <1>3 DEF Next, Step, Begin, Crash

LEMMA HitBatchesFinite ==
    ASSUME NEW h, h \subseteq Fingerprints \X BatchIds, NEW f \in Fingerprints
    PROVE  IsFiniteSet({x[2] : x \in {g \in h : g[1] = f}})
<1>1. IsFiniteSet(BatchIds)
  BY FS_Interval, MaxBatchAssumption DEF BatchIds
<1>2. {x[2] : x \in {g \in h : g[1] = f}} \subseteq BatchIds
  OBVIOUS
<1> QED
  BY <1>1, <1>2, FS_Subset

(* Hits are never deleted. *)
LEMMA HitsGrow ==
    ASSUME TypeOK, Next
    PROVE  /\ hits \subseteq hits'
           /\ \A f \in Fingerprints : Cardinality(HitBatches(f)) <= Cardinality(HitBatches(f)')
<1>1. hits \subseteq hits'
  BY StepKinds DEF Writes, ObserveCase, ObserveHit, ObserveUpgrade, SetVetoed,
     ReportCase, ReportHit, Publish, SetReportRef, PublishBrief, ExpireOne,
     MarkEnvironment, NotReproduced, Verified, RecordHit, ledger
<1>2. TypeOK'
  BY TypeStep
<1>3. ASSUME NEW f \in Fingerprints
      PROVE  Cardinality(HitBatches(f)) <= Cardinality(HitBatches(f)')
  <2>1. HitBatches(f) \subseteq HitBatches(f)'
    BY <1>1 DEF HitBatches
  <2>2. IsFiniteSet(HitBatches(f)')
    BY <1>2, HitBatchesFinite DEF HitBatches, TypeOK, TablesOK
  <2> QED
    BY <2>1, <2>2, FS_Subset
<1> QED
  BY <1>1, <1>3

LEMMA IntermittentStep ==
    ASSUME IInv, Next
    PROVE  IntermittentEarned'
<1>0. TypeOK /\ IntermittentEarned /\ cases \in [Fingerprints -> CaseRow]
  BY DEF IInv, TypeOK, TablesOK
<1>1. SUFFICES ASSUME NEW f \in Fingerprints, cases'[f].status = "intermittent"
               PROVE  Cardinality(HitBatches(f)') >= UpgradeBatches
  BY DEF IntermittentEarned, HitBatches
<1>2. CASE cases[f].status = "intermittent"
  <2>1. IsFiniteSet(HitBatches(f)) /\ IsFiniteSet(HitBatches(f)')
    BY <1>0, TypeStep, HitBatchesFinite DEF HitBatches, TypeOK, TablesOK
  <2>2. Cardinality(HitBatches(f)) \in Nat /\ Cardinality(HitBatches(f)') \in Nat
    BY <2>1, FS_CardinalityType
  <2> QED
    BY <1>0, <1>2, <2>2, HitsGrow, PolicyAssumption DEF IntermittentEarned
<1>3. CASE ObserveUpgrade /\ Earned(f)
  BY <1>3 DEF ObserveUpgrade, Earned, DistinctHitBatches, HitBatches
<1>4. ASSUME NEW g \in Fingerprints, NEW st \in Statuses \ {"intermittent"},
             SetCaseStatus(g, st)
      PROVE  cases'[f].status = cases[f].status \/ cases'[f].status = st
  BY <1>0, <1>4, SetCaseStatusType DEF CaseRow
<1>5. ASSUME NEW g \in Fingerprints, NEW st \in Statuses \ {"intermittent"},
             UpsertCase(g, st, run.batch, Verify, run.triage)
             \/ UpsertCase(g, st, run.batch, Verify, "none")
      PROVE  cases'[f].status = cases[f].status \/ cases'[f].status = st
  BY <1>0, <1>5 DEF UpsertCase, CaseRow
<1>6. pc \in Holding => cur.fp \in Fingerprints
  BY <1>0, CurrentSignal
<1>7. CASE UNCHANGED cases
  BY <1>2, <1>7, <1>1
<1> USE DEF Holding, Statuses
<1>8. CASE ObserveCase
  BY <1>1, <1>2, <1>5, <1>6, <1>8 DEF ObserveCase
<1>9. CASE ReportCase
  BY <1>1, <1>2, <1>5, <1>6, <1>9 DEF ReportCase
<1>10. CASE SetVetoed
  BY <1>1, <1>2, <1>4, <1>6, <1>10 DEF SetVetoed
<1>11. CASE \E g \in Fingerprints : ExpireOne(g) \/ MarkEnvironment(g)
  BY <1>1, <1>2, <1>4, <1>11 DEF ExpireOne, MarkEnvironment
<1>12. CASE SetReportRef
  BY <1>0, <1>1, <1>2, <1>6, <1>12, UpdateCaseRefsType DEF SetReportRef, CaseRow
<1>13. CASE ObserveUpgrade
  <2>1. CASE Earned(cur.fp)
    BY <1>0, <1>1, <1>2, <1>3, <1>6, <1>13, <2>1, SetCaseStatusType
       DEF ObserveUpgrade, CaseRow
  <2> QED
    BY <1>7, <1>13, <2>1 DEF ObserveUpgrade
<1> QED
  BY <1>7, <1>8, <1>9, <1>10, <1>11, <1>12, <1>13, StepKinds
     DEF Writes, ObserveHit, ReportHit, Publish, PublishBrief, NotReproduced,
         Verified, ledger

(* What the writes do to the row of one fingerprint. *)
LEMMA RowChanges ==
    ASSUME TypeOK, Next
    PROVE  /\ ~ (ObserveCase \/ ReportCase) => \A f \in Fingerprints :
                 /\ cases'[f].verify = cases[f].verify
                 /\ cases'[f].hitCount = cases[f].hitCount
                 /\ cases'[f].last = cases[f].last
           /\ ObserveCase \/ ReportCase =>
                /\ cases'[cur.fp].verify = Verify /\ cases'[cur.fp].last = run.batch
                /\ cases'[cur.fp].hitCount = cases[cur.fp].hitCount + 1
                /\ \A f \in Fingerprints \ {cur.fp} : cases'[f] = cases[f]
           /\ ~ SetReportRef => \A f \in Fingerprints : cases'[f].ref = cases[f].ref
<1>0. cases \in [Fingerprints -> CaseRow]
  BY DEF TypeOK, TablesOK
<1>1. pc \in Holding => cur.fp \in Fingerprints
  BY CurrentSignal
<1>2. CASE UNCHANGED cases /\ ~ ObserveCase /\ ~ ReportCase
  BY <1>2
<1>3. ASSUME NEW f \in Fingerprints, NEW st \in Statuses, SetCaseStatus(f, st)
      PROVE  \A g \in Fingerprints :
               /\ cases'[g].verify = cases[g].verify /\ cases'[g].ref = cases[g].ref
               /\ cases'[g].hitCount = cases[g].hitCount
               /\ cases'[g].last = cases[g].last
  <2> TAKE g \in Fingerprints
  <2>1. cases' = [cases EXCEPT ![f].status = st] /\ cases[g] \in CaseRow
    BY <1>0, <1>3 DEF SetCaseStatus
  <2> QED
    BY <1>0, <2>1 DEF CaseRow
<1> USE DEF Holding, Statuses
<1>4. CASE ObserveCase \/ ReportCase
  <2>1. /\ UpsertCase(cur.fp, "observing", run.batch, Verify, "none")
           \/ UpsertCase(cur.fp, "reported", run.batch, Verify, run.triage)
        /\ cur.fp \in Fingerprints /\ pc \in {"observe.case", "report.case"}
    BY <1>1, <1>4 DEF ObserveCase, ReportCase
  <2>2. ~ SetReportRef
    BY <2>1 DEF SetReportRef
  <2> QED
    BY <1>0, <1>4, <2>1, <2>2 DEF UpsertCase, CaseRow
<1>5. CASE SetReportRef
  <2>1. ~ ObserveCase /\ ~ ReportCase /\ cur.fp \in Fingerprints
    BY <1>1, <1>5 DEF SetReportRef, ObserveCase, ReportCase
  <2> QED
    BY <1>0, <1>5, <2>1, UpdateCaseRefsType DEF SetReportRef, CaseRow
<1>6. CASE ObserveUpgrade
  <2>1. ~ ObserveCase /\ ~ ReportCase /\ cur.fp \in Fingerprints
    BY <1>1, <1>6 DEF ObserveUpgrade, ObserveCase, ReportCase
  <2> QED
    BY <1>2, <1>3, <1>6, <2>1 DEF ObserveUpgrade
<1>7. CASE SetVetoed
  <2>1. ~ ObserveCase /\ ~ ReportCase /\ cur.fp \in Fingerprints
    BY <1>1, <1>7 DEF SetVetoed, ObserveCase, ReportCase
  <2> QED
    BY <1>3, <1>7, <2>1 DEF SetVetoed
<1>8. CASE \E f \in Fingerprints : ExpireOne(f) \/ MarkEnvironment(f)
  <2>1. ~ ObserveCase /\ ~ ReportCase
    BY <1>8 DEF ExpireOne, MarkEnvironment, ObserveCase, ReportCase
  <2> QED
    BY <1>3, <1>8, <2>1 DEF ExpireOne, MarkEnvironment
<1>9. UNCHANGED cases => ~ ObserveCase /\ ~ ReportCase
  <2>1. ObserveCase \/ ReportCase => cases'[cur.fp].hitCount # cases[cur.fp].hitCount
    BY <1>0, <1>1, <1>4 DEF ObserveCase, ReportCase, CaseRow
  <2> QED
    BY <2>1
<1>10. \/ UNCHANGED cases \/ ObserveCase \/ ReportCase \/ SetReportRef
       \/ ObserveUpgrade \/ SetVetoed
       \/ \E f \in Fingerprints : ExpireOne(f) \/ MarkEnvironment(f)
  BY StepKinds DEF Writes, ObserveHit, ReportHit, Publish, PublishBrief,
     NotReproduced, Verified, ledger
<1> QED
  BY <1>2, <1>4, <1>5, <1>6, <1>7, <1>8, <1>9, <1>10

(* Which signal is current while one is written. *)
LEMMA SameSignal ==
    ASSUME TypeOK,
           \/ ObserveCase \/ ObserveHit \/ ReportCase \/ ReportHit \/ Publish
           \/ NotReproduced \/ \E mismatch, veto \in BOOLEAN : Verified(mismatch, veto)
           \/ ObserveUpgrade /\ run.vetoed
    PROVE  /\ cur' = cur /\ run'.batch = run.batch /\ run'.matched = run.matched
           /\ ~ (\E mismatch, veto \in BOOLEAN : Verified(mismatch, veto))
                => run'.vetoed = run.vetoed
           /\ cur.fp \in Fingerprints
<1>1. run \in RunRow
  BY DEF TypeOK, ControlOK
<1>2. /\ run'.signals = run.signals /\ run'.batch = run.batch
      /\ run'.matched = run.matched
      /\ ~ (\E mismatch, veto \in BOOLEAN : Verified(mismatch, veto))
           => run'.vetoed = run.vetoed
  BY <1>1 DEF RunRow, ObserveCase, ObserveHit, ReportCase, ReportHit, Publish,
     NotReproduced, Verified, ObserveUpgrade
<1>3. pc \in Holding
  BY DEF Holding, ObserveCase, ObserveHit, ReportCase, ReportHit, Publish,
     NotReproduced, Verified, ObserveUpgrade
<1> QED
  BY <1>2, <1>3, CurrentSignal DEF cur

LEMMA VetoPathStep ==
    ASSUME IInv, Next
    PROVE  VetoPath'
<1>0. TypeOK /\ VetoPath
  BY DEF IInv
<1> USE DEF VetoPath
<1>1. CASE pc' \notin {"verify", "observe.case", "observe.hit", "observe.upgrade",
                       "veto.status"}
  BY <1>1
<1>2. CASE NotReproduced
  BY <1>0, <1>2, SameSignal DEF NotReproduced
<1>3. ASSUME NEW mismatch \in BOOLEAN, NEW veto \in BOOLEAN, Verified(mismatch, veto)
      PROVE  VetoPath'
  BY <1>0, <1>3, SameSignal DEF Verified, AllMatched
<1>4. CASE ObserveCase
  <2>1. cases'[cur.fp].verify = Verify
    BY <1>0, <1>4, RowChanges
  <2> QED
    BY <1>0, <1>4, <2>1, SameSignal DEF ObserveCase, ProvenCase, Verify, AllMatched
<1>5. CASE ObserveHit
  BY <1>0, <1>5, SameSignal DEF ObserveHit, ProvenCase
<1>6. CASE ObserveUpgrade
  <2>1. CASE run.vetoed
    <3>1. cases'[cur.fp].verify = cases[cur.fp].verify
      BY <1>0, <1>6, <2>1, RowChanges, SameSignal
         DEF ObserveUpgrade, ObserveCase, ReportCase
    <3> QED
      BY <1>0, <1>6, <2>1, <3>1, SameSignal DEF ObserveUpgrade, ProvenCase
  <2> QED
    BY <1>1, <1>6, <2>1 DEF ObserveUpgrade
<1>7. CASE TakeSignal
  BY <1>0, <1>7 DEF TakeSignal, TypeOK, ControlOK, RunRow
<1>8. CASE Reproduced
  BY <1>0, <1>8 DEF Reproduced, TypeOK, ControlOK, RunRow
<1>9. CASE pc' = "verify"
  <2>1. TakeSignal \/ Reproduced
    BY <1>9 DEF Next, Step, Generate, Funnel, Close, Begin, Crash, RunSentinels,
       SkipClue, ScanUnavailable, ScanInconclusive, ScanClean, ScanSignal, Scanning,
       EnterFunnel, VoidBatch, NotReproduced, Verified, ObserveCase, ObserveHit,
       ObserveUpgrade, SetVetoed, ReportCase, ReportHit, Publish, SetReportRef,
       CloseBatch, ListStale, ExpireOne, MarkEnvironment, DetectEnvironment,
       PatchBatch, DetectRedlines, WriteBrief, PublishBrief, Finish
  <2> QED
    BY <1>7, <1>8, <2>1
<1>10. CASE pc' \in Committed
  BY <1>1, <1>2, <1>3, <1>4, <1>5, <1>6, <1>10, StepKinds
     DEF Writes, Committed, SetVetoed, ReportCase, ReportHit, Publish, SetReportRef,
         PublishBrief, ExpireOne, MarkEnvironment
<1> QED
  BY <1>1, <1>9, <1>10 DEF Committed

LEMMA ReportPathStep ==
    ASSUME IInv, Next
    PROVE  ReportPath'
<1>0. TypeOK /\ ReportPath
  BY DEF IInv
<1> USE DEF ReportPath
<1>1. CASE pc' \notin {"report.case", "report.hit", "publish", "report.ref"}
  BY <1>1
<1>2. ASSUME NEW mismatch \in BOOLEAN, NEW veto \in BOOLEAN, Verified(mismatch, veto)
      PROVE  ReportPath'
  BY <1>0, <1>2, SameSignal DEF Verified, AllMatched
<1>3. CASE ReportCase
  <2>1. cases'[cur.fp].verify = Verify /\ cases'[cur.fp].last = run.batch
    BY <1>0, <1>3, RowChanges
  <2> QED
    BY <1>0, <1>3, <2>1, SameSignal DEF ReportCase, ProvenCase, Verify, AllMatched
<1>4. CASE ReportHit
  BY <1>0, <1>4, SameSignal DEF ReportHit, ProvenCase, RecordHit
<1>5. CASE Publish
  <2>1. queue' = Append(queue, BugEvent(cur.fp)) /\ BugEvent(cur.fp).kind = "bug_report"
        /\ BugEvent(cur.fp).fp = cur.fp
    BY <1>5 DEF Publish, BugEvent
  <2>2. \E i \in BugEvents' : queue'[i].fp = cur.fp
    BY <1>0, <2>1, QueueAppend
  <2> QED
    BY <1>0, <1>5, <2>2, SameSignal DEF Publish
<1> QED
  BY <1>1, <1>2, <1>3, <1>4, <1>5, StepKinds
     DEF Writes, Committed, ObserveCase, ObserveHit, ObserveUpgrade, SetVetoed,
         SetReportRef, PublishBrief, ExpireOne, MarkEnvironment, NotReproduced

(* The queue only grows, and only Publish appends a bug report. *)
LEMMA QueueChanges ==
    ASSUME TypeOK, Next
    PROVE  /\ ~ Publish => /\ BugEvents' = BugEvents
                           /\ \A i \in BugEvents : queue'[i] = queue[i]
           /\ Publish => /\ BugEvents' = BugEvents \cup {Len(queue) + 1}
                         /\ Len(queue) + 1 \notin BugEvents
                         /\ queue'[Len(queue) + 1] = BugEvent(cur.fp)
                         /\ \A i \in BugEvents : queue'[i] = queue[i]
<1>1. CASE Publish
  <2>1. queue' = Append(queue, BugEvent(cur.fp)) /\ BugEvent(cur.fp).kind = "bug_report"
    BY <1>1 DEF Publish, BugEvent
  <2>2. /\ BugEvents' = BugEvents \cup {Len(queue) + 1}
        /\ BugEvents \subseteq 1 .. Len(queue) /\ Len(queue) \in Nat
        /\ queue'[Len(queue) + 1] = BugEvent(cur.fp)
        /\ \A i \in BugEvents : queue'[i] = queue[i]
    BY <2>1, QueueAppend
  <2> QED
    BY <1>1, <2>2
<1>2. CASE PublishBrief
  <2>1. ~ Publish
    BY <1>2 DEF Publish, PublishBrief
  <2>2. queue' = Append(queue, BriefOf(run.batch))
        /\ BriefOf(run.batch).kind # "bug_report"
    BY <1>2 DEF PublishBrief, BriefOf
  <2> QED
    BY <2>1, <2>2, QueueAppend
<1>3. CASE UNCHANGED queue /\ ~ Publish
  BY <1>3 DEF BugEvents
<1>4. UNCHANGED queue => ~ Publish
  <2>1. Publish => BugEvents' # BugEvents
    BY <1>1
  <2> QED
    BY <2>1 DEF BugEvents
<1>5. Publish \/ PublishBrief \/ UNCHANGED queue
  BY StepKinds DEF Writes, ObserveCase, ObserveHit, ObserveUpgrade, SetVetoed,
     ReportCase, ReportHit, SetReportRef, ExpireOne, MarkEnvironment,
     NotReproduced, Verified
<1> QED
  BY <1>1, <1>2, <1>3, <1>4, <1>5

(* What is known of the events and of the row when Publish appends. *)
LEMMA AtPublish ==
    ASSUME IInv, Publish
    PROVE  /\ cur.fp \in Fingerprints /\ cases[cur.fp].hitCount \in Nat
           /\ \A i \in BugEvents : queue[i].fp = cur.fp
                                   => queue[i].count < cases[cur.fp].hitCount
           /\ ProvenCase(cur.fp) /\ <<cur.fp, cases[cur.fp].last>> \in hits
<1>1. TypeOK /\ ReportPath /\ EventsBehind /\ pc = "publish"
  BY DEF IInv, Publish
<1>2. cur.fp \in Fingerprints
  BY <1>1, SameSignal
<1> QED
  BY <1>1, <1>2 DEF ReportPath, EventsBehind, TypeOK, TablesOK, CaseRow

LEMMA EventsBehindStep ==
    ASSUME IInv, Next
    PROVE  EventsBehind'
<1>0. /\ TypeOK /\ EventsBehind
      /\ \A f \in Fingerprints : cases[f].hitCount \in Nat
      /\ \A i \in BugEvents : queue[i].fp \in Fingerprints /\ queue[i].count \in Nat
  BY DEF IInv, TypeOK, TablesOK, QueueOK, CaseRow
<1> USE DEF EventsBehind
<1>1. CASE Publish
  <2>1. pc' = "report.ref" /\ cases' = cases
    BY <1>1 DEF Publish, ledger
  <2>2. BugEvent(cur.fp).fp = cur.fp
        /\ BugEvent(cur.fp).count = cases[cur.fp].hitCount
    BY DEF BugEvent
  <2> QED
    BY <1>0, <1>1, <2>1, <2>2, QueueChanges, AtPublish
<1>2. CASE ObserveCase \/ ReportCase
  <2>1. ~ Publish /\ cur' = cur /\ cur.fp \in Fingerprints
    BY <1>0, <1>2, SameSignal DEF ObserveCase, ReportCase, Publish
  <2>2. /\ cases'[cur.fp].hitCount = cases[cur.fp].hitCount + 1
        /\ \A f \in Fingerprints \ {cur.fp} : cases'[f] = cases[f]
    BY <1>0, <1>2, RowChanges
  <2>3. BugEvents' = BugEvents /\ \A i \in BugEvents : queue'[i] = queue[i]
    BY <1>0, <2>1, QueueChanges
  <2>4. \A i \in BugEvents : /\ queue[i].count <= cases'[queue[i].fp].hitCount
                             /\ queue[i].fp = cur.fp
                                => queue[i].count < cases'[cur.fp].hitCount
    BY <1>0, <2>1, <2>2
  <2> QED
    BY <2>1, <2>3, <2>4
<1>3. CASE ~ (Publish \/ ObserveCase \/ ReportCase)
  <2>1. BugEvents' = BugEvents /\ \A i \in BugEvents : queue'[i] = queue[i]
    BY <1>0, <1>3, QueueChanges
  <2>2. \A f \in Fingerprints : cases'[f].hitCount = cases[f].hitCount
    BY <1>0, <1>3, RowChanges
  <2>3. \A i \in BugEvents' : queue'[i].count <= cases'[queue'[i].fp].hitCount
    BY <1>0, <2>1, <2>2
  <2>4. CASE pc' \notin {"report.hit", "publish"}
    BY <2>3, <2>4
  <2>5. CASE ReportHit
    <3>1. cur' = cur /\ cur.fp \in Fingerprints /\ pc = "report.hit"
      BY <1>0, <2>5, SameSignal DEF ReportHit
    <3> QED
      BY <1>0, <2>1, <2>2, <2>3, <3>1
  <2> QED
    BY <1>3, <2>4, <2>5, StepKinds
       DEF Writes, Committed, ObserveHit, ObserveUpgrade, SetVetoed, SetReportRef,
           PublishBrief, ExpireOne, MarkEnvironment, NotReproduced, Verified
<1> QED
  BY <1>1, <1>2, <1>3

(* The four properties of the queue and the references. *)
LEMMA FilingStep ==
    ASSUME IInv, Next
    PROVE  DistinctBugEvents' /\ FiledHasHit' /\ FiledIsReproduced' /\ RefHasEvent'
<1>0. /\ TypeOK /\ DistinctBugEvents /\ FiledHasHit /\ FiledIsReproduced
      /\ RefHasEvent /\ ReportPath
      /\ \A i \in BugEvents : queue[i].fp \in Fingerprints /\ queue[i].count \in Nat
  BY DEF IInv, TypeOK, QueueOK
<1>1. hits \subseteq hits'
  BY <1>0, HitsGrow
<1> USE DEF DistinctBugEvents, FiledHasHit, FiledIsReproduced, RefHasEvent
<1>2. CASE Publish
  <2> DEFINE n == Len(queue) + 1
  <2>1. /\ BugEvents' = BugEvents \cup {n} /\ n \notin BugEvents
        /\ queue'[n] = BugEvent(cur.fp)
        /\ \A i \in BugEvents : queue'[i] = queue[i]
    BY <1>0, <1>2, QueueChanges
  <2> HIDE DEF n
  <2>2. /\ BugEvent(cur.fp).fp = cur.fp
        /\ BugEvent(cur.fp).batch = cases[cur.fp].last
        /\ BugEvent(cur.fp).count = cases[cur.fp].hitCount
        /\ BugEvent(cur.fp).verify = cases[cur.fp].verify
    BY DEF BugEvent
  <2>3. \A i \in BugEvents : queue[i].fp = cur.fp
                             => queue[i].count # cases[cur.fp].hitCount
    BY <1>0, <1>2, AtPublish
  <2>4. DistinctBugEvents'
    BY <1>0, <2>1, <2>2, <2>3
  <2>5. FiledHasHit' /\ FiledIsReproduced'
    BY <1>0, <1>1, <1>2, <2>1, <2>2, AtPublish DEF ProvenCase
  <2>6. cases' = cases
    BY <1>2 DEF Publish, ledger
  <2>7. RefHasEvent'
    BY <1>0, <2>1, <2>6
  <2> QED
    BY <2>4, <2>5, <2>7
<1>3. CASE ~ Publish
  <2>1. BugEvents' = BugEvents /\ \A i \in BugEvents : queue'[i] = queue[i]
    BY <1>0, <1>3, QueueChanges
  <2>2. DistinctBugEvents' /\ FiledHasHit' /\ FiledIsReproduced'
    BY <1>0, <1>1, <2>1
  <2>3. CASE SetReportRef
    <3>1. cur.fp \in Fingerprints /\ \E i \in BugEvents : queue[i].fp = cur.fp
      BY <1>0, <2>3, CurrentSignal DEF ReportPath, SetReportRef, Holding
    <3>2. \A f \in Fingerprints \ {cur.fp} : cases'[f] = cases[f]
      BY <1>0, <2>3, <3>1, UpdateCaseRefsType DEF SetReportRef, TypeOK, TablesOK
    <3> QED
      BY <1>0, <2>1, <2>2, <3>1, <3>2
  <2>4. CASE ~ SetReportRef
    BY <1>0, <2>1, <2>2, <2>4, RowChanges
  <2> QED
    BY <2>3, <2>4
<1> QED
  BY <1>2, <1>3

LEMMA VetoStep ==
    ASSUME IInv, Next
    PROVE  VetoAfterEvidence'
<1>0. TypeOK /\ VetoAfterEvidence /\ VetoPath
  BY DEF IInv
<1>1. cases \in [Fingerprints -> CaseRow] /\ (pc \in Holding => cur.fp \in Fingerprints)
  BY <1>0, CurrentSignal DEF TypeOK, TablesOK
<1>2. SUFFICES ASSUME NEW f \in Fingerprints, cases'[f].status = "vetoed"
               PROVE  cases'[f].verify.matched = cases'[f].verify.required
  BY DEF VetoAfterEvidence
<1>3. CASE ~ (ObserveCase \/ ReportCase)
  <2>1. cases'[f].verify = cases[f].verify
    BY <1>0, <1>3, RowChanges
  <2>2. CASE cases[f].status = "vetoed"
    BY <1>0, <2>1, <2>2 DEF VetoAfterEvidence
  <2>3. CASE SetVetoed
    <3>1. CASE f = cur.fp
      BY <1>0, <2>1, <2>3, <3>1 DEF SetVetoed, VetoPath, ProvenCase
    <3>2. CASE f # cur.fp
      BY <1>1, <2>2, <2>3, <3>2, <1>2, SetCaseStatusType
         DEF SetVetoed, Holding, Statuses
    <3> QED
      BY <3>1, <3>2
  <2>4. ASSUME NEW g \in Fingerprints, NEW st \in Statuses \ {"vetoed"},
               SetCaseStatus(g, st)
        PROVE  cases[f].status = "vetoed"
    <3>1. cases' = [cases EXCEPT ![g].status = st] /\ cases[f] \in CaseRow
      BY <1>1, <2>4 DEF SetCaseStatus
    <3>2. f = g => cases'[f].status = st
      BY <1>1, <3>1 DEF CaseRow
    <3>3. f # g => cases'[f] = cases[f]
      BY <1>1, <3>1
    <3> QED
      BY <1>2, <3>2, <3>3
  <2>5. CASE \E g \in Fingerprints : ExpireOne(g) \/ MarkEnvironment(g)
    <3>1. PICK g \in Fingerprints : SetCaseStatus(g, "expired")
                                     \/ SetCaseStatus(g, "environment-event")
      BY <2>5 DEF ExpireOne, MarkEnvironment
    <3>2. cases[f].status = "vetoed"
      BY <2>4, <3>1 DEF Statuses
    <3> QED
      BY <2>2, <3>2
  <2>6. CASE ObserveUpgrade
    BY <1>1, <1>2, <2>2, <2>4, <2>6 DEF ObserveUpgrade, Statuses, Holding
  <2>7. CASE SetReportRef
    BY <1>1, <1>2, <2>2, <2>7, UpdateCaseRefsType DEF SetReportRef, CaseRow, Holding
  <2>8. CASE UNCHANGED cases
    BY <1>2, <2>2, <2>8
  <2> QED
    BY <1>3, <2>3, <2>5, <2>6, <2>7, <2>8, StepKinds
       DEF Writes, ObserveHit, ReportHit, Publish, PublishBrief, NotReproduced,
           Verified, ledger
<1>4. CASE ObserveCase \/ ReportCase
  <2>1. cases'[cur.fp].status \in {"observing", "reported"}
    BY <1>1, <1>4 DEF ObserveCase, ReportCase, UpsertCase, Holding
  <2>2. f # cur.fp /\ cases'[f] = cases[f]
    BY <1>0, <1>2, <1>4, <2>1, RowChanges
  <2> QED
    BY <1>0, <1>2, <2>2 DEF VetoAfterEvidence
<1> QED
  BY <1>3, <1>4

LEMMA InvInit == Init => IInv
<1> SUFFICES ASSUME Init PROVE IInv
  OBVIOUS
<1>1. BugEvents = {} /\ \A f \in Fingerprints : cases[f] = NoCase
  BY DEF Init, LedgerInit, BugEvents
<1> QED
  BY <1>1, TypeInit DEF Init, IInv, EventsBehind, ReportPath, VetoPath,
     IntermittentEarned, DistinctBugEvents, FiledHasHit, RefHasEvent,
     FiledIsReproduced, VetoAfterEvidence, NoCase

LEMMA InvStep == IInv /\ [Next]_vars => IInv'
<1>1. ASSUME IInv, Next PROVE IInv'
  <2>1. TypeOK'
    BY <1>1, TypeStep DEF IInv
  <2> QED
    BY <1>1, <2>1, EventsBehindStep, ReportPathStep, VetoPathStep, IntermittentStep,
       FilingStep, VetoStep DEF IInv
<1>2. ASSUME IInv, UNCHANGED vars PROVE IInv'
  <2>1. TypeOK'
    BY <1>2, TypeStep DEF IInv
  <2>2. /\ UNCHANGED <<cases, hits, queue, pc, run>>
        /\ BugEvents' = BugEvents /\ cur' = cur
    BY <1>2 DEF vars, ledger, BugEvents, cur
  <2>3. EventsBehind' /\ ReportPath' /\ VetoPath'
    <3>1. AllMatched' = AllMatched /\ \A f : ProvenCase(f)' = ProvenCase(f)
      BY <2>2 DEF AllMatched, ProvenCase
    <3>2. EventsBehind /\ ReportPath /\ VetoPath
      BY <1>2 DEF IInv
    <3> QED
      BY <2>2, <3>1, <3>2 DEF EventsBehind, ReportPath, VetoPath, ProvenCase
  <2>4. IntermittentEarned'
    BY <1>2, <2>2 DEF IInv, IntermittentEarned, HitBatches
  <2>5. /\ DistinctBugEvents' /\ FiledHasHit' /\ FiledIsReproduced'
        /\ RefHasEvent' /\ VetoAfterEvidence'
    BY <1>2, <2>2 DEF IInv, DistinctBugEvents, FiledHasHit, RefHasEvent,
       FiledIsReproduced, VetoAfterEvidence
  <2> QED
    BY <2>1, <2>3, <2>4, <2>5 DEF IInv
<1> QED
  BY <1>1, <1>2

LEMMA Invariance == Spec => []IInv
<1> QED
  BY InvInit, InvStep, PTL DEF Spec

(* Whatever crashes, reruns or later flakes happen, a case is intermittent *)
(* only if it was hit in UpgradeBatches different batches.                 *)
THEOREM IntermittentIsEarned == Spec => []IntermittentEarned
<1>1. IInv => IntermittentEarned
  BY DEF IInv
<1> QED
  BY <1>1, Invariance, PTL

(* No rerun and no restart queues two bug reports with one row of a case.  *)
THEOREM BugEventsAreDistinct == Spec => []DistinctBugEvents
<1>1. IInv => DistinctBugEvents
  BY DEF IInv
<1> QED
  BY <1>1, Invariance, PTL

(* A queued report is always backed by a hit of the batch it names.        *)
THEOREM FiledReportsHaveHits == Spec => []FiledHasHit
<1>1. IInv => FiledHasHit
  BY DEF IInv
<1> QED
  BY <1>1, Invariance, PTL

(* A report reference in the ledger is never dangling.                     *)
THEOREM ReferencesHaveEvents == Spec => []RefHasEvent
<1>1. IInv => RefHasEvent
  BY DEF IInv
<1> QED
  BY <1>1, Invariance, PTL

(* No report is queued before every rerun of its channel matched.          *)
THEOREM FiledReportsAreReproduced == Spec => []FiledIsReproduced
<1>1. IInv => FiledIsReproduced
  BY DEF IInv
<1> QED
  BY <1>1, Invariance, PTL

(* The veto gate acts only on candidates that machine evidence proved.     *)
THEOREM VetoComesAfterEvidence == Spec => []VetoAfterEvidence
<1>1. IInv => VetoAfterEvidence
  BY DEF IInv
<1> QED
  BY <1>1, Invariance, PTL

-----------------------------------------------------------------------------
(* Refinement: run_batch implements CaseFiling *)

LEMMA FilingInit == Init => Filing!Init
<1> SUFFICES ASSUME Init PROVE Filing!Init
  OBVIOUS
<1>1. BugEvents = {} /\ cases = [f \in Fingerprints |-> NoCase]
  BY DEF Init, LedgerInit, BugEvents
<1>2. /\ Sightings = [f \in Fingerprints |-> 0]
      /\ Proven = [f \in Fingerprints |-> FALSE]
  <2>1. \A f \in Fingerprints :
          /\ cases[f].hitCount = 0
          /\ (cases[f].verify.matched = cases[f].verify.required) = FALSE
    BY <1>1 DEF NoCase, NoVerification
  <2>2. Sightings = [f \in Fingerprints |-> 0]
    BY <2>1 DEF Sightings
  <2>3. Proven = [f \in Fingerprints |-> FALSE]
    BY <2>1, Zenon DEF Proven
  <2> QED
    BY <2>2, <2>3
<1>3. Filed = [f \in Fingerprints |-> {}]
  BY <1>1 DEF Filed
<1> QED
  BY <1>2, <1>3 DEF Filing!Init

LEMMA FiledSame ==
    ASSUME TypeOK, Next, ~ Publish
    PROVE  Filed' = Filed
<1>1. BugEvents' = BugEvents /\ \A i \in BugEvents : queue'[i] = queue[i]
  BY QueueChanges
<1>2. ASSUME NEW f \in Fingerprints
      PROVE  {queue'[i].count : i \in {j \in BugEvents' : queue'[j].fp = f}}
               = {queue[i].count : i \in {j \in BugEvents : queue[j].fp = f}}
  BY <1>1
<1> QED
  BY <1>2 DEF Filed

LEMMA FilingNext ==
    ASSUME IInv, Next
    PROVE  Filing!Next \/ UNCHANGED <<Sightings, Proven, Filed>>
<1>0. TypeOK /\ cases \in [Fingerprints -> CaseRow] /\ cases' \in [Fingerprints -> CaseRow]
  BY TypeStep DEF IInv, TypeOK, TablesOK
<1>1. CASE Publish
  <2> DEFINE n == Len(queue) + 1
             f == cur.fp
             new == {queue'[i].count : i \in {j \in BugEvents' : queue'[j].fp = f}}
  <2>1. /\ BugEvents' = BugEvents \cup {n} /\ n \notin BugEvents
        /\ queue'[n] = BugEvent(cur.fp)
        /\ \A i \in BugEvents : queue'[i] = queue[i]
    BY <1>0, <1>1, QueueChanges
  <2> HIDE DEF n
  <2>2. BugEvent(f).fp = f /\ BugEvent(f).count = cases[f].hitCount
    BY DEF BugEvent
  <2>3. f \in Fingerprints /\ ProvenCase(f) /\ cases[f].hitCount \in Nat
        /\ \A i \in BugEvents : queue[i].fp = f => queue[i].count < cases[f].hitCount
    BY <1>1, AtPublish
  <2>4. Proven[f] /\ Sightings[f] = cases[f].hitCount
    BY <2>3 DEF Proven, Sightings, ProvenCase
  <2>5. \A i \in BugEvents : queue[i].count \in Nat
    BY <1>0 DEF TypeOK, QueueOK
  <2>6. Sightings[f] \notin Filed[f]
    BY <2>3, <2>4, <2>5 DEF Filed
  <2> HIDE DEF f
  <2>7. ASSUME NEW g \in Fingerprints
        PROVE  {queue'[i].count : i \in {j \in BugEvents' : queue'[j].fp = g}}
                 = IF g = f THEN Filed[g] \cup {Sightings[f]} ELSE Filed[g]
    <3>1. Filed[g] = {queue[i].count : i \in {j \in BugEvents : queue[j].fp = g}}
      BY DEF Filed
    <3> QED
      BY <2>1, <2>2, <2>4, <3>1 DEF f
  <2>8. Filed' = [Filed EXCEPT ![f] = Filed[f] \cup {Sightings[f]}]
    BY <2>3, <2>7 DEF Filed
  <2>9. UNCHANGED <<Sightings, Proven>>
    BY <1>1 DEF Publish, Sightings, Proven, ledger
  <2> QED
    BY <2>3, <2>4, <2>6, <2>8, <2>9 DEF Filing!Next, Filing!File
<1>2. CASE ObserveCase \/ ReportCase
  <2> DEFINE f == cur.fp
             p == Verify.matched = Verify.required
  <2>1. f \in Fingerprints /\ ~ Publish
    BY <1>0, <1>2, SameSignal DEF ObserveCase, ReportCase, Publish
  <2>2. /\ cases'[f].verify = Verify /\ cases'[f].hitCount = cases[f].hitCount + 1
        /\ \A g \in Fingerprints \ {f} : cases'[g] = cases[g]
    BY <1>0, <1>2, RowChanges
  <2> HIDE DEF f
  <2>3. Sightings' = [Sightings EXCEPT ![f] = Sightings[f] + 1]
    BY <2>1, <2>2 DEF Sightings
  <2>4. Proven' = [Proven EXCEPT ![f] = p]
    BY <2>1, <2>2 DEF Proven
  <2>5. Filed' = Filed
    BY <1>0, <2>1, FiledSame
  <2>6. p \in BOOLEAN
    OBVIOUS
  <2> QED
    BY <2>1, <2>3, <2>4, <2>5, <2>6 DEF Filing!Next, Filing!Sight
<1>3. CASE ~ (Publish \/ ObserveCase \/ ReportCase)
  <2>1. \A f \in Fingerprints : /\ cases'[f].verify = cases[f].verify
                                /\ cases'[f].hitCount = cases[f].hitCount
    BY <1>0, <1>3, RowChanges
  <2>2. UNCHANGED <<Sightings, Proven>>
    BY <2>1 DEF Sightings, Proven
  <2> QED
    BY <1>0, <1>3, <2>2, FiledSame
<1> QED
  BY <1>1, <1>2, <1>3

(* The detailed batch implements the abstract promise: a report is filed   *)
(* at most once per sighting, and only for the latest, reproduced one.     *)
THEOREM PipelineKeepsFilingPromise == Spec => KeepsFilingPromise
<1>1. IInv /\ [Next]_vars => [Filing!Next]_(Filing!vars)
  <2>1. ASSUME IInv, Next PROVE [Filing!Next]_(Filing!vars)
    BY <2>1, FilingNext DEF Filing!vars
  <2>2. ASSUME UNCHANGED vars PROVE UNCHANGED Filing!vars
    BY <2>2 DEF vars, ledger, Filing!vars, Sightings, Proven, Filed, BugEvents
  <2> QED
    BY <2>1, <2>2
<1> QED
  BY <1>1, FilingInit, InvInit, InvStep, PTL DEF Spec, Filing!Spec, KeepsFilingPromise

-----------------------------------------------------------------------------
(* The books *)

(* The books are opened empty. *)
LEMMA ZeroTyped ==
    /\ ZeroCounters \in CounterRow /\ ZeroStats \in StatsRow
    /\ NoBatch \in BatchRow /\ LevelSum(ZeroCounters) = 0
<1>1. ZeroCounters \in CounterRow
  BY DEF ZeroCounters, CounterRow
<1>2. ZeroStats \in StatsRow
  BY <1>1 DEF ZeroStats, StatsRow, ZeroTally, TallyRow
<1>3. NoBatch \in BatchRow
  BY <1>1 DEF NoBatch, BatchRow
<1>4. LevelSum(ZeroCounters) = 0
  BY PlanAssumption DEF LevelSum, ZeroCounters
<1> QED
  BY <1>1, <1>2, <1>3, <1>4

(* One or two of the counters get a new value; the rest of the locals that *)
(* are only counted stay.                                                  *)
CounterNames == {"passed", "blocked", "mismatch", "vetoed", "reported", "entered",
                 "upgraded"}

LEMMA StatsPut ==
    ASSUME stats \in StatsRow, NEW c \in CounterRow,
           stats' = [stats EXCEPT !.counters = c]
    PROVE  /\ stats' \in StatsRow /\ stats'.counters = c
           /\ UNCHANGED <<stats.tally, stats.total, stats.expired>>
BY DEF StatsRow

LEMMA CountedOnce ==
    ASSUME stats \in StatsRow, NEW names \in SUBSET CounterNames, Counted(names)
    PROVE  /\ stats' \in StatsRow
           /\ UNCHANGED <<stats.tally, stats.total, stats.expired>>
           /\ LevelSum(stats.counters)' = LevelSum(stats.counters)
           /\ \A h \in CounterNames :
                stats'.counters[h] = stats.counters[h] + (IF h \in names THEN 1 ELSE 0)
<1> DEFINE c == stats.counters
           d == [h \in DOMAIN c |-> IF h \in names THEN c[h] + 1 ELSE c[h]]
<1>1. c \in CounterRow
  BY DEF StatsRow
<1>2. /\ c = [level |-> c.level, passed |-> c.passed, blocked |-> c.blocked,
              mismatch |-> c.mismatch, vetoed |-> c.vetoed, reported |-> c.reported,
              entered |-> c.entered, upgraded |-> c.upgraded]
      /\ c.level \in [Levels -> Nat] /\ \A h \in CounterNames : c[h] \in Nat
  BY <1>1 DEF CounterRow, CounterNames
<1>3. /\ DOMAIN c = CounterNames \cup {"level"} /\ "level" \notin CounterNames
  BY <1>2 DEF CounterNames
<1>4. /\ d \in CounterRow /\ d.level = c.level
      /\ \A h \in CounterNames : d[h] = c[h] + (IF h \in names THEN 1 ELSE 0)
  BY <1>2, <1>3 DEF CounterRow, CounterNames
<1>5. stats' = [stats EXCEPT !.counters = d]
  BY DEF Counted
<1> HIDE DEF d
<1>6. /\ stats' \in StatsRow /\ stats'.counters = d
      /\ UNCHANGED <<stats.tally, stats.total, stats.expired>>
  BY <1>4, <1>5, StatsPut
<1> QED
  BY <1>4, <1>6 DEF LevelSum

LEMMA CountLevel ==
    ASSUME stats \in StatsRow, NEW l \in {"L1", "L2", "L3"},
           stats' = [stats EXCEPT !.counters.level[l] = @ + 1]
    PROVE  /\ stats' \in StatsRow
           /\ UNCHANGED <<stats.tally, stats.total, stats.expired>>
           /\ \A h \in CounterNames : stats'.counters[h] = stats.counters[h]
           /\ LevelSum(stats.counters)' = LevelSum(stats.counters) + 1
<1> DEFINE c == stats.counters
           k == c.level[l] + 1
           v == [c.level EXCEPT ![l] = k]
           d == [c EXCEPT !.level = v]
<1>1. c \in CounterRow /\ l \in Levels /\ {"L1", "L2", "L3"} \subseteq Levels
  BY PlanAssumption DEF StatsRow
<1>2. c.level \in [Levels -> Nat] /\ k \in Nat
  BY <1>1 DEF CounterRow
<1>3. stats' = [stats EXCEPT !.counters = d]
  OBVIOUS
<1>4. /\ v \in [Levels -> Nat]
      /\ \A x \in Levels : v[x] = IF x = l THEN c.level[x] + 1 ELSE c.level[x]
  BY <1>1, <1>2
<1> HIDE DEF v
<1>5. /\ d \in CounterRow /\ d.level = v
      /\ \A h \in CounterNames : d[h] = c[h]
  BY <1>1, <1>4 DEF CounterRow, CounterNames
<1> HIDE DEF d
<1>6. /\ stats' \in StatsRow /\ stats'.counters = d
      /\ UNCHANGED <<stats.tally, stats.total, stats.expired>>
  BY <1>3, <1>5, StatsPut
<1>7. v["L1"] + v["L2"] + v["L3"] = c.level["L1"] + c.level["L2"] + c.level["L3"] + 1
  BY <1>1, <1>2, <1>4
<1> QED
  BY <1>5, <1>6, <1>7 DEF LevelSum

(* An executed scenario that gave no signal adds one to both sides.        *)
LEMMA TalliedOnce ==
    ASSUME stats \in StatsRow, NEW field \in {"pass", "noSignal", "inconclusive"},
           Tallied(field)
    PROVE  /\ stats' \in StatsRow
           /\ UNCHANGED <<stats.counters, stats.total, stats.expired>>
           /\ LET t == stats.tally  u == stats'.tally
              IN  /\ u.executed = t.executed + 1
                  /\ u.pass + u.noSignal + u.inconclusive
                       = t.pass + t.noSignal + t.inconclusive + 1
<1> DEFINE t == stats.tally
           n == t.executed + 1
           m == t[field] + 1
           w == [t EXCEPT !.executed = n, ![field] = m]
<1>1. t \in TallyRow /\ n \in Nat /\ m \in Nat
  BY DEF StatsRow, TallyRow
<1>2. stats' = [stats EXCEPT !.tally = w]
  BY <1>1 DEF Tallied, TallyRow, StatsRow
<1> HIDE DEF n, m
<1>3. /\ w \in TallyRow /\ w.executed = n
      /\ \A h \in {"pass", "noSignal", "inconclusive"} : w[h] = IF h = field THEN m ELSE t[h]
  BY <1>1 DEF TallyRow
<1> HIDE DEF w
<1>4. /\ stats' \in StatsRow /\ stats'.tally = w
      /\ UNCHANGED <<stats.counters, stats.total, stats.expired>>
  BY <1>2, <1>3 DEF StatsRow
<1>5. w.pass + w.noSignal + w.inconclusive = t.pass + t.noSignal + t.inconclusive + 1
  BY <1>1, <1>3 DEF TallyRow, n, m
<1> QED
  BY <1>3, <1>4, <1>5 DEF n

LEMMA ExecutedOnce ==
    ASSUME stats \in StatsRow, stats' = [stats EXCEPT !.tally.executed = @ + 1]
    PROVE  /\ stats' \in StatsRow
           /\ UNCHANGED <<stats.counters, stats.total, stats.expired>>
           /\ LET t == stats.tally  u == stats'.tally
              IN  /\ u.executed = t.executed + 1
                  /\ u.pass = t.pass /\ u.noSignal = t.noSignal
                  /\ u.inconclusive = t.inconclusive
<1> DEFINE t == stats.tally
           n == t.executed + 1
           w == [t EXCEPT !.executed = n]
<1>1. t \in TallyRow /\ n \in Nat
  BY DEF StatsRow, TallyRow
<1>2. stats' = [stats EXCEPT !.tally = w]
  OBVIOUS
<1> HIDE DEF n
<1>3. /\ w \in TallyRow /\ w.executed = n
      /\ w.pass = t.pass /\ w.noSignal = t.noSignal /\ w.inconclusive = t.inconclusive
  BY <1>1 DEF TallyRow
<1> HIDE DEF w
<1>4. /\ stats' \in StatsRow /\ stats'.tally = w
      /\ UNCHANGED <<stats.counters, stats.total, stats.expired>>
  BY <1>2, <1>3 DEF StatsRow
<1> QED
  BY <1>3, <1>4 DEF n

(* The signals left, and the current one, are of the levels that count.    *)
LEMMA SignalsLeft ==
    ASSUME IInv, Books
    PROVE  /\ run \in RunRow /\ run.signals \in Seq(SignalRow)
           /\ Len(run.signals) \in Nat
           /\ run.signals # <<>> =>
                /\ cur.level \in {"L1", "L2", "L3"}
                /\ Tail(run.signals) \in Seq(SignalRow)
                /\ Len(Tail(run.signals)) = Len(run.signals) - 1
                /\ \A i \in DOMAIN Tail(run.signals) :
                      Tail(run.signals)[i].level \in {"L1", "L2", "L3"}
<1>1. run \in RunRow /\ run.signals \in Seq(SignalRow) /\ Len(run.signals) \in Nat
  BY DEF IInv, TypeOK, ControlOK, RunRow
<1>2. \A i \in 1 .. Len(run.signals) : run.signals[i].level \in {"L1", "L2", "L3"}
  BY <1>1 DEF Books, BooksTyped
<1>3. ASSUME run.signals # <<>>
      PROVE  /\ cur.level \in {"L1", "L2", "L3"}
             /\ Tail(run.signals) \in Seq(SignalRow)
             /\ Len(Tail(run.signals)) = Len(run.signals) - 1
             /\ \A i \in DOMAIN Tail(run.signals) :
                   Tail(run.signals)[i].level \in {"L1", "L2", "L3"}
  <2>1. /\ Head(run.signals) = run.signals[1] /\ Len(run.signals) >= 1
        /\ Tail(run.signals) \in Seq(SignalRow)
        /\ Len(Tail(run.signals)) = Len(run.signals) - 1
        /\ \A i \in 1 .. Len(Tail(run.signals)) :
             Tail(run.signals)[i] = run.signals[i + 1]
    BY <1>1, <1>3, HeadTailProperties, EmptySeq
  <2>2. DOMAIN Tail(run.signals) = 1 .. Len(Tail(run.signals))
    BY <2>1
  <2> QED
    BY <1>1, <1>2, <2>1, <2>2 DEF cur
<1> QED
  BY <1>1, <1>3

(* The arithmetic of the six steps of the funnel that book something.      *)
LEMMA RowNumbers ==
    ASSUME NEW c \in CounterRow
    PROVE  /\ c.passed \in Nat /\ c.blocked \in Nat /\ c.vetoed \in Nat
           /\ c.reported \in Nat /\ c.entered \in Nat /\ c.upgraded \in Nat
           /\ LevelSum(c) \in Nat
BY PlanAssumption DEF CounterRow, LevelSum

LEMMA BookTaken ==
    ASSUME NEW c \in CounterRow, NEW d \in CounterRow, NEW n \in Nat, NEW l \in Nat,
           Booked(c, n, l, 0, 0, 0), LevelSum(d) = LevelSum(c) + 1,
           d.passed = c.passed, d.blocked = c.blocked, d.vetoed = c.vetoed,
           d.reported = c.reported, d.entered = c.entered, d.upgraded = c.upgraded
    PROVE  Booked(d, n, l, 1, 0, 0)
BY RowNumbers DEF Booked

LEMMA BookBlocked ==
    ASSUME NEW c \in CounterRow, NEW d \in CounterRow, NEW n \in Nat, NEW l \in Nat,
           Booked(c, n, l, 1, 0, 0), LevelSum(d) = LevelSum(c),
           d.passed = c.passed, d.blocked = c.blocked + 1, d.vetoed = c.vetoed,
           d.reported = c.reported, d.entered = c.entered, d.upgraded = c.upgraded
    PROVE  Booked(d, n, l, 1, 0, 1)
BY RowNumbers DEF Booked

LEMMA BookPassed ==
    ASSUME NEW c \in CounterRow, NEW d \in CounterRow, NEW n \in Nat, NEW l \in Nat,
           Booked(c, n, l, 1, 0, 0), LevelSum(d) = LevelSum(c),
           d.passed = c.passed + 1, d.blocked = c.blocked, d.vetoed = c.vetoed,
           d.reported = c.reported, d.entered = c.entered, d.upgraded = c.upgraded
    PROVE  Booked(d, n, l, 1, 1, 0)
BY RowNumbers DEF Booked

LEMMA BookEntered ==
    ASSUME NEW c \in CounterRow, NEW d \in CounterRow, NEW n \in Nat, NEW l \in Nat,
           Booked(c, n, l, 1, 0, 1), LevelSum(d) = LevelSum(c),
           d.passed = c.passed, d.blocked = c.blocked, d.vetoed = c.vetoed,
           d.reported = c.reported, d.entered = c.entered + 1,
           d.upgraded <= c.upgraded + 1
    PROVE  Booked(d, n, l - 1, 0, 0, 0)
<1>1. /\ c.passed \in Nat /\ c.blocked \in Nat /\ c.vetoed \in Nat
      /\ c.reported \in Nat /\ c.entered \in Nat /\ c.upgraded \in Nat
      /\ d.upgraded \in Nat /\ LevelSum(c) \in Nat
  BY RowNumbers
<1>2. /\ LevelSum(c) + (l - 1) = n
      /\ c.passed + c.blocked + (l - 1) = n
      /\ c.passed = c.reported + c.vetoed
      /\ c.entered + 1 = c.blocked + c.vetoed
      /\ c.upgraded + 1 <= c.blocked
  BY <1>1 DEF Booked
<1> QED
  BY <1>1, <1>2 DEF Booked

LEMMA BookVetoed ==
    ASSUME NEW c \in CounterRow, NEW d \in CounterRow, NEW n \in Nat, NEW l \in Nat,
           Booked(c, n, l, 1, 1, 0), LevelSum(d) = LevelSum(c),
           d.passed = c.passed, d.blocked = c.blocked, d.vetoed = c.vetoed + 1,
           d.reported = c.reported, d.entered = c.entered + 1, d.upgraded = c.upgraded
    PROVE  Booked(d, n, l - 1, 0, 0, 0)
<1>1. /\ c.passed \in Nat /\ c.blocked \in Nat /\ c.vetoed \in Nat
      /\ c.reported \in Nat /\ c.entered \in Nat /\ c.upgraded \in Nat
      /\ LevelSum(c) \in Nat
  BY RowNumbers
<1>2. /\ LevelSum(c) + (l - 1) = n
      /\ c.passed + c.blocked + (l - 1) = n
      /\ c.passed = c.reported + (c.vetoed + 1)
      /\ c.entered + 1 = c.blocked + (c.vetoed + 1)
      /\ c.upgraded <= c.blocked
  BY <1>1 DEF Booked
<1> QED
  BY <1>1, <1>2 DEF Booked

LEMMA BookReported ==
    ASSUME NEW c \in CounterRow, NEW d \in CounterRow, NEW n \in Nat, NEW l \in Nat,
           Booked(c, n, l, 1, 1, 0), LevelSum(d) = LevelSum(c),
           d.passed = c.passed, d.blocked = c.blocked, d.vetoed = c.vetoed,
           d.reported = c.reported + 1, d.entered = c.entered, d.upgraded = c.upgraded
    PROVE  Booked(d, n, l - 1, 0, 0, 0)
BY RowNumbers DEF Booked

(* What is left to show of a step inside the funnel.                       *)
LEMMA InsideFunnel ==
    ASSUME IInv, Books, Next, pc' \in Holding \cup {"candidate"}, UNCHANGED batches,
           stats' \in StatsRow, stats'.expired = 0, FunnelBooks',
           \/ run'.signals = run.signals
           \/ run.signals # <<>> /\ run'.signals = Tail(run.signals)
    PROVE  Books'
<1>1. \A i \in DOMAIN run'.signals : run'.signals[i].level \in {"L1", "L2", "L3"}
  BY SignalsLeft DEF Books, BooksTyped
<1>2. BooksTyped'
  BY <1>1 DEF Books, BooksTyped
<1> QED
  BY <1>2 DEF Books, ScanBooks, Holding, Closing

(* A signal goes through the funnel: each step books at most one thing.    *)
LEMMA FunnelStep ==
    ASSUME IInv, Books, Next,
           \/ TakeSignal \/ Reproduced \/ NotReproduced
           \/ \E mismatch, veto \in BOOLEAN : Verified(mismatch, veto)
           \/ ObserveCase \/ ObserveHit \/ ObserveUpgrade \/ SetVetoed
           \/ ReportCase \/ ReportHit \/ Publish \/ SetReportRef
    PROVE  Books'
<1> DEFINE c == stats.counters
           d == stats'.counters
           n == stats.total
           left == Len(run.signals)
           Plus(names) ==
             \A h \in CounterNames : d[h] = c[h] + (IF h \in names THEN 1 ELSE 0)
<1> USE DEF Holding, Observing
<1>0. /\ pc \in Holding \cup {"candidate"} /\ pc' \in Holding \cup {"candidate"}
      /\ UNCHANGED batches
  BY DEF TakeSignal, Reproduced, NotReproduced, Verified, ObserveCase, ObserveHit,
     ObserveUpgrade, SetVetoed, ReportCase, ReportHit, Publish, SetReportRef, ledger
<1>1. /\ FunnelBooks /\ stats.expired = 0 /\ stats \in StatsRow
      /\ run \in RunRow /\ left \in Nat
  BY <1>0, SignalsLeft DEF Books, BooksTyped
<1>2. /\ c \in CounterRow /\ n \in Nat
      /\ c.passed \in Nat /\ c.blocked \in Nat /\ c.vetoed \in Nat
      /\ c.reported \in Nat /\ c.entered \in Nat /\ c.upgraded \in Nat
  BY <1>1, RowNumbers DEF StatsRow
<1>3. (pc = "verify" => ~ run.vetoed) /\ (pc = "veto.status" => run.vetoed)
  BY DEF IInv, VetoPath
<1>4. Scanned(stats.tally, n) /\ Booked(c, n, left, InHand, Proving, Dropping)
  BY <1>1 DEF FunnelBooks
<1>5. ASSUME stats' \in StatsRow, UNCHANGED <<stats.tally, stats.total, stats.expired>>,
             Booked(d, n, Len(run'.signals), InHand', Proving', Dropping'),
             \/ run'.signals = run.signals
             \/ run.signals # <<>> /\ run'.signals = Tail(run.signals)
      PROVE  Books'
  <2>1. Scanned(stats'.tally, stats'.total)
    BY <1>4, <1>5
  <2>2. FunnelBooks'
    BY <1>5, <2>1 DEF FunnelBooks
  <2> QED
    BY <1>0, <1>1, <1>5, <2>2, InsideFunnel
<1>6. CASE Reproduced \/ ObserveCase \/ ObserveHit \/ ReportCase \/ ReportHit \/ Publish
  <2>1. /\ stats' = stats /\ run'.signals = run.signals /\ run'.vetoed = run.vetoed
    BY <1>1, <1>6 DEF Reproduced, ObserveCase, ObserveHit, ReportCase, ReportHit,
       Publish, RunRow
  <2>2. \/ pc = "verify" /\ pc' = "verify"
        \/ pc \in Observing /\ pc' \in Observing
        \/ /\ pc \in {"report.case", "report.hit", "publish", "report.ref"}
           /\ pc' \in {"report.case", "report.hit", "publish", "report.ref"}
    BY <1>6 DEF Reproduced, ObserveCase, ObserveHit, ReportCase, ReportHit, Publish
  <2>3. InHand' = InHand /\ Proving' = Proving /\ Dropping' = Dropping
    BY <2>1, <2>2 DEF InHand, Proving, Dropping
  <2> QED
    BY <1>1, <1>4, <1>5, <2>1, <2>3
<1>7. CASE TakeSignal
  <2>1. cur.level \in {"L1", "L2", "L3"}
    BY <1>7, SignalsLeft DEF TakeSignal
  <2>2. /\ stats' \in StatsRow
        /\ UNCHANGED <<stats.tally, stats.total, stats.expired>>
        /\ \A h \in CounterNames : stats'.counters[h] = stats.counters[h]
        /\ LevelSum(d) = LevelSum(c) + 1
    BY <1>1, <1>7, <2>1, CountLevel DEF TakeSignal
  <2>3. run'.signals = run.signals /\ pc = "candidate" /\ pc' = "verify"
    BY <1>1, <1>7 DEF TakeSignal, RunRow
  <2>4. /\ InHand = 0 /\ Proving = 0 /\ Dropping = 0
        /\ InHand' = 1 /\ Proving' = 0 /\ Dropping' = 0
    BY <2>3 DEF InHand, Proving, Dropping
  <2>5. /\ d.passed = c.passed /\ d.blocked = c.blocked /\ d.vetoed = c.vetoed
        /\ d.reported = c.reported /\ d.entered = c.entered /\ d.upgraded = c.upgraded
    BY <2>2 DEF CounterNames
  <2>6. Booked(d, n, left, InHand', Proving', Dropping')
    <3>1. d \in CounterRow /\ Booked(c, n, left, 0, 0, 0)
      BY <1>4, <2>2, <2>4 DEF StatsRow
    <3> QED
      BY <1>1, <1>2, <2>2, <2>4, <2>5, <3>1, BookTaken
  <2> QED
    BY <1>5, <2>2, <2>3, <2>6
<1>8. CASE NotReproduced
  <2>1. /\ stats' \in StatsRow /\ UNCHANGED <<stats.tally, stats.total, stats.expired>>
        /\ LevelSum(d) = LevelSum(c) /\ Plus({"blocked"})
    BY <1>1, <1>8, CountedOnce DEF NotReproduced, CounterNames
  <2>2. /\ run'.signals = run.signals /\ run'.vetoed = run.vetoed
        /\ pc = "verify" /\ pc' = "observe.case"
    BY <1>1, <1>8 DEF NotReproduced
  <2>3. /\ InHand = 1 /\ Proving = 0 /\ Dropping = 0
        /\ InHand' = 1 /\ Proving' = 0 /\ Dropping' = 1
    BY <1>3, <2>2 DEF InHand, Proving, Dropping
  <2>4. /\ d.passed = c.passed /\ d.blocked = c.blocked + 1 /\ d.vetoed = c.vetoed
        /\ d.reported = c.reported /\ d.entered = c.entered
        /\ d.upgraded = c.upgraded
    BY <1>2, <2>1 DEF CounterNames
  <2>5. Booked(d, n, left, InHand', Proving', Dropping')
    <3>1. d \in CounterRow /\ Booked(c, n, left, 1, 0, 0)
      BY <1>4, <2>1, <2>3 DEF StatsRow
    <3> QED
      BY <1>1, <1>2, <2>1, <2>3, <2>4, <3>1, BookBlocked
  <2>6. Len(run'.signals) = left
    BY <2>2
  <2> QED
    BY <1>5, <2>1, <2>2, <2>5, <2>6
<1>9. ASSUME NEW mismatch \in BOOLEAN, NEW veto \in BOOLEAN, Verified(mismatch, veto)
      PROVE  Books'
  <2> DEFINE ns == IF mismatch THEN {"passed", "mismatch"} ELSE {"passed"}
  <2>1. /\ stats' \in StatsRow /\ UNCHANGED <<stats.tally, stats.total, stats.expired>>
        /\ LevelSum(d) = LevelSum(c) /\ Plus(ns)
    BY <1>1, <1>9, CountedOnce DEF Verified, CounterNames
  <2>2. /\ run'.signals = run.signals /\ run'.vetoed = veto /\ pc = "verify"
        /\ pc' = IF veto THEN "observe.case" ELSE "report.case"
    BY <1>1, <1>9 DEF Verified, RunRow
  <2>3. /\ InHand = 1 /\ Proving = 0 /\ Dropping = 0
        /\ InHand' = 1 /\ Proving' = 1 /\ Dropping' = 0
    BY <1>3, <2>2 DEF InHand, Proving, Dropping
  <2>4. /\ d.passed = c.passed + 1 /\ d.blocked = c.blocked /\ d.vetoed = c.vetoed
        /\ d.reported = c.reported /\ d.entered = c.entered
        /\ d.upgraded = c.upgraded
    BY <1>2, <2>1 DEF CounterNames
  <2>5. Booked(d, n, left, InHand', Proving', Dropping')
    <3>1. d \in CounterRow /\ Booked(c, n, left, 1, 0, 0)
      BY <1>4, <2>1, <2>3 DEF StatsRow
    <3> QED
      BY <1>1, <1>2, <2>1, <2>3, <2>4, <3>1, BookPassed
  <2>6. Len(run'.signals) = left
    BY <2>2
  <2> QED
    BY <1>5, <2>1, <2>2, <2>5, <2>6
<1>10. CASE ObserveUpgrade /\ run.vetoed
  <2>1. run' = run /\ stats' = stats /\ pc = "observe.upgrade" /\ pc' = "veto.status"
    BY <1>10 DEF ObserveUpgrade
  <2>2. InHand' = InHand /\ Proving' = Proving /\ Dropping' = Dropping
    BY <1>10, <2>1 DEF InHand, Proving, Dropping
  <2> QED
    BY <1>1, <1>4, <1>5, <2>1, <2>2
<1>11. CASE ObserveUpgrade /\ ~ run.vetoed
  <2> DEFINE ns == IF Earned(cur.fp) THEN {"entered", "upgraded"} ELSE {"entered"}
  <2>1. /\ stats' \in StatsRow /\ UNCHANGED <<stats.tally, stats.total, stats.expired>>
        /\ LevelSum(d) = LevelSum(c) /\ Plus(ns)
    BY <1>1, <1>11, CountedOnce DEF ObserveUpgrade, CounterNames
  <2>2. /\ run'.signals = Tail(run.signals) /\ run.signals # <<>>
        /\ pc = "observe.upgrade" /\ pc' = "candidate"
    BY <1>1, <1>11 DEF ObserveUpgrade, NextSignal, RunRow, IInv, TypeOK, ControlOK
  <2>3. /\ InHand = 1 /\ Proving = 0 /\ Dropping = 1
        /\ InHand' = 0 /\ Proving' = 0 /\ Dropping' = 0
    BY <1>3, <1>11, <2>2 DEF InHand, Proving, Dropping
  <2>4. /\ d.passed = c.passed /\ d.blocked = c.blocked /\ d.vetoed = c.vetoed
        /\ d.reported = c.reported /\ d.entered = c.entered + 1
        /\ d.upgraded <= c.upgraded + 1
    BY <1>2, <2>1 DEF CounterNames
  <2>5. Booked(d, n, left - 1, InHand', Proving', Dropping')
    <3>1. d \in CounterRow /\ Booked(c, n, left, 1, 0, 1)
      BY <1>4, <2>1, <2>3 DEF StatsRow
    <3> QED
      BY <1>1, <1>2, <2>1, <2>3, <2>4, <3>1, BookEntered
  <2>6. Len(run'.signals) = left - 1
    BY <2>2, SignalsLeft
  <2> QED
    BY <1>5, <2>1, <2>2, <2>5, <2>6
<1>12. CASE SetVetoed
  <2>1. /\ stats' \in StatsRow /\ UNCHANGED <<stats.tally, stats.total, stats.expired>>
        /\ LevelSum(d) = LevelSum(c) /\ Plus({"vetoed", "entered"})
    BY <1>1, <1>12, CountedOnce DEF SetVetoed, CounterNames
  <2>2. /\ run'.signals = Tail(run.signals) /\ run.signals # <<>>
        /\ pc = "veto.status" /\ pc' = "candidate"
    BY <1>1, <1>12 DEF SetVetoed, NextSignal, RunRow, IInv, TypeOK, ControlOK
  <2>3. /\ InHand = 1 /\ Proving = 1 /\ Dropping = 0
        /\ InHand' = 0 /\ Proving' = 0 /\ Dropping' = 0
    BY <1>3, <2>2 DEF InHand, Proving, Dropping
  <2>4. /\ d.passed = c.passed /\ d.blocked = c.blocked /\ d.vetoed = c.vetoed + 1
        /\ d.reported = c.reported /\ d.entered = c.entered + 1
        /\ d.upgraded = c.upgraded
    BY <1>2, <2>1 DEF CounterNames
  <2>5. Booked(d, n, left - 1, InHand', Proving', Dropping')
    <3>1. d \in CounterRow /\ Booked(c, n, left, 1, 1, 0)
      BY <1>4, <2>1, <2>3 DEF StatsRow
    <3> QED
      BY <1>1, <1>2, <2>1, <2>3, <2>4, <3>1, BookVetoed
  <2>6. Len(run'.signals) = left - 1
    BY <2>2, SignalsLeft
  <2> QED
    BY <1>5, <2>1, <2>2, <2>5, <2>6
<1>13. CASE SetReportRef
  <2>1. /\ stats' \in StatsRow /\ UNCHANGED <<stats.tally, stats.total, stats.expired>>
        /\ LevelSum(d) = LevelSum(c) /\ Plus({"reported"})
    BY <1>1, <1>13, CountedOnce DEF SetReportRef, CounterNames
  <2>2. /\ run'.signals = Tail(run.signals) /\ run.signals # <<>>
        /\ pc = "report.ref" /\ pc' = "candidate"
    BY <1>1, <1>13 DEF SetReportRef, NextSignal, RunRow, IInv, TypeOK, ControlOK
  <2>3. /\ InHand = 1 /\ Proving = 1 /\ Dropping = 0
        /\ InHand' = 0 /\ Proving' = 0 /\ Dropping' = 0
    BY <1>3, <2>2 DEF InHand, Proving, Dropping
  <2>4. /\ d.passed = c.passed /\ d.blocked = c.blocked /\ d.vetoed = c.vetoed
        /\ d.reported = c.reported + 1 /\ d.entered = c.entered
        /\ d.upgraded = c.upgraded
    BY <1>2, <2>1 DEF CounterNames
  <2>5. Booked(d, n, left - 1, InHand', Proving', Dropping')
    <3>1. d \in CounterRow /\ Booked(c, n, left, 1, 1, 0)
      BY <1>4, <2>1, <2>3 DEF StatsRow
    <3> QED
      BY <1>1, <1>2, <2>1, <2>3, <2>4, <3>1, BookReported
  <2>6. Len(run'.signals) = left - 1
    BY <2>2, SignalsLeft
  <2> QED
    BY <1>5, <2>1, <2>2, <2>5, <2>6
<1> QED
  BY <1>6, <1>7, <1>8, <1>9, <1>10, <1>11, <1>12, <1>13

(* What one more scenario does to the tally. *)
LEMMA ScannedMore ==
    ASSUME NEW t \in TallyRow, NEW u \in TallyRow, NEW n \in Nat, Scanned(t, n),
           u.executed = t.executed + 1,
           u.pass + u.noSignal + u.inconclusive = t.pass + t.noSignal + t.inconclusive + 1
    PROVE  Scanned(u, n)
BY DEF Scanned, TallyRow

LEMMA ScannedSignal ==
    ASSUME NEW t \in TallyRow, NEW u \in TallyRow, NEW n \in Nat, Scanned(t, n),
           u.executed = t.executed + 1, u.pass = t.pass, u.noSignal = t.noSignal,
           u.inconclusive = t.inconclusive
    PROVE  Scanned(u, n + 1)
BY DEF Scanned, TallyRow

(* Scanning: each scenario is tallied, or becomes a signal.                *)
LEMMA ScanStep ==
    ASSUME IInv, Books, Next, Generate
    PROVE  Books'
<1> USE DEF Holding, Closing
<1>0. /\ pc \in {"sentinel", "scan"} /\ pc' \in {"scan", "void"} /\ UNCHANGED batches
  BY DEF Generate, RunSentinels, SkipClue, ScanUnavailable, ScanInconclusive, ScanClean,
     ScanSignal, Scanning, ledger
<1>1. /\ run \in RunRow /\ run.signals \in Seq(SignalRow) /\ stats \in StatsRow
      /\ Len(run.signals) \in Nat /\ stats.tally \in TallyRow
  BY SignalsLeft DEF Books, BooksTyped, StatsRow
<1>2. /\ Scanned(stats.tally, Len(run.signals)) /\ stats.counters = ZeroCounters
      /\ stats.expired = 0 /\ run.sentinel # "triggered"
  BY <1>0 DEF Books, ScanBooks
<1>3. \A i \in DOMAIN run.signals : run.signals[i].level \in {"L1", "L2", "L3"}
  BY DEF Books, BooksTyped
<1>4. ASSUME stats' \in StatsRow, stats'.expired = 0, stats'.counters = ZeroCounters,
             \A i \in DOMAIN run'.signals : run'.signals[i].level \in {"L1", "L2", "L3"},
             \/ pc' = "void" /\ run'.sentinel = "triggered"
             \/ /\ pc' = "scan" /\ run'.sentinel # "triggered"
                /\ Scanned(stats'.tally, Len(run'.signals))
      PROVE  Books'
  <2>1. BooksTyped'
    BY <1>0, <1>4 DEF Books, BooksTyped
  <2> QED
    BY <1>4, <2>1 DEF Books, ScanBooks
<1>5. CASE \E outcome \in Sentinels : RunSentinels(outcome)
  <2>1. PICK outcome \in Sentinels : RunSentinels(outcome)
    BY <1>5
  <2>2. /\ stats' = stats /\ run'.signals = run.signals /\ run'.sentinel = outcome
        /\ pc' = IF outcome = "triggered" THEN "void" ELSE "scan"
    BY <1>1, <2>1 DEF RunSentinels, RunRow
  <2> QED
    BY <1>1, <1>2, <1>3, <1>4, <2>2
<1>6. CASE SkipClue
  <2>1. /\ stats' = stats /\ run'.signals = run.signals /\ run'.sentinel = run.sentinel
        /\ pc' = "scan"
    BY <1>1, <1>6 DEF SkipClue, Advance, Scanning, RunRow
  <2> QED
    BY <1>1, <1>2, <1>3, <1>4, <2>1
<1>7. CASE ScanUnavailable
  <2>1. stats' \in StatsRow /\ UNCHANGED <<stats.counters, stats.total, stats.expired>>
    BY <1>1, <1>7, ExecutedOnce DEF ScanUnavailable
  <2>2. run'.signals = <<>> /\ run'.sentinel = "triggered" /\ pc' = "void"
    BY <1>1, <1>7 DEF ScanUnavailable, RunRow
  <2> QED
    BY <1>2, <1>4, <2>1, <2>2
<1>8. CASE ScanInconclusive \/ ScanClean
  <2>1. PICK field \in {"pass", "noSignal", "inconclusive"} : Tallied(field)
    BY <1>8 DEF ScanInconclusive, ScanClean
  <2>2. /\ stats' \in StatsRow
        /\ UNCHANGED <<stats.counters, stats.total, stats.expired>>
        /\ LET t == stats.tally  u == stats'.tally
           IN  /\ u.executed = t.executed + 1
               /\ u.pass + u.noSignal + u.inconclusive
                    = t.pass + t.noSignal + t.inconclusive + 1
    BY <1>1, <2>1, TalliedOnce
  <2>3. /\ run'.signals = run.signals /\ run'.sentinel = run.sentinel /\ pc' = "scan"
    BY <1>1, <1>8 DEF ScanInconclusive, ScanClean, Advance, Scanning, RunRow
  <2>4. Scanned(stats'.tally, Len(run.signals))
    <3>1. stats'.tally \in TallyRow
      BY <2>2 DEF StatsRow
    <3> QED
      BY <1>1, <1>2, <2>2, <3>1, ScannedMore
  <2> QED
    BY <1>2, <1>3, <1>4, <2>2, <2>3, <2>4
<1>9. ASSUME NEW f \in Fingerprints, ScanSignal(f) PROVE Books'
  <2> DEFINE e == Signal(Plan[run.scan], f)
             q == Append(run.signals, e)
  <2>1. e \in SignalRow /\ e.level \in {"L1", "L2", "L3"}
    BY <1>1, <1>9, SignalType DEF ScanSignal, Scanning, Countable, Signal, RunRow
  <2>2. /\ stats' \in StatsRow
        /\ UNCHANGED <<stats.counters, stats.total, stats.expired>>
        /\ LET t == stats.tally  u == stats'.tally
           IN  /\ u.executed = t.executed + 1
               /\ u.pass = t.pass /\ u.noSignal = t.noSignal
               /\ u.inconclusive = t.inconclusive
    BY <1>1, <1>9, ExecutedOnce DEF ScanSignal
  <2>3. run'.signals = q /\ run'.sentinel = run.sentinel /\ pc' = "scan"
    BY <1>1, <1>9 DEF ScanSignal, Scanning, RunRow
  <2> HIDE DEF e
  <2>4. /\ Len(q) = Len(run.signals) + 1 /\ DOMAIN q = 1 .. Len(q)
        /\ \A i \in 1 .. Len(run.signals) : q[i] = run.signals[i]
        /\ q[Len(run.signals) + 1] = e /\ DOMAIN run.signals = 1 .. Len(run.signals)
    BY <1>1, <2>1, AppendProperties
  <2> HIDE DEF q
  <2>5. \A i \in DOMAIN q : q[i].level \in {"L1", "L2", "L3"}
    BY <1>1, <1>3, <2>1, <2>4
  <2>6. Scanned(stats'.tally, Len(q))
    <3>1. stats'.tally \in TallyRow
      BY <2>2 DEF StatsRow
    <3> QED
      BY <1>1, <1>2, <2>2, <2>4, <3>1, ScannedSignal
  <2> QED
    BY <1>2, <1>4, <2>2, <2>3, <2>5, <2>6
<1> QED
  BY <1>5, <1>6, <1>7, <1>8, <1>9 DEF Generate

(* The batch begins to be funnelled, is void, or gets its row.             *)
LEMMA BatchStep ==
    ASSUME IInv, Books, Next, EnterFunnel \/ VoidBatch \/ CloseBatch
    PROVE  Books'
<1> USE DEF Holding, Closing
<1>1. /\ stats \in StatsRow /\ run \in RunRow /\ run.signals \in Seq(SignalRow)
      /\ Len(run.signals) \in Nat /\ batches \in [BatchIds -> BatchRow]
      /\ \A i \in DOMAIN run.signals : run.signals[i].level \in {"L1", "L2", "L3"}
  BY SignalsLeft DEF Books, BooksTyped
<1>2. run.batch \in BatchIds /\ run.sentinel \in {"skipped", "passed", "triggered"}
  BY <1>1 DEF RunRow
<1>3. CASE EnterFunnel
  <2> DEFINE n == Len(run.signals)
  <2>1. /\ pc = "scan" /\ pc' = "candidate" /\ run' = run /\ batches' = batches
        /\ stats' = [stats EXCEPT !.total = n]
    BY <1>3 DEF EnterFunnel, ledger
  <2>2. /\ stats' \in StatsRow /\ stats'.total = n
        /\ UNCHANGED <<stats.tally, stats.counters, stats.expired>>
    BY <1>1, <2>1 DEF StatsRow
  <2>3. /\ Scanned(stats.tally, n) /\ stats.counters = ZeroCounters /\ stats.expired = 0
    BY <2>1 DEF Books, ScanBooks
  <2>4. Booked(ZeroCounters, n, n, 0, 0, 0)
    <3>1. /\ ZeroCounters.passed = 0 /\ ZeroCounters.blocked = 0
          /\ ZeroCounters.vetoed = 0 /\ ZeroCounters.reported = 0
          /\ ZeroCounters.entered = 0 /\ ZeroCounters.upgraded = 0
      BY DEF ZeroCounters
    <3> QED
      BY <1>1, <3>1, ZeroTyped DEF Booked
  <2>5. InHand' = 0 /\ Proving' = 0 /\ Dropping' = 0
    BY <2>1 DEF InHand, Proving, Dropping, Observing
  <2>6. FunnelBooks'
    BY <2>1, <2>2, <2>3, <2>4, <2>5 DEF FunnelBooks
  <2>7. BooksTyped'
    BY <1>1, <2>1, <2>2 DEF BooksTyped
  <2> QED
    BY <2>1, <2>2, <2>3, <2>6, <2>7 DEF Books, ScanBooks
<1>4. CASE VoidBatch
  <2> DEFINE row == [NoBatch EXCEPT !.sentinel = "triggered",
                                    !.flags = {"sentinel_environment_event"}]
  <2>1. row \in BatchRow
    BY ZeroTyped DEF BatchRow, RedlineFlags
  <2>2. /\ pc = "void" /\ pc' = "expire" /\ stats' = stats
        /\ run'.signals = run.signals /\ run'.sentinel = run.sentinel
        /\ batches' = [batches EXCEPT ![run.batch] = row]
    BY <1>1, <1>4 DEF VoidBatch, UpsertBatch, RunRow
  <2> HIDE DEF row
  <2>3. BooksTyped'
    BY <1>1, <1>2, <2>1, <2>2 DEF BooksTyped
  <2> QED
    BY <2>2, <2>3 DEF Books, ScanBooks
<1>5. CASE CloseBatch
  <2> DEFINE row == [sentinel |-> run.sentinel, signals |-> stats.total,
                     counters |-> stats.counters, expired |-> 0, flags |-> {}]
  <2>1. row \in BatchRow
    BY <1>1, <1>2 DEF BatchRow, StatsRow
  <2>2. /\ pc = "candidate" /\ pc' = "expire" /\ stats' = stats /\ run' = run
        /\ run.signals = <<>>
        /\ batches' = [batches EXCEPT ![run.batch] = row]
    BY <1>5 DEF CloseBatch, UpsertBatch
  <2>3. /\ row.counters = stats.counters /\ row.signals = stats.total /\ row.expired = 0
    OBVIOUS
  <2> HIDE DEF row
  <2>4. /\ batches'[run.batch] = row /\ batches' \in [BatchIds -> BatchRow]
    BY <1>1, <1>2, <2>1, <2>2
  <2>5. /\ InHand = 0 /\ Proving = 0 /\ Dropping = 0
        /\ InHand' = 0 /\ Proving' = 0 /\ Dropping' = 0
    BY <2>2 DEF InHand, Proving, Dropping, Observing
  <2>6. FunnelBooks /\ stats.expired = 0
    BY <2>2 DEF Books
  <2>7. FunnelBooks'
    BY <2>2, <2>5, <2>6 DEF FunnelBooks
  <2>8. RowBooks'
    BY <2>2, <2>3, <2>4 DEF RowBooks
  <2>9. BooksTyped'
    BY <1>1, <2>2, <2>4 DEF BooksTyped
  <2> QED
    BY <2>2, <2>6, <2>7, <2>8, <2>9 DEF Books, ScanBooks
<1> QED
  BY <1>3, <1>4, <1>5

(* The end of run_batch writes the row of the batch two more times, and    *)
(* leaves what was booked alone.                                           *)
LEMMA CloseStep ==
    ASSUME IInv, Books, Next, Close
    PROVE  Books'
<1> USE DEF Closing
<1> DEFINE row == batches[run.batch]
<1>1. /\ stats \in StatsRow /\ run \in RunRow /\ batches \in [BatchIds -> BatchRow]
      /\ run.batch \in BatchIds /\ row \in BatchRow
      /\ \A i \in DOMAIN run.signals : run.signals[i].level \in {"L1", "L2", "L3"}
  BY SignalsLeft DEF Books, BooksTyped, RunRow
<1>2. /\ pc \in Closing \ {"done"} /\ pc' \in Closing \ {"expire"}
  BY DEF Close, ListStale, ExpireOne, MarkEnvironment, DetectEnvironment, PatchBatch,
     DetectRedlines, WriteBrief, PublishBrief, Finish
<1>3. /\ run'.signals = run.signals /\ run'.sentinel = run.sentinel
      /\ run'.batch = run.batch
  BY <1>1 DEF Close, ListStale, ExpireOne, Visited, MarkEnvironment, DetectEnvironment,
     PatchBatch, DetectRedlines, WriteBrief, PublishBrief, Finish, RunRow
<1>4. /\ InHand = 0 /\ Proving = 0 /\ Dropping = 0
      /\ InHand' = 0 /\ Proving' = 0 /\ Dropping' = 0
  BY <1>2 DEF InHand, Proving, Dropping, Observing, Holding
<1>5. ASSUME stats' \in StatsRow, UNCHANGED <<stats.tally, stats.counters, stats.total>>,
             batches' \in [BatchIds -> BatchRow],
             batches'[run.batch].counters = row.counters,
             batches'[run.batch].signals = row.signals,
             run.sentinel # "triggered" /\ RowBooks
               => batches'[run.batch].expired = IF pc' \in {"expiring", "marking"}
                                                THEN 0 ELSE stats'.expired
      PROVE  Books'
  <2>1. BooksTyped'
    BY <1>1, <1>3, <1>5 DEF BooksTyped
  <2>2. ASSUME run.sentinel # "triggered" PROVE FunnelBooks' /\ RowBooks'
    <3>1. FunnelBooks /\ RowBooks
      BY <1>2, <2>2 DEF Books
    <3>2. FunnelBooks'
      BY <1>3, <1>4, <1>5, <3>1 DEF FunnelBooks
    <3>3. RowBooks'
      BY <1>2, <1>3, <1>5, <2>2, <3>1 DEF RowBooks
    <3> QED
      BY <3>2, <3>3
  <2> QED
    BY <1>2, <1>3, <2>1, <2>2 DEF Books, ScanBooks, Holding
<1>6. CASE /\ UNCHANGED <<stats, batches>>
           /\ \/ pc \in {"expire", "expiring", "marking"} /\ pc' \in {"expiring", "marking"}
              \/ /\ pc \in {"redlines", "brief", "brief.queue", "coverage"}
                 /\ pc' \notin {"expire", "expiring", "marking"}
  BY <1>1, <1>5, <1>6 DEF RowBooks
<1>7. CASE \E f \in Fingerprints : ExpireOne(f)
  <2> DEFINE n == stats.expired + 1
  <2>1. /\ pc = "expiring" /\ pc' = "expiring" /\ batches' = batches
        /\ stats' = [stats EXCEPT !.expired = n]
    BY <1>7 DEF ExpireOne
  <2>2. n \in Nat
    BY <1>1 DEF StatsRow
  <2> HIDE DEF n
  <2>3. stats' \in StatsRow /\ UNCHANGED <<stats.tally, stats.counters, stats.total>>
    BY <1>1, <2>1, <2>2 DEF StatsRow
  <2> QED
    BY <1>1, <1>5, <2>1, <2>3 DEF RowBooks
<1>8. CASE PatchBatch
  <2> DEFINE new == [row EXCEPT !.expired = stats.expired]
  <2>1. /\ pc = "marking" /\ pc' = "redlines" /\ stats' = stats
        /\ IF stats.expired = 0 THEN batches' = batches
                                ELSE batches' = [batches EXCEPT ![run.batch] = new]
    BY <1>8 DEF PatchBatch, UpsertBatch
  <2>2. /\ new \in BatchRow /\ new.expired = stats.expired
        /\ new.counters = row.counters /\ new.signals = row.signals
    BY <1>1 DEF BatchRow, StatsRow
  <2> HIDE DEF new
  <2>3. \/ batches' = batches /\ stats.expired = 0
        \/ batches' \in [BatchIds -> BatchRow] /\ batches'[run.batch] = new
    BY <1>1, <2>1, <2>2
  <2> QED
    BY <1>1, <1>5, <2>1, <2>2, <2>3 DEF RowBooks
<1>9. CASE DetectRedlines
  <2> DEFINE flags == Redlines(run.batch)
             new == [row EXCEPT !.flags = flags]
  <2>1. /\ pc = "redlines" /\ pc' = "brief" /\ stats' = stats
        /\ batches' = [batches EXCEPT ![run.batch] = new]
    BY <1>9 DEF DetectRedlines, UpdateRedlineFlags
  <2>2. flags \in SUBSET RedlineFlags
    BY DEF Redlines, RedlineFlags
  <2> HIDE DEF flags
  <2>3. /\ new \in BatchRow /\ new.expired = row.expired
        /\ new.counters = row.counters /\ new.signals = row.signals
    BY <1>1, <2>2 DEF BatchRow
  <2> HIDE DEF new
  <2>4. batches' \in [BatchIds -> BatchRow] /\ batches'[run.batch] = new
    BY <1>1, <2>1, <2>3
  <2> QED
    BY <1>1, <1>5, <2>1, <2>3, <2>4 DEF RowBooks
<1>10. CASE ~ (\/ \E f \in Fingerprints : ExpireOne(f)
               \/ PatchBatch \/ DetectRedlines)
  BY <1>6, <1>10 DEF Close, ListStale, MarkEnvironment, DetectEnvironment, WriteBrief,
     PublishBrief, Finish, ledger
<1> QED
  BY <1>7, <1>8, <1>9, <1>10

LEMMA BooksInit == Init => Books
<1> SUFFICES ASSUME Init PROVE Books
  OBVIOUS
<1>1. BooksTyped
  BY ZeroTyped DEF Init, LedgerInit, BooksTyped, Fresh
<1> QED
  BY <1>1 DEF Init, Books, ScanBooks, Holding, Closing

LEMMA BooksStep == IInv /\ Books /\ [Next]_vars => Books'
<1>1. ASSUME IInv, Books, UNCHANGED vars PROVE Books'
  BY <1>1 DEF vars, ledger, Books, BooksTyped, ScanBooks, FunnelBooks, RowBooks,
     InHand, Proving, Dropping
<1>2. ASSUME IInv, Books, Next, Crash \/ \E b \in BatchIds : Begin(b) PROVE Books'
  <2>1. /\ pc' \in {"idle", "sentinel"} /\ stats' = ZeroStats /\ batches' = batches
        /\ run'.signals = <<>> /\ run'.sentinel = "skipped"
    BY <1>2 DEF Crash, Begin, Fresh, ledger
  <2>2. /\ ZeroStats.counters = ZeroCounters /\ ZeroStats.expired = 0
        /\ Scanned(ZeroStats.tally, 0)
    BY DEF ZeroStats, ZeroTally, Scanned
  <2>3. BooksTyped'
    BY <1>2, <2>1, ZeroTyped DEF Books, BooksTyped
  <2> QED
    BY <2>1, <2>2, <2>3 DEF Books, ScanBooks, Holding, Closing
<1> QED
  BY <1>1, <1>2, ScanStep, FunnelStep, BatchStep, CloseStep DEF Next, Step, Funnel

(* The report's withheld is a difference; its breakdown is a sum. *)
LEMMA WithheldIsListed ==
    ASSUME NEW e \in Nat, NEW filed \in Nat, NEW p \in Nat, NEW u \in Nat, NEW o \in Nat,
           e = p + u + filed + o
    PROVE  (IF e > filed THEN e - filed ELSE 0) = p + u + o
OBVIOUS

(* What the books of a finished batch say. *)
LEMMA BooksBalanced == Books => Accounting
<1> SUFFICES ASSUME Books, pc = "done", run.sentinel # "triggered" PROVE Accounting
  BY DEF Accounting
<1> DEFINE t == stats.tally
           c == stats.counters
           n == stats.total
<1>1. /\ c \in CounterRow /\ t \in TallyRow /\ n \in Nat
      /\ FunnelBooks /\ RowBooks
  BY DEF Books, BooksTyped, StatsRow, Closing
<1>2. Len(run.signals) = 0 /\ InHand = 0 /\ Proving = 0 /\ Dropping = 0
  BY <1>1 DEF RowBooks, InHand, Proving, Dropping, Holding, Observing
<1>3. Scanned(t, n) /\ Booked(c, n, 0, 0, 0, 0)
  BY <1>1, <1>2 DEF FunnelBooks
<1>4. /\ batches[run.batch].counters = c /\ batches[run.batch].signals = n
      /\ batches[run.batch].expired = stats.expired
  BY <1>1 DEF RowBooks
<1> HIDE DEF t, c, n
<1>5. /\ c.passed \in Nat /\ c.blocked \in Nat /\ c.vetoed \in Nat
      /\ c.reported \in Nat /\ c.entered \in Nat /\ c.upgraded \in Nat
      /\ LevelSum(c) \in Nat
  BY <1>1, RowNumbers
<1>6. /\ n = c.passed + c.blocked /\ n = LevelSum(c) /\ c.passed = c.reported + c.vetoed
      /\ c.entered = c.blocked + c.vetoed /\ c.upgraded <= c.blocked
  BY <1>1, <1>3, <1>5 DEF Booked
<1>7. /\ t.executed = t.pass + (t.noSignal + t.inconclusive) + c.reported + c.entered
      /\ t.executed \in Nat /\ t.pass \in Nat /\ t.noSignal + t.inconclusive \in Nat
  BY <1>1, <1>3, <1>5, <1>6 DEF Scanned, TallyRow
<1>8. LET told == Summarize(t, c)
      IN  told.withheld = told.passed + told.undecided + told.observed
  BY <1>5, <1>7, WithheldIsListed DEF Summarize
<1> QED
  BY <1>3, <1>4, <1>6, <1>8 DEF Accounting, t, c, n

(* The books of a batch balance: what was executed is what was passed,     *)
(* silent, inconclusive or signalled, every signal was booked once as what *)
(* became of it, the row in the ledger agrees, and so does the report made *)
(* from the result (funnel.py, orchestrator.py:run_batch, fp_report.py).   *)
THEOREM BooksBalance == Spec => []Accounting
BY InvInit, InvStep, BooksInit, BooksStep, BooksBalanced, PTL DEF Spec

(* The sweep of the observation zone at the end of a batch.                *)
LEMMA SweepStep == EnvironmentMin # 0 /\ IInv /\ Books /\ Sweep /\ [Next]_vars => Sweep'
<1> USE DEF Swept
<1>1. ASSUME Sweep, UNCHANGED vars PROVE Sweep'
  BY <1>1 DEF vars, ledger, Sweep, Storm, Stormy, ListCases, HitsForBatch, Overdue
<1> SUFFICES ASSUME EnvironmentMin # 0, IInv, Books, Sweep, Next PROVE Sweep'
  BY <1>1
<1>2. /\ run \in RunRow /\ cases \in [Fingerprints -> CaseRow]
      /\ run.batch \in BatchIds /\ EnvironmentMin \in Nat
  BY PolicyAssumption DEF IInv, TypeOK, TablesOK, ControlOK, RunRow
<1>3. CASE Crash \/ \E b \in BatchIds : Begin(b)
  BY <1>3 DEF Crash, Begin, Fresh, Sweep
<1>4. CASE Generate \/ Funnel
  <2>1. /\ pc \notin Swept /\ pc' \notin Swept /\ pc' # "expiring"
    BY <1>4 DEF Generate, RunSentinels, SkipClue, ScanUnavailable, ScanInconclusive,
       ScanClean, ScanSignal, Scanning, Funnel, EnterFunnel, VoidBatch, TakeSignal,
       Reproduced, NotReproduced, Verified, ObserveCase, ObserveHit, ObserveUpgrade,
       SetVetoed, ReportCase, ReportHit, Publish, SetReportRef, CloseBatch
  <2>2. run'.event => run'.sentinel = "triggered"
    <3>1. run.event => run.sentinel = "triggered"
      BY <2>1 DEF Sweep
    <3>2. CASE VoidBatch
      <4>1. run.sentinel = "triggered" /\ run'.sentinel = run.sentinel
        BY <1>2, <3>2 DEF VoidBatch, Books, RunRow
      <4> QED
        BY <4>1
    <3>3. CASE \E outcome \in Sentinels : RunSentinels(outcome)
      <4>1. run.sentinel # "triggered" /\ run'.event = run.event
        BY <1>2, <3>3 DEF RunSentinels, Books, ScanBooks, RunRow
      <4> QED
        BY <3>1, <4>1
    <3>4. CASE ScanUnavailable
      BY <1>2, <3>4 DEF ScanUnavailable, RunRow
    <3>5. CASE ~ (VoidBatch \/ ScanUnavailable \/ \E outcome \in Sentinels : RunSentinels(outcome))
      <4>1. run'.event = run.event /\ run'.sentinel = run.sentinel
        BY <1>2, <1>4, <3>5 DEF Generate, SkipClue, Advance, ScanInconclusive,
           ScanClean, ScanSignal, Funnel, EnterFunnel, TakeSignal,
           Reproduced, NotReproduced, Verified, ObserveCase, ObserveHit, ObserveUpgrade,
           NextSignal, SetVetoed, ReportCase, ReportHit, Publish, SetReportRef,
           CloseBatch, RunRow
      <4> QED
        BY <3>1, <4>1
    <3> QED
      BY <3>2, <3>3, <3>4, <3>5
  <2> QED
    BY <2>1, <2>2 DEF Sweep
<1>5. ASSUME NEW aged \in SUBSET Fingerprints, ListStale(aged) PROVE Sweep'
  <2>1. /\ pc = "expire" /\ pc' = "expiring" /\ cases' = cases
        /\ run'.batch = run.batch /\ run'.event = run.event
        /\ run'.sentinel = run.sentinel
        /\ \A f \in ListCases("observing") : Overdue(f) => f \in run'.pending
    BY <1>2, <1>5 DEF ListStale, ledger, RunRow
  <2> QED
    BY <2>1 DEF Sweep, ListCases, Overdue
<1>6. ASSUME NEW f \in Fingerprints, ExpireOne(f) \/ MarkEnvironment(f) PROVE Sweep'
  <2>1. PICK st \in {"expired", "environment-event"} :
            cases' = [cases EXCEPT ![f].status = st]
    BY <1>6 DEF ExpireOne, MarkEnvironment, SetCaseStatus
  <2>2. /\ cases'[f].status # "observing"
        /\ \A g \in Fingerprints : cases'[g].last = cases[g].last
        /\ \A g \in Fingerprints \ {f} : cases'[g] = cases[g]
    BY <1>2, <2>1 DEF CaseRow
  <2>3. ListCases("observing")' = ListCases("observing") \ {f}
    BY <2>2 DEF ListCases
  <2>4. /\ pc' = pc /\ hits' = hits /\ pc \in {"expiring", "marking"} /\ f \in run.pending
        /\ run'.batch = run.batch /\ run'.event = run.event
        /\ run'.sentinel = run.sentinel /\ run'.pending = run.pending \ {f}
    BY <1>2, <1>6 DEF ExpireOne, MarkEnvironment, Visited, RunRow
  <2>5. \A g \in Fingerprints : Overdue(g)' = Overdue(g)
    BY <2>2, <2>4 DEF Overdue
  <2>6. Storm' = Storm \ {f}
    BY <2>3, <2>4 DEF Storm, HitsForBatch
  <2> QED
    BY <2>3, <2>4, <2>5, <2>6 DEF Sweep, ListCases
<1>7. CASE DetectEnvironment
  <2>1. /\ pc = "expiring" /\ pc' = "marking" /\ cases' = cases /\ hits' = hits
        /\ run.pending = {}
        /\ run'.batch = run.batch /\ run'.sentinel = run.sentinel
    BY <1>2, <1>7 DEF DetectEnvironment, ledger, RunRow
  <2>2. Storm' = Storm /\ ListCases("observing")' = ListCases("observing")
    BY <2>1 DEF Storm, ListCases, HitsForBatch
  <2>3. \A f \in Fingerprints : Overdue(f)' = Overdue(f)
    BY <2>1 DEF Overdue
  <2>4. ASSUME run.sentinel # "triggered"
        PROVE  \/ Storm \subseteq run'.pending
               \/ ~ Stormy /\ run'.pending = {}
    <3>1. ~ run.event
      BY <2>1, <2>4 DEF Sweep
    <3> QED
      BY <1>2, <1>7, <2>1, <3>1 DEF DetectEnvironment, RunRow
  <2> QED
    BY <2>1, <2>2, <2>3, <2>4 DEF Sweep, ListCases, Stormy
<1>8. CASE PatchBatch
  <2>1. /\ pc = "marking" /\ pc' = "redlines" /\ run.pending = {}
        /\ UNCHANGED <<cases, hits, run>>
    BY <1>8 DEF PatchBatch
  <2>2. /\ Storm' = Storm /\ ListCases("observing")' = ListCases("observing")
        /\ \A f \in Fingerprints : Overdue(f)' = Overdue(f)
    BY <2>1 DEF Storm, ListCases, HitsForBatch, Overdue
  <2>3. Storm = {} => ~ Stormy
    BY <1>2, FS_EmptySet DEF Stormy
  <2> QED
    BY <2>1, <2>2, <2>3 DEF Sweep, ListCases, Stormy
<1>9. CASE DetectRedlines \/ WriteBrief \/ PublishBrief \/ Finish
  <2>1. /\ pc \in Swept \ {"marking"} /\ pc' \in Swept \ {"marking"}
        /\ UNCHANGED <<cases, hits, run>>
    BY <1>9 DEF DetectRedlines, WriteBrief, PublishBrief, Finish, ledger
  <2>2. /\ Storm' = Storm /\ ListCases("observing")' = ListCases("observing")
        /\ \A f \in Fingerprints : Overdue(f)' = Overdue(f)
    BY <2>1 DEF Storm, ListCases, HitsForBatch, Overdue
  <2> QED
    BY <2>1, <2>2 DEF Sweep, ListCases, Stormy
<1> QED
  BY <1>3, <1>4, <1>5, <1>6, <1>7, <1>8, <1>9 DEF Next, Step, Close

(* A finished batch leaves nothing in the zone that one of its exits       *)
(* applies to, when an environment event needs at least one failure        *)
(* (observation.py:expire_stale, detect_batch_environment_event).          *)
THEOREM ZoneIsSwept ==
    ASSUME EnvironmentMin # 0
    PROVE  Spec => []ZoneSwept
<1>1. Init => Sweep
  BY DEF Init, Fresh, Sweep, Swept
<1>2. IInv /\ Sweep => ZoneSwept
  <2> SUFFICES ASSUME IInv, Sweep, pc = "done" PROVE ZoneSwept
    BY DEF ZoneSwept
  <2>1. /\ \A f \in ListCases("observing") : ~ Overdue(f)
        /\ run.sentinel # "triggered" => ~ Stormy
    BY DEF Sweep, Swept
  <2>2. /\ run.batch \in Nat /\ \A f \in Fingerprints : cases[f].last \in Nat
    BY MaxBatchAssumption
       DEF IInv, TypeOK, TablesOK, ControlOK, RunRow, CaseRow, BatchIds
  <2> QED
    BY <2>1, <2>2, PolicyAssumption DEF ZoneSwept, Overdue, ListCases
<1>3. IInv /\ Books /\ Sweep /\ [Next]_vars => Sweep'
  BY SweepStep
<1> QED
  BY <1>1, <1>2, <1>3, InvInit, InvStep, BooksInit, BooksStep, PTL DEF Spec

(* What happens to a void batch: it goes on to its end, which writes no    *)
(* hit and appends nothing but the brief.                                  *)
LEMMA VoidStep ==
    ASSUME IInv, VoidEnds, Next
    PROVE  /\ VoidEnds'
           /\ run.sentinel = "triggered" => hits' = hits /\ BugEvents' = BugEvents
<1>1. TypeOK /\ run \in RunRow
  BY DEF IInv, TypeOK, ControlOK
<1>2. CASE Crash \/ \E b \in BatchIds : Begin(b)
  BY <1>2 DEF Crash, Begin, Fresh, ledger, VoidEnds, BugEvents
<1>3. CASE Generate
  <2>1. pc \in {"sentinel", "scan"}
    BY <1>3 DEF Generate, RunSentinels, SkipClue, ScanUnavailable, ScanInconclusive,
       ScanClean, ScanSignal, Scanning
  <2>2. run.sentinel # "triggered"
    BY <2>1 DEF VoidEnds, Closing
  <2>3. ASSUME NEW outcome \in Sentinels, RunSentinels(outcome) PROVE VoidEnds'
    <3>1. run'.sentinel = outcome
      BY <1>1, <2>3 DEF RunSentinels, RunRow
    <3> QED
      BY <2>3, <3>1 DEF RunSentinels, VoidEnds
  <2>4. ScanUnavailable => VoidEnds'
    BY DEF ScanUnavailable, VoidEnds
  <2>5. ASSUME SkipClue \/ ScanInconclusive \/ ScanClean \/ \E f \in Fingerprints : ScanSignal(f)
        PROVE  VoidEnds'
    <3>1. Advance => run'.sentinel = run.sentinel
      BY <1>1 DEF Advance, RunRow
    <3>2. ASSUME NEW f \in Fingerprints, ScanSignal(f) PROVE run'.sentinel = run.sentinel
      BY <1>1, <3>2 DEF ScanSignal, RunRow
    <3>3. run'.sentinel = run.sentinel
      BY <2>5, <3>1, <3>2 DEF SkipClue, ScanInconclusive, ScanClean
    <3> QED
      BY <2>2, <3>3 DEF VoidEnds
  <2> QED
    BY <1>3, <2>2, <2>3, <2>4, <2>5 DEF Generate
<1>4. CASE Funnel /\ ~ VoidBatch
  <2>1. pc \in Holding \cup {"scan", "candidate"}
    BY <1>4 DEF Funnel, EnterFunnel, TakeSignal, Reproduced, NotReproduced, Verified,
       ObserveCase, ObserveHit, ObserveUpgrade, SetVetoed, ReportCase, ReportHit,
       Publish, SetReportRef, CloseBatch, Holding
  <2>2. run.sentinel # "triggered"
    BY <2>1 DEF Holding, VoidEnds, Closing
  <2>3. run'.sentinel = run.sentinel
    <3>1. CASE NextSignal \/ UNCHANGED run
      BY <1>1, <3>1 DEF NextSignal, RunRow
    <3>2. CASE TakeSignal \/ Reproduced \/ ObserveCase \/ ReportCase
      BY <1>1, <3>2 DEF TakeSignal, Reproduced, ObserveCase, ReportCase, RunRow
    <3>3. ASSUME NEW mismatch \in BOOLEAN, NEW veto \in BOOLEAN, Verified(mismatch, veto)
          PROVE  run'.sentinel = run.sentinel
      BY <1>1, <3>3 DEF Verified, RunRow
    <3>4. CASE ~ (TakeSignal \/ Reproduced \/ ObserveCase \/ ReportCase
                  \/ \E mismatch, veto \in BOOLEAN : Verified(mismatch, veto))
      <4>1. NextSignal \/ UNCHANGED run
        BY <1>4, <3>4 DEF Funnel, EnterFunnel, NotReproduced, ObserveHit, ObserveUpgrade,
           SetVetoed, ReportHit, Publish, SetReportRef, CloseBatch
      <4> QED
        BY <3>1, <4>1
    <3> QED
      BY <3>2, <3>3, <3>4
  <2> QED
    BY <2>2, <2>3 DEF VoidEnds
<1>5. CASE VoidBatch \/ Close
  <2>1. /\ hits' = hits /\ pc' \in Closing /\ ~ Publish
    BY <1>5 DEF VoidBatch, Close, ListStale, ExpireOne, MarkEnvironment,
       DetectEnvironment, PatchBatch, DetectRedlines, WriteBrief, PublishBrief, Finish,
       Publish, Closing, ledger
  <2>2. BugEvents' = BugEvents
    BY <1>1, <2>1, QueueChanges
  <2> QED
    BY <2>1, <2>2 DEF VoidEnds
<1> QED
  BY <1>2, <1>3, <1>4, <1>5 DEF Next, Step

(* Once the environment was lost, a batch files no report and records no   *)
(* hit (orchestrator.py:run_batch, the branch of a triggered sentinel).    *)
THEOREM VoidBatchesFileNothing == Spec => VoidFilesNothing
<1>1. Init => VoidEnds
  BY DEF Init, Fresh, VoidEnds
<1>2. IInv /\ VoidEnds /\ [Next]_vars => VoidEnds'
  <2>1. ASSUME VoidEnds, UNCHANGED vars PROVE VoidEnds'
    BY <2>1 DEF vars, VoidEnds
  <2> QED
    BY <2>1, VoidStep
<1>3. IInv /\ VoidEnds /\ [Next]_vars
        => [run.sentinel = "triggered" /\ run' # Fresh(run.batch)
              => /\ hits' = hits
                 /\ {i \in DOMAIN queue' : queue'[i].kind = "bug_report"} = BugEvents]_vars
  BY VoidStep DEF BugEvents
<1> QED
  BY <1>1, <1>2, <1>3, InvInit, InvStep, PTL DEF Spec, VoidFilesNothing

-----------------------------------------------------------------------------
(* Why a batch ends *)

LEMMA NeverPastStep == ASSUME IInv, NeverPast, [Next]_vars PROVE NeverPast'
<1>1. TypeOK /\ run \in RunRow
  BY DEF IInv, TypeOK, ControlOK
<1>2. CASE TakeSignal
  <2>1. run'.matched = 0 /\ run'.signals = run.signals /\ run.signals # <<>>
    BY <1>1, <1>2 DEF TakeSignal, RunRow
  <2>2. cur' = cur /\ cur.required \in Nat
    BY <1>1, <2>1, CurrentSignal DEF cur
  <2> QED
    BY <2>1, <2>2 DEF NeverPast
<1>3. CASE Reproduced
  <2>1. /\ run'.matched = run.matched + 1 /\ run'.signals = run.signals
        /\ pc = "verify" /\ run.matched < cur.required /\ run.matched \in Nat
    BY <1>1, <1>3 DEF Reproduced, RunRow
  <2>2. cur' = cur /\ cur.required \in Nat
    BY <1>1, <2>1, CurrentSignal DEF cur, Holding
  <2> QED
    BY <2>1, <2>2 DEF NeverPast
<1>4. CASE UNCHANGED vars
  BY <1>4 DEF vars, NeverPast, cur
<1>5. ASSUME Next, pc' = "verify" PROVE TakeSignal \/ Reproduced
  BY <1>5 DEF Next, Step, Generate, Funnel, Close, Begin, Crash, RunSentinels,
     SkipClue, ScanUnavailable, ScanInconclusive, ScanClean, ScanSignal, Scanning,
     EnterFunnel, VoidBatch, NotReproduced, Verified, ObserveCase, ObserveHit,
     ObserveUpgrade, SetVetoed, ReportCase, ReportHit, Publish, SetReportRef,
     CloseBatch, ListStale, ExpireOne, MarkEnvironment, DetectEnvironment,
     PatchBatch, DetectRedlines, WriteBrief, PublishBrief, Finish
<1> QED
  BY <1>2, <1>3, <1>4, <1>5 DEF NeverPast

(* The funnel never counts more matching reruns of a signal than it asks   *)
(* for, so that it is not stuck before it (funnel.py:                      *)
(* run_reproduction_validation).                                           *)
THEOREM RerunsNeverPass == Spec => []NeverPast
<1>1. Init => NeverPast
  BY DEF Init, NeverPast
<1> QED
  BY <1>1, NeverPastStep, Invariance, PTL DEF Spec

LEMMA NearerInScan == ASSUME IInv, Generate PROVE Nearer
<1>1. run \in RunRow /\ run.scan \in Nat /\ Len(Plan) \in Nat
  BY PlanAssumption DEF IInv, TypeOK, ControlOK, RunRow
<1>2. ASSUME NEW outcome \in Sentinels, RunSentinels(outcome) PROVE Nearer
  <2>1. run'.batch = run.batch /\ pc = "sentinel" /\ pc' \in {"scan", "void"}
    BY <1>1, <1>2 DEF RunSentinels, RunRow
  <2> QED
    BY <2>1 DEF Nearer, Stage, Holding
<1>3. CASE ScanUnavailable
  <2>1. run'.batch = run.batch /\ pc = "scan" /\ pc' = "void"
    BY <1>1, <1>3 DEF ScanUnavailable, Scanning, RunRow
  <2> QED
    BY <2>1 DEF Nearer, Stage, Holding
<1>4. ASSUME \/ SkipClue \/ ScanInconclusive \/ ScanClean
             \/ \E f \in Fingerprints : ScanSignal(f)
      PROVE  Nearer
  <2>1. /\ pc = "scan" /\ pc' = "scan" /\ run.scan <= Len(Plan)
        /\ run'.batch = run.batch /\ run'.scan = run.scan + 1
    BY <1>1, <1>4 DEF SkipClue, ScanInconclusive, ScanClean, ScanSignal, Scanning, Advance, RunRow
  <2> QED
    BY <1>1, <2>1 DEF Nearer
<1> QED
  BY <1>2, <1>3, <1>4 DEF Generate

(* A step of the funnel that goes on with the same signal.                 *)
LEMMA NearerWithSignal ==
    ASSUME IInv,
           \/ TakeSignal \/ Reproduced \/ NotReproduced
           \/ \E mismatch, veto \in BOOLEAN : Verified(mismatch, veto)
           \/ ObserveCase \/ ObserveHit \/ ReportCase \/ ReportHit \/ Publish
           \/ ObserveUpgrade /\ run.vetoed
    PROVE  Nearer
<1>1. TypeOK /\ run \in RunRow /\ run.matched \in Nat
  BY DEF IInv, TypeOK, ControlOK, RunRow
<1>2. run'.batch = run.batch /\ run'.signals = run.signals
  BY <1>1 DEF RunRow, TakeSignal, Reproduced, NotReproduced, Verified, ObserveCase, ObserveHit,
              ObserveUpgrade, ReportCase, ReportHit, Publish
<1>3. Stage' = 8 /\ Stage = 8
  BY DEF TakeSignal, Reproduced, NotReproduced, Verified, ObserveCase, ObserveHit,
         ObserveUpgrade, ReportCase, ReportHit, Publish, Stage, Holding
<1>4. SameSignals
  <2>1. CASE Reproduced
    <3>1. /\ pc = "verify" /\ pc' = "verify" /\ run'.matched = run.matched + 1
          /\ run.matched < cur.required
      BY <1>1, <2>1 DEF Reproduced, RunRow
    <3>2. cur.required \in Nat
      BY <1>1, <3>1, CurrentSignal DEF Holding
    <3> QED
      BY <1>1, <1>2, <3>1, <3>2 DEF SameSignals
  <2>2. CASE ~ Reproduced
    <3>1. \/ pc = "candidate" /\ pc' = "verify"
          \/ pc = "verify" /\ pc' \in {"observe.case", "report.case"}
          \/ pc = "observe.case" /\ pc' = "observe.hit"
          \/ pc = "observe.hit" /\ pc' = "observe.upgrade"
          \/ pc = "observe.upgrade" /\ pc' = "veto.status"
          \/ pc = "report.case" /\ pc' = "report.hit"
          \/ pc = "report.hit" /\ pc' = "publish"
          \/ pc = "publish" /\ pc' = "report.ref"
      BY <2>2 DEF TakeSignal, NotReproduced, Verified, ObserveCase, ObserveHit,
         ObserveUpgrade, ReportCase, ReportHit, Publish
    <3>2. Place' < Place
      BY <3>1 DEF Place
    <3> QED
      BY <1>2, <3>2 DEF SameSignals
  <2> QED
    BY <2>1, <2>2
<1> QED
  BY <1>2, <1>3, <1>4 DEF Nearer

(* A step that is done with its signal.                                    *)
LEMMA NearerWithNext ==
    ASSUME IInv, SetVetoed \/ SetReportRef \/ (ObserveUpgrade /\ ~ run.vetoed)
    PROVE  Nearer
<1>1. /\ TypeOK /\ run \in RunRow /\ run.signals \in Seq(SignalRow) /\ run.signals # <<>>
  BY DEF IInv, TypeOK, ControlOK, RunRow, Holding, SetVetoed, SetReportRef, ObserveUpgrade
<1>2. run'.batch = run.batch /\ run'.signals = Tail(run.signals)
  BY <1>1 DEF RunRow, SetVetoed, SetReportRef, ObserveUpgrade, NextSignal
<1>3. Len(run.signals) \in Nat /\ Len(Tail(run.signals)) = Len(run.signals) - 1
  BY <1>1, HeadTailProperties
<1>4. Stage' = 8 /\ Stage = 8
  BY DEF SetVetoed, SetReportRef, ObserveUpgrade, Stage, Holding
<1> QED
  BY <1>2, <1>3, <1>4 DEF Nearer

LEMMA NearerInFunnel == ASSUME IInv, Funnel PROVE Nearer
<1>1. run \in RunRow
  BY DEF IInv, TypeOK, ControlOK
<1>2. CASE EnterFunnel \/ VoidBatch \/ CloseBatch
  <2>1. run'.batch = run.batch
    BY <1>1, <1>2 DEF EnterFunnel, VoidBatch, CloseBatch, RunRow
  <2>2. \/ pc = "scan" /\ pc' = "candidate"
        \/ pc \in {"void", "candidate"} /\ pc' = "expire"
    BY <1>2 DEF EnterFunnel, VoidBatch, CloseBatch
  <2> QED
    BY <2>1, <2>2 DEF Nearer, Stage, Holding
<1>3. ASSUME \/ TakeSignal \/ Reproduced \/ NotReproduced
             \/ \E mismatch, veto \in BOOLEAN : Verified(mismatch, veto)
             \/ ObserveCase \/ ObserveHit \/ ReportCase \/ ReportHit \/ Publish
      PROVE  Nearer
  BY <1>3, NearerWithSignal
<1>4. CASE ObserveUpgrade \/ SetVetoed \/ SetReportRef
  BY <1>4, NearerWithSignal, NearerWithNext
<1> QED
  BY <1>2, <1>3, <1>4 DEF Funnel

LEMMA NearerAtEnd == ASSUME IInv, Close PROVE Nearer
<1>1. run \in RunRow
  BY DEF IInv, TypeOK, ControlOK
<1>2. ASSUME NEW f \in Fingerprints, ExpireOne(f) \/ MarkEnvironment(f) PROVE Nearer
  <2>1. /\ run'.batch = run.batch /\ run'.pending = run.pending \ {f} /\ f \in run.pending
        /\ pc \in {"expiring", "marking"} /\ pc' = pc
    BY <1>1, <1>2 DEF ExpireOne, MarkEnvironment, Visited, RunRow
  <2> QED
    BY <2>1 DEF Nearer
<1>3. ASSUME NEW aged, ListStale(aged) PROVE Nearer
  <2>1. run'.batch = run.batch /\ pc = "expire" /\ pc' = "expiring"
    BY <1>1, <1>3 DEF ListStale, RunRow
  <2> QED
    BY <2>1 DEF Nearer, Stage, Holding
<1>4. CASE DetectEnvironment
  <2>1. run'.batch = run.batch /\ pc = "expiring" /\ pc' = "marking"
    BY <1>1, <1>4 DEF DetectEnvironment, RunRow
  <2> QED
    BY <2>1 DEF Nearer, Stage, Holding
<1>5. CASE PatchBatch \/ DetectRedlines \/ WriteBrief \/ PublishBrief \/ Finish
  <2>1. /\ run' = run
        /\ \/ pc = "marking" /\ pc' = "redlines"
           \/ pc = "redlines" /\ pc' = "brief"
           \/ pc = "brief" /\ pc' = "brief.queue"
           \/ pc = "brief.queue" /\ pc' = "coverage"
           \/ pc = "coverage" /\ pc' = "done"
    BY <1>5 DEF PatchBatch, DetectRedlines, WriteBrief, PublishBrief, Finish
  <2> QED
    BY <2>1 DEF Nearer, Stage, Holding
<1> QED
  BY <1>2, <1>3, <1>4, <1>5 DEF Close

(* A running batch always gets nearer to its end: the safety half of       *)
(* BatchEnds, for every plan, policy and number of reruns.                 *)
THEOREM BatchOnlyGetsNearer == Spec => EverNearer
<1>1. ASSUME IInv, pc \notin {"done", "idle"}, Next PROVE Nearer
  <2>1. CASE Crash
    <3>1. run'.batch = run.batch /\ pc' = "idle"
      BY <2>1 DEF Crash, Fresh
    <3> QED
      BY <3>1 DEF Nearer
  <2>2. CASE \E b \in BatchIds : Begin(b)
    BY <1>1, <2>2 DEF Begin
  <2> QED
    BY <1>1, <2>1, <2>2, NearerInScan, NearerInFunnel, NearerAtEnd DEF Next, Step
<1>2. IInv /\ [Next]_vars => [pc \notin {"done", "idle"} => Nearer]_vars
  BY <1>1
<1> QED
  BY <1>2, Invariance, PTL DEF Spec, EverNearer

-----------------------------------------------------------------------------
(* Callers that use no batch id twice *)

(* Beside Publish only PublishBrief appends to the queue.                  *)
LEMMA QueueIsExtended ==
    ASSUME TypeOK, Next
    PROVE  \/ UNCHANGED queue
           \/ \E e : queue' = Append(queue, e) /\ e.kind = "bug_report"
           \/ /\ PublishBrief
              /\ \E e : /\ queue' = Append(queue, e) /\ e.kind = "batch_brief"
                        /\ e.batch = run.batch
<1>1. CASE Publish
  <2>1. queue' = Append(queue, BugEvent(cur.fp)) /\ BugEvent(cur.fp).kind = "bug_report"
    BY <1>1 DEF Publish, BugEvent
  <2> QED
    BY <2>1
<1>2. CASE PublishBrief
  <2>1. /\ queue' = Append(queue, BriefOf(run.batch))
        /\ BriefOf(run.batch).kind = "batch_brief" /\ BriefOf(run.batch).batch = run.batch
    BY <1>2 DEF PublishBrief, BriefOf
  <2> QED
    BY <1>2, <2>1
<1>3. Publish \/ PublishBrief \/ UNCHANGED queue
  BY StepKinds DEF Writes, ObserveCase, ObserveHit, ObserveUpgrade, SetVetoed,
     ReportCase, ReportHit, SetReportRef, ExpireOne, MarkEnvironment,
     NotReproduced, Verified
<1> QED
  BY <1>1, <1>2, <1>3

(* No step but the call of run_batch changes the batch or the attempts.    *)
LEMMA BatchStays ==
    ASSUME IInv, Next
    PROVE  /\ run.batch \in Nat /\ run'.batch \in Nat
           /\ \/ /\ run'.batch = run.batch /\ UNCHANGED attempts
                 /\ pc \notin {"idle", "done"}
                 /\ pc = "coverage" => pc' \in {"idle", "done"}
              \/ /\ attempts' = attempts + 1 /\ UNCHANGED queue /\ run'.batch >= run.batch
                 /\ pc' = "sentinel"
<1>1. run \in RunRow /\ run.batch \in Nat
  BY DEF IInv, TypeOK, ControlOK, RunRow, BatchIds
<1>2. ASSUME NEW b \in BatchIds, Begin(b)
      PROVE  /\ attempts' = attempts + 1 /\ UNCHANGED queue /\ pc' = "sentinel"
             /\ run'.batch \in Nat /\ run'.batch >= run.batch
  BY <1>2 DEF Begin, Fresh, BatchIds
<1>3. CASE Crash
  BY <1>1, <1>3 DEF Crash, Fresh
<1>4. CASE Step
  <2>1. run'.batch = run.batch
    BY <1>4, NearerInScan, NearerInFunnel, NearerAtEnd DEF Step, Nearer
  <2>2. UNCHANGED attempts /\ pc \notin {"idle", "done"} /\ (pc = "coverage" => pc' = "done")
    BY <1>4 DEF Step, Generate, Funnel, Close, RunSentinels,
       SkipClue, ScanUnavailable, ScanInconclusive, ScanClean, ScanSignal, Scanning,
       EnterFunnel, VoidBatch, TakeSignal, Reproduced, NotReproduced, Verified, ObserveCase,
       ObserveHit, ObserveUpgrade, SetVetoed, ReportCase, ReportHit, Publish, SetReportRef,
       CloseBatch, ListStale, ExpireOne, MarkEnvironment, DetectEnvironment,
       PatchBatch, DetectRedlines, WriteBrief, PublishBrief, Finish
  <2> QED
    BY <1>1, <2>1, <2>2
<1> QED
  BY <1>1, <1>2, <1>3, <1>4 DEF Next

(* A running batch leaves the briefs of the earlier ones behind it.        *)
LEMMA BriefsStayBehind ==
    ASSUME IInv, BriefsBehind, Next,
           attempts' # attempts /\ attempts # 0 => run'.batch > run.batch
    PROVE  /\ attempts' \in Nat /\ (attempts' = 0 => pc' = "idle" /\ queue' = <<>>)
           /\ \A i \in DOMAIN queue \ BugEvents :
                /\ queue[i].batch \in Nat /\ queue[i].batch <= run'.batch
                /\ pc' \notin {"idle", "coverage", "done"} => queue[i].batch < run'.batch
<1>1. /\ attempts \in Nat
      /\ run.batch \in Nat /\ run'.batch \in Nat
  BY BatchStays DEF BriefsBehind
<1>2. CASE /\ run'.batch = run.batch /\ UNCHANGED attempts
           /\ pc \notin {"idle", "done"}
           /\ pc = "coverage" => pc' \in {"idle", "done"}
  <2>1. attempts # 0
    BY <1>2 DEF BriefsBehind
  <2> QED
    BY <1>1, <1>2, <2>1 DEF BriefsBehind
<1>3. CASE /\ attempts' = attempts + 1 /\ UNCHANGED queue /\ run'.batch >= run.batch
           /\ pc' = "sentinel"
  <2>1. CASE attempts = 0
    BY <1>1, <1>3, <2>1 DEF BriefsBehind
  <2>2. CASE attempts # 0
    <3>1. run'.batch > run.batch
      BY <1>1, <1>3, <2>2
    <3>2. ASSUME NEW i \in DOMAIN queue \ BugEvents
          PROVE  queue[i].batch \in Nat /\ queue[i].batch < run'.batch
      BY <1>1, <3>1 DEF BriefsBehind
    <3> QED
      BY <1>1, <1>3, <3>2
  <2> QED
    BY <2>1, <2>2
<1> QED
  BY <1>2, <1>3, BatchStays

LEMMA BriefsBehindStep ==
    ASSUME IInv, BriefsBehind, DistinctEvents, Next,
           attempts' # attempts /\ attempts # 0 => run'.batch > run.batch
    PROVE  BriefsBehind' /\ DistinctEvents'
<1>1. TypeOK /\ DistinctBugEvents' /\ IInv'
  BY InvStep DEF IInv
<1>2. /\ attempts' \in Nat /\ (attempts' = 0 => pc' = "idle" /\ queue' = <<>>)
      /\ \A i \in DOMAIN queue \ BugEvents :
           /\ queue[i].batch \in Nat /\ queue[i].batch <= run'.batch
           /\ pc' \notin {"idle", "coverage", "done"} => queue[i].batch < run'.batch
  BY BriefsStayBehind
<1>3. CASE UNCHANGED queue
  <2>1. BugEvents' = BugEvents
    BY <1>3 DEF BugEvents
  <2> QED
    BY <1>2, <1>3, <2>1 DEF BriefsBehind, DistinctEvents
<1>4. ASSUME NEW e, queue' = Append(queue, e), e.kind = "bug_report"
      PROVE  BriefsBehind' /\ DistinctEvents'
  <2>1. /\ DOMAIN queue = 1 .. Len(queue) /\ Len(queue) \in Nat
        /\ DOMAIN queue' = 1 .. Len(queue) + 1
        /\ \A i \in DOMAIN queue : queue'[i] = queue[i]
        /\ queue'[Len(queue) + 1] = e
        /\ BugEvents' = BugEvents \cup {Len(queue) + 1}
    BY <1>1, <1>4, QueueAppend
  <2>2. DOMAIN queue' \ BugEvents' = DOMAIN queue \ BugEvents
    BY <2>1
  <2>3. BriefsBehind'
    BY <1>2, <2>1, <2>2 DEF BriefsBehind
  <2>4. ASSUME NEW i \in DOMAIN queue', NEW j \in DOMAIN queue', queue'[i] = queue'[j]
        PROVE  i = j
    <3>1. CASE i \in DOMAIN queue /\ j \in DOMAIN queue
      BY <2>1, <2>4, <3>1 DEF DistinctEvents
    <3>2. CASE ~ (i \in DOMAIN queue /\ j \in DOMAIN queue)
      <4>1. queue'[i].kind = "bug_report" /\ queue'[j].kind = "bug_report"
        BY <1>4, <2>1, <2>4, <3>2
      <4>2. i \in BugEvents' /\ j \in BugEvents'
        BY <4>1 DEF BugEvents
      <4> QED
        BY <1>1, <2>4, <4>2 DEF DistinctBugEvents
    <3> QED
      BY <3>1, <3>2
  <2> QED
    BY <2>3, <2>4 DEF DistinctEvents
<1>5. ASSUME NEW e, queue' = Append(queue, e), e.kind = "batch_brief", e.batch = run.batch,
             PublishBrief
      PROVE  BriefsBehind' /\ DistinctEvents'
  <2>1. /\ DOMAIN queue = 1 .. Len(queue) /\ Len(queue) \in Nat
        /\ DOMAIN queue' = 1 .. Len(queue) + 1
        /\ \A i \in DOMAIN queue : queue'[i] = queue[i]
        /\ queue'[Len(queue) + 1] = e
        /\ BugEvents' = BugEvents
    BY <1>1, <1>5, QueueAppend
  <2>2. /\ pc = "brief.queue" /\ pc' = "coverage" /\ UNCHANGED run /\ run.batch \in Nat
    BY <1>5, BatchStays DEF PublishBrief
  <2>3. \A i \in DOMAIN queue \ BugEvents : queue[i].batch < run.batch
    BY <2>2 DEF BriefsBehind
  <2>4. ASSUME NEW i \in DOMAIN queue PROVE queue[i] # e
    <3>1. CASE i \in BugEvents
      BY <1>5, <3>1 DEF BugEvents
    <3>2. CASE i \notin BugEvents
      BY <1>5, <2>2, <2>3, <3>2
    <3> QED
      BY <3>1, <3>2
  <2>5. BriefsBehind'
    <3>1. ASSUME NEW i \in DOMAIN queue' \ BugEvents'
          PROVE  queue'[i].batch \in Nat /\ queue'[i].batch <= run'.batch
      BY <1>2, <1>5, <2>1, <2>2
    <3> QED
      BY <1>2, <2>1, <2>2, <3>1 DEF BriefsBehind
  <2>6. DistinctEvents'
    BY <2>1, <2>4 DEF DistinctEvents
  <2> QED
    BY <2>5, <2>6
<1> QED
  BY <1>1, <1>3, <1>4, <1>5, QueueIsExtended

(* Where no batch id is used twice, no event of the queue is repeated, be  *)
(* it a report or a brief, whatever crashes there were: a flush accepts    *)
(* the queue (publishing.py: _load_validated_queue).                      *)
THEOREM NewIdsKeepEventsDistinct == Spec /\ NewIds => []DistinctEvents
<1>1. Init => BriefsBehind /\ DistinctEvents
  BY DEF Init, BriefsBehind, DistinctEvents, BugEvents
<1>2. /\ IInv /\ BriefsBehind /\ DistinctEvents /\ [Next]_vars
      /\ [attempts' # attempts /\ attempts # 0 => run'.batch > run.batch]_vars
      => BriefsBehind' /\ DistinctEvents'
  <2>1. ASSUME BriefsBehind, DistinctEvents, UNCHANGED vars
        PROVE  BriefsBehind' /\ DistinctEvents'
    BY <2>1 DEF vars, BriefsBehind, DistinctEvents, BugEvents
  <2> QED
    BY <2>1, BriefsBehindStep
<1> QED
  BY <1>1, <1>2, Invariance, PTL DEF Spec, NewIds

=============================================================================
