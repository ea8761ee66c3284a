----------------------------- MODULE GatedLoop ------------------------------
(***************************************************************************)
(* The loop together with the audit that lets it start: what run_loop does *)
(* with the files it is given (loop_runner.py: run_loop,                   *)
(* _knowledge_audit_metadata).  The audit runs once, before the first      *)
(* round; the files may be others at the next call.                        *)
(***************************************************************************)
EXTENDS LoopRunner, Knowledge

CONSTANT
    FilesOf(_)      \* the files that the n-th call can find

CaseStatuses ==
    {"candidate", "observing", "reported", "intermittent", "expired", "environment-event",
     "vetoed"}

AtMostOne(files) == \A a, b \in files : a = b

(* No file is given twice, and the cases come from a ledger.               *)
WellFormed(k) ==
    /\ AtMostOne(k.semantic) /\ AtMostOne(k.code) /\ AtMostOne(k.profile) /\ AtMostOne(k.plan)
    /\ \A c \in k.cases : c.status \in CaseStatuses

ASSUME GatedAssumption ==
    MaxRuns \in Nat /\ \A call \in 1 .. MaxRuns : \A k \in FilesOf(call) : WellFormed(k)

VARIABLE
    seen            \* what this call was given: [enforced, files], or nothing

gatedVars == <<vars, seen>>

GatedInit == Init /\ seen = {}

GatedStart(given, enforced, k) ==
    /\ Start(given, Gate(k, enforced) = {})
    /\ seen' = {[enforced |-> enforced, files |-> k]}

GatedStep == Step /\ UNCHANGED seen

GatedCrash == Crash /\ UNCHANGED seen

GatedNext ==
    \/ \E given \in Arguments, enforced \in BOOLEAN, k \in FilesOf(runs + 1) :
         GatedStart(given, enforced, k)
    \/ GatedStep \/ GatedCrash

GatedSpec == GatedInit /\ [][GatedNext]_gatedVars

GatedFairSpec == GatedSpec /\ WF_gatedVars(GatedStep)

-----------------------------------------------------------------------------
(* Properties *)

(* This call has got past the audit. *)
Admitted == pc \notin {"idle", "final", "done"} \/ (runs > 0 /\ rounds # <<>>)

Audited(s) == s.files.semantic # {} /\ s.files.code # {}

(* Whatever a level that a domain asks for is shown by: the contract, a    *)
(* relation or a probe of one of its entries, or a bug of this commit.     *)
ShownNow(k, d, level) ==
    \E e \in d.required :
        \/ level = "L2" /\ e \in The(k.semantic).checked
        \/ level = "L3" /\ e \in k.adapter.relations
        \/ level = "L1" /\ e \in k.adapter.probes
        \/ \E c \in k.cases : /\ c.entry = e /\ c.level = level /\ c.commit = k.head
                              /\ c.status = "reported" /\ c.triage # "false-positive"

(* A loop that runs rounds under the gate does so on knowledge of the very *)
(* commit it tests: both maps and the profile are of that commit, the plan *)
(* asks for something a machine can judge, every domain has its evidence,  *)
(* and a blocking one is shown at every level it asks for by what holds    *)
(* now, not by bugs of another commit or unconfirmed ones.                 *)
GatedRoundsAreCurrent ==
    \A s \in seen :
        Admitted /\ (s.enforced \/ Audited(s)) =>
            LET k == s.files
            IN  /\ Audited(s) /\ k.head # NoCommit
                /\ \A file \in k.semantic \cup k.code \cup k.profile : file.commit = k.head
                /\ s.enforced => k.plan # {}
                /\ \A p \in k.plan : p # {} /\ p # {"gap"}
                /\ \A p \in k.profile : \A d \in p.domains :
                     /\ d.evidence \subseteq d.anchors
                     /\ d.blocking => /\ d.required \subseteq The(k.semantic).entries
                                      /\ \A level \in RequiredOracles(k, d) : ShownNow(k, d, level)

(* Where the loop runs on audited knowledge, the exported pages call the   *)
(* same entries covered as the audit did, though each has a filter of its  *)
(* own and takes the commit from another place.                            *)
CoverageAgrees ==
    \A s \in seen :
        Admitted /\ Audited(s) => ExportCovered(s.files) = AuditCovered(s.files)

-----------------------------------------------------------------------------
(* The inductive invariant *)

(* A call that got past the audit found the gate open. *)
GateWasOpen ==
    \A s \in seen :
        /\ s.enforced \in BOOLEAN /\ WellFormed(s.files)
        /\ Admitted => Gate(s.files, s.enforced) = {}

=============================================================================
