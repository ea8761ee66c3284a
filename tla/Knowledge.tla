------------------------------ MODULE Knowledge ------------------------------
(***************************************************************************)
(* What is known of the product, and the audit of it that decides whether  *)
(* a loop may start (knowledge_audit.py, and _knowledge_audit_metadata in  *)
(* loop_runner.py); the export tells the covered entries a second time     *)
(* (knowledge_export.py).  Files k are                                     *)
(*   head      the product's commit, or NoCommit                           *)
(*   semantic  no map, or one: [commit, entries, checked]                  *)
(*   code      no map, or one: [commit, links], a link [kind, entry]       *)
(*   adapter   [relations, probes, overrides]: the entries with an L3      *)
(*             scenario, with an L1 case, and for some domains other       *)
(*             oracle levels than the profile asks for                     *)
(*   cases     [entry, level, status, triage, commit]                      *)
(*   profile   none, or one: [commit, domains], a domain [id, required,    *)
(*             entries, links, kinds, oracles, evidence, anchors,          *)
(*             blocking]; anchors has the kinds with a valid anchor        *)
(*   plan      none, or one: the kinds of target it has                    *)
(*   unreadable  "plan" or "other", if such a file cannot be loaded        *)
(* Findings, endpoints without a probe, and what is only counted are left  *)
(* out.                                                                    *)
(***************************************************************************)
EXTENDS Naturals, FiniteSets, FiniteSetsExt

CONSTANT NoCommit       \* a file without based_on_product_commit; no git HEAD

BackendKinds ==
    {"symbol", "export", "ws_command", "http_endpoint", "endpoint", "handler", "module"}

MachineLevels == {"L1", "L2", "L3"}

The(files) == CHOOSE x \in files : TRUE

-----------------------------------------------------------------------------
(* What covers an entry *)

(* _is_case_coverage_candidate; the export has a copy of its own.          *)
Candidate(c) ==
    /\ c.level \in MachineLevels
    /\ c.status \notin {"candidate", "observing", "intermittent", "expired",
                        "environment-event", "vetoed", "false-positive"}
    /\ c.triage \notin {"false-positive", "owner-review-required"}

FreshCases_AnyAge(k) == {c \in k.cases : Candidate(c)}  \* mutant: cases never get old

FreshCases(k) ==
    {c \in k.cases : Candidate(c) /\ (k.head # NoCommit => c.commit = k.head)}

Links(k) == The(k.code).links

Linked(k) == {l.entry : l \in {x \in Links(k) : x.kind \in BackendKinds}}

(* Every level that can judge an entry: by its contract, a relation, a     *)
(* probe, or as a case that was found by it.                               *)
LevelsOf(k, entry) ==
    {c.level : c \in {x \in FreshCases(k) : x.entry = entry}}
      \cup (IF entry \in The(k.semantic).checked THEN {"L2"} ELSE {})
      \cup (IF entry \in k.adapter.relations THEN {"L3"} ELSE {})
      \cup (IF entry \in k.adapter.probes THEN {"L1"} ELSE {})

-----------------------------------------------------------------------------
(* The domains of the profile *)

(* _understanding_profile_for_adapter                                      *)
RequiredOracles(k, d) ==
    IF d.id \in DOMAIN k.adapter.overrides THEN k.adapter.overrides[d.id] ELSE d.oracles

MissingEvidence(d) == d.evidence \ d.anchors

DomainCovered(k, d) ==
    /\ d.required \subseteq The(k.semantic).entries
    /\ Cardinality(d.required) >= d.entries
    /\ Cardinality(d.required \cap Linked(k)) >= d.links
    /\ RequiredOracles(k, d) \subseteq UNION {LevelsOf(k, e) : e \in d.required}
    /\ d.kinds \subseteq {l.kind : l \in {x \in Links(k) : x.entry \in d.required}}
    /\ MissingEvidence(d) = {}

(* A domain that is not covered blocks, or lets pass unless it is marked;  *)
(* one that lacks evidence always blocks.                                  *)
DomainBlockers(k, d) ==
    IF DomainCovered(k, d) \/ (MissingEvidence(d) = {} /\ ~ d.blocking) THEN {}
    ELSE {IF MissingEvidence(d) # {} THEN "understanding_evidence_missing"
          ELSE "understanding_domain_incomplete"}

-----------------------------------------------------------------------------
(* The audit *)

CommitBlockers(k, commit, missing, stale) ==
    IF k.head = NoCommit \/ commit = k.head THEN {}
    ELSE {IF commit = NoCommit THEN missing ELSE stale}

PlanBlockers(plan) ==
    IF plan = {} THEN {"empty_target_plan"}
    ELSE IF plan = {"gap"} THEN {"l4_only_target_plan"} ELSE {}

MapBlockers(k) ==
    CommitBlockers(k, The(k.semantic).commit, "semantic_map_missing_commit",
                   "semantic_map_stale")
    \cup CommitBlockers(k, The(k.code).commit, "code_map_missing_commit", "code_map_stale")

ProfileBlockers(k, p) ==
    CommitBlockers(k, p.commit, "understanding_profile_missing_commit",
                   "understanding_profile_stale")
    \cup (UNION {DomainBlockers(k, d) : d \in p.domains})

AuditBlockers(k) ==
    MapBlockers(k) \cup (UNION {PlanBlockers(p) : p \in k.plan})
                   \cup (UNION {ProfileBlockers(k, p) : p \in k.profile})

(* _knowledge_audit_metadata: what the loop hears, nothing where it asks   *)
(* for nothing.                                                            *)
Gate(k, enforced) ==
    IF k.semantic = {} \/ k.code = {}
    THEN IF enforced THEN {"knowledge_gate_missing_inputs"} ELSE {}
    ELSE IF "plan" \in k.unreadable THEN {"knowledge_audit_error"}
    ELSE IF k.head = NoCommit THEN {"product_head_unavailable"}
    ELSE IF k.unreadable # {} THEN {"knowledge_audit_error"}
    ELSE IF AuditBlockers(k) = {} /\ enforced /\ k.plan = {}
    THEN {"knowledge_gate_missing_inputs"}
    ELSE AuditBlockers(k)

(* The entries the audit counts as covered by a case.                      *)
AuditCovered(k) ==
    {c.entry : c \in FreshCases(k)} \cap The(k.semantic).entries

-----------------------------------------------------------------------------
(* The export *)

(* based_on_product_commit                                                 *)
ExportCommit(k) ==
    IF The(k.semantic).commit # NoCommit THEN The(k.semantic).commit ELSE The(k.code).commit

Confirmed_Vetoed(c) ==      \* mutant: a status that the copy has lost
    /\ c.level \in MachineLevels
    /\ c.status \notin {"candidate", "observing", "intermittent", "expired",
                        "environment-event", "false-positive"}
    /\ c.triage \notin {"false-positive", "owner-review-required"}

Confirmed(c) ==
    /\ c.level \in MachineLevels
    /\ c.status \notin {"candidate", "observing", "intermittent", "expired",
                        "environment-event", "vetoed", "false-positive"}
    /\ c.triage \notin {"false-positive", "owner-review-required"}

ExportCovered(k) ==
    LET at == ExportCommit(k)
    IN  {c.entry : c \in {x \in k.cases : Confirmed(x) /\ (at # NoCommit => x.commit = at)}}
          \cap The(k.semantic).entries

=============================================================================
