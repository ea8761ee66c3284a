------------------------------- MODULE Ledger -------------------------------
(***************************************************************************)
(* The SQLite ledger of pipeline v2 (ledger.py): the tables cases, hits    *)
(* and batches.  Every method of the class Ledger commits by itself, so    *)
(* each operator below that primes a table is one durable step; a crash    *)
(* may fall between any two of them.                                       *)
(***************************************************************************)
EXTENDS Naturals, Sequences, FiniteSets, SequencesExt

CONSTANTS
    Fingerprints,   \* the failure fingerprints of the scenarios
    MaxBatch,       \* bound: highest batch number a run uses
    Levels          \* the oracle levels a case can have

ASSUME MaxBatchAssumption == MaxBatch \in Nat \ {0}

VARIABLES
    cases,      \* fingerprint -> row of the table cases
    hits,       \* the primary keys <<fingerprint, batch>> of the table hits
    batches,    \* batch -> row of the table batches
    created     \* batch numbers in the order of their created_at

ledger == <<cases, hits, batches, created>>

BatchIds == 1 .. MaxBatch

(* The statuses of the CHECK constraint; "absent" means there is no row.   *)
Statuses == {"absent", "observing", "reported", "intermittent", "expired",
             "environment-event", "vetoed"}

Triages == {"none", "contract-mismatch-doc"}

(* The last entry of verify_history: the runs asked for and those that     *)
(* reproduced the fingerprint.                                             *)
Verification == [required : Nat, matched : Nat]
NoVerification == [required |-> 1, matched |-> 0]

CaseRow == [status : Statuses, last : Nat, hitCount : Nat,
            verify : Verification, triage : Triages, ref : BOOLEAN]

NoCase == [status |-> "absent", last |-> 0, hitCount |-> 0,
           verify |-> NoVerification, triage |-> "none", ref |-> FALSE]

(* The counters Funnel.process_batch fills; upsert_batch overwrites them   *)
(* all.                                                                    *)
ZeroCounters ==
    [level |-> [l \in Levels |-> 0], passed |-> 0, blocked |-> 0,
     mismatch |-> 0, vetoed |-> 0, reported |-> 0, entered |-> 0,
     upgraded |-> 0]

NoBatch == [sentinel |-> "absent", signals |-> 0, counters |-> ZeroCounters,
            expired |-> 0, flags |-> {}]

LedgerInit ==
    /\ cases = [f \in Fingerprints |-> NoCase]
    /\ hits = {}
    /\ batches = [b \in BatchIds |-> NoBatch]
    /\ created = <<>>

-----------------------------------------------------------------------------
(* Writes *)

UpsertCase_NoCount(f, status, b, verify, triage) ==   \* mutant: no hit_count + 1
    cases' = [cases EXCEPT ![f].status = status, ![f].last = b,
                           ![f].verify = verify]

(* A new row counts its first hit; an old one gets the new status whatever *)
(* the old was, one more hit, and keeps its triage and its reference       *)
(* unless a new one is given (COALESCE).                                   *)
UpsertCase(f, status, b, verify, triage) ==
    cases' = [cases EXCEPT ![f] =
        [status   |-> status,
         last     |-> b,
         hitCount |-> @.hitCount + 1,
         verify   |-> verify,
         triage   |-> IF triage = "none" THEN @.triage ELSE triage,
         ref      |-> @.ref]]

UpdateCaseRefs(f) == cases' = [cases EXCEPT ![f].ref = TRUE]

SetCaseStatus(f, status) == cases' = [cases EXCEPT ![f].status = status]

RecordHit_FirstOnly(f, b) ==    \* mutant: a known fingerprint's hits are dropped
    hits' = IF \E h \in hits : h[1] = f THEN hits ELSE {<<f, b>>} \cup hits

RecordHit(f, b) == hits' = hits \cup {<<f, b>>}

(* created_at is kept when the row exists. *)
UpsertBatch(b, row) ==
    /\ batches' = [batches EXCEPT ![b] = row]
    /\ created' = IF batches[b].sentinel = "absent" THEN Append(created, b)
                                                    ELSE created

UpdateRedlineFlags(b, flags) ==
    batches' = [batches EXCEPT ![b].flags = flags]

-----------------------------------------------------------------------------
(* Reads *)

HitBatches(f) == {h[2] : h \in {g \in hits : g[1] = f}}

DistinctHitBatches_AllHits(f) == cases[f].hitCount    \* mutant: every sighting counts

DistinctHitBatches(f) == Cardinality(HitBatches(f))

HitsForBatch(b) == {f \in Fingerprints : <<f, b>> \in hits}

ListCases(status) == {f \in Fingerprints : cases[f].status = status}

ListReportedCasesForBatch(b) ==
    {f \in HitsForBatch(b) : cases[f].status \in {"reported", "intermittent"}}

(* The newest batches first, at most limit of them. *)
RecentBatches(limit) ==
    LET newest == Reverse(created)
    IN  SubSeq(newest, 1, IF Len(newest) < limit THEN Len(newest) ELSE limit)

=============================================================================
