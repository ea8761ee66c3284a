----------------------------- MODULE ModelRouter -----------------------------
(***************************************************************************)
(* The budgeted veto gate (model_routing.py: ModelRouter).  A verified     *)
(* candidate is shown to a model, an external command that may fail, and   *)
(* is held back unless the model allows it within every budget of the      *)
(* batch.  The calls answered are rows of the ledger and survive; the      *)
(* error count and the open circuit are fields of the object and do not,   *)
(* and a batch id can be begun again.                                      *)
(***************************************************************************)
EXTENDS Naturals

CONSTANTS
    Batches,        \* the batch ids of one ledger
    NoBatchId,      \* None, before begin_batch
    Candidates,     \* the fingerprints of the cases reviewed
    NoCandidate,    \* none
    Requests,       \* what invoke can be asked: role, trigger, verified
    AllowedTriggers,\* triggers of the adapter, all machine triggers
    Resources,      \* what has a budget per batch: tokens in and out, cost
    Usages,         \* the usage a valid answer can report
    Budget,         \* the limit of each resource
    MaxCalls,       \* max_calls_per_batch
    ErrorStop,      \* consecutive_error_stop
    MaxBegins,      \* bound: calls of begin_batch
    MaxInvocations, \* bound: calls of the model
    CanCrash        \* whether the process may die

ASSUME BudgetAssumption ==
    /\ NoBatchId \notin Batches /\ NoCandidate \notin Candidates
    /\ MaxCalls \in Nat \ {0} /\ ErrorStop \in Nat \ {0}
    /\ Budget \in [Resources -> Nat]
    /\ Usages \subseteq [Resources -> Nat]

VARIABLES
    calls,          \* table model_calls: per batch the number of rows, the sum of
                    \* each resource, and the candidates a row allows
    invocations,    \* external: how often the model was run for a batch
    begins,         \* history: how often a batch was begun
    answered,       \* history: calls recorded since begin_batch
    router,         \* the fields of the object
    pc,             \* where invoke stands
    review,         \* the candidate under review and the answer given
    verdict         \* the VetoResult: the last candidate, and whether it passed

vars == <<calls, invocations, begins, answered, router, pc, review, verdict>>

Roles     == {"cheap", "standard", "strong"}
Decisions == {"allow", "veto", "request-more-evidence"}

NewRouter == [batch |-> NoBatchId, errors |-> 0, exhausted |-> FALSE]

NoReview == [fp |-> NoCandidate, decision |-> "none", late |-> FALSE]

NoVerdict == [fp |-> NoCandidate, passed |-> FALSE]

NoCalls == [count |-> 0, total |-> [r \in Resources |-> 0], allowed |-> {}]

Init ==
    /\ calls = [b \in Batches |-> NoCalls]
    /\ invocations = [b \in Batches |-> 0] /\ begins = [b \in Batches |-> 0]
    /\ answered = 0
    /\ router = NewRouter
    /\ pc = "idle" /\ review = NoReview /\ verdict = NoVerdict

Blocked(f) == verdict' = [fp |-> f, passed |-> FALSE]
Passed(f)  == verdict' = [fp |-> f, passed |-> TRUE]

-----------------------------------------------------------------------------
(* Also for a batch the ledger has calls of already. *)
BeginBatch(b) ==
    /\ pc = "idle" /\ begins[b] < MaxBegins
    /\ router' = [NewRouter EXCEPT !.batch = b]
    /\ begins' = [begins EXCEPT ![b] = @ + 1] /\ answered' = 0
    /\ verdict' = NoVerdict
    /\ UNCHANGED <<calls, invocations, pc, review>>

Legal(req) ==
    /\ router.batch # NoBatchId
    /\ req.role \in Roles /\ req.trigger \in AllowedTriggers
    /\ req.role = "strong" => req.verified

ClosedCircuit_IgnoresErrors ==  \* mutant: errors do not open the circuit
    ~ router.exhausted

ClosedCircuit == ~ router.exhausted /\ router.errors < ErrorStop

CallsLeft == calls[router.batch].count < MaxCalls

(* invoke refuses the request; review_verified_candidate then holds the    *)
(* candidate back.  Only the used-up number of calls opens the circuit.    *)
Refuse(f, req) ==
    /\ pc = "idle"
    /\ ~ (Legal(req) /\ ClosedCircuit /\ CallsLeft)
    /\ router' = IF Legal(req) /\ ClosedCircuit
                 THEN [router EXCEPT !.exhausted = TRUE] ELSE router
    /\ Blocked(f)
    /\ UNCHANGED <<calls, invocations, begins, answered, pc, review>>

(* The model is run. *)
Ask(f, req) ==
    /\ pc = "idle"
    /\ Legal(req) /\ ClosedCircuit /\ CallsLeft
    /\ invocations[router.batch] < MaxInvocations
    /\ invocations' = [invocations EXCEPT ![router.batch] = @ + 1]
    /\ review' = [NoReview EXCEPT !.fp = f]
    /\ verdict' = NoVerdict
    /\ pc' = "running"
    /\ UNCHANGED <<calls, begins, answered, router>>

Back == pc' = "idle" /\ review' = NoReview

(* Exit code, timeout, no JSON, a field that is unknown, forbidden or      *)
(* missing, another prompt version: an error, of which the ledger keeps    *)
(* nothing.                                                                *)
RunnerFails ==
    /\ pc = "running"
    /\ router' = [router EXCEPT !.errors = @ + 1]
    /\ Blocked(review.fp)
    /\ Back
    /\ UNCHANGED <<calls, invocations, begins, answered>>

Recorded(c, f, decision, usage) ==
    [count   |-> c.count + 1,
     total   |-> [r \in Resources |-> c.total[r] + usage[r]],
     allowed |-> IF decision = "allow" THEN c.allowed \cup {f} ELSE c.allowed]

(* A valid answer is recorded whatever it says and whatever it cost. *)
RunnerAnswers(decision, usage, late) ==
    /\ pc = "running"
    /\ router' = [router EXCEPT !.errors = 0]
    /\ answered' = answered + 1
    /\ calls' = [calls EXCEPT ![router.batch] = Recorded(@, review.fp, decision, usage)]
    /\ review' = [review EXCEPT !.decision = decision, !.late = late]
    /\ pc' = "recorded"
    /\ UNCHANGED <<invocations, begins, verdict>>

Over(b) == \E r \in Resources : calls[b].total[r] > Budget[r]

Spent_LateOnly == review.late       \* mutant: the sums are not compared

Spent == Over(router.batch) \/ review.late

(* The sums are read back; beyond a budget, or of a call that took too     *)
(* long, even an "allow" is not heard.                                     *)
CheckTotals ==
    /\ pc = "recorded"
    /\ router' = IF Spent THEN [router EXCEPT !.exhausted = TRUE] ELSE router
    /\ IF review.decision = "allow" /\ ~ Spent THEN Passed(review.fp)
                                                ELSE Blocked(review.fp)
    /\ Back
    /\ UNCHANGED <<calls, invocations, begins, answered>>

(* The process dies: what was not recorded is gone. *)
Crash ==
    /\ CanCrash /\ router # NewRouter
    /\ router' = NewRouter /\ verdict' = NoVerdict
    /\ Back
    /\ UNCHANGED <<calls, invocations, begins, answered>>

-----------------------------------------------------------------------------
Next ==
    \/ \E b \in Batches : BeginBatch(b)
    \/ \E f \in Candidates, req \in Requests : Refuse(f, req) \/ Ask(f, req)
    \/ RunnerFails
    \/ \E decision \in Decisions, usage \in Usages, late \in BOOLEAN :
         RunnerAnswers(decision, usage, late)
    \/ CheckTotals \/ Crash

Spec == Init /\ [][Next]_vars

-----------------------------------------------------------------------------
(* Properties *)

CallRow == [count : Nat, total : [Resources -> Nat], allowed : SUBSET Candidates]

(* Types; an open review has a batch, a candidate and, once recorded, a    *)
(* decision.                                                               *)
TypeOK ==
    /\ calls \in [Batches -> CallRow]
    /\ invocations \in [Batches -> Nat] /\ begins \in [Batches -> Nat]
    /\ router \in [batch : Batches \cup {NoBatchId}, errors : Nat,
                   exhausted : BOOLEAN]
    /\ answered \in Nat
    /\ pc \in {"idle", "running", "recorded"}
    /\ review \in [fp : Candidates \cup {NoCandidate},
                   decision : Decisions \cup {"none"}, late : BOOLEAN]
    /\ verdict \in [fp : Candidates \cup {NoCandidate}, passed : BOOLEAN]
    /\ pc # "idle" => router.batch \in Batches /\ review.fp \in Candidates
    /\ pc = "recorded" => review.decision # "none"

(* Fail closed (SKILL.md:131): a candidate passes the gate only when the   *)
(* ledger holds a call that allows it in this batch and the batch is       *)
(* within every budget at that moment.                                     *)
PassedIsAllowed ==
    verdict.passed =>
        /\ router.batch \in Batches
        /\ verdict.fp \in calls[router.batch].allowed
        /\ ~ Over(router.batch)

(* The ledger never holds more calls of a batch than max_calls_per_batch,  *)
(* however often the batch is begun again.                                 *)
CallLimitKept == \A b \in Batches : calls[b].count <= MaxCalls

Allowance(b) == ErrorStop * (calls[b].count + begins[b])

(* What the two circuits bound together: a batch runs the model at most    *)
(* consecutive_error_stop times for every call it records and every time   *)
(* it is begun.                                                            *)
InvocationsBounded ==
    \A b \in Batches : invocations[b] <= Allowance(b)

(* A spent budget stops the calls: a batch already over one records at     *)
(* most one more call each time it is begun again.                         *)
OneCallOver ==
    [][calls' # calls /\ Over(router.batch) => answered = 0]_vars

(* What a batch can cost, when no call costs more than most: its budgets   *)
(* and, every time it is begun, one call more, whatever was answered,      *)
(* refused or forgotten by a crash in between.                             *)
SpendWithin(most) ==
    \A b \in Batches, r \in Resources :
        calls[b].total[r] <= Budget[r] + begins[b] * most[r]

-----------------------------------------------------------------------------
(* The inductive invariant *)

(* The current batch still owes the errors it may make before its circuit  *)
(* opens; an earlier one was paid for.                                     *)
ErrorsCounted ==
    /\ router.errors <= ErrorStop
    /\ pc = "running" => router.errors < ErrorStop
    /\ \A b \in Batches :
         IF b = router.batch
         THEN invocations[b] + ErrorStop
                <= Allowance(b) + router.errors + (IF pc = "running" THEN 1 ELSE 0)
         ELSE invocations[b] <= Allowance(b)

(* Room is left for the call that is running. *)
RoomLeft == pc = "running" => calls[router.batch].count < MaxCalls

(* A batch over a budget has its circuit open, unless nothing was answered *)
(* since it was begun; none of its calls is running.                       *)
CircuitOpen ==
    router.batch \in Batches /\ answered > 0 /\ Over(router.batch)
        => /\ pc = "idle" => router.exhausted
           /\ pc # "running"

(* While a call is under way no verdict stands. *)
RunningUndecided == pc # "idle" => ~ verdict.passed

(* A recorded answer is in the ledger. *)
AnswerIsRecorded ==
    pc = "recorded" /\ review.decision = "allow"
        => review.fp \in calls[router.batch].allowed

(* Before its first answer the current batch has the call of this begin    *)
(* still to spend.                                                         *)
SpendSoFar(most) ==
    /\ SpendWithin(most)
    /\ router.batch \in Batches =>
         /\ begins[router.batch] # 0
         /\ answered = 0 => \A r \in Resources :
              calls[router.batch].total[r] + most[r] <= Budget[r] + begins[router.batch] * most[r]

IInv == /\ TypeOK /\ PassedIsAllowed /\ CallLimitKept
        /\ ErrorsCounted /\ RoomLeft /\ CircuitOpen
        /\ RunningUndecided /\ AnswerIsRecorded

=============================================================================
