-------------------------- MODULE ModelRouterProofs --------------------------
(***************************************************************************)
(* The safety properties of ModelRouter for any budgets, candidates and    *)
(* batches, whatever the model answers and whenever the process dies.      *)
(***************************************************************************)
EXTENDS ModelRouter, TLAPS

LEMMA Allowances ==
    ASSUME NEW e \in Nat, NEW m \in Nat, NEW n \in Nat
    PROVE  /\ e * (m + n) \in Nat
           /\ e * (m + 1 + n) = e * (m + n) + e
           /\ e * (m + (n + 1)) = e * (m + n) + e
OBVIOUS

LEMMA InitHolds == Init => IInv
<1> SUFFICES ASSUME Init PROVE IInv
  OBVIOUS
<1> USE BudgetAssumption
<1>1. TypeOK
  BY DEF Init, TypeOK, CallRow, NoCalls, NewRouter, NoReview, NoVerdict
<1>2. PassedIsAllowed /\ CallLimitKept /\ RoomLeft /\ CircuitOpen /\ RunningUndecided
      /\ AnswerIsRecorded
  BY DEF Init, RunningUndecided, AnswerIsRecorded, PassedIsAllowed, CallLimitKept, RoomLeft, CircuitOpen, NoCalls,
         NewRouter, NoVerdict
<1>3. ErrorsCounted
  BY DEF Init, ErrorsCounted, Allowance, NoCalls, NewRouter
<1> QED
  BY <1>1, <1>2, <1>3 DEF IInv

LEMMA TypeStep == TypeOK /\ [Next]_vars => TypeOK'
<1> SUFFICES ASSUME TypeOK, [Next]_vars PROVE TypeOK'
  OBVIOUS
<1> USE BudgetAssumption DEF TypeOK, CallRow
<1>1. ASSUME NEW b \in Batches, BeginBatch(b) PROVE TypeOK'
  <2>1. router' = [batch |-> b, errors |-> 0, exhausted |-> FALSE]
    BY <1>1 DEF BeginBatch, NewRouter
  <2>2. verdict' = [fp |-> NoCandidate, passed |-> FALSE]
    BY <1>1 DEF BeginBatch, NoVerdict
  <2>3. /\ pc = "idle" /\ pc' = pc /\ review' = review /\ answered' = 0
        /\ begins' = [begins EXCEPT ![b] = @ + 1]
        /\ UNCHANGED <<calls, invocations>>
    BY <1>1 DEF BeginBatch
  <2>4. begins' \in [Batches -> Nat]
    BY <2>3
  <2>5. router' \in [batch : Batches \cup {NoBatchId}, errors : Nat, exhausted : BOOLEAN]
    BY <2>1
  <2>6. verdict' \in [fp : Candidates \cup {NoCandidate}, passed : BOOLEAN]
    BY <2>2
  <2> QED
    BY <2>3, <2>4, <2>5, <2>6
<1>2. ASSUME NEW f \in Candidates, NEW req \in Requests, Refuse(f, req) PROVE TypeOK'
  <2>1. router' \in [batch : Batches \cup {NoBatchId}, errors : Nat, exhausted : BOOLEAN]
    BY <1>2 DEF Refuse
  <2>2. verdict' \in [fp : Candidates \cup {NoCandidate}, passed : BOOLEAN]
    BY <1>2 DEF Refuse, Blocked
  <2> QED
    BY <1>2, <2>1, <2>2 DEF Refuse
<1>3. ASSUME NEW f \in Candidates, NEW req \in Requests, Ask(f, req) PROVE TypeOK'
  <2>1. /\ review' = [fp |-> f, decision |-> "none", late |-> FALSE]
        /\ verdict' = [fp |-> NoCandidate, passed |-> FALSE]
    BY <1>3 DEF Ask, NoReview, NoVerdict
  <2>2. /\ router.batch \in Batches /\ pc' = "running"
        /\ UNCHANGED <<calls, begins, answered, router>>
    BY <1>3 DEF Ask, Legal
  <2>3. invocations' \in [Batches -> Nat]
    <3>1. invocations' = [invocations EXCEPT ![router.batch] = @ + 1]
      BY <1>3 DEF Ask
    <3> QED
      BY <2>2, <3>1
  <2>4. review' \in [fp : Candidates \cup {NoCandidate},
                     decision : Decisions \cup {"none"}, late : BOOLEAN]
    BY <2>1
  <2>5. verdict' \in [fp : Candidates \cup {NoCandidate}, passed : BOOLEAN]
    BY <2>1
  <2> QED
    BY <2>1, <2>2, <2>3, <2>4, <2>5
<1>4. ASSUME RunnerFails PROVE TypeOK'
  BY <1>4 DEF RunnerFails, Blocked, Back, NoReview
<1>5. ASSUME NEW d \in Decisions, NEW u \in Usages, NEW late \in BOOLEAN,
             RunnerAnswers(d, u, late)
      PROVE  TypeOK'
  <2>1. router.batch \in Batches /\ review.fp \in Candidates /\ u \in [Resources -> Nat]
    BY <1>5 DEF RunnerAnswers
  <2>2. Recorded(calls[router.batch], review.fp, d, u) \in CallRow
    BY <2>1 DEF Recorded
  <2>3. calls' \in [Batches -> CallRow]
    BY <1>5, <2>1, <2>2 DEF RunnerAnswers
  <2>4. d # "none"
    BY DEF Decisions
  <2>5. /\ router' \in [batch : Batches \cup {NoBatchId}, errors : Nat, exhausted : BOOLEAN]
        /\ router'.batch = router.batch
    BY <1>5 DEF RunnerAnswers
  <2>6. /\ review' \in [fp : Candidates \cup {NoCandidate},
                       decision : Decisions \cup {"none"}, late : BOOLEAN]
        /\ review'.fp = review.fp /\ review'.decision = d
    BY <1>5 DEF RunnerAnswers
  <2>7. /\ pc' = "recorded" /\ answered' \in Nat
        /\ UNCHANGED <<invocations, begins, verdict>>
    BY <1>5 DEF RunnerAnswers
  <2>8. pc' # "idle" => router'.batch \in Batches /\ review'.fp \in Candidates
    BY <2>1, <2>5, <2>6
  <2>9. pc' = "recorded" => review'.decision # "none"
    BY <2>4, <2>6
  <2>10. invocations' \in [Batches -> Nat] /\ begins' \in [Batches -> Nat]
         /\ verdict' \in [fp : Candidates \cup {NoCandidate}, passed : BOOLEAN]
    BY <2>7
  <2> QED
    BY <2>3, <2>5, <2>6, <2>7, <2>8, <2>9, <2>10
<1>6. ASSUME CheckTotals PROVE TypeOK'
  <2>1. router' \in [batch : Batches \cup {NoBatchId}, errors : Nat, exhausted : BOOLEAN]
    BY <1>6 DEF CheckTotals
  <2>2. verdict' \in [fp : Candidates \cup {NoCandidate}, passed : BOOLEAN]
    <3>1. Blocked(review.fp) => verdict' \in [fp : Candidates \cup {NoCandidate}, passed : BOOLEAN]
      BY DEF Blocked
    <3>2. Passed(review.fp) => verdict' \in [fp : Candidates \cup {NoCandidate}, passed : BOOLEAN]
      BY DEF Passed
    <3>3. Blocked(review.fp) \/ Passed(review.fp)
      BY <1>6, Zenon DEF CheckTotals
    <3> QED
      BY <3>1, <3>2, <3>3
  <2>3. /\ pc' = "idle" /\ UNCHANGED <<calls, invocations, begins, answered>>
        /\ review' = [fp |-> NoCandidate, decision |-> "none", late |-> FALSE]
    BY <1>6 DEF CheckTotals, Back, NoReview
  <2> QED
    BY <2>1, <2>2, <2>3
<1>7. ASSUME Crash PROVE TypeOK'
  BY <1>7 DEF Crash, Back, NoReview, NewRouter, NoVerdict
<1>8. ASSUME UNCHANGED vars PROVE TypeOK'
  BY <1>8 DEF vars
<1> QED
  BY <1>1, <1>2, <1>3, <1>4, <1>5, <1>6, <1>7, <1>8 DEF Next

LEMMA Inductive == IInv /\ [Next]_vars => IInv'
<1> SUFFICES ASSUME IInv, [Next]_vars PROVE IInv'
  OBVIOUS
<1>t. TypeOK /\ TypeOK'
  BY TypeStep DEF IInv
<1>o. \A b \in Batches : UNCHANGED calls => Over(b)' = Over(b)
  BY DEF Over
<1> USE BudgetAssumption
(* every batch's invocations are paid for once its errors are written off *)
<1>p. \A b \in Batches :
        /\ invocations[b] <= Allowance(b)
        /\ Allowance(b) \in Nat
        /\ ErrorStop * (calls[b].count + (begins[b] + 1)) = Allowance(b) + ErrorStop
        /\ ErrorStop * (calls[b].count + 1 + begins[b]) = Allowance(b) + ErrorStop
  <2> TAKE b \in Batches
  <2>1. calls[b].count \in Nat /\ begins[b] \in Nat /\ invocations[b] \in Nat
        /\ router.errors \in Nat /\ ErrorStop \in Nat
    BY <1>t DEF TypeOK, CallRow
  <2>2. /\ Allowance(b) \in Nat
        /\ ErrorStop * (calls[b].count + (begins[b] + 1)) = Allowance(b) + ErrorStop
        /\ ErrorStop * (calls[b].count + 1 + begins[b]) = Allowance(b) + ErrorStop
    BY <2>1, Allowances DEF Allowance
  <2>3. invocations[b] <= Allowance(b)
    BY <2>1, <2>2 DEF IInv, ErrorsCounted
  <2> QED
    BY <2>2, <2>3
<1>1. ASSUME NEW b \in Batches, BeginBatch(b) PROVE IInv'
  <2>1. PassedIsAllowed' /\ CallLimitKept' /\ RoomLeft' /\ RunningUndecided'
        /\ AnswerIsRecorded'
    BY <1>1 DEF BeginBatch, IInv, PassedIsAllowed, CallLimitKept, RoomLeft, NoVerdict,
                RunningUndecided, AnswerIsRecorded
  <2>2. CircuitOpen'
    BY <1>1 DEF BeginBatch, CircuitOpen
  <2>3. ErrorsCounted'
    <3>1. router'.batch = b /\ router'.errors = 0 /\ pc' = "idle" /\ calls' = calls
          /\ invocations' = invocations
      BY <1>1 DEF BeginBatch, NewRouter
    <3>2. \A x \in Batches : begins'[x] = IF x = b THEN begins[x] + 1 ELSE begins[x]
      BY <1>1, <1>t DEF BeginBatch, TypeOK
    <3>3. \A x \in Batches : Allowance(x)' =
            IF x = b THEN Allowance(x) + ErrorStop ELSE Allowance(x)
      BY <3>1, <3>2, <1>p DEF Allowance
    <3>4. \A x \in Batches : invocations[x] \in Nat
      BY <1>t DEF TypeOK
    <3> QED
      BY <3>1, <3>3, <3>4, <1>p DEF ErrorsCounted
  <2> QED
    BY <1>t, <2>1, <2>2, <2>3 DEF IInv
<1>2. ASSUME NEW f \in Candidates, NEW req \in Requests, Refuse(f, req) PROVE IInv'
  <2>1. /\ router'.batch = router.batch /\ router'.errors = router.errors
        /\ router.exhausted => router'.exhausted
    BY <1>2, <1>t DEF Refuse, TypeOK
  <2>2. PassedIsAllowed' /\ CallLimitKept' /\ RoomLeft' /\ RunningUndecided'
        /\ AnswerIsRecorded'
    BY <1>2, <2>1 DEF Refuse, Blocked, IInv, PassedIsAllowed, CallLimitKept, RoomLeft,
                      RunningUndecided, AnswerIsRecorded
  <2>3. ErrorsCounted'
    BY <1>2, <2>1 DEF Refuse, IInv, ErrorsCounted, Allowance
  <2>4. CircuitOpen'
    BY <1>2, <2>1, <1>o DEF Refuse, IInv, CircuitOpen
  <2> QED
    BY <1>t, <2>2, <2>3, <2>4 DEF IInv
<1>3. ASSUME NEW f \in Candidates, NEW req \in Requests, Ask(f, req) PROVE IInv'
  <2>1. PassedIsAllowed' /\ CallLimitKept' /\ RoomLeft' /\ RunningUndecided'
        /\ AnswerIsRecorded'
    BY <1>3 DEF Ask, NoVerdict, CallsLeft, IInv, PassedIsAllowed, CallLimitKept, RoomLeft,
                RunningUndecided, AnswerIsRecorded
  <2>2. ErrorsCounted'
    <3>1. pc = "idle" /\ pc' = "running" /\ UNCHANGED <<calls, begins, router>>
          /\ router.errors < ErrorStop
      BY <1>3 DEF Ask, ClosedCircuit
    <3>2. \A x \in Batches : invocations'[x] =
            IF x = router.batch THEN invocations[x] + 1 ELSE invocations[x]
      BY <1>3, <1>t DEF Ask, TypeOK
    <3>3. \A x \in Batches : Allowance(x)' = Allowance(x)
      BY <3>1 DEF Allowance
    <3>4. router.errors \in Nat /\ \A x \in Batches : invocations[x] \in Nat
      BY <1>t DEF TypeOK
    <3> QED
      BY <3>1, <3>2, <3>3, <3>4, <1>p DEF IInv, ErrorsCounted
  <2>3. CircuitOpen'
    BY <1>3, <1>o DEF Ask, ClosedCircuit, IInv, CircuitOpen
  <2> QED
    BY <1>t, <2>1, <2>2, <2>3 DEF IInv
<1>4. ASSUME RunnerFails PROVE IInv'
  <2>1. router'.batch = router.batch /\ router'.errors = router.errors + 1
        /\ router'.exhausted = router.exhausted
    BY <1>4, <1>t DEF RunnerFails, TypeOK
  <2>2. PassedIsAllowed' /\ CallLimitKept' /\ RoomLeft' /\ RunningUndecided'
        /\ AnswerIsRecorded'
    BY <1>4 DEF RunnerFails, Blocked, Back, IInv, PassedIsAllowed, CallLimitKept, RoomLeft,
                RunningUndecided, AnswerIsRecorded
  <2>3. ErrorsCounted'
    <3>1. router.errors \in Nat /\ \A x \in Batches : invocations[x] \in Nat
      BY <1>t DEF TypeOK
    <3>2. \A x \in Batches : Allowance(x)' = Allowance(x)
      BY <1>4 DEF RunnerFails, Allowance
    <3>3. pc = "running" /\ pc' = "idle" /\ UNCHANGED invocations
      BY <1>4 DEF RunnerFails, Back
    <3> QED
      BY <2>1, <3>1, <3>2, <3>3, <1>p DEF IInv, ErrorsCounted
  <2>4. CircuitOpen'
    BY <1>4, <2>1, <1>o DEF RunnerFails, Back, IInv, CircuitOpen
  <2> QED
    BY <1>t, <2>2, <2>3, <2>4 DEF IInv
<1>5. ASSUME NEW d \in Decisions, NEW u \in Usages, NEW late \in BOOLEAN,
             RunnerAnswers(d, u, late)
      PROVE  IInv'
  <2>1. /\ pc = "running" /\ pc' = "recorded" /\ router.batch \in Batches
        /\ router'.batch = router.batch /\ router'.errors = 0
        /\ UNCHANGED <<invocations, begins, verdict>>
    BY <1>5, <1>t DEF RunnerAnswers, TypeOK
  <2>2. \A x \in Batches : calls'[x].count =
          IF x = router.batch THEN calls[x].count + 1 ELSE calls[x].count
    BY <1>5, <1>t, <2>1 DEF RunnerAnswers, Recorded, TypeOK
  <2>3. ~ verdict.passed
    BY <2>1 DEF IInv, RunningUndecided
  <2>4. PassedIsAllowed' /\ RunningUndecided'
    BY <2>1, <2>3 DEF PassedIsAllowed, RunningUndecided
  <2>8. AnswerIsRecorded'
    <3>1. review'.fp = review.fp /\ review'.decision = d
      BY <1>5, <1>t DEF RunnerAnswers, TypeOK
    <3>2. calls'[router.batch] = Recorded(calls[router.batch], review.fp, d, u)
      BY <1>5, <1>t, <2>1 DEF RunnerAnswers, TypeOK
    <3> QED
      BY <2>1, <3>1, <3>2 DEF AnswerIsRecorded, Recorded
  <2>5. CallLimitKept' /\ RoomLeft'
    <3>1. \A x \in Batches : calls[x].count \in Nat
      BY <1>t DEF TypeOK, CallRow
    <3> QED
      BY <2>1, <2>2, <3>1 DEF IInv, CallLimitKept, RoomLeft
  <2>6. ErrorsCounted'
    <3>1. router.errors \in Nat /\ \A x \in Batches : invocations[x] \in Nat
      BY <1>t DEF TypeOK
    <3>2. \A x \in Batches : Allowance(x)' =
            IF x = router.batch THEN Allowance(x) + ErrorStop ELSE Allowance(x)
      BY <2>1, <2>2, <1>p DEF Allowance
    <3> QED
      BY <2>1, <3>1, <3>2, <1>p DEF IInv, ErrorsCounted
  <2>7. CircuitOpen'
    BY <2>1 DEF CircuitOpen
  <2> QED
    BY <1>t, <2>4, <2>5, <2>6, <2>7, <2>8 DEF IInv
<1>6. ASSUME CheckTotals PROVE IInv'
  <2>1. /\ router'.batch = router.batch /\ router'.errors = router.errors
        /\ router.batch \in Batches /\ pc = "recorded" /\ pc' = "idle"
        /\ UNCHANGED <<calls, invocations, begins, answered>>
    BY <1>6, <1>t DEF CheckTotals, Back, TypeOK
  <2>2. PassedIsAllowed'
    <3>1. Spent => ~ verdict'.passed
      BY <1>6 DEF CheckTotals, Blocked
    <3>2. /\ verdict'.fp = review.fp
          /\ verdict'.passed => review.decision = "allow"
      BY <1>6 DEF CheckTotals, Blocked, Passed
    <3>3. ~ Spent => ~ Over(router.batch)
      BY DEF Spent
    <3>4. Over(router.batch)' = Over(router.batch)
      BY <2>1 DEF Over
    <3> QED
      BY <2>1, <3>1, <3>2, <3>3, <3>4 DEF IInv, PassedIsAllowed, AnswerIsRecorded
  <2>3. CallLimitKept' /\ RoomLeft' /\ RunningUndecided' /\ AnswerIsRecorded'
    BY <2>1 DEF IInv, CallLimitKept, RoomLeft, RunningUndecided, AnswerIsRecorded
  <2>4. ErrorsCounted'
    BY <2>1 DEF IInv, ErrorsCounted, Allowance
  <2>5. CircuitOpen'
    BY <1>6, <2>1, <1>o, <1>t DEF CheckTotals, Spent, CircuitOpen, TypeOK
  <2> QED
    BY <1>t, <2>2, <2>3, <2>4, <2>5 DEF IInv
<1>7. ASSUME Crash PROVE IInv'
  <2>1. /\ router'.batch = NoBatchId /\ router'.errors = 0 /\ pc' = "idle"
        /\ ~ verdict'.passed /\ UNCHANGED <<calls, invocations, begins>>
    BY <1>7 DEF Crash, Back, NewRouter, NoVerdict
  <2>2. PassedIsAllowed' /\ CallLimitKept' /\ RoomLeft' /\ CircuitOpen'
        /\ RunningUndecided' /\ AnswerIsRecorded'
    BY <2>1 DEF IInv, PassedIsAllowed, CallLimitKept, RoomLeft, CircuitOpen,
                RunningUndecided, AnswerIsRecorded
  <2>3. ErrorsCounted'
    BY <2>1, <1>p DEF ErrorsCounted, Allowance
  <2> QED
    BY <1>t, <2>2, <2>3 DEF IInv
<1>8. ASSUME UNCHANGED vars PROVE IInv'
  BY <1>8, <1>t DEF vars, IInv, PassedIsAllowed, CallLimitKept, ErrorsCounted,
                    RoomLeft, CircuitOpen, Over, Allowance,
                    RunningUndecided, AnswerIsRecorded
<1> QED
  BY <1>1, <1>2, <1>3, <1>4, <1>5, <1>6, <1>7, <1>8 DEF Next

LEMMA Invariance == Spec => []IInv
  BY InitHolds, Inductive, PTL DEF Spec

-----------------------------------------------------------------------------
(* The types of the ledger's calls and of the router's fields hold.        *)
THEOREM TypeCorrect == Spec => []TypeOK
  BY Invariance, PTL DEF IInv

(* A candidate passes only on an "allow" within every budget (fail closed, *)
(* review_verified_candidate).                                             *)
THEOREM GateFailsClosed == Spec => []PassedIsAllowed
  BY Invariance, PTL DEF IInv

(* The ledger never holds more than max_calls_per_batch calls of a batch.  *)
THEOREM CallLimit == Spec => []CallLimitKept
  BY Invariance, PTL DEF IInv

(* The circuits bound how often the model is run for a batch (invoke).     *)
THEOREM BoundedInvocations == Spec => []InvocationsBounded
<1>1. IInv => InvocationsBounded
  <2> SUFFICES ASSUME IInv, NEW b \in Batches PROVE invocations[b] <= Allowance(b)
    BY DEF InvocationsBounded
  <2>1. calls[b].count \in Nat /\ begins[b] \in Nat /\ invocations[b] \in Nat
        /\ router.errors \in Nat /\ ErrorStop \in Nat
    BY BudgetAssumption DEF IInv, TypeOK, CallRow
  <2>2. Allowance(b) \in Nat
    BY <2>1, Allowances DEF Allowance
  <2> QED
    BY <2>1, <2>2 DEF IInv, ErrorsCounted
<1> QED
  BY <1>1, Invariance, PTL

(* Over a budget, a batch records one more call at most each time it is    *)
(* begun (the circuit _budget_exhausted).                                  *)
THEOREM OverrunByOneCall == Spec => OneCallOver
<1>1. IInv /\ [Next]_vars => [calls' # calls /\ Over(router.batch) => answered = 0]_vars
  <2> SUFFICES ASSUME IInv, [Next]_vars, calls' # calls, Over(router.batch)
               PROVE  answered = 0
    OBVIOUS
  <2>1. PICK d \in Decisions, u \in Usages, late \in BOOLEAN : RunnerAnswers(d, u, late)
    BY DEF Next, vars, BeginBatch, Refuse, Ask, RunnerFails, CheckTotals, Crash
  <2> QED
    BY <2>1 DEF RunnerAnswers, IInv, CircuitOpen, TypeOK
<1> QED
  BY <1>1, Invariance, PTL DEF Spec, OneCallOver

(* One begin more.                                                         *)
LEMMA OneBeginMore ==
    ASSUME NEW n \in Nat, NEW m \in Nat
    PROVE  /\ n * m \in Nat /\ (n + 1) * m = n * m + m
           /\ n # 0 => m <= n * m
<1>1. n * m \in Nat /\ (n + 1) * m = n * m + m
  OBVIOUS
<1>2. ASSUME n # 0 PROVE m <= n * m
  <2>1. n - 1 \in Nat /\ n = (n - 1) + 1
    BY <1>2
  <2>2. ASSUME NEW k \in Nat PROVE (k + 1) * m = k * m + m /\ k * m \in Nat
    OBVIOUS
  <2> QED
    BY <2>1, <2>2
<1> QED
  BY <1>1, <1>2

LEMMA SpendStep ==
    ASSUME NEW most \in [Resources -> Nat],
           \A u \in Usages, r \in Resources : u[r] <= most[r],
           IInv, SpendSoFar(most), [Next]_vars
    PROVE  SpendSoFar(most)'
<1> USE BudgetAssumption
<1>1. /\ calls \in [Batches -> CallRow] /\ begins \in [Batches -> Nat] /\ answered \in Nat
      /\ \A b \in Batches, r \in Resources : calls[b].total[r] \in Nat
  BY DEF IInv, TypeOK, CallRow
<1>2. \A b \in Batches, r \in Resources :
        /\ begins[b] * most[r] \in Nat /\ (begins[b] + 1) * most[r] = begins[b] * most[r] + most[r]
        /\ begins[b] # 0 => most[r] <= begins[b] * most[r]
        /\ Budget[r] \in Nat /\ most[r] \in Nat
  BY <1>1, OneBeginMore
<1>3. ASSUME NEW b \in Batches, BeginBatch(b) PROVE SpendSoFar(most)'
  <2>1. /\ router'.batch = b /\ answered' = 0 /\ UNCHANGED calls
        /\ begins' = [begins EXCEPT ![b] = begins[b] + 1]
    BY <1>3 DEF BeginBatch, NewRouter
  <2>2. \A c \in Batches : begins'[c] = IF c = b THEN begins[c] + 1 ELSE begins[c]
    BY <1>1, <2>1
  <2>3. ASSUME NEW c \in Batches, NEW r \in Resources
        PROVE  /\ calls'[c].total[r] <= Budget[r] + begins'[c] * most[r]
               /\ c = b => calls'[c].total[r] + most[r] <= Budget[r] + begins'[c] * most[r]
    <3>1. /\ calls'[c].total[r] = calls[c].total[r] /\ calls[c].total[r] \in Nat
          /\ calls[c].total[r] <= Budget[r] + begins[c] * most[r]
          /\ begins[c] * most[r] \in Nat /\ most[r] \in Nat /\ Budget[r] \in Nat
      BY <1>1, <1>2, <2>1 DEF SpendSoFar, SpendWithin
    <3>2. CASE c = b
      <4>1. begins'[c] * most[r] = begins[c] * most[r] + most[r]
        BY <1>2, <2>2, <3>2
      <4> QED
        BY <3>1, <4>1
    <3>3. CASE c # b
      BY <2>2, <3>1, <3>3
    <3> QED
      BY <3>2, <3>3
  <2>4. begins'[b] # 0
    BY <1>1, <2>2
  <2> QED
    BY <2>1, <2>3, <2>4 DEF SpendSoFar, SpendWithin
<1>4. ASSUME NEW d \in Decisions, NEW u \in Usages, NEW late \in BOOLEAN,
             RunnerAnswers(d, u, late)
      PROVE  SpendSoFar(most)'
  <2> DEFINE b == router.batch
  <2>1. /\ b \in Batches /\ router'.batch = b /\ answered' # 0 /\ UNCHANGED begins
        /\ calls' = [calls EXCEPT ![b] = Recorded(calls[b], review.fp, d, u)]
    BY <1>1, <1>4 DEF RunnerAnswers, IInv, TypeOK
  <2>2. begins[b] # 0
    BY <2>1 DEF SpendSoFar
  <2>3. ASSUME NEW r \in Resources
        PROVE  calls'[b].total[r] <= Budget[r] + begins[b] * most[r]
    <3>1. /\ calls'[b].total[r] = calls[b].total[r] + u[r]
          /\ u[r] \in Nat /\ u[r] <= most[r] /\ calls[b].total[r] \in Nat
      BY <1>1, <2>1 DEF Recorded
    <3>2. CASE Over(b)
      <4>1. answered = 0
        BY <1>4, <2>1, <3>2 DEF RunnerAnswers, IInv, CircuitOpen, TypeOK
      <4>2. calls[b].total[r] + most[r] <= Budget[r] + begins[b] * most[r]
        BY <2>1, <4>1 DEF SpendSoFar
      <4> QED
        BY <1>2, <2>1, <3>1, <4>2
    <3>3. CASE ~ Over(b)
      <4>1. ~ (calls[b].total[r] > Budget[r])
        BY <3>3 DEF Over
      <4>2. most[r] <= begins[b] * most[r] /\ begins[b] * most[r] \in Nat /\ most[r] \in Nat
            /\ Budget[r] \in Nat
        BY <1>2, <2>1, <2>2
      <4> HIDE DEF b
      <4> QED
        BY <3>1, <4>1, <4>2
    <3> QED
      BY <3>2, <3>3
  <2>4. \A c \in Batches \ {b} : calls'[c] = calls[c]
    BY <1>1, <2>1
  <2> HIDE DEF b
  <2>5. SpendWithin(most)'
    BY <2>1, <2>3, <2>4 DEF SpendSoFar, SpendWithin
  <2> QED
    BY <2>1, <2>2, <2>5 DEF SpendSoFar
<1>5. ASSUME UNCHANGED <<calls, begins>>,
             router'.batch \in Batches => router'.batch = router.batch /\ UNCHANGED answered
      PROVE  SpendSoFar(most)'
  BY <1>5 DEF SpendSoFar, SpendWithin
<1>6. ASSUME NEW f \in Candidates, NEW req \in Requests, Refuse(f, req) \/ Ask(f, req)
      PROVE  SpendSoFar(most)'
  <2>1. router'.batch = router.batch
    BY <1>6 DEF Refuse, Ask, IInv, TypeOK
  <2> QED
    BY <1>5, <1>6, <2>1 DEF Refuse, Ask
<1>7. CASE RunnerFails \/ CheckTotals
  <2>1. router'.batch = router.batch
    BY <1>7 DEF RunnerFails, CheckTotals, IInv, TypeOK
  <2> QED
    BY <1>5, <1>7, <2>1 DEF RunnerFails, CheckTotals
<1>8. CASE Crash
  BY <1>5, <1>8 DEF Crash, NewRouter
<1>9. CASE UNCHANGED vars
  BY <1>5, <1>9 DEF vars
<1> QED
  BY <1>3, <1>4, <1>6, <1>7, <1>8, <1>9 DEF Next

(* What a batch can cost in tokens or money (_exceeds_usage_budget looks   *)
(* only after a call was paid for): its budget and one call for each time  *)
(* it is begun, where no call costs more than most.                        *)
THEOREM SpendIsBounded ==
    ASSUME NEW most \in [Resources -> Nat],
           \A u \in Usages, r \in Resources : u[r] <= most[r]
    PROVE  Spec => []SpendWithin(most)
<1>1. Init => SpendSoFar(most)
  BY BudgetAssumption DEF Init, NewRouter, NoCalls, SpendSoFar, SpendWithin
<1>2. IInv /\ SpendSoFar(most) /\ [Next]_vars => SpendSoFar(most)'
  BY SpendStep
<1>3. SpendSoFar(most) => SpendWithin(most)
  BY DEF SpendSoFar
<1> QED
  BY <1>1, <1>2, <1>3, Invariance, PTL DEF Spec

=============================================================================
