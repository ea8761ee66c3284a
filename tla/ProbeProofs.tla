----------------------------- MODULE ProbeProofs -----------------------------
(***************************************************************************)
(* Proofs about the oracles and a scenario's way through them, for every   *)
(* set of scenarios and everything an executor may return.                 *)
(***************************************************************************)
EXTENDS Probe, SequenceTheorems, FiniteSetTheorems, WellFoundedInduction, TLAPS

-----------------------------------------------------------------------------
(* A contract and two states *)

(* Where two states show a check the same, they get the same result.       *)
LEMMA JudgedAlike ==
    ASSUME NEW entry, NEW s, NEW t, NEW at,
           LET c == entry.check
           IN  /\ c.op = "eq" => ExpectedOf(c, s) = ExpectedOf(c, t)
               /\ \A x \in c.fields : x \in DOMAIN s <=> x \in DOMAIN t
               /\ \A x \in c.fields : x \in DOMAIN s => s[x] = t[x]
    PROVE  EvaluateL2(entry, s, at) = EvaluateL2(entry, t, at)
<1> DEFINE c == entry.check
<1>1. Measured(c, s) <=> Measured(c, t)
  BY DEF Measured
<1>2. ASSUME ValidCheck(c), Measured(c, s) PROVE Holds(c, s) = Holds(c, t)
  <2>1. \A x \in c.fields : x \in DOMAIN s /\ x \in DOMAIN t /\ s[x] = t[x]
    BY <1>2 DEF Measured
  <2>2. CASE c.op = "eq"
    BY <2>1, <2>2 DEF Holds
  <2>3. CASE c.op = "all_true"
    BY <2>1, <2>3 DEF Holds
  <2>4. CASE c.op = "any_true"
    BY <2>1, <2>4 DEF Holds
  <2>5. CASE c.op = "present"
    BY <2>1, <2>5 DEF Holds
  <2>6. CASE c.op = "contains_key"
    BY <2>1, <2>6 DEF Holds
  <2>7. CASE c.op = "count_ge"
    BY <2>1, <2>7 DEF Holds
  <2> QED
    BY <1>2, <2>2, <2>3, <2>4, <2>5, <2>6, <2>7 DEF ValidCheck, MACHINE_CHECK_OPS
<1> QED
  BY <1>1, <1>2 DEF EvaluateL2

(* A verdict on a state stands however much more of it is observed         *)
(* (oracle_l2.py: an unobserved field makes a check inconclusive).         *)
THEOREM MoreNeverChangesAVerdict == Spec => []MoreIsNoOther
<1>1. MoreIsNoOther
  <2> SUFFICES ASSUME MachineChecked, L2Judged(results[1]).status # "inconclusive",
                      NEW more \in Others,
                      \A x \in DOMAIN results[1].state :
                          x \in DOMAIN more.state /\ more.state[x] = results[1].state[x]
               PROVE  L2Judged(more) = L2Judged(results[1])
    BY DEF MoreIsNoOther
  <2> DEFINE entry == scenario.entry
             c == entry.check
             s == results[1].state
             t == more.state
             at == results[1].at
  <2>1. EvaluateL2(entry, s, at).status # "inconclusive" /\ more.at = at
    BY DEF L2Judged, Others
  <2>2. Measured(c, s)
    BY <2>1 DEF EvaluateL2, Inconclusive
  <2>3. /\ c.op = "eq" => ExpectedOf(c, s) = ExpectedOf(c, t)
        /\ \A x \in c.fields : x \in DOMAIN s /\ x \in DOMAIN t /\ s[x] = t[x]
    BY <2>2 DEF Measured, ExpectedOf
  <2> QED
    BY <2>1, <2>3, JudgedAlike DEF L2Judged
<1> QED
  BY <1>1, PTL

(* All but "eq" look at a value without its words. *)
LEMMA WordlessAlike ==
    ASSUME NEW entry, NEW s, NEW t, NEW at, entry.check.op # "eq",
           LET c == entry.check
           IN  /\ \A x \in c.fields : x \in DOMAIN s <=> x \in DOMAIN t
               /\ \A x \in c.fields : x \in DOMAIN s => Unworded(s[x]) = Unworded(t[x])
    PROVE  EvaluateL2(entry, s, at) = EvaluateL2(entry, t, at)
<1> DEFINE c == entry.check
<1>1. \A x \in c.fields : x \in DOMAIN s =>
        s[x].kind = t[x].kind /\ s[x].n = t[x].n /\ s[x].keys = t[x].keys
  BY DEF Unworded
<1>2. Measured(c, s) <=> Measured(c, t)
  BY <1>1 DEF Measured, Countable
<1>3. ASSUME ValidCheck(c), Measured(c, s) PROVE Holds(c, s) = Holds(c, t)
  <2>1. \A x \in c.fields :
          /\ x \in DOMAIN s /\ x \in DOMAIN t
          /\ s[x].kind = t[x].kind /\ s[x].n = t[x].n /\ s[x].keys = t[x].keys
    BY <1>1, <1>3 DEF Measured
  <2>2. \A x \in c.fields :
          /\ IsTrue(s[x]) <=> IsTrue(t[x])
          /\ Present(s[x]) = Present(t[x])
    BY <2>1 DEF IsTrue, Present
  <2>3. CASE c.op = "all_true"
    BY <2>1, <2>2, <2>3 DEF Holds
  <2>4. CASE c.op = "any_true"
    BY <2>1, <2>2, <2>4 DEF Holds
  <2>5. CASE c.op = "present"
    BY <2>2, <2>5 DEF Holds
  <2>6. CASE c.op = "contains_key"
    BY <2>1, <2>6 DEF Holds
  <2>7. CASE c.op = "count_ge"
    BY <2>1, <2>7 DEF Holds
  <2> QED
    BY <1>3, <2>3, <2>4, <2>5, <2>6, <2>7 DEF ValidCheck, MACHINE_CHECK_OPS
<1> QED
  BY <1>2, <1>3 DEF EvaluateL2

(* What the product says in words reaches a verdict by "eq" only           *)
(* (oracle_l2.py: validate_machine_check bars the text fields, but looks   *)
(* at value_from before it is stripped; "eq" compares whole values).       *)
THEOREM WordingEntersByEqOnly == Spec => []WordingOnlyByEq
<1>1. WordingOnlyByEq
  <2> DEFINE entry == scenario.entry
             c == entry.check
             seen == results[1]
             at == seen.at
  <2>1. ASSUME ~ ValidCheck(c), NEW t
        PROVE  /\ EvaluateL2(entry, t, at).status = "inconclusive"
               /\ EvaluateL2(entry, t, at) = EvaluateL2(entry, seen.state, at)
    BY <2>1 DEF EvaluateL2, Inconclusive
  <2>2. ASSUME ValidCheck(c)
        PROVE  /\ c.fields # {} /\ c.fields \cap TextFields = {}
               /\ c.from \notin TextFields /\ (c.op = "eq" => c.value # {} \/ c.from # NoField)
    BY <2>2, OracleAssumption DEF ValidCheck, TextFree
  <2>3. ASSUME ~ ReadsText(c), NEW r \in Others, Untexted(r) = Untexted(seen)
        PROVE  L2Judged(r) = L2Judged(seen)
    <3> DEFINE s == r.state
               t == seen.state
    <3>1. /\ DOMAIN s \ TextFields = DOMAIN t \ TextFields
          /\ \A x \in DOMAIN s \ TextFields : s[x] = t[x]
      <4>1. DOMAIN Untexted(r) = DOMAIN Untexted(seen)
        BY <2>3
      <4>2. \A x \in DOMAIN s \ TextFields : Untexted(r)[x] = Untexted(seen)[x]
        BY <2>3
      <4> QED
        BY <4>1, <4>2 DEF Untexted
    <3>2. CASE ValidCheck(c)
      <4>1. \A x : x \notin TextFields =>
              (x \in DOMAIN s <=> x \in DOMAIN t) /\ (x \in DOMAIN s => s[x] = t[x])
        BY <3>1
      <4>2. c.op = "eq" => ExpectedOf(c, s) = ExpectedOf(c, t)
        <5>1. CASE c.value # {}
          BY <5>1 DEF ExpectedOf
        <5>2. CASE c.value = {} /\ c.op = "eq"
          <6>1. Stripped(c.from) \notin TextFields
            BY <2>2, <2>3, <3>2, <5>2 DEF ReadsText
          <6>2. {Stripped(c.from)} \cap DOMAIN s = {Stripped(c.from)} \cap DOMAIN t
            BY <4>1, <6>1
          <6>3. \A x \in {Stripped(c.from)} \cap DOMAIN s : s[x] = t[x]
            BY <4>1, <6>1
          <6> QED
            BY <5>2, <6>2, <6>3 DEF ExpectedOf
        <5> QED
          BY <5>1, <5>2
      <4>3. EvaluateL2(entry, s, at) = EvaluateL2(entry, t, at)
        BY <2>2, <3>2, <4>1, <4>2, JudgedAlike
      <4> QED
        BY <4>3 DEF L2Judged, Others
    <3> QED
      BY <2>1, <3>2 DEF L2Judged, Others
  <2>4. ASSUME c.op # "eq", NEW r \in Others, Wordless(r) = Wordless(seen)
        PROVE  L2Judged(r) = L2Judged(seen)
    <3> DEFINE s == r.state
               t == seen.state
    <3>1. \A x : x \notin TextFields =>
            /\ x \in DOMAIN s <=> x \in DOMAIN t
            /\ x \in DOMAIN s => Unworded(s[x]) = Unworded(t[x])
      <4>1. DOMAIN Wordless(r) = DOMAIN Wordless(seen)
        BY <2>4
      <4>2. \A x \in DOMAIN s \ TextFields : Wordless(r)[x] = Wordless(seen)[x]
        BY <2>4
      <4> QED
        BY <4>1, <4>2 DEF Wordless
    <3>2. CASE ValidCheck(c)
      <4>1. EvaluateL2(entry, s, at) = EvaluateL2(entry, t, at)
        BY <2>2, <2>4, <3>1, <3>2, WordlessAlike
      <4> QED
        BY <4>1 DEF L2Judged, Others
    <3> QED
      BY <2>1, <3>2 DEF L2Judged, Others
  <2>5. ASSUME Untexted(seen) = <<>>
        PROVE  L2Judged(seen).status = "inconclusive"
    <3>1. DOMAIN seen.state \ TextFields = {}
      <4>1. DOMAIN Untexted(seen) = {}
        BY <2>5
      <4> QED
        BY <4>1 DEF Untexted
    <3>2. ASSUME ValidCheck(c) PROVE ~ Measured(c, seen.state)
      BY <2>2, <3>1, <3>2 DEF Measured
    <3> QED
      BY <2>1, <3>2 DEF L2Judged, EvaluateL2, Inconclusive
  <2> QED
    BY <2>3, <2>4, <2>5 DEF WordingOnlyByEq
<1> QED
  BY <1>1, PTL

-----------------------------------------------------------------------------
(* The two runs of a scenario *)

(* What the second run relies on: the first was judged a failure, on all   *)
(* its steps.                                                              *)
FailedFirst ==
    /\ Judgement(scenario, first, MomentOf(scenario, first)).status = "fail"
    /\ signal = {Fingerprint(scenario, first)}
    /\ ~ (Len(first) < StepsOf(scenario))

RIInv == /\ phase \in {"generate", "verify", "done"}
         /\ phase = "verify" => FailedFirst /\ outcome = "pending"
         /\ phase = "generate" => outcome = "pending"
         /\ SameRunReproduces

(* Without a declared moment the moment makes no difference.               *)
LEMMA MomentIsIgnored ==
    ASSUME NEW s, ~ DeclaresMoment(s), NEW rs, NEW at
    PROVE  Judgement(s, rs, at) = Judgement(s, rs, NoMoment)
<1>1. CASE s.level = "L2" /\ s.strategy = "machine_check"
  <2>1. EvaluateL2(s.entry, rs[1].state, at) = EvaluateL2(s.entry, rs[1].state, NoMoment)
    BY <1>1 DEF DeclaresMoment, EvaluateL2, MomentFits
  <2> QED
    BY <1>1, <2>1 DEF Judgement
<1>2. CASE ~ (s.level = "L2" /\ s.strategy = "machine_check")
  BY <1>2 DEF Judgement
<1> QED
  BY <1>1, <1>2

LEMMA RerunStep == RIInv /\ [Next]_vars => RIInv'
<1>1. ASSUME RIInv, UNCHANGED vars PROVE RIInv'
  BY <1>1 DEF vars, RIInv, FailedFirst, SameRunReproduces
<1>2. ASSUME RIInv, NEW r \in ResultsOf(scenario), Execute(r) PROVE RIInv'
  <2>1. CASE r.available
    BY <1>2, <2>1 DEF Execute, RIInv, FailedFirst, SameRunReproduces
  <2>2. CASE ~ r.available
    <3>1. /\ phase' = "done" /\ UNCHANGED <<results, first, scenario>>
          /\ Len(results) < StepsOf(scenario)
          /\ outcome' = "not-reproduced" => phase = "verify"
      BY <1>2, <2>2 DEF Execute, MoreSteps, RIInv
    <3> QED
      BY <1>2, <3>1 DEF RIInv, FailedFirst, SameRunReproduces
  <2> QED
    BY <2>1, <2>2
<1>3. ASSUME RIInv, Generate PROVE RIInv'
  <2> DEFINE judged == Judgement(scenario, results, MomentOf(scenario, results))
  <2>1. /\ phase = "generate" /\ outcome = "pending" /\ scenario' = scenario
        /\ ~ (Len(results) < StepsOf(scenario))
    BY <1>3 DEF Generate, MoreSteps, RIInv
  <2>2. CASE phase' = "verify"
    <3>1. /\ judged.status = "fail" /\ first' = results /\ outcome' = outcome
          /\ signal' = {Fingerprint(scenario, results)}
      BY <1>3, <2>2 DEF Generate
    <3> QED
      BY <2>1, <2>2, <3>1 DEF RIInv, FailedFirst, SameRunReproduces
  <2>3. CASE phase' # "verify"
    <3>1. \A status : Withheld(scenario, status) # "not-reproduced"
      BY DEF Withheld
    <3>2. phase' = "done" /\ outcome' # "not-reproduced"
      BY <1>3, <2>3, <3>1 DEF Generate
    <3> QED
      BY <3>2 DEF RIInv, SameRunReproduces
  <2> QED
    BY <2>2, <2>3
<1>4. ASSUME RIInv, Verify PROVE RIInv'
  <2>1. /\ phase = "verify" /\ phase' = "done" /\ FailedFirst
        /\ UNCHANGED <<scenario, results, first, signal>>
        /\ outcome' = "not-reproduced" => ~ Recurs(Judgement(scenario, results, NoMoment))
    BY <1>4 DEF Verify, RIInv
  <2>2. ASSUME results = first, ~ DeclaresMoment(scenario)
        PROVE  Recurs(Judgement(scenario, results, NoMoment))
    BY <2>1, <2>2, MomentIsIgnored DEF FailedFirst, Recurs
  <2> QED
    BY <2>1, <2>2 DEF RIInv, SameRunReproduces
<1> QED
  BY <1>1, <1>2, <1>3, <1>4 DEF Next

(* A product that shows both runs the same has its failure reproduced      *)
(* (orchestrator.py: _generate_signal and _verification_runner judge in    *)
(* two places).                                                            *)
THEOREM SameRunsReproduce == Spec => []SameRunReproduces
<1>1. Init => RIInv
  BY DEF Init, RIInv, SameRunReproduces
<1>2. RIInv => SameRunReproduces
  BY DEF RIInv
<1> QED
  BY <1>1, <1>2, RerunStep, PTL DEF Spec

-----------------------------------------------------------------------------
(* Runs compared with each other *)

ResultsOK == results \in Seq(ResultsOf(scenario))

LEMMA ResultsStep == ResultsOK /\ [Next]_vars => ResultsOK'
<1> SUFFICES ASSUME ResultsOK, [Next]_vars PROVE ResultsOK'
  OBVIOUS
<1>1. scenario' = scenario
  BY DEF Next, vars, Execute, Generate, Verify
<1>2. \/ results' = results \/ results' = <<>>
      \/ \E r \in ResultsOf(scenario) : results' = Append(results, r)
  BY DEF Next, vars, Execute, Generate, Verify
<1>3. results' \in Seq(ResultsOf(scenario))
  <2> DEFINE S == ResultsOf(scenario)
  <2>1. results \in Seq(S)
    BY DEF ResultsOK
  <2>2. results' = results \/ results' = <<>> \/ \E r \in S : results' = Append(results, r)
    BY <1>2
  <2> HIDE DEF S
  <2>3. results' \in Seq(S)
    <3>1. CASE results' = results
      BY <2>1, <3>1
    <3>2. CASE results' = <<>>
      BY <3>2
    <3>3. CASE \E r \in S : results' = Append(results, r)
      BY <2>1, <3>3, AppendProperties
    <3> QED
      BY <2>2, <3>1, <3>2, <3>3
  <2> QED
    BY <2>3 DEF S
<1> QED
  BY <1>1, <1>3 DEF ResultsOK

LEMMA ResultsInvariance == Spec => []ResultsOK
<1>1. Init => ResultsOK
  BY DEF Init, ResultsOK
<1> QED
  BY <1>1, ResultsStep, PTL DEF Spec

(* Some are accused exactly if they are not of one opinion, and never more *)
(* than half of them.                                                      *)
LEMMA Accused ==
    ASSUME NEW n \in Nat, NEW rejected \in [1 .. n -> BOOLEAN]
    PROVE  /\ Len(rejected) = n
           /\ 2 * Cardinality(Deviants(rejected)) <= n
           /\ Deviants(rejected) # {}
                <=> \E i, j \in 1 .. n : rejected[i] # rejected[j]
<1> DEFINE D == 1 .. n
           R == Rejecting(rejected)
           A == D \ R
<1>1. /\ rejected \in Seq(BOOLEAN) /\ Len(rejected) = n /\ DOMAIN rejected = D
  OBVIOUS
<1>2. IsFiniteSet(D) /\ Cardinality(D) = n
  BY FS_Interval
<1>3. R = {i \in D : rejected[i]} /\ R \subseteq D
  BY <1>1 DEF Rejecting
<1>4. /\ IsFiniteSet(R) /\ Cardinality(R) \in Nat
      /\ Cardinality(R) <= n /\ (Cardinality(R) = n => R = D)
  BY <1>2, <1>3, FS_Subset, FS_CardinalityType
<1>5. Cardinality(A) = n - Cardinality(R)
  <2>1. D \cap R = R
    BY <1>3
  <2> HIDE DEF D, R
  <2>2. Cardinality(D \ R) = Cardinality(D) - Cardinality(D \cap R)
    BY <1>2, FS_Difference
  <2> QED
    BY <1>2, <2>1, <2>2
<1>6. Cardinality(R) = 0 <=> R = {}
  BY <1>4, FS_EmptySet
<1>7. MajorityRejects(rejected) <=> 2 * Cardinality(R) > n
  BY <1>1 DEF MajorityRejects
<1> HIDE DEF R
<1>8. CASE MajorityRejects(rejected)
  <2>1. Deviants(rejected) = A
    BY <1>1, <1>8 DEF Deviants, R
  <2>2. R # {}
    BY <1>4, <1>6, <1>7, <1>8
  <2> QED
    BY <1>1, <1>3, <1>4, <1>5, <1>7, <1>8, <2>1, <2>2
<1>9. CASE ~ MajorityRejects(rejected)
  <2>1. Deviants(rejected) = R
    BY <1>1, <1>9 DEF Deviants, R
  <2>2. R # {} => R # D
    BY <1>2, <1>4, <1>6, <1>7, <1>9
  <2> QED
    BY <1>1, <1>3, <1>4, <1>7, <1>9, <2>1, <2>2
<1> QED
  BY <1>8, <1>9

(* The rejections of a run are one truth value for each sibling.           *)
LEMMA RejectionsOf ==
    ASSUME NEW S, NEW rs \in Seq(S)
    PROVE  /\ Len(rs) \in Nat /\ DOMAIN rs = 1 .. Len(rs)
           /\ Rejections(rs) \in [1 .. Len(rs) -> BOOLEAN]
BY DEF Rejections, Rejected

(* The siblings that are accused are a minority, or half, and some others  *)
(* disagree with them (oracle_l3.py:evaluate_sibling_consistency).         *)
THEOREM AccusedAreFew == Spec => []DeviantsAreFew
<1>1. ASSUME ResultsOK PROVE DeviantsAreFew
  <2> DEFINE n == Len(results)
             rejected == Rejections(results)
  <2>1. n \in Nat /\ rejected \in [1 .. n -> BOOLEAN]
    BY <1>1, RejectionsOf DEF ResultsOK
  <2> HIDE DEF n, rejected
  <2>2. /\ Len(rejected) = n /\ 2 * Cardinality(Deviants(rejected)) <= n
        /\ Deviants(rejected) # {} => \E i, j \in 1 .. n : rejected[i] # rejected[j]
        /\ DOMAIN rejected = 1 .. n
    BY <2>1, Accused
  <2> QED
    BY <2>2 DEF DeviantsAreFew, n, rejected
<1> QED
  BY <1>1, ResultsInvariance, PTL

(* A set of numbers has a least one.                                       *)
LEMMA Least ==
    ASSUME NEW T \in SUBSET Nat, T # {}
    PROVE  \E x \in T : \A y \in T : ~ (y < x)
<1> DEFINE R == OpToRel(<, Nat)
<1>1. R = {ss \in Nat \X Nat : ss[1] < ss[2]}
  BY DEF OpToRel
<1>2. IsWellFoundedOn(R, Nat)
  BY NatLessThanWellFounded
<1> HIDE DEF R
<1>3. \E x \in T : \A y \in T : ~ (<<y, x>> \in R)
  BY <1>2, WFMin, Zenon
<1> QED
  BY <1>1, <1>3

Agree(n, x) == \A i, j \in 1 .. n : x[i] = x[j]

(* No run diverges exactly if all agree.                                   *)
LEMMA NoneDiverges ==
    ASSUME NEW n \in Nat, NEW states, DOMAIN states = 1 .. n, n # 0
    PROVE  Diverged(states) = 0 <=> Agree(n, states)
<1> DEFINE off == {i \in 1 .. n : states[i] # states[1]}
<1>1. Diverged(states) = IF off = {} THEN 0 ELSE CHOOSE i \in off : \A j \in off : i <= j
  BY DEF Diverged
<1>2. 1 \in 1 .. n
  OBVIOUS
<1>3. ASSUME off # {} PROVE Diverged(states) # 0
  <2>1. \E i \in off : \A j \in off : ~ (j < i)
    <3>1. off \in SUBSET Nat
      OBVIOUS
    <3> HIDE DEF off
    <3> QED
      BY <1>3, <3>1, Least
  <2>2. \E i \in off : \A j \in off : i <= j
    BY <2>1
  <2>3. Diverged(states) \in off
    BY <1>1, <1>3, <2>2
  <2> QED
    BY <2>3
<1>4. off = {} <=> Agree(n, states)
  BY <1>2 DEF Agree
<1> QED
  BY <1>1, <1>3, <1>4

(* In another order, all agree or not as before.                           *)
LEMMA ShuffledAgree ==
    ASSUME NEW n \in Nat, NEW x, NEW y, NEW p \in Bijection(1 .. n, 1 .. n),
           \A i \in 1 .. n : y[i] = x[p[i]]
    PROVE  Agree(n, x) <=> Agree(n, y)
<1>1. /\ \A i \in 1 .. n : p[i] \in 1 .. n
      /\ \A i \in 1 .. n : \E k \in 1 .. n : p[k] = i
  BY DEF Bijection, Injection, Surjection
<1>2. ASSUME Agree(n, x), NEW i \in 1 .. n, NEW j \in 1 .. n PROVE y[i] = y[j]
  <2> DEFINE k == p[i]
             l == p[j]
  <2>1. k \in 1 .. n /\ l \in 1 .. n
    BY <1>1, <1>2
  <2>2. y[i] = x[k] /\ y[j] = x[l]
    BY <1>2
  <2> HIDE DEF k, l
  <2> QED
    BY <1>2, <2>1, <2>2 DEF Agree
<1>3. ASSUME Agree(n, y), NEW i \in 1 .. n, NEW j \in 1 .. n PROVE x[i] = x[j]
  <2>1. PICK k \in 1 .. n : p[k] = i
    BY <1>1
  <2>2. PICK l \in 1 .. n : p[l] = j
    BY <1>1
  <2>3. y[k] = x[i] /\ y[l] = x[j]
    BY <2>1, <2>2
  <2> QED
    BY <1>3, <2>3 DEF Agree
<1> QED
  BY <1>2, <1>3 DEF Agree

LEMMA ShuffledRuns ==
    ASSUME NEW S, NEW rs \in Seq(S), NEW p \in Bijection(DOMAIN rs, DOMAIN rs)
    PROVE  LET q == Shuffled(rs, p)
           IN  /\ q \in Seq(S) /\ Len(q) = Len(rs) /\ DOMAIN q = 1 .. Len(rs)
               /\ \A i \in 1 .. Len(rs) : q[i] = rs[p[i]] /\ p[i] \in 1 .. Len(rs)
<1>1. p \in [1 .. Len(rs) -> 1 .. Len(rs)] /\ DOMAIN rs = 1 .. Len(rs) /\ Len(rs) \in Nat
  BY DEF Bijection, Injection
<1> DEFINE q == Shuffled(rs, p)
<1>2. q = [i \in 1 .. Len(rs) |-> rs[p[i]]] /\ \A i \in 1 .. Len(rs) : rs[p[i]] \in S
  BY <1>1 DEF Shuffled
<1> QED
  BY <1>1, <1>2

(* Which run comes first does not decide whether they agree                *)
(* (oracle_l3.py compares each with the first).                            *)
THEOREM OrderDoesNotMatter == Spec => []OrderFree
<1>1. ASSUME ResultsOK PROVE OrderFree
  <2> SUFFICES ASSUME scenario.level = "L3",
                      scenario.strategy \in {"differential", "sibling_consistency"},
                      NEW p \in Bijection(DOMAIN results, DOMAIN results)
               PROVE  Judgement(scenario, Shuffled(results, p), NoMoment).status
                        = Judgement(scenario, results, NoMoment).status
    BY DEF OrderFree
  <2> DEFINE q == Shuffled(results, p)
             n == Len(results)
             S == ResultsOf(scenario)
  <2>1. /\ results \in Seq(S) /\ n \in Nat /\ DOMAIN results = 1 .. n
    BY <1>1 DEF ResultsOK
  <2>2. /\ q \in Seq(S) /\ Len(q) = n /\ DOMAIN q = 1 .. n
        /\ \A i \in 1 .. n : q[i] = results[p[i]] /\ p[i] \in 1 .. n
    BY <2>1, ShuffledRuns
  <2>3. p \in Bijection(1 .. n, 1 .. n)
    BY <2>1
  <2> HIDE DEF q, n, S
  <2>4. CASE scenario.strategy = "differential"
    <3> DEFINE x == Terminals(results)
               y == Terminals(q)
    <3>1. /\ Judgement(scenario, results, NoMoment) = EvaluateDifferential(x)
          /\ Judgement(scenario, q, NoMoment) = EvaluateDifferential(y)
      BY <2>4 DEF Judgement
    <3>2. /\ DOMAIN x = 1 .. n /\ DOMAIN y = 1 .. n /\ Len(x) = n /\ Len(y) = n
          /\ \A i \in 1 .. n : y[i] = x[p[i]]
      BY <2>1, <2>2 DEF Terminals
    <3> HIDE DEF x, y
    <3>3. Agree(n, x) <=> Agree(n, y)
      BY <2>1, <2>3, <3>2, ShuffledAgree
    <3>4. ASSUME ~ (n < 2) PROVE Diverged(y) = 0 <=> Diverged(x) = 0
      BY <2>1, <3>2, <3>3, <3>4, NoneDiverges
    <3> QED
      BY <3>1, <3>2, <3>4 DEF EvaluateDifferential, q
  <2>5. CASE scenario.strategy = "sibling_consistency"
    <3> DEFINE x == Rejections(results)
               y == Rejections(q)
    <3>1. /\ Judgement(scenario, results, NoMoment) = EvaluateSiblings(x)
          /\ Judgement(scenario, q, NoMoment) = EvaluateSiblings(y)
      BY <2>5 DEF Judgement
    <3>2. /\ x \in [1 .. n -> BOOLEAN] /\ y \in [1 .. n -> BOOLEAN]
          /\ \A i \in 1 .. n : y[i] = x[p[i]]
      BY <2>1, <2>2 DEF Rejections, Rejected
    <3> HIDE DEF x, y
    <3>3. Agree(n, x) <=> Agree(n, y)
      BY <2>1, <2>3, <3>2, ShuffledAgree
    <3>4. /\ Len(x) = n /\ Len(y) = n
          /\ Deviants(x) # {} <=> \E i, j \in 1 .. n : x[i] # x[j]
          /\ Deviants(y) # {} <=> \E i, j \in 1 .. n : y[i] # y[j]
      BY <2>1, <3>2, Accused
    <3>5. Deviants(x) = {} <=> Deviants(y) = {}
      BY <3>3, <3>4 DEF Agree
    <3> QED
      BY <3>1, <3>4, <3>5 DEF EvaluateSiblings, q
  <2> QED
    BY <2>4, <2>5
<1> QED
  BY <1>1, ResultsInvariance, PTL

-----------------------------------------------------------------------------
(* What a spec that failed tells of the product *)

(* With a report that the executor did not blame on the environment, a run *)
(* that exits with an error has a failure that the product showed          *)
(* (playwright_executor.py:_execution_result_from_report).                 *)
LEMMA ErrorHasItsFailure ==
    ASSUME NEW run, PlaywrightRun(run), EnvironmentThere(run), run.reported, ExitCode(run) # 0
    PROVE  WrongInProduct(run.report)
<1> DEFINE report == run.report
           specs == report.specs
           failures == FailedAssertions(report)
           product == ProductFailures(failures)
           Failed(s) == UNION {{a \in ToSet(t.attempts) : ~ Good(t, a)} : t \in s.tests}
<1>1. /\ ~ (product = {} /\ OnlyTopLevel(failures))
      /\ \A x \in failures : ~ (x.env /\ (x.global => product = {}))
  BY DEF EnvironmentThere, BlamesEnvironment
<1>2. /\ \A s \in specs : \A t \in s.tests : ReportOfTest(t)
      /\ \A s \in specs : ~ s.ok =>
           \/ \E t \in s.tests : t.status = "unexpected"
           \/ \A x \in specs : x.tests = {}
      /\ ~ run.dry /\ run.exit # 0 => report.errors # {} \/ \E s \in specs : ~ s.ok
  BY DEF PlaywrightRun
<1>3. ASSUME NEW s \in specs, NEW x \in SpecFailures(s) PROVE x \in failures
  BY <1>3 DEF FailedAssertions
<1>4. ASSUME NEW s \in specs, NEW x \in SpecFailures(s)
      PROVE  ~ x.global /\ x.env \in {a.env : a \in Failed(s)} \cup {s.env}
  BY <1>4 DEF SpecFailures, Failure
<1>5. failures # {}
  <2>1. CASE report.errors # {}
    BY <2>1 DEF FailedAssertions, TopLevelFailures
  <2>2. CASE \E s \in specs : ~ s.ok
    <3>1. PICK s \in specs : ~ s.ok
      BY <2>2
    <3>2. SpecFailures(s) # {}
      BY <3>1 DEF SpecFailures
    <3> QED
      BY <1>3, <3>2
  <2>3. CASE run.dry
    BY <2>3 DEF ExitCode, SpecPassed
  <2> QED
    BY <1>2, <2>1, <2>2, <2>3 DEF ExitCode
<1>6. product # {}
  <2> SUFFICES ASSUME product = {} PROVE FALSE
    OBVIOUS
  <2>1. \A x \in failures : x.global
    BY <1>1 DEF ProductFailures
  <2> QED
    BY <1>1, <1>5, <2>1 DEF OnlyTopLevel
<1>7. PICK s \in specs : \E x \in SpecFailures(s) : x \in product
  BY <1>6 DEF ProductFailures, FailedAssertions, TopLevelFailures, Failure
<1>8. ASSUME NEW t \in s.tests, NEW a \in ToSet(t.attempts), WentWrong(a) PROVE ~ a.env
  <2>1. ~ Good(t, a)
    BY <1>8 DEF WentWrong, Good
  <2>2. a \in Failed(s)
    BY <2>1
  <2>3. Failure(FALSE, a.env) \in failures
    BY <1>3, <2>2 DEF SpecFailures
  <2> QED
    BY <1>1, <2>3 DEF Failure
<1>9. CASE Failed(s) # {}
  <2>1. PICK t \in s.tests : \E a \in ToSet(t.attempts) : ~ Good(t, a)
    BY <1>9
  <2>2. ReportOfTest(t)
    BY <1>2
  <2>3. \E b \in ToSet(t.attempts) : WentWrong(b)
    BY <2>1, <2>2 DEF ReportOfTest, Good, WentWrong
  <2> QED
    BY <1>8, <2>3 DEF WrongInProduct
<1>10. CASE Failed(s) = {}
  <2>1. ~ s.ok /\ ~ s.env
    BY <1>7, <1>10 DEF SpecFailures, ProductFailures, Failure
  <2>2. ASSUME NEW t \in s.tests, t.status = "unexpected" PROVE FALSE
    <3>1. PICK a \in ToSet(t.attempts) : WentWrong(a)
      BY <1>2, <2>2 DEF ReportOfTest
    <3>2. ~ Good(t, a)
      BY <2>2 DEF Good
    <3> QED
      BY <1>10, <3>2
  <2>3. s.tests = {}
    BY <1>2, <2>1, <2>2
  <2> QED
    BY <2>1, <2>3 DEF WrongInProduct
<1> QED
  BY <1>9, <1>10

(* What went wrong in the product, where nothing names the environment, is *)
(* not blamed on it, whatever stands beside the tests or on stderr.        *)
LEMMA ProductIsNotExcused ==
    ASSUME NEW seen, NEW run, PlaywrightRun(run), run.reported, ~ run.artifacts,
           run.report.specs = seen.report.specs,
           WrongInProduct(seen.report), ~ NamesEnvironment(seen)
    PROVE  EnvironmentThere(run)
<1> DEFINE report == run.report
           specs == report.specs
           failures == FailedAssertions(report)
           product == ProductFailures(failures)
           Failed(s) == UNION {{a \in ToSet(t.attempts) : ~ Good(t, a)} : t \in s.tests}
<1>1. /\ \A s \in specs : ~ s.env /\ \A t \in s.tests : \A a \in ToSet(t.attempts) : ~ a.env
      /\ WrongInProduct(report)
  BY DEF NamesEnvironment, WrongInProduct
<1>2. /\ \A s \in specs : \A t \in s.tests : ReportOfTest(t)
      /\ \A s \in specs : ~ s.ok =>
           \/ \E t \in s.tests : t.status = "unexpected"
           \/ \A x \in specs : x.tests = {}
      /\ run.started
  BY DEF PlaywrightRun
<1>3. \A s \in specs : \A x \in SpecFailures(s) : ~ x.global /\ ~ x.env
  BY <1>1 DEF SpecFailures, Failure
<1>4. \A x \in failures : x.env => x.global
  BY <1>3 DEF FailedAssertions, TopLevelFailures, Failure
<1>5. PICK s \in specs :
        \/ \E t \in s.tests : \E a \in ToSet(t.attempts) : WentWrong(a)
        \/ ~ s.ok /\ s.tests = {}
  BY <1>1 DEF WrongInProduct
<1>6. SpecFailures(s) # {}
  <2>1. CASE ~ s.ok /\ s.tests = {}
    BY <2>1 DEF SpecFailures
  <2>2. CASE \E t \in s.tests : \E a \in ToSet(t.attempts) : WentWrong(a)
    <3>1. PICK t \in s.tests : \E a \in ToSet(t.attempts) : WentWrong(a)
      BY <2>2
    <3>2. \E a \in ToSet(t.attempts) : ~ Good(t, a)
      BY <3>1 DEF WentWrong, Good
    <3>3. Failed(s) # {}
      BY <3>2
    <3> QED
      BY <3>3 DEF SpecFailures
  <2> QED
    BY <1>5, <2>1, <2>2
<1>7. product # {}
  BY <1>3, <1>6 DEF ProductFailures, FailedAssertions
<1>8. ~ AllTestsSkipped(report)
  <2> DEFINE statuses == UNION {{t.status : t \in x.tests} : x \in specs}
  <2>1. CASE ~ s.ok /\ s.tests = {}
    <3>1. \A x \in specs : x.tests = {}
      BY <1>2, <2>1
    <3>2. statuses = {}
      BY <3>1
    <3> QED
      BY <3>2 DEF AllTestsSkipped
  <2>2. CASE \E t \in s.tests : \E a \in ToSet(t.attempts) : WentWrong(a)
    <3>1. PICK t \in s.tests : \E a \in ToSet(t.attempts) : WentWrong(a)
      BY <2>2
    <3>2. t.status # "skipped" /\ t.status \in statuses
      BY <1>2, <3>1 DEF ReportOfTest
    <3> QED
      BY <3>2 DEF AllTestsSkipped
  <2> QED
    BY <1>5, <2>1, <2>2
<1>9. ~ BlamesEnvironment(run)
  BY <1>4, <1>7, <1>8 DEF BlamesEnvironment
<1> QED
  BY <1>2, <1>9 DEF EnvironmentThere

-----------------------------------------------------------------------------
(* What two runs make of a scenario *)

LEMMA StepsAreNumbers == \A s \in Scenarios : StepsOf(s) \in Nat
BY StepsAssumption DEF StepsOf

(* What a scenario went on with was there, and is no more than its steps.  *)
Usable(rs) ==
    /\ rs \in Seq(ResultsOf(scenario)) /\ Len(rs) <= StepsOf(scenario)
    /\ \A i \in 1 .. Len(rs) : rs[i].available

Counted ==
    /\ phase = "generate" => outcome = "pending" /\ calls = Len(results)
    /\ phase = "verify" =>
         /\ outcome = "pending" /\ FailedFirst
         /\ calls = StepsOf(scenario) + Len(results)

(* The invariant: what was seen is usable, the calls are the steps of the  *)
(* runs so far, and what is claimed of a reproduced failure holds.         *)
TwoRuns == /\ scenario \in Scenarios /\ phase \in {"generate", "verify", "done"}
           /\ Usable(results) /\ Usable(first)
           /\ calls \in Nat /\ Counted
           /\ ReproducedTwice /\ MomentNeverReproduced

LEMMA TwoRunsInit == Init => TwoRuns
BY StepsAreNumbers
   DEF Init, TwoRuns, Usable, Counted, ReproducedTwice, MomentNeverReproduced

LEMMA TwoRunsStep == TwoRuns /\ [Next]_vars => TwoRuns'
<1> SUFFICES ASSUME TwoRuns, [Next]_vars PROVE TwoRuns'
  OBVIOUS
<1> DEFINE N == StepsOf(scenario)
<1>1. /\ N \in Nat /\ scenario \in Scenarios /\ scenario' = scenario
      /\ Len(results) \in Nat /\ Len(results) <= N
      /\ Len(first) \in Nat /\ Len(first) <= N
  BY StepsAreNumbers DEF TwoRuns, Usable, Next, vars, Execute, Generate, Verify
<1>2. CASE UNCHANGED vars
  BY <1>2 DEF vars, TwoRuns, Usable, Counted, FailedFirst, ReproducedTwice,
              MomentNeverReproduced
<1>3. ASSUME NEW r \in ResultsOf(scenario), Execute(r) PROVE TwoRuns'
  <2>1. /\ phase \in {"generate", "verify"} /\ Len(results) < N /\ calls' = calls + 1
        /\ UNCHANGED <<scenario, first, signal>> /\ outcome = "pending"
        /\ calls + 1 <= 2 * N
    BY <1>1, <1>3 DEF Execute, MoreSteps, TwoRuns, Counted
  <2>2. CASE r.available
    <3>1. results' = Append(results, r) /\ UNCHANGED <<phase, outcome>>
      BY <1>3, <2>2 DEF Execute
    <3>2. Usable(results)'
      <4> DEFINE S == ResultsOf(scenario)
      <4>1. results \in Seq(S) /\ r \in S /\ S' = S
        BY <1>1 DEF TwoRuns, Usable
      <4> HIDE DEF S
      <4>2. /\ Append(results, r) \in Seq(S) /\ Len(Append(results, r)) = Len(results) + 1
            /\ \A i \in 1 .. Len(results) : Append(results, r)[i] = results[i]
            /\ Append(results, r)[Len(results) + 1] = r
        BY <4>1, AppendProperties
      <4> QED
        BY <1>1, <2>1, <2>2, <3>1, <4>1, <4>2 DEF TwoRuns, Usable, S
    <3>3. Len(results') = Len(results) + 1
      BY <1>1, <3>1 DEF TwoRuns, Usable
    <3>4. Usable(first)'
      BY <1>1, <2>1 DEF TwoRuns, Usable
    <3>5. Counted'
      BY <1>1, <2>1, <3>1, <3>3 DEF TwoRuns, Counted, FailedFirst
    <3>6. ReproducedTwice' /\ MomentNeverReproduced'
      BY <1>1, <2>1, <3>1 DEF ReproducedTwice, MomentNeverReproduced
    <3> QED
      BY <1>1, <2>1, <3>1, <3>2, <3>4, <3>5, <3>6 DEF TwoRuns
  <2>3. CASE ~ r.available
    <3>1. phase' = "done" /\ results' = results /\ outcome' # "reproduced"
      BY <1>3, <2>3 DEF Execute
    <3> QED
      BY <1>1, <2>1, <3>1
         DEF TwoRuns, Usable, Counted, ReproducedTwice, MomentNeverReproduced
  <2> QED
    BY <2>2, <2>3
<1>4. CASE Generate
  <2>1. /\ phase = "generate" /\ ~ (Len(results) < N) /\ calls' = calls
        /\ calls = Len(results) /\ outcome = "pending"
    BY <1>1, <1>4 DEF Generate, MoreSteps, TwoRuns, Counted
  <2>2. CASE phase' = "verify"
    <3>1. /\ Judgement(scenario, results, MomentOf(scenario, results)).status = "fail"
          /\ results' = <<>> /\ first' = results /\ outcome' = outcome
          /\ signal' = {Fingerprint(scenario, results)}
      BY <1>4, <2>2 DEF Generate
    <3> QED
      BY <1>1, <2>1, <2>2, <3>1
         DEF TwoRuns, Usable, Counted, FailedFirst, ReproducedTwice, MomentNeverReproduced
  <2>3. CASE phase' # "verify"
    <3>1. \A status : Withheld(scenario, status) # "reproduced"
      BY DEF Withheld
    <3>2. phase' = "done" /\ outcome' # "reproduced" /\ UNCHANGED <<results, first>>
      BY <1>4, <2>3, <3>1 DEF Generate
    <3> QED
      BY <1>1, <2>1, <3>2
         DEF TwoRuns, Usable, Counted, ReproducedTwice, MomentNeverReproduced
  <2> QED
    BY <2>2, <2>3
<1>5. CASE Verify
  <2>1. /\ phase = "verify" /\ ~ (Len(results) < N) /\ FailedFirst
        /\ calls = N + Len(results)
        /\ phase' = "done" /\ UNCHANGED <<scenario, results, first, signal, calls>>
        /\ outcome' = "reproduced" => Recurs(Judgement(scenario, results, NoMoment))
    BY <1>5 DEF Verify, MoreSteps, TwoRuns, Counted
  <2>2. ASSUME DeclaresMoment(scenario)
        PROVE  Judgement(scenario, results, NoMoment).status # "fail"
    <3> DEFINE e == scenario.entry
    <3>1. Judgement(scenario, results, NoMoment) = EvaluateL2(e, results[1].state, NoMoment)
      BY <2>2 DEF DeclaresMoment, Judgement
    <3>2. EvaluateL2(e, results[1].state, NoMoment).status = "inconclusive"
      BY <2>2 DEF DeclaresMoment, EvaluateL2, MomentFits, Inconclusive
    <3> QED
      BY <3>1, <3>2
  <2>3. MomentNeverReproduced'
    BY <2>1, <2>2 DEF MomentNeverReproduced, Recurs, DeclaresMoment
  <2>4. ReproducedTwice'
    BY <1>1, <2>1 DEF ReproducedTwice, Recurs, FailedFirst
  <2> QED
    BY <1>1, <2>1, <2>3, <2>4 DEF TwoRuns, Usable, Counted
<1> QED
  BY <1>2, <1>3, <1>4, <1>5 DEF Next

LEMMA TwoRunsInvariance == Spec => []TwoRuns
BY TwoRunsInit, TwoRunsStep, PTL DEF Spec

(* A reproduced failure was seen by two complete runs, with one            *)
(* fingerprint, and no scenario is run more than twice (verification.py:   *)
(* run_reproduction_validation).                                           *)
THEOREM ReproducedIsSeenTwice == Spec => []ReproducedTwice
<1>1. TwoRuns => ReproducedTwice
  BY DEF TwoRuns
<1> QED
  BY <1>1, TwoRunsInvariance, PTL

(* No contract entry with a declared moment has a failure reproduced       *)
(* (orchestrator.py:_verification_runner judges without the moment).       *)
THEOREM DeclaredMomentsAreLost == Spec => []MomentNeverReproduced
<1>1. TwoRuns => MomentNeverReproduced
  BY DEF TwoRuns
<1> QED
  BY <1>1, TwoRunsInvariance, PTL

(* A spec's failure is the product's, and errors beside the tests hide     *)
(* none (playwright_executor.py:_execution_result_from_report).            *)
THEOREM SpecFailuresAreTheProducts == Spec => []SpecsBlameProduct
<1>1. ASSUME TwoRuns, RunsSpec(scenario) PROVE SpecsBlameProduct
  <2> DEFINE S == ResultsOf(scenario)
  <2>1. \A r \in S : PlaywrightRun(r.run) /\ r = SpecResult(r.run)
    BY <1>1, SpecsAssumption DEF TwoRuns
  <2>2. ASSUME NEW r \in S PROVE r.available = EnvironmentThere(r.run)
    <3>1. \A run : SpecResult(run).available = EnvironmentThere(run)
      BY DEF SpecResult
    <3>2. r.available = SpecResult(r.run).available
      BY <2>1, Zenon
    <3> QED
      BY <3>1, <3>2
  <2>3. ASSUME outcome = "reproduced", NEW r \in {first[1], results[1]},
               r.run.reported, ExitCode(r.run) # 0
        PROVE  WrongInProduct(r.run.report)
    <3>1. StepsOf(scenario) = 1
      BY <1>1 DEF RunsSpec, StepsOf
    <3>2. /\ first \in Seq(S) /\ Len(first) = 1 /\ first[1].available
          /\ results \in Seq(S) /\ Len(results) = 1 /\ results[1].available
      BY <1>1, <2>3, <3>1 DEF TwoRuns, Usable, ReproducedTwice
    <3>3. ASSUME NEW rs \in Seq(S), Len(rs) = 1 PROVE rs[1] \in S
      <4> HIDE DEF S
      <4> QED
        BY <3>3, ElementOfSeq
    <3>4. r \in S /\ r.available
      BY <2>3, <3>2, <3>3
    <3>5. PlaywrightRun(r.run) /\ EnvironmentThere(r.run)
      BY <2>1, <2>2, <3>4
    <3> QED
      BY <2>3, <3>5, ErrorHasItsFailure
  <2>4. ASSUME NEW seen, WrongInProduct(seen.report), ~ NamesEnvironment(seen),
               NEW r \in S, r.run.reported, r.run.report.specs = seen.report.specs,
               ~ r.run.artifacts
        PROVE  r.available
    <3>1. EnvironmentThere(r.run)
      BY <2>1, <2>4, ProductIsNotExcused
    <3> QED
      BY <2>2, <2>4, <3>1
  <2> QED
    BY <2>3, <2>4 DEF SpecsBlameProduct
<1>2. TwoRuns => SpecsBlameProduct
  BY <1>1 DEF SpecsBlameProduct
<1> QED
  BY <1>2, TwoRunsInvariance, PTL
=============================================================================
