-------------------------- MODULE LoopRunnerProofs --------------------------
(***************************************************************************)
(* Proofs about LoopRunner for any duration, threshold, number of retries, *)
(* of rounds, of calls and of crashes; and about GatedLoop for any files.  *)
(***************************************************************************)
EXTENDS GatedLoop, SequenceTheorems, TLAPS

USE LoopAssumption

(* Everything of the state but the clock and the place in the code.        *)
records == <<index, attempts, rounds, stop, summary, queued>>

LEMMA SmallerOfTwo ==
    ASSUME NEW a \in Nat, NEW b \in Nat
    PROVE  Min({a, b}) = IF a <= b THEN a ELSE b
BY DEF Min

LEMMA ClockRuns ==
    ASSUME elapsed \in Nat, NEW t \in Nat, Takes(t)
    PROVE  elapsed' \in Nat
<1>1. elapsed + t \in Nat /\ Duration \in Nat
  OBVIOUS
<1> QED
  BY <1>1, SmallerOfTwo DEF Takes

(* The parts of a step that ends a round: the record is added behind the   *)
(* others.                                                                 *)
LEMMA RoundEnds ==
    ASSUME rounds \in Seq(RoundRow), NEW round \in RoundRow, EndRound(round)
    PROVE  /\ rounds' \in Seq(RoundRow) /\ Len(rounds') = Len(rounds) + 1
           /\ DOMAIN rounds' = 1 .. Len(rounds) + 1
           /\ DOMAIN rounds = 1 .. Len(rounds) /\ Len(rounds) \in Nat
           /\ \A i \in DOMAIN rounds : rounds'[i] = rounds[i]
           /\ rounds'[Len(rounds) + 1] = round
           /\ rounds' # <<>>
<1>1. rounds' = Append(rounds, round)
  BY DEF EndRound
<1> QED
  BY <1>1, AppendProperties

(* Without a new record, what the records say stays true.                  *)
LEMMA RecordsStay ==
    ASSUME IInv, UNCHANGED <<rounds, stop>>, pc' \in {"judge", "final", "done", "idle"} \/
             ~ (\E n \in Threshold .. Len(rounds) :
                  Threshold > 0 /\ SameBlocker(n - Threshold + 1, n))
    PROVE  RetriesSpent' /\ RepeatEndsLoop'
<1>1. RetriesSpent /\ RepeatEndsLoop
  BY DEF IInv
<1>2. RetriesSpent'
  BY <1>1 DEF RetriesSpent
<1>3. \A n, m : SameBlocker(n, m)' <=> SameBlocker(n, m)
  BY DEF SameBlocker
<1>4. RepeatEndsLoop'
  BY <1>1, <1>3 DEF RepeatEndsLoop
<1> QED
  BY <1>2, <1>4

(* While the loop has not come to the end of a round, no blocker has       *)
(* been repeated.                                                          *)
LEMMA NoneRepeated ==
    ASSUME IInv, pc \notin {"judge", "final", "done", "idle"}
    PROVE  ~ (\E n \in Threshold .. Len(rounds) :
                Threshold > 0 /\ SameBlocker(n - Threshold + 1, n))
BY DEF IInv, RepeatEndsLoop

LEMMA InitEstablishes == Init => IInv
<1> SUFFICES ASSUME Init PROVE IInv
  OBVIOUS
<1>1. rounds = <<>> /\ queued = <<>> /\ attempts = <<>> /\ Len(rounds) = 0
      /\ DOMAIN rounds = {} /\ Len(queued) = 0
  BY DEF Init
<1>2. TypeOK
  BY DEF Init, TypeOK, NoSummary, Reasons
<1>3. Directories /\ Attempted /\ Summarised /\ Reasoned
  BY <1>1 DEF Init, Directories, Attempted, InRound, Summarised, Reasoned, NoSummary
<1>4. RetriesSpent /\ CountsAreQueued
  BY <1>1 DEF RetriesSpent, CountsAreQueued
<1>5. RepeatEndsLoop
  BY <1>1 DEF RepeatEndsLoop, Init
<1>6. SummaryKeepsUp /\ CompletedIsExplained
  BY <1>1 DEF Init, SummaryKeepsUp, CompletedIsExplained, NoSummary
<1> QED
  BY <1>2, <1>3, <1>4, <1>5, <1>6 DEF IInv

LEMMA StartStep ==
    ASSUME IInv, NEW given \in Arguments, NEW audited \in BOOLEAN, Start(given, audited)
    PROVE  IInv'
<1>1. /\ rounds' = <<>> /\ attempts' = <<>> /\ Len(rounds') = 0 /\ DOMAIN rounds' = {}
      /\ elapsed' = 0 /\ index' = 0 /\ runs' = runs + 1 /\ args' = given
      /\ stop' = IF audited THEN "none" ELSE "knowledge-audit-blocked"
      /\ pc' = IF audited THEN "check" ELSE "final"
      /\ UNCHANGED <<summary, queued>>
  BY DEF Start
<1>2. TypeOK /\ Directories /\ Summarised /\ runs \in Nat /\ queued \in Seq(Nat)
      /\ Len(queued) \in Nat /\ summary.run \in Nat
  BY DEF IInv, TypeOK
<1>3. TypeOK'
  <2>1. attempts' \in Seq(Outcomes) /\ rounds' \in Seq(RoundRow)
    BY <1>1
  <2>2. stop' \in Reasons /\ pc' \in {"check", "final"}
    BY <1>1 DEF Reasons
  <2>3. index' = Len(rounds') + (IF pc' \in {"preflight", "hook", "batch"} THEN 1 ELSE 0)
    BY <1>1, <2>2
  <2> QED
    BY <1>1, <1>2, <2>1, <2>2, <2>3 DEF TypeOK
<1>4. Directories'
  <2>1. runs' = 1 => Len(queued') = 0
    BY <1>1, <1>2 DEF Directories
  <2>2. Limited' => index' <= args'.max_rounds
    BY <1>1 DEF Limited
  <2> QED
    BY <1>1, <1>2, <2>1, <2>2 DEF Directories
<1>5. Attempted' /\ Reasoned'
  BY <1>1 DEF Attempted, InRound, Reasoned
<1>6. Summarised' /\ SummaryKeepsUp' /\ CompletedIsExplained'
  BY <1>1, <1>2 DEF Summarised, SummaryKeepsUp, CompletedIsExplained
<1>7. RetriesSpent' /\ CountsAreQueued' /\ RepeatEndsLoop'
  BY <1>1 DEF RetriesSpent, CountsAreQueued, RepeatEndsLoop
<1> QED
  BY <1>3, <1>4, <1>5, <1>6, <1>7 DEF IInv

LEMMA StartRoundStep == ASSUME IInv, StartRound PROVE IInv'
<1>1. /\ pc = "check" /\ pc' \in {"preflight", "hook", "batch"}
      /\ ShouldStart /\ index' = index + 1 /\ attempts' = <<>>
      /\ queued' = IF index < Len(queued) THEN queued ELSE Append(queued, 0)
      /\ UNCHANGED <<runs, args, elapsed, rounds, stop, summary>>
  BY DEF StartRound, BeforeBatch
<1>2. /\ TypeOK /\ Directories /\ Summarised /\ Reasoned /\ CountsAreQueued
      /\ SummaryKeepsUp /\ CompletedIsExplained
      /\ runs \in Nat /\ index \in Nat /\ index = Len(rounds)
      /\ rounds \in Seq(RoundRow) /\ DOMAIN rounds = 1 .. Len(rounds)
      /\ queued \in Seq(Nat) /\ Len(queued) \in Nat /\ index <= Len(queued)
  BY <1>1 DEF IInv, TypeOK, Directories
<1>3. /\ queued' \in Seq(Nat) /\ Len(queued') >= Len(queued) /\ Len(queued') >= index'
      /\ Len(queued) = index => Len(queued') = index' /\ queued'[index'] = 0
      /\ Len(queued') \in Nat
      /\ \A i \in 1 .. Len(queued) : queued'[i] = queued[i]
  <2>1. CASE index < Len(queued)
    BY <1>1, <1>2, <2>1
  <2>2. CASE ~ (index < Len(queued))
    <3>1. queued' = Append(queued, 0) /\ Len(queued) = index
      BY <1>1, <1>2, <2>2
    <3> QED
      BY <1>1, <1>2, <3>1, AppendProperties
  <2> QED
    BY <2>1, <2>2
<1>4. TypeOK'
  BY <1>1, <1>2, <1>3 DEF TypeOK
<1>5. Directories'
  <2>1. ASSUME Limited
        PROVE  index' <= args'.max_rounds
    <3>1. index < args.max_rounds /\ args.max_rounds \in Nat
      BY <1>1, <1>2, <2>1 DEF ShouldStart, RoundsLeft, Limited, TypeOK
    <3> QED
      BY <1>1, <1>2, <3>1
  <2>2. Limited' <=> Limited
    BY <1>1 DEF Limited
  <2> QED
    BY <1>1, <1>2, <1>3, <2>1, <2>2 DEF Directories
<1>6. Attempted'
  <2>1. Len(attempts') = 0 /\ DOMAIN attempts' = {}
    BY <1>1
  <2>2. runs = 1 => queued'[index'] = 0
    BY <1>1, <1>2, <1>3 DEF Directories
  <2>3. Len(attempts') <= Retries
    BY <2>1
  <2> HIDE DEF InRound
  <2> QED
    BY <1>1, <2>1, <2>2, <2>3 DEF Attempted
<1>7. CountsAreQueued'
  BY <1>1, <1>2, <1>3 DEF CountsAreQueued
<1>8. Summarised' /\ Reasoned' /\ SummaryKeepsUp'
  BY <1>1, <1>2 DEF Summarised, Reasoned, SummaryKeepsUp
<1>9. CompletedIsExplained'
  BY <1>1, <1>2 DEF CompletedIsExplained, Limited
<1>10. RetriesSpent' /\ RepeatEndsLoop'
  BY <1>1, NoneRepeated, RecordsStay
<1> QED
  BY <1>4, <1>5, <1>6, <1>7, <1>8, <1>9, <1>10 DEF IInv

LEMMA OverStep == ASSUME IInv, Over PROVE IInv'
<1>1. /\ pc = "check" /\ pc' = "final" /\ ~ ShouldStart
      /\ UNCHANGED <<runs, args, elapsed, index, attempts, rounds, stop, summary, queued>>
  BY DEF Over
<1>2. /\ TypeOK /\ Directories /\ Summarised /\ Reasoned /\ CountsAreQueued
      /\ SummaryKeepsUp /\ CompletedIsExplained
      /\ index \in Nat /\ index = Len(rounds) /\ elapsed \in Nat
  BY <1>1 DEF IInv, TypeOK
<1>3. Limited' <=> Limited
  BY <1>1 DEF Limited
<1>4. Len(rounds) = args.max_rounds \/ (~ Limited /\ elapsed >= Duration)
  <2>1. CASE Limited
    <3>1. args.max_rounds \in Nat /\ index <= args.max_rounds /\ ~ (index < args.max_rounds)
      BY <1>1, <1>2, <2>1 DEF ShouldStart, RoundsLeft, Limited, TypeOK, Directories
    <3> QED
      BY <1>2, <3>1
  <2>2. CASE ~ Limited
    BY <1>1, <1>2, <2>2 DEF ShouldStart, RoundsLeft
  <2> QED
    BY <2>1, <2>2
<1>5. TypeOK'
  BY <1>1, <1>2 DEF TypeOK
<1>6. Directories' /\ Attempted' /\ Summarised' /\ CountsAreQueued'
  BY <1>1, <1>2, <1>3 DEF Directories, Attempted, InRound, Summarised, CountsAreQueued
<1>7. Reasoned'
  BY <1>1, <1>3, <1>4 DEF Reasoned
<1>8. SummaryKeepsUp' /\ CompletedIsExplained'
  BY <1>1, <1>2, <1>3 DEF SummaryKeepsUp, CompletedIsExplained
<1>9. RetriesSpent' /\ RepeatEndsLoop'
  BY <1>1, RecordsStay
<1> QED
  BY <1>5, <1>6, <1>7, <1>8, <1>9 DEF IInv

(* A step within a round that leaves all but the clock alone: a preflight  *)
(* or a hook that succeeds, or the sleep between two rounds.               *)
LEMMA QuietStep ==
    ASSUME IInv, UNCHANGED <<runs, args, records>>, elapsed' \in Nat,
           \/ InRound /\ pc' \in {"hook", "batch"}
           \/ pc = "sleep" /\ pc' = "check"
    PROVE  IInv'
<1>1. /\ UNCHANGED <<runs, args, index, attempts, rounds, stop, summary, queued>>
      /\ pc \notin {"judge", "final", "done", "idle"}
      /\ pc' \in {"hook", "batch", "check"}
      /\ InRound' => InRound
  BY DEF records, InRound
<1>2. /\ TypeOK /\ Directories /\ Attempted /\ Summarised /\ Reasoned
      /\ CountsAreQueued /\ SummaryKeepsUp /\ CompletedIsExplained
  BY DEF IInv
<1>3. TypeOK'
  BY <1>1, <1>2 DEF TypeOK, InRound
<1>4. Directories'
  BY <1>1, <1>2 DEF Directories, Limited
<1>5. Attempted'
  BY <1>1, <1>2 DEF Attempted
<1>6. Summarised' /\ Reasoned' /\ SummaryKeepsUp' /\ CountsAreQueued'
  BY <1>1, <1>2 DEF Summarised, Reasoned, SummaryKeepsUp, CountsAreQueued
<1>7. CompletedIsExplained'
  BY <1>1, <1>2 DEF CompletedIsExplained, Summarised
<1>8. RetriesSpent' /\ RepeatEndsLoop'
  BY <1>1, NoneRepeated, RecordsStay
<1> QED
  BY <1>3, <1>4, <1>5, <1>6, <1>7, <1>8 DEF IInv

(* A round ends: its record is added.                                      *)
LEMMA EndRoundStep ==
    ASSUME IInv, InRound, NEW round \in RoundRow, EndRound(round),
           UNCHANGED <<runs, args, index, stop, summary>>,
           elapsed' \in Nat, attempts' \in Seq(Outcomes),
           queued' \in Seq(Nat), Len(queued') = Len(queued),
           \A i \in 1 .. Len(queued) : i # index => queued'[i] = queued[i],
           queued'[index] >= queued[index],
           \A i \in DOMAIN round.tries :
               i < Len(round.tries) => StatusOf(round.tries[i]) = "environment-event",
           round.status = "environment-event" =>
               Last(round.tries) = "hook-failed" \/ Len(round.tries) = Retries + 1,
           round.reported <= queued'[index],
           runs = 1 /\ (\A i \in DOMAIN round.tries : round.tries[i] # "killed")
               => round.reported = queued'[index]
    PROVE  IInv'
<1>1. /\ TypeOK /\ Directories /\ Summarised /\ Reasoned /\ RetriesSpent
      /\ CountsAreQueued /\ SummaryKeepsUp /\ CompletedIsExplained /\ RepeatEndsLoop
      /\ pc \in {"preflight", "hook", "batch"} /\ pc' = "judge"
      /\ runs \in Nat /\ index \in Nat /\ index = Len(rounds) + 1
      /\ rounds \in Seq(RoundRow) /\ queued \in Seq(Nat) /\ Len(queued) \in Nat
      /\ index <= Len(queued) /\ summary.run \in Nat /\ summary.rounds \in Nat
  BY DEF IInv, InRound, EndRound, TypeOK, Directories
<1>2. /\ rounds' \in Seq(RoundRow) /\ Len(rounds') = index
      /\ DOMAIN rounds' = 1 .. index /\ DOMAIN rounds = 1 .. index - 1
      /\ Len(rounds) = index - 1 /\ Len(rounds) \in Nat
      /\ \A i \in 1 .. index - 1 : rounds'[i] = rounds[i]
      /\ rounds'[index] = round /\ rounds' # <<>>
  <2>1. /\ rounds' \in Seq(RoundRow) /\ Len(rounds') = Len(rounds) + 1
        /\ DOMAIN rounds' = 1 .. Len(rounds) + 1
        /\ DOMAIN rounds = 1 .. Len(rounds) /\ Len(rounds) \in Nat
        /\ \A i \in DOMAIN rounds : rounds'[i] = rounds[i]
        /\ rounds'[Len(rounds) + 1] = round
        /\ rounds' # <<>>
    BY <1>1, RoundEnds
  <2>2. Len(rounds) = index - 1
    BY <1>1, <2>1
  <2> QED
    BY <1>1, <2>1, <2>2
<1>3. TypeOK'
  BY <1>1, <1>2 DEF TypeOK
<1>4. Directories'
  BY <1>1, <1>2 DEF Directories, Limited
<1>5. Attempted' /\ Summarised' /\ Reasoned'
  BY <1>1 DEF Attempted, InRound, Summarised, Reasoned
<1>6. RetriesSpent'
  <2>1. ASSUME NEW r \in DOMAIN rounds'
        PROVE  /\ \A i \in DOMAIN rounds'[r].tries :
                    i < Len(rounds'[r].tries) =>
                        StatusOf(rounds'[r].tries[i]) = "environment-event"
               /\ rounds'[r].status = "environment-event" =>
                    \/ Last(rounds'[r].tries) = "hook-failed"
                    \/ Len(rounds'[r].tries) = Retries + 1
    <3>1. CASE r \in 1 .. index - 1
      <4>1. rounds'[r] = rounds[r] /\ r \in DOMAIN rounds
        BY <1>2, <3>1
      <4> QED
        BY <1>1, <4>1 DEF RetriesSpent
    <3>2. CASE r = index
      BY <1>2, <3>2
    <3> QED
      BY <1>1, <1>2, <2>1, <3>1, <3>2
  <2> QED
    BY <2>1 DEF RetriesSpent
<1>7. CountsAreQueued'
  <2>1. ASSUME NEW r \in 1 .. index - 1
        PROVE  rounds'[r] = rounds[r] /\ queued'[r] = queued[r] /\ r \in DOMAIN rounds
    BY <1>1, <1>2
  <2>2. \A r \in 1 .. index : r \in 1 .. index - 1 \/ r = index
    BY <1>1
  <2> QED
    BY <1>1, <1>2, <2>1, <2>2 DEF CountsAreQueued
<1>8. SummaryKeepsUp'
  <2>1. ASSUME summary.readable, summary.run = runs
        PROVE  summary.rounds = Len(rounds)
    <3>1. CASE rounds = <<>>
      BY <1>1, <1>2, <2>1, <3>1 DEF SummaryKeepsUp
    <3>2. CASE rounds # <<>>
      BY <1>1, <3>2 DEF SummaryKeepsUp
    <3> QED
      BY <3>1, <3>2
  <2> QED
    BY <1>1, <1>2, <2>1 DEF SummaryKeepsUp
<1>9. CompletedIsExplained'
  BY <1>1 DEF CompletedIsExplained, Summarised
<1>10. RepeatEndsLoop'
  <2>1. ASSUME NEW n \in Threshold .. Len(rounds'), Threshold > 0,
               SameBlocker(n - Threshold + 1, n)', n # Len(rounds')
        PROVE  FALSE
    <3>1. n \in Threshold .. Len(rounds) /\ n \in 1 .. index - 1
          /\ n - Threshold + 1 \in 1 .. n
      BY <1>1, <1>2, <2>1
    <3>2. \A i \in n - Threshold + 1 .. n : i \in 1 .. index - 1
      BY <1>1, <3>1
    <3>3. SameBlocker(n - Threshold + 1, n)
      BY <1>2, <2>1, <3>1, <3>2 DEF SameBlocker
    <3> QED
      BY <1>1, <2>1, <3>1, <3>3, NoneRepeated
  <2>2. stop' # "repeated-blocker"
    BY <1>1 DEF Reasoned
  <2> QED
    BY <1>1, <2>1, <2>2 DEF RepeatEndsLoop
<1> QED
  BY <1>3, <1>4, <1>5, <1>6, <1>7, <1>8, <1>9, <1>10 DEF IInv

LEMMA PreflightOkStep ==
    ASSUME IInv, NEW t \in Times, PreflightOk(t)
    PROVE  IInv'
<1>1. elapsed' \in Nat
  BY ClockRuns DEF PreflightOk, IInv, TypeOK
<1> QED
  BY <1>1, QuietStep DEF PreflightOk, BeforeBatch, records, InRound

LEMMA PreflightFailsStep ==
    ASSUME IInv, NEW detail \in Details, NEW t \in Times, PreflightFails(detail, t)
    PROVE  IInv'
<1> DEFINE round == Round("not-ready", <<"not-ready", detail>>, <<>>, 0)
<1>1. elapsed' \in Nat
  BY ClockRuns DEF PreflightFails, IInv, TypeOK
<1>2. /\ round \in RoundRow /\ round.tries = <<>> /\ DOMAIN round.tries = {}
      /\ round.status = "not-ready" /\ round.reported = 0
  BY DEF Round, RoundRow, Statuses, Blockers
<1>3. /\ EndRound(round) /\ InRound
      /\ UNCHANGED <<runs, args, index, attempts, stop, summary, queued>>
  BY DEF PreflightFails, InRound
<1>4. attempts \in Seq(Outcomes) /\ queued \in Seq(Nat) /\ index \in DOMAIN queued
      /\ queued[index] \in Nat
  BY <1>3 DEF IInv, TypeOK, Directories, InRound
<1>5. runs = 1 => queued[index] = 0
  <2>1. pc = "preflight" /\ Attempted
    BY DEF PreflightFails, IInv
  <2>2. attempts = <<>> /\ DOMAIN attempts = {}
    BY <1>3, <2>1 DEF Attempted
  <2> QED
    BY <1>3, <2>1, <2>2 DEF Attempted
<1> HIDE DEF round
<1> QED
  BY <1>1, <1>2, <1>3, <1>4, <1>5, EndRoundStep

LEMMA HookOkStep ==
    ASSUME IInv, NEW t \in Times, HookOk(t)
    PROVE  IInv'
<1>1. elapsed' \in Nat
  BY ClockRuns DEF HookOk, IInv, TypeOK
<1> QED
  BY <1>1, QuietStep DEF HookOk, records, InRound

(* What an attempt adds to those before it.                                *)
LEMMA AttemptAdded ==
    ASSUME attempts \in Seq(Outcomes), NEW last \in Outcomes \cup {"hook-failed"},
           NEW tries \in {Append(attempts, last)}
    PROVE  /\ tries \in Seq(Outcomes \cup {"hook-failed"})
           /\ Len(tries) = Len(attempts) + 1 /\ Len(attempts) \in Nat
           /\ DOMAIN tries = 1 .. Len(attempts) + 1
           /\ DOMAIN attempts = 1 .. Len(attempts)
           /\ \A i \in DOMAIN attempts : tries[i] = attempts[i]
           /\ tries[Len(attempts) + 1] = last /\ Last(tries) = last
           /\ last \in Outcomes => tries \in Seq(Outcomes)
<1>1. attempts \in Seq(Outcomes \cup {"hook-failed"})
  <2>1. Outcomes \subseteq Outcomes \cup {"hook-failed"}
    OBVIOUS
  <2> QED
    BY <2>1
<1>2. /\ tries \in Seq(Outcomes \cup {"hook-failed"})
      /\ Len(tries) = Len(attempts) + 1 /\ Len(attempts) \in Nat
      /\ DOMAIN tries = 1 .. Len(attempts) + 1
      /\ DOMAIN attempts = 1 .. Len(attempts)
      /\ \A i \in 1 .. Len(attempts) : tries[i] = attempts[i]
      /\ tries[Len(attempts) + 1] = last
  BY <1>1, AppendProperties
<1>3. last \in Outcomes => tries \in Seq(Outcomes)
  BY AppendProperties
<1> QED
  BY <1>2, <1>3 DEF Last

LEMMA HookFailsStep ==
    ASSUME IInv, NEW detail \in Details, NEW t \in Times, HookFails(detail, t)
    PROVE  IInv'
<1> DEFINE tries == Append(attempts, "hook-failed")
<1> DEFINE round == Round("environment-event", <<"environment-event", detail>>, tries, 0)
<1>1. elapsed' \in Nat
  BY ClockRuns DEF HookFails, IInv, TypeOK
<1>2. /\ EndRound(round) /\ InRound
      /\ UNCHANGED <<runs, args, index, attempts, stop, summary, queued>>
  BY DEF HookFails, InRound
<1>3. /\ attempts \in Seq(Outcomes) /\ queued \in Seq(Nat) /\ index \in DOMAIN queued
      /\ queued[index] \in Nat /\ Attempted
  BY <1>2 DEF IInv, TypeOK, Directories, InRound
<1>4. /\ tries \in Seq(Outcomes \cup {"hook-failed"})
      /\ Len(tries) = Len(attempts) + 1 /\ Len(attempts) \in Nat
      /\ DOMAIN tries = 1 .. Len(attempts) + 1
      /\ DOMAIN attempts = 1 .. Len(attempts)
      /\ \A i \in DOMAIN attempts : tries[i] = attempts[i]
      /\ Last(tries) = "hook-failed"
  <2>1. tries \in {Append(attempts, "hook-failed")}
    OBVIOUS
  <2> HIDE DEF tries, round
  <2> QED
    BY <1>3, <2>1, AttemptAdded
<1> HIDE DEF tries
<1>5. /\ round \in RoundRow /\ round.tries = tries
      /\ round.status = "environment-event" /\ round.reported = 0
  BY <1>4 DEF Round, RoundRow, Statuses, Blockers
<1> HIDE DEF round
<1>6. \A i \in DOMAIN tries : i < Len(tries) => StatusOf(tries[i]) = "environment-event"
  <2>1. \A i \in DOMAIN tries : i < Len(tries) => i \in DOMAIN attempts
    BY <1>4
  <2> QED
    BY <1>2, <1>3, <1>4, <2>1 DEF Attempted
<1>7. runs = 1 /\ (\A i \in DOMAIN tries : tries[i] # "killed") => queued[index] = 0
  <2>1. \A i \in DOMAIN attempts : i \in DOMAIN tries
    BY <1>4
  <2> QED
    BY <1>2, <1>3, <1>4, <2>1 DEF Attempted
<1>8. /\ queued' \in Seq(Nat) /\ Len(queued') = Len(queued)
      /\ \A i \in 1 .. Len(queued) : i # index => queued'[i] = queued[i]
      /\ queued'[index] = queued[index] /\ queued'[index] >= queued[index]
      /\ 0 <= queued'[index] /\ attempts' \in Seq(Outcomes)
  BY <1>2, <1>3
<1> QED
  BY <1>1, <1>2, <1>4, <1>5, <1>6, <1>7, <1>8, EndRoundStep

LEMMA RunBatchStep ==
    ASSUME IInv, NEW outcome \in Outcomes, NEW filed \in 0 .. MaxFiled,
           NEW detail \in Details, NEW event \in BOOLEAN, NEW t \in Times,
           RunBatch(outcome, filed, detail, event, t)
    PROVE  IInv'
<1> DEFINE round == Round(StatusOf(outcome), BlockerOf(outcome, detail, event),
                          attempts', Counted(outcome, filed))
<1>1. elapsed' \in Nat
  BY ClockRuns DEF RunBatch, IInv, TypeOK
<1>2. /\ pc = "batch" /\ InRound
      /\ filed > 0 => MayFile(outcome)
      /\ queued' = [queued EXCEPT ![index] = queued[index] + filed]
      /\ attempts' = Append(attempts, outcome)
      /\ UNCHANGED <<runs, args, index, stop, summary>>
      /\ filed \in Nat
  BY DEF RunBatch, InRound
<1>3. /\ attempts \in Seq(Outcomes) /\ queued \in Seq(Nat) /\ index \in DOMAIN queued
      /\ queued[index] \in Nat /\ Attempted /\ Len(queued) \in Nat
      /\ DOMAIN queued = 1 .. Len(queued)
  BY <1>2 DEF IInv, TypeOK, Directories, InRound
<1>4. /\ attempts' \in Seq(Outcomes \cup {"hook-failed"}) /\ attempts' \in Seq(Outcomes)
      /\ Len(attempts') = Len(attempts) + 1 /\ Len(attempts) \in Nat
      /\ DOMAIN attempts' = 1 .. Len(attempts) + 1
      /\ DOMAIN attempts = 1 .. Len(attempts)
      /\ \A i \in DOMAIN attempts : attempts'[i] = attempts[i]
      /\ attempts'[Len(attempts) + 1] = outcome
  BY <1>2, <1>3, AttemptAdded
<1>5. /\ queued' \in Seq(Nat) /\ Len(queued') = Len(queued)
      /\ \A i \in 1 .. Len(queued) : i # index => queued'[i] = queued[i]
      /\ queued'[index] = queued[index] + filed
  BY <1>2, <1>3
<1>6. /\ Len(attempts) <= Retries
      /\ \A i \in DOMAIN attempts : StatusOf(attempts[i]) = "environment-event"
      /\ runs = 1 /\ (\A i \in DOMAIN attempts : attempts[i] # "killed")
           => queued[index] = 0
  BY <1>2, <1>3 DEF Attempted
<1>7. ASSUME runs = 1, \A i \in DOMAIN attempts' : attempts'[i] # "killed"
      PROVE  /\ queued[index] = 0 /\ outcome # "killed"
             /\ outcome # "processed" => filed = 0
  <2>1. \A i \in DOMAIN attempts : i \in DOMAIN attempts'
    BY <1>4
  <2>2. Len(attempts) + 1 \in DOMAIN attempts'
    BY <1>4
  <2> QED
    BY <1>2, <1>4, <1>6, <1>7, <2>1, <2>2 DEF MayFile
<1>8. CASE Retried(outcome)
  <2>1. pc' \in {"hook", "batch"} /\ UNCHANGED rounds
    BY <1>8 DEF RunBatch, BeforeBatch
  <2>2. /\ TypeOK /\ Directories /\ Summarised /\ Reasoned /\ CountsAreQueued
        /\ SummaryKeepsUp /\ CompletedIsExplained
        /\ rounds \in Seq(RoundRow) /\ Len(rounds) \in Nat
        /\ DOMAIN rounds = 1 .. Len(rounds) /\ index = Len(rounds) + 1
    BY <1>2 DEF IInv, TypeOK
  <2>3. TypeOK'
    BY <1>1, <1>2, <1>4, <1>5, <2>1, <2>2 DEF TypeOK
  <2>4. Directories'
    BY <1>2, <1>5, <2>1, <2>2 DEF Directories, Limited
  <2>5. Attempted'
    <3>1. Len(attempts') <= Retries /\ StatusOf(outcome) = "environment-event"
      BY <1>4, <1>8 DEF Retried
    <3>2. \A i \in DOMAIN attempts' : StatusOf(attempts'[i]) = "environment-event"
      BY <1>4, <1>6, <3>1
    <3>3. outcome # "processed"
      BY <3>1 DEF StatusOf
    <3>4. runs = 1 /\ (\A i \in DOMAIN attempts' : attempts'[i] # "killed")
            => queued'[index] = 0
      BY <1>5, <1>7, <3>3
    <3> QED
      BY <1>2, <2>1, <3>1, <3>2, <3>4 DEF Attempted
  <2>6. Summarised' /\ Reasoned' /\ SummaryKeepsUp'
    BY <1>2, <2>1, <2>2 DEF Summarised, Reasoned, SummaryKeepsUp
  <2>7. CompletedIsExplained'
    BY <1>2, <2>1, <2>2 DEF CompletedIsExplained, Summarised
  <2>8. CountsAreQueued'
    <3>1. \A r \in DOMAIN rounds : queued'[r] = queued[r]
      <4>1. Len(rounds) <= Len(queued)
        BY <2>2 DEF Directories
      <4>2. \A r \in DOMAIN rounds : r \in 1 .. Len(queued) /\ r # index
        BY <1>3, <2>2, <4>1
      <4> QED
        BY <1>5, <4>2
    <3> QED
      BY <1>2, <2>1, <2>2, <3>1 DEF CountsAreQueued
  <2>9. RetriesSpent' /\ RepeatEndsLoop'
    BY <1>2, <2>1, NoneRepeated, RecordsStay
  <2> QED
    BY <2>3, <2>4, <2>5, <2>6, <2>7, <2>8, <2>9 DEF IInv
<1>9. CASE ~ Retried(outcome)
  <2>1. EndRound(round)
    BY <1>9 DEF RunBatch
  <2>2. /\ round.tries = attempts' /\ round.status = StatusOf(outcome)
        /\ round.reported = Counted(outcome, filed)
    BY DEF Round
  <2>3. /\ StatusOf(outcome) \in Statuses
        /\ BlockerOf(outcome, detail, event) \in Blockers
        /\ Counted(outcome, filed) \in Nat
    BY <1>2 DEF StatusOf, Statuses, BlockerOf, Blockers, Counted, Outcomes
  <2>4. round \in RoundRow
    BY <1>4, <2>3 DEF Round, RoundRow
  <2> HIDE DEF round
  <2>5. \A i \in DOMAIN attempts' :
            i < Len(attempts') => StatusOf(attempts'[i]) = "environment-event"
    <3>1. \A i \in DOMAIN attempts' : i < Len(attempts') => i \in DOMAIN attempts
      BY <1>4
    <3> QED
      BY <1>4, <1>6, <3>1
  <2>6. StatusOf(outcome) = "environment-event" => Len(attempts') = Retries + 1
    BY <1>4, <1>6, <1>9 DEF Retried
  <2>7. Counted(outcome, filed) <= queued'[index]
    BY <1>2, <1>3, <1>5 DEF Counted
  <2>8. runs = 1 /\ (\A i \in DOMAIN attempts' : attempts'[i] # "killed")
          => Counted(outcome, filed) = queued'[index]
    BY <1>2, <1>5, <1>7 DEF Counted
  <2>9. queued'[index] >= queued[index]
    BY <1>2, <1>3, <1>5
  <2> QED
    BY <1>1, <1>2, <1>4, <1>5, <2>1, <2>2, <2>4, <2>5, <2>6, <2>7, <2>8, <2>9, EndRoundStep
<1> QED
  BY <1>8, <1>9

(* The end of a round or of the loop: a summary of all rounds is written.  *)
LEMMA SummaryStep ==
    ASSUME IInv, UNCHANGED <<runs, args, elapsed, index, attempts, rounds, queued>>,
           pc \in {"judge", "not-ready", "final"},
           pc' \in {"not-ready", "sleep", "final", "done"},
           NEW reason \in Reasons, NEW done \in BOOLEAN, WriteSummary(reason, done),
           stop' = reason,
           done <=> pc' = "done",
           done => reason = stop /\ pc = "final",
           reason = "repeated-blocker" =>
               /\ pc' \in {"final", "done"} /\ Len(rounds) >= Threshold
               /\ SameBlocker(Len(rounds) - Threshold + 1, Len(rounds)),
           pc' = "final" => reason # "none",
           pc' \in {"not-ready", "sleep"} \/ (pc' = "final" /\ pc = "not-ready")
               => ~ (\E n \in Threshold .. Len(rounds) :
                       Threshold > 0 /\ SameBlocker(n - Threshold + 1, n))
    PROVE  IInv'
<1>1. /\ TypeOK /\ Directories /\ Reasoned /\ CountsAreQueued /\ RetriesSpent
      /\ RepeatEndsLoop /\ runs \in Nat /\ rounds \in Seq(RoundRow) /\ Len(rounds) \in Nat
  BY DEF IInv, TypeOK
<1>2. /\ summary'.readable = TRUE /\ summary'.run = runs /\ summary'.rounds = Len(rounds)
      /\ summary'.stop = reason /\ summary'.completed = done
      /\ summary' \in [readable : BOOLEAN, run : Nat, rounds : Nat,
                       stop : Reasons, completed : BOOLEAN]
  BY <1>1 DEF WriteSummary
<1>3. TypeOK'
  BY <1>1, <1>2 DEF TypeOK
<1>4. Directories' /\ CountsAreQueued' /\ RetriesSpent'
  BY <1>1 DEF Directories, Limited, CountsAreQueued, RetriesSpent
<1>5. Attempted' /\ Reasoned'
  BY <1>1 DEF Attempted, InRound, Reasoned
<1>6. Summarised' /\ SummaryKeepsUp'
  BY <1>1, <1>2 DEF Summarised, SummaryKeepsUp
<1>7. CompletedIsExplained'
  <2>1. Limited' <=> Limited
    BY DEF Limited
  <2>2. done => reason # "none" \/ Len(rounds) = args.max_rounds
                \/ (~ Limited /\ elapsed >= Duration)
    BY <1>1 DEF Reasoned
  <2> QED
    BY <1>2, <2>1, <2>2 DEF CompletedIsExplained
<1>8. RepeatEndsLoop'
  <2>1. \A n, m : SameBlocker(n, m)' <=> SameBlocker(n, m)
    BY DEF SameBlocker
  <2>2. ASSUME NEW n \in Threshold .. Len(rounds), Threshold > 0,
               SameBlocker(n - Threshold + 1, n)
        PROVE  n = Len(rounds) /\ pc' \in {"final", "done"}
    BY <1>1, <2>2 DEF RepeatEndsLoop
  <2> QED
    BY <2>1, <2>2 DEF RepeatEndsLoop
<1> QED
  BY <1>3, <1>4, <1>5, <1>6, <1>7, <1>8 DEF IInv

LEMMA JudgeStep == ASSUME IInv, Judge PROVE IInv'
<1> DEFINE reason == IF Repeated(rounds) THEN "repeated-blocker" ELSE "none"
<1>1. /\ pc = "judge" /\ WriteSummary(reason, FALSE) /\ stop' = reason
      /\ reason # "none" <=> pc' = "final"
      /\ pc' \in {"not-ready", "sleep", "final"}
      /\ UNCHANGED <<runs, args, elapsed, index, attempts, rounds, queued>>
  BY DEF Judge
<1>2. reason \in Reasons /\ reason \in {"none", "repeated-blocker"}
  BY DEF Reasons
<1>3. ASSUME ~ Repeated(rounds), Threshold > 0,
             NEW n \in Threshold .. Len(rounds), SameBlocker(n - Threshold + 1, n)
      PROVE  FALSE
  <2>1. n = Len(rounds) /\ RepeatEndsLoop
    BY <1>3 DEF IInv, RepeatEndsLoop
  <2> QED
    BY <1>3, <2>1 DEF Repeated, SameBlocker, Last
<1>4. pc' # "final" => ~ Repeated(rounds)
  BY <1>1
<1>5. reason = "repeated-blocker" =>
        /\ pc' = "final" /\ Len(rounds) >= Threshold
        /\ SameBlocker(Len(rounds) - Threshold + 1, Len(rounds))
  BY <1>1 DEF Repeated, SameBlocker, Last
<1> HIDE DEF reason
<1> QED
  BY <1>1, <1>2, <1>3, <1>4, <1>5, SummaryStep

LEMMA StopNotReadyStep == ASSUME IInv, StopNotReady PROVE IInv'
<1>1. "not-ready preflight" \in Reasons
  BY DEF Reasons
<1>2. ~ (\E n \in Threshold .. Len(rounds) :
           Threshold > 0 /\ SameBlocker(n - Threshold + 1, n))
  BY NoneRepeated DEF StopNotReady
<1> QED
  BY <1>1, <1>2, SummaryStep DEF StopNotReady

LEMMA FinalStep == ASSUME IInv, Final PROVE IInv'
<1>1. stop \in Reasons /\ RepeatEndsLoop /\ rounds \in Seq(RoundRow)
  BY DEF IInv, TypeOK
<1>2. stop = "repeated-blocker" =>
        /\ Len(rounds) >= Threshold
        /\ SameBlocker(Len(rounds) - Threshold + 1, Len(rounds))
  BY <1>1 DEF RepeatEndsLoop
<1> QED
  BY <1>1, <1>2, SummaryStep DEF Final

LEMMA SleepStep == ASSUME IInv, Sleep PROVE IInv'
<1>1. elapsed \in Nat
  BY DEF IInv, TypeOK
<1>2. Nap \in Nat
  <2>1. CASE elapsed >= Duration \/ Limited \/ ~ RoundsLeft
    BY <1>1, <2>1 DEF Nap
  <2>2. CASE ~ (elapsed >= Duration) /\ ~ Limited /\ RoundsLeft
    <3>1. Duration - elapsed \in Nat /\ Nap = Min({SleepSec, Duration - elapsed})
      BY <1>1, <2>2 DEF Nap
    <3> QED
      BY <3>1, SmallerOfTwo
  <2> QED
    BY <2>1, <2>2
<1>3. elapsed' \in Nat
  BY <1>1, <1>2, ClockRuns DEF Sleep
<1> QED
  BY <1>3, QuietStep DEF Sleep, records

LEMMA CrashStep == ASSUME IInv, Crash PROVE IInv'
<1>1. /\ pc \notin {"idle", "done"} /\ pc' = "idle"
      /\ elapsed' = 0 /\ index' = 0 /\ attempts' = <<>>
      /\ summary' \in {summary, NoSummary}
      /\ UNCHANGED <<runs, args, rounds, stop, queued>>
  BY DEF Crash
<1>2. /\ TypeOK /\ Directories /\ Summarised /\ Reasoned /\ CountsAreQueued
      /\ SummaryKeepsUp /\ runs \in Nat /\ summary.run \in Nat
      /\ Len(queued) \in Nat
  BY DEF IInv, TypeOK
<1>3. /\ NoSummary \in [readable : BOOLEAN, run : Nat, rounds : Nat,
                        stop : Reasons, completed : BOOLEAN]
      /\ ~ NoSummary.readable /\ NoSummary.run = 0 /\ ~ NoSummary.completed
  BY DEF NoSummary, Reasons
<1>4. TypeOK'
  BY <1>1, <1>2, <1>3 DEF TypeOK
<1>5. Directories' /\ CountsAreQueued'
  BY <1>1, <1>2 DEF Directories, CountsAreQueued
<1>6. Attempted' /\ Reasoned'
  BY <1>1 DEF Attempted, InRound, Reasoned
<1>7. Summarised' /\ SummaryKeepsUp' /\ CompletedIsExplained'
  BY <1>1, <1>2, <1>3 DEF Summarised, SummaryKeepsUp, CompletedIsExplained
<1>8. RetriesSpent' /\ RepeatEndsLoop'
  BY <1>1, RecordsStay
<1> QED
  BY <1>4, <1>5, <1>6, <1>7, <1>8 DEF IInv

LEMMA StutterStep == ASSUME IInv, UNCHANGED vars PROVE IInv'
<1>1. UNCHANGED <<runs, args, pc, elapsed, index, attempts, rounds, stop, summary, queued>>
  BY DEF vars
<1>2. (TypeOK /\ Directories /\ Attempted)'
  BY <1>1 DEF IInv, TypeOK, Directories, Limited, Attempted, InRound
<1>3. (Summarised /\ Reasoned /\ RetriesSpent /\ CountsAreQueued)'
  BY <1>1 DEF IInv, Summarised, Reasoned, Limited, RetriesSpent, CountsAreQueued
<1>4. (SummaryKeepsUp /\ CompletedIsExplained)'
  BY <1>1 DEF IInv, SummaryKeepsUp, CompletedIsExplained, Limited
<1>5. RepeatEndsLoop'
  BY <1>1 DEF IInv, RepeatEndsLoop, SameBlocker
<1> QED
  BY <1>2, <1>3, <1>4, <1>5 DEF IInv

LEMMA NextPreserves == IInv /\ [Next]_vars => IInv'
<1> SUFFICES ASSUME IInv, [Next]_vars PROVE IInv'
  OBVIOUS
<1>1. ASSUME NEW given \in Arguments, NEW audited \in BOOLEAN, Start(given, audited)
      PROVE  IInv'
  BY <1>1, StartStep
<1>2. CASE StartRound
  BY <1>2, StartRoundStep
<1>3. CASE Over
  BY <1>3, OverStep
<1>4. CASE Judge
  BY <1>4, JudgeStep
<1>5. CASE StopNotReady
  BY <1>5, StopNotReadyStep
<1>6. CASE Sleep
  BY <1>6, SleepStep
<1>7. CASE Final
  BY <1>7, FinalStep
<1>8. ASSUME NEW t \in Times, PreflightOk(t) \/ HookOk(t)
      PROVE  IInv'
  BY <1>8, PreflightOkStep, HookOkStep
<1>9. ASSUME NEW t \in Times, NEW detail \in Details,
             PreflightFails(detail, t) \/ HookFails(detail, t)
      PROVE  IInv'
  BY <1>9, PreflightFailsStep, HookFailsStep
<1>10. ASSUME NEW t \in Times, NEW detail \in Details, NEW outcome \in Outcomes,
              NEW filed \in 0 .. MaxFiled, NEW event \in BOOLEAN,
              RunBatch(outcome, filed, detail, event, t)
       PROVE  IInv'
  BY <1>10, RunBatchStep
<1>11. CASE Crash
  BY <1>11, CrashStep
<1>12. CASE UNCHANGED vars
  BY <1>12, StutterStep
<1>13. CASE Step
  BY <1>2, <1>3, <1>4, <1>5, <1>6, <1>7, <1>8, <1>9, <1>10, <1>13 DEF Step
<1> QED
  BY <1>1, <1>11, <1>12, <1>13 DEF Next

(* The inductive invariant: the queues of the round directories, the       *)
(* attempts of the round and the summary, each against the round records.  *)
THEOREM Inductive == Spec => []IInv
<1> QED
  BY InitEstablishes, NextPreserves, PTL DEF Spec

(* Types; the index is the number of the round that runs, or ended last.   *)
THEOREM TypeCorrect == Spec => []TypeOK
<1>1. IInv => TypeOK
  BY DEF IInv
<1> QED
  BY <1>1, Inductive, PTL

(* Retries are spent on environment events only, and all of them before a  *)
(* round is given up as one.                                               *)
THEOREM OnlyEnvironmentIsRetried == Spec => []RetriesSpent
<1>1. IInv => RetriesSpent
  BY DEF IInv
<1> QED
  BY <1>1, Inductive, PTL

(* What the loop counts as reported is in the queues of its directories.   *)
THEOREM CountsAreTrue == Spec => []CountsAreQueued
<1>1. IInv => CountsAreQueued
  BY DEF IInv
<1> QED
  BY <1>1, Inductive, PTL

(* A blocker that comes Threshold times in a row ends the loop at once,    *)
(* and nothing else is called a repeated blocker.                          *)
THEOREM RepeatedBlockerEnds == Spec => []RepeatEndsLoop
<1>1. IInv => RepeatEndsLoop
  BY DEF IInv
<1> QED
  BY <1>1, Inductive, PTL

(* summary.json is never more than one round behind.                       *)
THEOREM SummaryIsCurrent == Spec => []SummaryKeepsUp
<1>1. IInv => SummaryKeepsUp
  BY DEF IInv
<1> QED
  BY <1>1, Inductive, PTL

(* A summary with a completion time says why the loop ended.               *)
THEOREM CompletionIsExplained == Spec => []CompletedIsExplained
<1>1. IInv => CompletedIsExplained
  BY DEF IInv
<1> QED
  BY <1>1, Inductive, PTL

-----------------------------------------------------------------------------
(* Why a loop ends *)

(* The clock stops at the duration; until then a child process moves it.   *)
LEMMA ClockMoves ==
    ASSUME elapsed \in Nat, elapsed <= Duration, NEW t \in Nat, Takes(t)
    PROVE  /\ elapsed' \in Nat /\ elapsed <= elapsed' /\ elapsed' <= Duration
           /\ t > 0 => elapsed' = Duration \/ elapsed + 1 <= elapsed'
<1>1. elapsed + t \in Nat /\ Duration \in Nat
  OBVIOUS
<1>2. elapsed' = IF elapsed + t <= Duration THEN elapsed + t ELSE Duration
  BY <1>1, SmallerOfTwo DEF Takes
<1> QED
  BY <1>1, <1>2

(* A loop that only its duration ends: index and clock between two steps.  *)
LEMMA PacedStep == ASSUME IInv, Paced, [Next]_vars PROVE Paced'
<1>1. elapsed \in Nat /\ index \in Nat /\ Duration \in Nat
  BY DEF IInv, TypeOK
<1>2. ASSUME NEW given \in Arguments, NEW audited \in BOOLEAN, Start(given, audited)
      PROVE  Paced'
  BY <1>2 DEF Start, Paced
<1>3. CASE StartRound
  <2>1. /\ pc = "check" /\ ShouldStart /\ index' = index + 1 /\ UNCHANGED <<args, elapsed>>
        /\ InRound' /\ ~ InRound
    BY <1>3 DEF StartRound, BeforeBatch, InRound
  <2> QED
    BY <1>1, <2>1 DEF Paced, Limited, ShouldStart
<1>4. CASE Over \/ Judge \/ StopNotReady \/ Final
  <2>1. pc # "idle" /\ ~ InRound /\ UNCHANGED <<args, elapsed, index>>
    BY <1>4 DEF Over, Judge, StopNotReady, Final, InRound
  <2> QED
    BY <1>1, <2>1 DEF Paced, Limited
<1>5. CASE Crash
  BY <1>5 DEF Crash, Paced
<1>6. CASE UNCHANGED vars
  BY <1>6 DEF vars, Paced, Limited, InRound
<1>7. CASE Sleep
  <2>1. pc = "sleep" /\ Takes(Nap) /\ UNCHANGED <<args, index>>
    BY <1>7 DEF Sleep
  <2>2. ASSUME ~ Limited PROVE Nap \in Nat
    <3>1. elapsed < Duration => Duration - elapsed \in Nat
      BY <1>1
    <3> QED
      BY <1>1, <2>2, <3>1, SmallerOfTwo DEF Nap
  <2>3. ASSUME ~ Limited
        PROVE  elapsed' \in Nat /\ elapsed <= elapsed' /\ elapsed' <= Duration /\ index <= elapsed
    <3>1. elapsed <= Duration /\ index <= elapsed
      BY <2>1, <2>3 DEF Paced, InRound
    <3> QED
      BY <1>1, <2>1, <2>2, <2>3, <3>1, ClockMoves
  <2> QED
    BY <1>1, <2>1, <2>3 DEF Paced, Limited
<1>8. ASSUME NEW t \in Times, Takes(t), InRound, UNCHANGED <<args, index>>
      PROVE  Paced'
  <2>1. t \in Nat /\ t > 0 /\ pc # "idle"
    BY <1>8 DEF InRound
  <2>2. ASSUME ~ Limited
        PROVE  index <= elapsed' /\ elapsed' <= Duration
    <3>1. elapsed <= Duration
      BY <2>1, <2>2 DEF Paced
    <3>2. /\ elapsed' \in Nat /\ elapsed <= elapsed' /\ elapsed' <= Duration
          /\ elapsed' = Duration \/ elapsed + 1 <= elapsed'
      BY <1>1, <1>8, <2>1, <3>1, ClockMoves
    <3>3. index <= elapsed \/ (index <= elapsed + 1 /\ elapsed < Duration)
      BY <2>1, <2>2 DEF Paced
    <3> QED
      BY <1>1, <3>1, <3>2, <3>3
  <2> QED
    BY <1>8, <2>2 DEF Paced, Limited
<1>9. CASE Step
  <2>1. ASSUME NEW t \in Times, PreflightOk(t) \/ HookOk(t) PROVE Paced'
    BY <2>1, <1>8 DEF PreflightOk, HookOk, InRound
  <2>2. ASSUME NEW t \in Times, NEW detail \in Details,
               PreflightFails(detail, t) \/ HookFails(detail, t)
        PROVE  Paced'
    BY <2>2, <1>8 DEF PreflightFails, HookFails, InRound
  <2>3. ASSUME NEW t \in Times, NEW detail \in Details, NEW outcome \in Outcomes,
               NEW filed \in 0 .. MaxFiled, NEW event \in BOOLEAN,
               RunBatch(outcome, filed, detail, event, t)
        PROVE  Paced'
    BY <2>3, <1>8 DEF RunBatch, InRound
  <2> QED
    BY <1>3, <1>4, <1>7, <1>9, <2>1, <2>2, <2>3 DEF Step
<1> QED
  BY <1>2, <1>5, <1>6, <1>9 DEF Next

(* A loop without a number of rounds has begun at most one round more than *)
(* it has taken units of time, for a child process takes at least one      *)
(* (run_loop's sleep and its children's runs).                             *)
THEOREM EveryRoundTakesTime == Spec => []Paced
<1>1. Init => Paced
  BY DEF Init, Paced
<1> QED
  BY <1>1, PacedStep, Inductive, PTL DEF Spec

LEMMA BudgetHolds == IInv /\ Paced => WithinBudget
BY DEF IInv, TypeOK, Directories, Paced, WithinBudget, Budget

(* A loop never starts more rounds than it was given, and one without a    *)
(* number of rounds no more than its duration has units of time, however   *)
(* short its child processes are.                                          *)
THEOREM RoundsStayInBudget == Spec => []WithinBudget
<1> QED
  BY BudgetHolds, Inductive, EveryRoundTakesTime, PTL

(* A running loop always gets nearer to its end: the safety half of        *)
(* LoopEnds, for any budget, number of retries and duration of a child.    *)
THEOREM LoopOnlyGetsNearer == Spec => EverNearer
<1>1. ASSUME IInv, Paced, pc \notin {"done", "idle"}, Step PROVE Nearer
  <2>1. CASE StartRound
    <3>1. index \in Nat /\ index' = index + 1 /\ UNCHANGED args
      BY <1>1, <2>1 DEF StartRound, IInv, TypeOK
    <3>2. index' <= Budget
      <4>1. Limited => args.max_rounds \in Nat /\ index < args.max_rounds
        BY <1>1, <2>1 DEF StartRound, ShouldStart, RoundsLeft, Limited, IInv, TypeOK
      <4>2. ~ Limited => index <= elapsed /\ elapsed < Duration /\ elapsed \in Nat
        BY <1>1, <2>1 DEF StartRound, ShouldStart, Limited, Paced, InRound, IInv, TypeOK
      <4> QED
        BY <3>1, <4>1, <4>2 DEF Budget
    <3> QED
      BY <3>1, <3>2 DEF Nearer
  <2>2. CASE Over
    BY <2>2 DEF Over, Nearer, Place
  <2>3. CASE Judge
    BY <2>3 DEF Judge, Nearer, Place
  <2>4. CASE StopNotReady \/ Final
    <3>1. CASE StopNotReady
      <4>1. pc = "not-ready" /\ pc' = "final" /\ UNCHANGED <<args, index, attempts>>
        BY <3>1, Zenon DEF StopNotReady
      <4> QED
        BY <4>1 DEF Nearer, Place
    <3>2. CASE Final
      BY <3>2 DEF Final, Nearer, Place
    <3> QED
      BY <2>4, <3>1, <3>2
  <2>5. CASE Sleep
    BY <2>5 DEF Sleep, Nearer, Place
  <2>6. ASSUME NEW t \in Times, PreflightOk(t) PROVE Nearer
    BY <2>6 DEF PreflightOk, Nearer, Place, BeforeBatch
  <2>7. ASSUME NEW t \in Times, HookOk(t) PROVE Nearer
    BY <2>7 DEF HookOk, Nearer, Place
  <2>8. ASSUME NEW t \in Times, NEW detail \in Details, PreflightFails(detail, t) PROVE Nearer
    BY <2>8 DEF PreflightFails, EndRound, Nearer, Place
  <2>9. ASSUME NEW t \in Times, NEW detail \in Details, HookFails(detail, t) PROVE Nearer
    BY <2>9 DEF HookFails, EndRound, Nearer, Place
  <2>10. ASSUME NEW t \in Times, NEW detail \in Details, NEW outcome \in Outcomes,
                NEW filed \in 0 .. MaxFiled, NEW event \in BOOLEAN,
                RunBatch(outcome, filed, detail, event, t)
         PROVE  Nearer
    <3>1. /\ attempts' = Append(attempts, outcome) /\ UNCHANGED <<args, index>>
          /\ pc = "batch"
      BY <2>10 DEF RunBatch
    <3>2. attempts \in Seq(Outcomes) /\ Len(attempts) <= Retries
      BY <1>1, <3>1 DEF IInv, TypeOK, Attempted, InRound
    <3>3. Len(attempts') = Len(attempts) + 1 /\ Len(attempts) \in Nat
      BY <3>1, <3>2, AppendProperties
    <3> QED
      BY <3>1, <3>2, <3>3 DEF Nearer
  <2> QED
    BY <1>1, <2>1, <2>2, <2>3, <2>4, <2>5, <2>6, <2>7, <2>8, <2>9, <2>10 DEF Step
<1>2. ASSUME IInv, Paced, [Next]_vars PROVE [pc \notin {"done", "idle"} => Nearer]_vars
  <2>1. CASE Crash
    BY <2>1 DEF Crash, Nearer
  <2>2. CASE \E given \in Arguments, audited \in BOOLEAN : Start(given, audited)
    BY <2>2 DEF Start
  <2> QED
    BY <1>1, <1>2, <2>1, <2>2 DEF Next
<1> QED
  BY <1>2, Inductive, EveryRoundTakesTime, PTL DEF Spec, EverNearer

-----------------------------------------------------------------------------
(* The loop behind its gate *)

(* What the loop is known to keep holds behind the gate too.               *)
THEOREM GatedLoopIsLoop == GatedSpec => Spec
<1>1. GatedInit => Init
  BY DEF GatedInit
<1>2. [GatedNext]_gatedVars => [Next]_vars
  <2> SUFFICES ASSUME [GatedNext]_gatedVars PROVE [Next]_vars
    OBVIOUS
  <2>1. ASSUME NEW given \in Arguments, NEW enforced \in BOOLEAN, NEW k \in FilesOf(runs + 1),
               GatedStart(given, enforced, k)
        PROVE  Next
    <3>1. (Gate(k, enforced) = {}) \in BOOLEAN /\ Start(given, Gate(k, enforced) = {})
      BY <2>1 DEF GatedStart
    <3> QED
      BY <3>1 DEF Next
  <2>2. CASE GatedStep
    BY <2>2 DEF GatedStep, Next
  <2>3. CASE GatedCrash
    BY <2>3 DEF GatedCrash, Next
  <2>4. CASE UNCHANGED gatedVars
    BY <2>4 DEF gatedVars
  <2> QED
    BY <2>1, <2>2, <2>3, <2>4 DEF GatedNext
<1> QED
  BY <1>1, <1>2, PTL DEF GatedSpec, Spec

(* An open gate that was asked for something has seen a sound audit.       *)
LEMMA OpenGateIsAudited ==
    ASSUME NEW k, NEW enforced \in BOOLEAN, Gate(k, enforced) = {},
           enforced \/ (k.semantic # {} /\ k.code # {})
    PROVE  /\ k.semantic # {} /\ k.code # {} /\ k.head # NoCommit
           /\ AuditBlockers(k) = {}
           /\ enforced => k.plan # {}
<1>1. k.semantic # {} /\ k.code # {}
  BY DEF Gate
<1>2. "plan" \notin k.unreadable /\ k.head # NoCommit
  BY <1>1 DEF Gate
<1>3. k.unreadable = {}
  BY <1>1, <1>2 DEF Gate
<1>4. Gate(k, enforced) = IF AuditBlockers(k) = {} /\ enforced /\ k.plan = {}
                          THEN {"knowledge_gate_missing_inputs"} ELSE AuditBlockers(k)
  BY <1>1, <1>2, <1>3 DEF Gate
<1> QED
  BY <1>1, <1>2, <1>4

(* Running on leaves a call admitted or not as it was.                     *)
LEMMA NobodySlipsIn ==
    ASSUME Step \/ Crash PROVE Admitted' => Admitted
<1>1. CASE Final
  BY <1>1 DEF Final, Admitted
<1>2. CASE Crash
  <2>1. /\ pc' = "idle" /\ UNCHANGED <<runs, rounds>>
        /\ pc \notin {"idle", "done"}
    BY <1>2 DEF Crash
  <2> QED
    BY <2>1 DEF Admitted
<1>3. CASE Step /\ ~ Final
  <2>1. pc \in {"check", "preflight", "hook", "batch", "judge", "not-ready", "sleep"}
    BY <1>3 DEF Step, StartRound, Over, Judge, StopNotReady, Sleep, PreflightOk, HookOk,
                PreflightFails, HookFails, RunBatch
  <2> QED
    BY <2>1 DEF Admitted
<1> QED
  BY <1>1, <1>2, <1>3

THEOREM GateStaysOpen == GatedSpec => [](IInv /\ GateWasOpen)
<1>1. GatedInit => GateWasOpen
  BY DEF GatedInit, GateWasOpen
<1>2. IInv /\ GateWasOpen /\ [GatedNext]_gatedVars => GateWasOpen'
  <2> SUFFICES ASSUME IInv, GateWasOpen, [GatedNext]_gatedVars PROVE GateWasOpen'
    OBVIOUS
  <2>1. ASSUME NEW given \in Arguments, NEW enforced \in BOOLEAN, NEW k \in FilesOf(runs + 1),
               GatedStart(given, enforced, k)
        PROVE  GateWasOpen'
    <3>1. /\ runs < MaxRuns /\ rounds' = <<>>
          /\ pc' = IF Gate(k, enforced) = {} THEN "check" ELSE "final"
          /\ seen' = {[enforced |-> enforced, files |-> k]}
      BY <2>1 DEF GatedStart, Start
    <3>2. WellFormed(k)
      <4>1. runs \in Nat /\ MaxRuns \in Nat
        BY GatedAssumption DEF IInv, TypeOK
      <4>2. runs + 1 \in 1 .. MaxRuns
        BY <3>1, <4>1
      <4> QED
        BY <4>2, GatedAssumption
    <3>3. Admitted' => Gate(k, enforced) = {}
      BY <3>1 DEF Admitted
    <3> QED
      BY <3>1, <3>2, <3>3 DEF GateWasOpen
  <2>2. CASE GatedStep \/ GatedCrash
    <3>1. (Step \/ Crash) /\ seen' = seen
      BY <2>2 DEF GatedStep, GatedCrash
    <3>2. Admitted' => Admitted
      BY <3>1, NobodySlipsIn
    <3> QED
      BY <3>1, <3>2 DEF GateWasOpen
  <2>3. CASE UNCHANGED gatedVars
    BY <2>3 DEF gatedVars, vars, GateWasOpen, Admitted
  <2> QED
    BY <2>1, <2>2, <2>3 DEF GatedNext
<1>3. GatedSpec => []IInv
  BY GatedLoopIsLoop, Inductive, PTL
<1> QED
  BY <1>1, <1>2, <1>3, PTL DEF GatedSpec

LEMMA SoundAudit ==
    ASSUME NEW k, WellFormed(k), k.semantic # {}, k.code # {}, k.head # NoCommit,
           AuditBlockers(k) = {}
    PROVE  /\ \A file \in k.semantic \cup k.code \cup k.profile : file.commit = k.head
           /\ The(k.semantic) \in k.semantic /\ The(k.semantic).commit = k.head
           /\ \A p \in k.plan : p # {} /\ p # {"gap"}
           /\ \A p \in k.profile : \A d \in p.domains : DomainBlockers(k, d) = {}
<1>1. \A commit, missing, stale :
        CommitBlockers(k, commit, missing, stale) = {} => commit = k.head
  BY DEF CommitBlockers
<1>2. /\ CommitBlockers(k, The(k.semantic).commit, "semantic_map_missing_commit",
                        "semantic_map_stale") = {}
      /\ CommitBlockers(k, The(k.code).commit, "code_map_missing_commit",
                        "code_map_stale") = {}
      /\ UNION {PlanBlockers(p) : p \in k.plan} = {}
      /\ UNION {ProfileBlockers(k, p) : p \in k.profile} = {}
  BY Zenon DEF AuditBlockers, MapBlockers
<1>3. /\ The(k.semantic) \in k.semantic /\ \A m \in k.semantic : m = The(k.semantic)
      /\ The(k.code) \in k.code /\ \A m \in k.code : m = The(k.code)
  BY Zenon DEF The, WellFormed, AtMostOne
<1>4. The(k.semantic).commit = k.head /\ The(k.code).commit = k.head
  BY <1>1, <1>2
<1>5. \A p \in k.profile : ProfileBlockers(k, p) = {}
  BY <1>2
<1>6. ASSUME NEW p \in k.profile
      PROVE  p.commit = k.head /\ \A d \in p.domains : DomainBlockers(k, d) = {}
  <2>1. /\ CommitBlockers(k, p.commit, "understanding_profile_missing_commit",
                          "understanding_profile_stale") = {}
        /\ UNION {DomainBlockers(k, d) : d \in p.domains} = {}
    BY <1>5, Zenon DEF ProfileBlockers
  <2>2. \A d \in p.domains : DomainBlockers(k, d) = {}
    BY <2>1
  <2> QED
    BY <1>1, <2>1, <2>2
<1>7. \A p \in k.plan : PlanBlockers(p) = {}
  BY <1>2
<1>8. \A p \in k.plan : p # {} /\ p # {"gap"}
  BY <1>7 DEF PlanBlockers
<1> QED
  BY <1>3, <1>4, <1>6, <1>8

(* Audit and export count the same entries as covered, wherever a loop     *)
(* runs on audited knowledge.                                              *)
THEOREM CoverageIsAgreed == GatedSpec => []CoverageAgrees
<1>1. GateWasOpen => CoverageAgrees
  <2> SUFFICES ASSUME GateWasOpen, NEW s \in seen, Admitted, Audited(s)
               PROVE  ExportCovered(s.files) = AuditCovered(s.files)
    BY DEF CoverageAgrees
  <2>1. /\ s.enforced \in BOOLEAN /\ WellFormed(s.files)
        /\ Gate(s.files, s.enforced) = {}
        /\ s.files.semantic # {} /\ s.files.code # {}
    BY DEF GateWasOpen, Audited
  <2>2. s.files.head # NoCommit /\ AuditBlockers(s.files) = {}
    BY <2>1, OpenGateIsAudited
  <2>3. The(s.files.semantic).commit = s.files.head
    BY <2>1, <2>2, SoundAudit
  <2>4. ExportCommit(s.files) = s.files.head
    BY <2>2, <2>3 DEF ExportCommit
  <2>5. \A c : Confirmed(c) <=> Candidate(c)
    BY DEF Confirmed, Candidate
  <2> QED
    BY <2>2, <2>4, <2>5 DEF ExportCovered, AuditCovered, FreshCases
<1> QED
  BY <1>1, GateStaysOpen, PTL

(* A level that a covered domain asks for is shown by what holds now.      *)
LEMMA CoveredIsShown ==
    ASSUME NEW k, WellFormed(k), k.head # NoCommit, NEW d, DomainCovered(k, d),
           NEW level \in RequiredOracles(k, d)
    PROVE  ShownNow(k, d, level)
<1>1. PICK e \in d.required : level \in LevelsOf(k, e)
  BY DEF DomainCovered
<1>2. CASE \E c \in FreshCases(k) : c.entry = e /\ c.level = level
  <2>1. PICK c \in k.cases : /\ c.entry = e /\ c.level = level /\ c.commit = k.head
                             /\ Candidate(c)
    BY <1>2 DEF FreshCases
  <2>2. c.status = "reported" /\ c.triage # "false-positive"
    BY <2>1 DEF Candidate, WellFormed, CaseStatuses
  <2> QED
    BY <2>1, <2>2 DEF ShownNow
<1>3. CASE ~ \E c \in FreshCases(k) : c.entry = e /\ c.level = level
  <2>1. \/ level = "L2" /\ e \in The(k.semantic).checked
        \/ level = "L3" /\ e \in k.adapter.relations
        \/ level = "L1" /\ e \in k.adapter.probes
    BY <1>1, <1>3 DEF LevelsOf
  <2> QED
    BY <2>1 DEF ShownNow
<1> QED
  BY <1>2, <1>3

(* No round is run under the gate on knowledge of another commit.          *)
THEOREM GatedRoundsRunOnCurrentKnowledge == GatedSpec => []GatedRoundsAreCurrent
<1>1. GateWasOpen => GatedRoundsAreCurrent
  <2> SUFFICES ASSUME GateWasOpen, NEW s \in seen, Admitted, s.enforced \/ Audited(s)
               PROVE  LET k == s.files
                      IN  /\ Audited(s) /\ k.head # NoCommit
                          /\ \A file \in k.semantic \cup k.code \cup k.profile : file.commit = k.head
                          /\ s.enforced => k.plan # {}
                          /\ \A p \in k.plan : p # {} /\ p # {"gap"}
                          /\ \A p \in k.profile : \A d \in p.domains :
                               /\ d.evidence \subseteq d.anchors
                               /\ d.blocking =>
                                    /\ d.required \subseteq The(k.semantic).entries
                                    /\ \A level \in RequiredOracles(k, d) : ShownNow(k, d, level)
    BY DEF GatedRoundsAreCurrent
  <2> DEFINE k == s.files
  <2>1. s.enforced \in BOOLEAN /\ WellFormed(k) /\ Gate(k, s.enforced) = {}
    BY DEF GateWasOpen
  <2>2. /\ Audited(s) /\ k.head # NoCommit /\ AuditBlockers(k) = {}
        /\ s.enforced => k.plan # {}
    BY <2>1, OpenGateIsAudited DEF Audited
  <2>3. k.semantic # {} /\ k.code # {}
    BY <2>2 DEF Audited
  <2>4. /\ \A file \in k.semantic \cup k.code \cup k.profile : file.commit = k.head
        /\ \A p \in k.plan : p # {} /\ p # {"gap"}
        /\ \A p \in k.profile : \A d \in p.domains : DomainBlockers(k, d) = {}
    BY <2>1, <2>2, <2>3, SoundAudit
  <2>5. ASSUME NEW p \in k.profile, NEW d \in p.domains
        PROVE  /\ d.evidence \subseteq d.anchors
               /\ d.blocking => /\ d.required \subseteq The(k.semantic).entries
                                /\ \A level \in RequiredOracles(k, d) : ShownNow(k, d, level)
    <3>1. DomainCovered(k, d) \/ (MissingEvidence(d) = {} /\ ~ d.blocking)
      BY <2>4, <2>5 DEF DomainBlockers
    <3>2. MissingEvidence(d) = {}
      BY <3>1 DEF DomainCovered
    <3>3. CASE DomainCovered(k, d)
      BY <3>2, <3>3, <2>1, <2>2, CoveredIsShown DEF DomainCovered, MissingEvidence
    <3> QED
      BY <3>1, <3>2, <3>3 DEF MissingEvidence
  <2> QED
    BY <2>2, <2>4, <2>5
<1> QED
  BY <1>1, GateStaysOpen, PTL

=============================================================================
