----------------------------- MODULE LoopRunner -----------------------------
(***************************************************************************)
(* The loop around the pipeline (loop_runner.py: run_loop): round after    *)
(* round it runs a preflight, a hook and the orchestrator as child         *)
(* processes, retries a batch whose environment vanished, gives up when    *)
(* the same blocker keeps coming back, and rewrites summary.json.  The     *)
(* rounds are kept in memory; on disk survive the summary and, in a        *)
(* directory per round, the publish queue.  A loop that died can be called *)
(* again with its run id: it then starts at round 1 in the old directories.*)
(***************************************************************************)
EXTENDS Naturals, Sequences, FiniteSets, SequencesExt, FiniteSetsExt

CONSTANTS
    Duration,       \* duration_sec
    NoLimit,        \* a loop without max_rounds
    Arguments,      \* the max_rounds and stop_on_not_ready it is called with
    SleepSec,       \* sleep_sec
    Threshold,      \* stop_after_consecutive_blockers, 0 for none
    Retries,        \* environment_retry_count
    HasPreflight,   \* preflight
    HasHook,        \* pre_batch_hook is set
    Details,        \* what a blocker can say
    Times,          \* how long a child process can take
    MaxFiled,       \* bound: bug reports of one batch
    MaxRuns,        \* bound: calls of run_loop
    CanCrash        \* whether the loop may die

ASSUME LoopAssumption ==
    /\ Duration \in Nat /\ SleepSec \in Nat /\ Threshold \in Nat /\ Retries \in Nat
    /\ Arguments \subseteq [max_rounds : Nat \cup {NoLimit}, stop_on_not_ready : BOOLEAN]
    /\ Times \subseteq Nat \ {0}

VARIABLES
    runs,       \* calls of run_loop so far
    args,       \* the arguments of this call
    pc,         \* where run_loop stands
    elapsed,    \* time since it was called
    index,      \* round_index
    attempts,   \* the outcomes of this round's batches
    rounds,     \* the round records
    stop,       \* stop_reason
    summary,    \* summary.json
    queued      \* the round directories: the bug reports in their queues

vars == <<runs, args, pc, elapsed, index, attempts, rounds, stop, summary, queued>>

NoSummary == [readable |-> FALSE, run |-> 0, rounds |-> 0, stop |-> "none",
              completed |-> FALSE]

NoBlocker == <<"none">>

Init ==
    /\ runs = 0 /\ args \in Arguments /\ pc = "idle" /\ elapsed = 0 /\ index = 0
    /\ attempts = <<>> /\ rounds = <<>> /\ stop = "none"
    /\ summary = NoSummary
    /\ queued = <<>>

(* Nothing asks how far the time is past the duration. *)
Takes(t) == elapsed' = Min({elapsed + t, Duration})

(* A summary describes the rounds so far: of their records, which are only *)
(* ever added to, it stands for the first summary.rounds.                  *)
WriteSummary(reason, done) ==
    summary' = [readable |-> TRUE, run |-> runs, rounds |-> Len(rounds),
                stop |-> reason, completed |-> done]

-----------------------------------------------------------------------------
(* The knowledge audit may block the loop before its first round.          *)
Start(given, audited) ==
    /\ pc \in {"idle", "done"} /\ runs < MaxRuns
    /\ runs' = runs + 1 /\ args' = given
    /\ elapsed' = 0 /\ index' = 0 /\ attempts' = <<>> /\ rounds' = <<>>
    /\ stop' = IF audited THEN "none" ELSE "knowledge-audit-blocked"
    /\ pc' = IF audited THEN "check" ELSE "final"
    /\ UNCHANGED <<summary, queued>>

Limited == args.max_rounds # NoLimit

RoundsLeft == Limited => index < args.max_rounds

(* The deadline counts only for a loop without a number of rounds. *)
ShouldStart == RoundsLeft /\ (elapsed < Duration \/ Limited)

(* Every batch of a round is preceded by the hook, if there is one. *)
BeforeBatch == IF HasHook THEN "hook" ELSE "batch"

(* The directory of the round is made, or found. *)
StartRound ==
    /\ pc = "check" /\ ShouldStart
    /\ index' = index + 1 /\ attempts' = <<>>
    /\ queued' = IF index < Len(queued) THEN queued ELSE Append(queued, 0)
    /\ pc' = IF HasPreflight THEN "preflight" ELSE BeforeBatch
    /\ UNCHANGED <<runs, args, elapsed, rounds, stop, summary>>

Over ==
    /\ pc = "check" /\ ~ ShouldStart
    /\ pc' = "final"
    /\ UNCHANGED <<runs, args, elapsed, index, attempts, rounds, stop, summary, queued>>

(* The record of a round that ends here. *)
Round(status, blocker, tries, filed) ==
    [status |-> status, blocker |-> blocker, tries |-> tries, reported |-> filed]

EndRound(round) ==
    /\ rounds' = Append(rounds, round)
    /\ pc' = "judge"

PreflightOk(t) ==
    /\ pc = "preflight"
    /\ Takes(t)
    /\ pc' = BeforeBatch
    /\ UNCHANGED <<runs, args, index, attempts, rounds, stop, summary, queued>>

(* Any other exit, a timeout included, is "not ready". *)
PreflightFails(detail, t) ==
    /\ pc = "preflight"
    /\ Takes(t)
    /\ EndRound(Round("not-ready", <<"not-ready", detail>>, <<>>, 0))
    /\ UNCHANGED <<runs, args, index, attempts, stop, summary, queued>>

HookOk(t) ==
    /\ pc = "hook"
    /\ Takes(t)
    /\ pc' = "batch"
    /\ UNCHANGED <<runs, args, index, attempts, rounds, stop, summary, queued>>

(* The hook's failure ends the round, before the first batch or a retry.   *)
HookFails(detail, t) ==
    /\ pc = "hook"
    /\ Takes(t)
    /\ EndRound(Round("environment-event", <<"environment-event", detail>>,
                      Append(attempts, "hook-failed"), 0))
    /\ UNCHANGED <<runs, args, index, attempts, stop, summary, queued>>

-----------------------------------------------------------------------------
(* The outcomes of a batch.  A killed one, by its timeout or an exit that  *)
(* left no JSON, counts as an environment event that reported nothing,     *)
(* whatever it had queued before.                                          *)
Outcomes == {"processed", "void", "killed", "adapter-error"}

StatusOf(outcome) ==
    IF outcome \in {"void", "killed"} THEN "environment-event" ELSE outcome

MayFile(outcome) == outcome \in {"processed", "killed"}

(* A processed batch can be a blocker too: its environment_event flag.     *)
BlockerOf(outcome, detail, event) ==
    IF outcome = "processed" /\ ~ event THEN NoBlocker
    ELSE IF outcome = "processed" THEN <<"environment-event", detail>>
    ELSE <<StatusOf(outcome), detail>>

Counted_First(outcome, filed) ==    \* mutant: the first attempt's record stands
    IF outcome = "processed" /\ attempts = <<>> THEN filed ELSE 0

Counted(outcome, filed) == IF outcome = "processed" THEN filed ELSE 0

Retried(outcome) == StatusOf(outcome) = "environment-event" /\ Len(attempts) < Retries

(* One attempt; every attempt of a round appends to the same queue, and    *)
(* the record of the last one stands for the round.                        *)
RunBatch(outcome, filed, detail, event, t) ==
    /\ pc = "batch"
    /\ filed > 0 => MayFile(outcome)
    /\ Takes(t)
    /\ queued' = [queued EXCEPT ![index] = @ + filed]
    /\ attempts' = Append(attempts, outcome)
    /\ IF Retried(outcome)
       THEN pc' = BeforeBatch /\ UNCHANGED rounds
       ELSE EndRound(Round(StatusOf(outcome), BlockerOf(outcome, detail, event),
                           attempts', Counted(outcome, filed)))
    /\ UNCHANGED <<runs, args, index, stop, summary>>

-----------------------------------------------------------------------------
(* The end of a round *)

Repeated_LongWindow(rs) ==      \* mutant: looks at one round too many
    /\ Threshold > 0 /\ Len(rs) > Threshold
    /\ Last(rs).blocker # NoBlocker
    /\ \A i \in Len(rs) - Threshold .. Len(rs) : rs[i].blocker = Last(rs).blocker

(* The last Threshold rounds had the same blocker. *)
Repeated(rs) ==
    /\ Threshold > 0 /\ Len(rs) >= Threshold
    /\ Last(rs).blocker # NoBlocker
    /\ \A i \in Len(rs) - Threshold + 1 .. Len(rs) : rs[i].blocker = Last(rs).blocker

Judge_KeepsSummary ==     \* mutant: the summary is written when the loop stops
    /\ pc = "judge"
    /\ LET reason == IF Repeated(rounds) THEN "repeated-blocker" ELSE "none"
       IN  /\ stop' = reason
           /\ pc' = IF reason # "none" THEN "final"
                    ELSE IF Last(rounds).status = "not-ready" /\ args.stop_on_not_ready
                    THEN "not-ready" ELSE "sleep"
    /\ UNCHANGED <<runs, args, elapsed, index, attempts, rounds, summary, queued>>

(* The blocker check and the summary of the round. *)
Judge ==
    /\ pc = "judge"
    /\ LET reason == IF Repeated(rounds) THEN "repeated-blocker" ELSE "none"
       IN  /\ WriteSummary(reason, FALSE)
           /\ stop' = reason
           /\ pc' = IF reason # "none" THEN "final"
                    ELSE IF Last(rounds).status = "not-ready" /\ args.stop_on_not_ready
                    THEN "not-ready" ELSE "sleep"
    /\ UNCHANGED <<runs, args, elapsed, index, attempts, rounds, queued>>

StopNotReady ==
    /\ pc = "not-ready"
    /\ stop' = "not-ready preflight"
    /\ WriteSummary("not-ready preflight", FALSE)
    /\ pc' = "final"
    /\ UNCHANGED <<runs, args, elapsed, index, attempts, rounds, queued>>

(* Without a number of rounds the loop sleeps no longer than it has left.  *)
Nap == IF ~ RoundsLeft THEN 0
       ELSE IF Limited THEN SleepSec
       ELSE IF elapsed >= Duration THEN 0
       ELSE Min({SleepSec, Duration - elapsed})

Sleep_Stalls ==         \* mutant: waits for time to be left
    /\ pc = "sleep"
    /\ Takes(Nap)
    /\ pc' = IF Nap = 0 THEN "sleep" ELSE "check"
    /\ UNCHANGED <<runs, args, index, attempts, rounds, stop, summary, queued>>

Sleep ==
    /\ pc = "sleep"
    /\ Takes(Nap)
    /\ pc' = "check"
    /\ UNCHANGED <<runs, args, index, attempts, rounds, stop, summary, queued>>

Final ==
    /\ pc = "final"
    /\ WriteSummary(stop, TRUE)
    /\ pc' = "done"
    /\ UNCHANGED <<runs, args, elapsed, index, attempts, rounds, stop, queued>>

(* The loop dies.  A summary is written in place: one that was being       *)
(* written may be left unreadable.  (The rounds and the reason are kept    *)
(* until the next call only for the properties to speak of.)               *)
Crash ==
    /\ CanCrash /\ pc \notin {"idle", "done"}
    /\ pc' = "idle" /\ elapsed' = 0 /\ index' = 0 /\ attempts' = <<>>
    /\ summary' \in IF pc \in {"judge", "not-ready", "final"}
                    THEN {summary, NoSummary} ELSE {summary}
    /\ UNCHANGED <<runs, args, rounds, stop, queued>>

-----------------------------------------------------------------------------
Step ==
    \/ StartRound \/ Over \/ Judge \/ StopNotReady \/ Sleep \/ Final
    \/ \E t \in Times :
         \/ PreflightOk(t) \/ HookOk(t)
         \/ \E detail \in Details :
              \/ PreflightFails(detail, t) \/ HookFails(detail, t)
              \/ \E outcome \in Outcomes, filed \in 0 .. MaxFiled, event \in BOOLEAN :
                   RunBatch(outcome, filed, detail, event, t)

Next == (\E given \in Arguments, audited \in BOOLEAN : Start(given, audited)) \/ Step \/ Crash

Spec == Init /\ [][Next]_vars

(* A loop that is running goes on: its children end, if only by their      *)
(* timeouts.                                                               *)
FairSpec == Spec /\ WF_vars(Step)

-----------------------------------------------------------------------------
(* Properties *)

Statuses == {"processed", "environment-event", "not-ready", "adapter-error"}
Blockers == {NoBlocker} \cup (Statuses \X Details)
Reasons  == {"none", "knowledge-audit-blocked", "repeated-blocker", "not-ready preflight"}
RoundRow == [status : Statuses, blocker : Blockers,
             tries : Seq(Outcomes \cup {"hook-failed"}), reported : Nat]

(* Types; the index is the number of the round that runs, or that ended    *)
(* last.                                                                   *)
TypeOK ==
    /\ runs \in Nat /\ args \in Arguments /\ elapsed \in Nat /\ index \in Nat
    /\ pc \in {"idle", "check", "preflight", "hook", "batch", "judge", "not-ready",
               "sleep", "final", "done"}
    /\ attempts \in Seq(Outcomes) /\ stop \in Reasons
    /\ rounds \in Seq(RoundRow) /\ queued \in Seq(Nat)
    /\ summary \in [readable : BOOLEAN, run : Nat, rounds : Nat,
                    stop : Reasons, completed : BOOLEAN]
    /\ pc # "idle" =>
         index = Len(rounds) + (IF pc \in {"preflight", "hook", "batch"} THEN 1 ELSE 0)

(* A round is given up as an environment event only when its hook failed   *)
(* or every retry had the same end; and no other end is tried again.       *)
RetriesSpent ==
    \A r \in DOMAIN rounds :
        LET tries == rounds[r].tries
        IN  /\ \A i \in DOMAIN tries :
                 i < Len(tries) => StatusOf(tries[i]) = "environment-event"
            /\ rounds[r].status = "environment-event"
                 => Last(tries) = "hook-failed" \/ Len(tries) = Retries + 1

(* The reports of the summary are in the queues: never more than were      *)
(* queued, and exactly those when no batch was killed and the directories  *)
(* are not those of an earlier call.                                       *)
CountsAreQueued ==
    \A r \in DOMAIN rounds :
        /\ rounds[r].reported <= queued[r]
        /\ runs = 1 /\ (\A i \in DOMAIN rounds[r].tries : rounds[r].tries[i] # "killed")
             => rounds[r].reported = queued[r]

SameBlocker(from, to) ==
    /\ rounds[to].blocker # NoBlocker
    /\ \A i \in from .. to : rounds[i].blocker = rounds[to].blocker

(* A blocker that comes Threshold times in a row ends the loop there and   *)
(* then, whatever kind of round it ended; and the loop gives no other      *)
(* cause for it.                                                           *)
RepeatEndsLoop ==
    /\ \A n \in Threshold .. Len(rounds) :
         Threshold > 0 /\ SameBlocker(n - Threshold + 1, n) =>
            n = Len(rounds) /\ pc \in {"judge", "final", "done", "idle"}
    /\ stop = "repeated-blocker" =>
         Len(rounds) >= Threshold /\ SameBlocker(Len(rounds) - Threshold + 1, Len(rounds))

(* While a child process runs, the summary on disk tells of every round    *)
(* that is over; a loop that dies leaves it at most one round behind, or   *)
(* unreadable.                                                             *)
SummaryKeepsUp ==
    /\ pc \in {"preflight", "hook", "batch", "sleep"} /\ rounds # <<>> =>
         summary.readable /\ summary.run = runs /\ summary.rounds = Len(rounds)
    /\ summary.readable /\ summary.run = runs =>
         summary.rounds <= Len(rounds) /\ Len(rounds) <= summary.rounds + 1

(* A summary with a completion time says why the loop ended: a reason, or  *)
(* all rounds run, or the time used up.                                    *)
CompletedIsExplained ==
    summary.completed /\ summary.run = runs =>
        \/ summary.stop # "none"
        \/ summary.rounds = args.max_rounds
        \/ ~ Limited /\ elapsed >= Duration

(* A loop with a number of rounds or a duration ends. *)
LoopEnds == (pc = "check") ~> (pc \in {"done", "idle"})

(* Why it ends: a loop starts no more rounds than it was given, and one    *)
(* without a number of rounds no more than its duration allows, for a      *)
(* round takes time.  Within a round it only goes on, to the next place or *)
(* to the next of the attempts it has; it never comes back to a place.     *)
Budget == IF Limited THEN args.max_rounds ELSE Duration

WithinBudget == pc # "idle" => index <= Budget

Place ==
    CASE pc = "preflight" -> 8
      [] pc = "hook" -> 7
      [] pc = "batch" -> 6
      [] pc = "judge" -> 5
      [] pc = "not-ready" -> 4
      [] pc = "sleep" -> 3
      [] pc = "check" -> 2
      [] pc = "final" -> 1
      [] OTHER -> 0

Nearer ==
    /\ args' = args
    /\ \/ pc' \in {"done", "idle"}
       \/ index < index' /\ index' <= Budget
       \/ index' = index /\ Len(attempts) < Len(attempts') /\ Len(attempts') <= Retries + 1
       \/ UNCHANGED <<index, attempts>> /\ Place' < Place

EverNearer == [][pc \notin {"done", "idle"} => Nearer]_vars

-----------------------------------------------------------------------------
(* The inductive invariant *)

InRound == pc \in {"preflight", "hook", "batch"}

(* A directory for every round; before the first crash none is older.      *)
Directories ==
    /\ Len(rounds) <= Len(queued) /\ index <= Len(queued)
    /\ runs = 0 => pc = "idle" /\ queued = <<>> /\ rounds = <<>>
    /\ runs = 1 /\ pc # "idle" => Len(queued) = index
    /\ pc # "idle" /\ Limited => index <= args.max_rounds

(* The attempts of the round so far can all be tried again; as long as     *)
(* none was killed they left nothing in its queue.                         *)
Attempted ==
    InRound =>
        /\ Len(attempts) <= Retries
        /\ pc = "preflight" => attempts = <<>>
        /\ \A i \in DOMAIN attempts : StatusOf(attempts[i]) = "environment-event"
        /\ runs = 1 /\ (\A i \in DOMAIN attempts : attempts[i] # "killed")
             => queued[index] = 0

(* Outside of the end of a round the summary is up to date.                *)
Summarised ==
    /\ summary.run <= runs
    /\ pc \notin {"idle", "judge"} /\ rounds # <<>> =>
         summary.readable /\ summary.run = runs /\ summary.rounds = Len(rounds)
    /\ summary.completed /\ summary.run = runs => pc = "done"

(* Why the loop is at its end.                                             *)
Reasoned ==
    /\ stop = "repeated-blocker" => pc \in {"final", "done", "idle"}
    /\ pc = "final" =>
         \/ stop # "none"
         \/ Len(rounds) = args.max_rounds
         \/ ~ Limited /\ elapsed >= Duration

(* Every round but the one that has just begun has taken time.             *)
Paced ==
    pc # "idle" /\ ~ Limited =>
        /\ elapsed <= Duration
        /\ index <= elapsed \/ (InRound /\ index <= elapsed + 1 /\ elapsed < Duration)

IInv == /\ TypeOK /\ Directories /\ Attempted /\ Summarised /\ Reasoned
        /\ RetriesSpent /\ CountsAreQueued /\ RepeatEndsLoop /\ SummaryKeepsUp
        /\ CompletedIsExplained

=============================================================================
