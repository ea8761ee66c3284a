--------------------------- MODULE GithubPublisher ----------------------------
(***************************************************************************)
(* The guarded publisher with the GitHub publisher as its                  *)
(* create_bug_command (github_publisher.py --stdin --post --yes): the tool *)
(* reads one payload, selects it if it is an exact finding, posts it with  *)
(* gh and prints what it did; the flush reads that as the answer of its    *)
(* command.  Everything else of a flush is Publishing's.                   *)
(***************************************************************************)
EXTENDS Publishing

CONSTANTS
    Payload,        \* event -> [level, llm, complete, fingerprint]
    MaxCount        \* --max

VARIABLES
    posts,          \* external: what was posted on GitHub, fingerprint by fingerprint
    printed         \* the fields of the answer a flusher has read, {} for none

ghVars == <<vars, posts, printed>>

GhInit == Init /\ posts = <<>> /\ printed = [p \in Flushers |-> {}]

-----------------------------------------------------------------------------
(* The tool *)

ELIGIBLE_ORACLE_LEVELS == {"L1", "L2", "L3"}

Eligible(e) ==
    /\ Payload[e].level \in ELIGIBLE_ORACLE_LEVELS
    /\ Payload[e].llm = "none"
    /\ Payload[e].complete      \* fingerprint, entry and summary are there

(* The first event of every fingerprint.  The count is looked at behind    *)
(* the append, so that one finding is always taken.                        *)
SelectFindings(events) ==
    LET Known(out, e) == \E i \in DOMAIN out : Payload[out[i]].fingerprint = Payload[e].fingerprint
        Full(out) == out # <<>> /\ Len(out) >= MaxCount
        Take(out, e) ==
            IF Full(out) \/ ~ Eligible(e) \/ Known(out, e) THEN out ELSE Append(out, e)
    IN  FoldLeft(Take, <<>>, events)

(* --stdin: the payload alone, wrapped as an event again.                  *)
Findings(p) == SelectFindings(<<item[p]>>)

(* The fields main prints when it has posted, or found nothing to post.    *)
PrintedReport == {"status", "target", "repo", "count", "items"}

(* publish_queue_event and the caller: what a flush asks of an answer.     *)
Accepted(answer) ==
    "_publication" \in answer /\ answer \cap {"card_id", "report_ref"} # {}

-----------------------------------------------------------------------------
(* The flush that calls it *)

(* gh creates the discussion.                                              *)
GhPosts(p) ==
    /\ Findings(p) # <<>>
    /\ Deliver(p)
    /\ posts' = posts \o [i \in DOMAIN Findings(p) |-> Payload[Findings(p)[i]].fingerprint]
    /\ printed' = [printed EXCEPT ![p] = {}]

(* gh fails, or finds no such category: the tool exits with 1; or the tool *)
(* does not start, or is stopped before it has posted.                     *)
GhFails(p) == CommandFails(p) /\ UNCHANGED <<posts, printed>>

(* Nothing to post is no error of the tool, but what it prints then is no  *)
(* answer for the flush.                                                   *)
NothingToPost(p) ==
    /\ Findings(p) = <<>> /\ ~ Accepted(PrintedReport)
    /\ CommandFails(p)
    /\ printed' = [printed EXCEPT ![p] = PrintedReport]
    /\ UNCHANGED posts

ReadAnswer(p) ==
    /\ IF Accepted(PrintedReport) THEN Answered(p) ELSE AnswerLost(p)
    /\ printed' = [printed EXCEPT ![p] = PrintedReport]
    /\ UNCHANGED posts

TimesOut(p) == AnswerLost(p) /\ UNCHANGED <<posts, printed>>

(* A call starts without an answer.                                        *)
Starts(p) ==
    /\ \/ \E m \in SUBSET Events, s \in Scopes : Begin(p, m, s)
       \/ GateClosed(p)
    /\ printed' = [printed EXCEPT ![p] = {}]
    /\ UNCHANGED posts

Guarded(p) ==
    /\ \/ LoadQueue(p) \/ LoadReceipts(p) \/ CheckClaims(p)
       \/ Claim(p) \/ ClaimExists(p) \/ Flushed(p) \/ WriteReceipt(p) \/ Crash(p)
    /\ UNCHANGED <<posts, printed>>

GhNext ==
    \/ \E p \in Flushers :
         \/ Starts(p) \/ Guarded(p)
         \/ GhPosts(p) \/ GhFails(p) \/ NothingToPost(p) \/ ReadAnswer(p) \/ TimesOut(p)
    \/ ((\E e \in Events : Enqueue(e)) \/ Owner) /\ UNCHANGED <<posts, printed>>

GhSpec == GhInit /\ [][GhNext]_ghVars

-----------------------------------------------------------------------------
(* Properties *)

(* publish-github/SKILL.md: the tool "can be used directly" as the         *)
(* create_bug_command.  Then a flush whose command has posted the finding  *)
(* and said so does not take it for a failure.                             *)
UsedDirectly ==
    \A p \in Flushers :
        pc[p] = "partial-failure" /\ printed[p] # {} => deliveries[Current(p)] = 0

(* What UsedDirectly shows of one flush: no flush with this command ever   *)
(* succeeds or writes a receipt, whatever is posted.                       *)
NeverSucceeds == \A p \in Flushers : pc[p] \notin {"receipt", "flushed"}

(* All receipts are the owner's: they stand for what he has seen.          *)
OwnersReceipts == [][receipts' # receipts => Owner]_ghVars

=============================================================================
