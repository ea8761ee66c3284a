----------------------------- MODULE Publishing -----------------------------
(***************************************************************************)
(* The guarded publisher (publishing.py: flush_reviewed_queue): processes  *)
(* that each flush the events of a review manifest from the queue file to  *)
(* an external tracker.  They share three things on disk, the queue, the   *)
(* receipts file and the directory of claim files beside it, and each may  *)
(* die at any moment.  The identity of an event is the hash of its payload,*)
(* so an event is one value here; so is a manifest that names it.          *)
(***************************************************************************)
EXTENDS Naturals, Sequences, FiniteSets, SequencesExt

CONSTANTS
    Flushers,       \* the processes that may flush at the same time
    Events,         \* the events that can be in the queue
    Sendable,       \* those of a kind for which a command is configured
    Scopes,         \* what a flush is for: a target, and an evidence level
    MaxFlushes,     \* bound: calls of flush_reviewed_queue
    MaxQueue,       \* bound: lines in the queue
    CanCrash        \* whether a flusher may die

ASSUME ScopeAssumption ==
    Events # {} /\ Scopes # {} /\ \A s \in Scopes : DOMAIN s = {"target", "level"}

Targets == {s.target : s \in Scopes}
Items   == Events \X Targets

VARIABLES
    queue,      \* the queue file
    receipts,   \* the receipts file: how many lines an event has in a scope
    torn,       \* the receipts file has a line that is not JSON
    claims,     \* the claim files: event and target
    deliveries, \* external: how often an item reached the target
    flushes,    \* calls so far
    pc,         \* where a flusher stands
    manifest,   \* the events its review manifest approves
    scope,      \* its target and evidence level
    pending,    \* the approved events it still has to publish
    item        \* the event it is publishing

disk == <<queue, receipts, torn, claims>>
locals == <<manifest, scope, pending, item>>
vars == <<disk, deliveries, flushes, pc, locals>>

Ended == {"idle", "blocked", "partial-failure", "flushed"}

Init ==
    /\ queue = <<>> /\ torn = FALSE /\ claims = {}
    /\ receipts = [x \in Events \X Scopes |-> 0]
    /\ deliveries = [x \in Items |-> 0]
    /\ flushes = 0
    /\ pc = [p \in Flushers |-> "idle"]
    /\ manifest = [p \in Flushers |-> {}]
    /\ scope \in [Flushers -> {CHOOSE s \in Scopes : TRUE}]
    /\ pending = [p \in Flushers |-> {}]
    /\ item \in [Flushers -> {CHOOSE e \in Events : TRUE}]

Goto(p, label) == pc' = [pc EXCEPT ![p] = label]

Current(p) == <<item[p], scope[p].target>>

-----------------------------------------------------------------------------
(* The pipeline appends to the queue, also while a flush runs.             *)
Enqueue(e) ==
    /\ Len(queue) < MaxQueue
    /\ queue' = Append(queue, e)
    /\ UNCHANGED <<receipts, torn, claims, deliveries, flushes, pc, locals>>

Forget(p) ==
    /\ manifest' = [manifest EXCEPT ![p] = {}]
    /\ pending' = [pending EXCEPT ![p] = {}]
    /\ UNCHANGED <<scope, item>>

Called(p) ==
    /\ pc[p] \in Ended /\ flushes < MaxFlushes
    /\ flushes' = flushes + 1

(* The gates that look at the arguments alone: safe adapter, publishing    *)
(* enabled for a sandbox, same target in the manifest, environment switch, *)
(* --yes, an owner who approved.  All are open ...                         *)
Begin(p, m, s) ==
    /\ Called(p)
    /\ manifest' = [manifest EXCEPT ![p] = m]
    /\ scope' = [scope EXCEPT ![p] = s]
    /\ pending' = [pending EXCEPT ![p] = {}]
    /\ Goto(p, "queue")
    /\ UNCHANGED <<disk, deliveries, item>>

(* ... or one is not.                                                      *)
GateClosed(p) ==
    /\ Called(p)
    /\ Forget(p)
    /\ Goto(p, "blocked")
    /\ UNCHANGED <<disk, deliveries>>

(* _load_validated_queue refuses a queue with an event twice;              *)
(* _validated_approvals an empty manifest and an event not in the queue.   *)
LoadQueue(p) ==
    /\ pc[p] = "queue"
    /\ Goto(p, IF /\ IsInjective(queue)
                  /\ manifest[p] # {} /\ manifest[p] \subseteq ToSet(queue)
               THEN "receipts" ELSE "blocked")
    /\ UNCHANGED <<disk, deliveries, flushes, locals>>

(* Every line must be JSON, of this target and level, and no event twice. *)
Readable(s) ==
    ~ torn /\ \A x \in Events \X Scopes : receipts[x] > 0 => x[2] = s /\ receipts[x] = 1

LoadReceipts(p) ==
    /\ pc[p] = "receipts"
    /\ IF Readable(scope[p])
       THEN /\ pending' = [pending EXCEPT ![p] =
                             {e \in manifest[p] : receipts[<<e, scope[p]>>] = 0}]
            /\ Goto(p, "claims")
       ELSE Goto(p, "blocked") /\ UNCHANGED pending
    /\ UNCHANGED <<disk, deliveries, flushes, manifest, scope, item>>

Unresolved(p) == {e \in pending[p] : <<e, scope[p].target>> \in claims}

CheckClaims(p) ==
    /\ pc[p] = "claims"
    /\ Goto(p, IF /\ Unresolved(p) = {} /\ pending[p] # {}
                  /\ pending[p] \subseteq Sendable
               THEN "claim" ELSE "blocked")
    /\ UNCHANGED <<disk, deliveries, flushes, locals>>

-----------------------------------------------------------------------------
(* The loop over the pending events, in the order of the queue.            *)

Before(e, f) == \E i \in DOMAIN queue :
                    queue[i] = e /\ \A j \in 1 .. i : queue[j] # f

First(e, S) == e \in S /\ \A f \in S \ {e} : Before(e, f)

Claim_NotExclusive(p) ==    \* mutant: the claim file is opened without O_EXCL
    /\ pc[p] = "claim"
    /\ \E e \in Events :
         /\ First(e, pending[p])
         /\ claims' = claims \cup {<<e, scope[p].target>>}
         /\ item' = [item EXCEPT ![p] = e]
    /\ Goto(p, "send")
    /\ UNCHANGED <<queue, receipts, torn, deliveries, flushes, manifest, scope,
                   pending>>

(* O_CREAT | O_EXCL: the claim file must not exist. *)
Claim(p) ==
    /\ pc[p] = "claim"
    /\ \E e \in Events :
         /\ First(e, pending[p])
         /\ <<e, scope[p].target>> \notin claims
         /\ claims' = claims \cup {<<e, scope[p].target>>}
         /\ item' = [item EXCEPT ![p] = e]
    /\ Goto(p, "send")
    /\ UNCHANGED <<queue, receipts, torn, deliveries, flushes, manifest, scope,
                   pending>>

ClaimExists_Waits(p) ==     \* mutant: the flush waits until the claim is gone
    /\ pc[p] = "claim"
    /\ \E e \in Events : First(e, pending[p]) /\ <<e, scope[p].target>> \in claims
    /\ UNCHANGED vars

(* Somebody else's claim: the error leaves the flush, whatever it has done *)
(* before.                                                                 *)
ClaimExists(p) ==
    /\ pc[p] = "claim"
    /\ \E e \in Events : First(e, pending[p]) /\ <<e, scope[p].target>> \in claims
    /\ Goto(p, "blocked")
    /\ UNCHANGED <<disk, deliveries, flushes, locals>>

Flushed(p) ==
    /\ pc[p] = "claim" /\ pending[p] = {}
    /\ Goto(p, "flushed")
    /\ UNCHANGED <<disk, deliveries, flushes, locals>>

(* The command runs, and the event reaches the target ...                  *)
Deliver(p) ==
    /\ pc[p] = "send"
    /\ deliveries' = [deliveries EXCEPT ![Current(p)] = @ + 1]
    /\ Goto(p, "answer")
    /\ UNCHANGED <<disk, flushes, manifest, scope, pending, item>>

CommandFails_GoesOn(p) ==   \* mutant: the loop continues behind a failure
    /\ pc[p] = "send"
    /\ pending' = [pending EXCEPT ![p] = @ \ {item[p]}]
    /\ Goto(p, "claim")
    /\ UNCHANGED <<disk, deliveries, flushes, manifest, scope, item>>

(* ... or the command fails before.                                        *)
CommandFails(p) ==
    /\ pc[p] = "send"
    /\ Goto(p, "partial-failure")
    /\ UNCHANGED <<disk, deliveries, flushes, manifest, scope, pending, item>>

(* Exit 0, a reference, and the attestation of the request.                *)
Answered(p) ==
    /\ pc[p] = "answer"
    /\ Goto(p, "receipt")
    /\ UNCHANGED <<disk, deliveries, flushes, locals>>

(* A timeout or an answer that does not match ends the flush; the claim    *)
(* stays.                                                                  *)
AnswerLost(p) ==
    /\ pc[p] = "answer"
    /\ Goto(p, "partial-failure")
    /\ UNCHANGED <<disk, deliveries, flushes, locals>>

WriteReceipt_DropsClaim(p) ==   \* mutant: a published event needs no claim
    /\ pc[p] = "receipt"
    /\ receipts' = IF torn THEN receipts
                   ELSE [receipts EXCEPT ![<<item[p], scope[p]>>] = @ + 1]
    /\ claims' = claims \ {Current(p)}
    /\ pending' = [pending EXCEPT ![p] = @ \ {item[p]}]
    /\ Goto(p, "claim")
    /\ UNCHANGED <<queue, torn, deliveries, flushes, manifest, scope, item>>

(* A line appended behind a torn one becomes part of it.                   *)
WriteReceipt(p) ==
    /\ pc[p] = "receipt"
    /\ receipts' = IF torn THEN receipts
                   ELSE [receipts EXCEPT ![<<item[p], scope[p]>>] = @ + 1]
    /\ pending' = [pending EXCEPT ![p] = @ \ {item[p]}]
    /\ Goto(p, "claim")
    /\ UNCHANGED <<queue, torn, claims, deliveries, flushes, manifest, scope, item>>

(* A flusher dies; in the middle of a receipt it leaves a torn line.       *)
Crash(p) ==
    /\ CanCrash /\ pc[p] \notin Ended
    /\ Goto(p, "idle")
    /\ torn' \in IF pc[p] = "receipt" THEN {torn, TRUE} ELSE {torn}
    /\ Forget(p)
    /\ UNCHANGED <<queue, receipts, claims, deliveries, flushes>>

-----------------------------------------------------------------------------
(* The manual reconciliation the error messages ask for: the owner looks   *)
(* at the target for an item whose claim has neither a receipt nor a       *)
(* living holder, drops the claim of one that never arrived, writes the    *)
(* receipt of one that did, and mends the file.                            *)

Holding(p) == pc[p] \in {"send", "answer", "receipt"}

Unrecorded(x) == \A s \in Scopes : s.target = x[2] => receipts[<<x[1], s>>] = 0

InDoubt(x) == /\ x \in claims /\ Unrecorded(x)
              /\ \A p \in Flushers : Holding(p) => Current(p) # x

DropClaim(x) ==
    /\ InDoubt(x) /\ deliveries[x] = 0
    /\ claims' = claims \ {x}
    /\ UNCHANGED <<queue, receipts, torn, deliveries, flushes, pc, locals>>

AddReceipt(x, s) ==
    /\ InDoubt(x) /\ deliveries[x] > 0 /\ s.target = x[2] /\ ~ torn
    /\ receipts' = [receipts EXCEPT ![<<x[1], s>>] = @ + 1]
    /\ UNCHANGED <<queue, torn, claims, deliveries, flushes, pc, locals>>

MendReceipts ==
    /\ torn /\ torn' = FALSE
    /\ UNCHANGED <<queue, receipts, claims, deliveries, flushes, pc, locals>>

-----------------------------------------------------------------------------
Step(p) ==
    \/ LoadQueue(p) \/ LoadReceipts(p) \/ CheckClaims(p)
    \/ Claim(p) \/ ClaimExists(p) \/ Flushed(p)
    \/ Deliver(p) \/ CommandFails(p) \/ Answered(p) \/ AnswerLost(p) \/ WriteReceipt(p)

Owner ==
    \/ \E x \in Items : DropClaim(x) \/ \E s \in Scopes : AddReceipt(x, s)
    \/ MendReceipts

Next ==
    \/ \E e \in Events : Enqueue(e)
    \/ \E p \in Flushers :
         \/ \E m \in SUBSET Events, s \in Scopes : Begin(p, m, s)
         \/ GateClosed(p) \/ Step(p) \/ Crash(p)
    \/ Owner

Spec == Init /\ [][Next]_vars

(* A flusher that is running keeps running: a command ends, if only by its *)
(* timeout.                                                                *)
FairSpec == Spec /\ \A p \in Flushers : WF_vars(Step(p))

-----------------------------------------------------------------------------
(* Properties *)

PCs == Ended \cup {"queue", "receipts", "claims", "claim", "send", "answer", "receipt"}

(* Types of the shared files and of the locals of a flush.                 *)
TypeOK ==
    /\ queue \in Seq(Events)
    /\ receipts \in [Events \X Scopes -> Nat]
    /\ torn \in BOOLEAN
    /\ claims \subseteq Items
    /\ deliveries \in [Items -> Nat]
    /\ pc \in [Flushers -> PCs]
    /\ manifest \in [Flushers -> SUBSET Events]
    /\ scope \in [Flushers -> Scopes]
    /\ pending \in [Flushers -> SUBSET Events]
    /\ item \in [Flushers -> Events]

(* However flushers race, die and are retried, an event reaches a target   *)
(* at most once.                                                           *)
AtMostOnce == \A x \in Items : deliveries[x] <= 1

(* A flush that reports success has delivered everything its manifest      *)
(* approved, by itself or by one whose receipt it had read.                *)
FlushedIsDelivered ==
    \A p \in Flushers : pc[p] = "flushed" =>
        \A e \in manifest[p] : deliveries[<<e, scope[p].target>>] > 0

(* A scope that alone has receipts in the file is not locked out of it, but *)
(* for a torn line: no event gets two receipts.                            *)
StaysReadable ==
    torn \/ \A s \in Scopes :
              (\A x \in Events \X Scopes : receipts[x] > 0 => x[2] = s) => Readable(s)

(* What reached the target is never forgotten: without a receipt its claim *)
(* is still there, so that no flush sends it again unseen.                 *)
NeverForgotten == \A x \in Items : deliveries[x] > 0 => x \in claims

(* The flush keeps the promise of Delivery: an item is sent at most once   *)
(* and recorded only after it was.                                         *)
Recorded == {x \in Items : \E s \in Scopes : s.target = x[2] /\ receipts[<<x[1], s>>] > 0}

Promise == INSTANCE Delivery WITH sent <- deliveries, recorded <- Recorded

KeepsDeliveryPromise == Promise!Spec

(* A flush that is started ends, with a result or an error.                *)
FlushEnds == \A p \in Flushers : (pc[p] = "queue") ~> (pc[p] \in Ended)

(* Why it ends: every step of a running flush takes it nearer to its end,   *)
(* whatever the others and the owner do meanwhile, and the loop always     *)
(* finds the next of its pending events in the queue.                      *)
Stage(p) ==
    CASE pc[p] = "queue" -> 4
      [] pc[p] = "receipts" -> 3
      [] pc[p] = "claims" -> 2
      [] pc[p] \in {"claim", "send", "answer", "receipt"} -> 1
      [] OTHER -> 0

Place(p) ==
    CASE pc[p] = "claim" -> 3
      [] pc[p] = "send" -> 2
      [] pc[p] = "answer" -> 1
      [] OTHER -> 0

Todo(p) == IF Stage(p) = 1 THEN 4 * Cardinality(pending[p]) + Place(p) ELSE 0

EverNearer ==
    [][\A p \in Flushers : pc[p] \notin Ended =>
         \/ UNCHANGED <<pc[p], pending[p]>>
         \/ Stage(p)' < Stage(p)
         \/ Stage(p)' = Stage(p) /\ Todo(p)' < Todo(p)]_vars

NextIsFound ==
    \A p \in Flushers : pc[p] = "claim" /\ pending[p] # {} =>
        \E e \in Events : First(e, pending[p])

-----------------------------------------------------------------------------
(* The inductive invariant: what the claim files are for.                  *)

(* A flusher in the middle of an item holds its claim alone, no receipt    *)
(* says it is published, and it was delivered if and only if the command   *)
(* has run.                                                                *)
HoldersApart ==
    \A p \in Flushers : Holding(p) =>
        /\ Current(p) \in claims
        /\ Unrecorded(Current(p))
        /\ deliveries[Current(p)] = IF pc[p] = "send" THEN 0 ELSE 1
        /\ \A q \in Flushers \ {p} : Holding(q) => Current(q) # Current(p)

(* One receipt for a delivery and none without. *)
ReceiptsTrue ==
    \A e \in Events, s \in Scopes :
        /\ receipts[<<e, s>>] <= 1
        /\ receipts[<<e, s>>] > 0 => deliveries[<<e, s.target>>] > 0

(* What a flush has crossed off was delivered. *)
Progress ==
    \A p \in Flushers :
        /\ pc[p] \in {"claims", "claim", "send", "answer", "receipt", "flushed"} =>
             \A e \in manifest[p] \ pending[p] : deliveries[<<e, scope[p].target>>] > 0
        /\ pc[p] = "flushed" => pending[p] = {}

(* A running flush publishes events of the queue, which is finite.         *)
PendingInQueue ==
    \A p \in Flushers :
        /\ pc[p] \in {"receipts", "claims", "claim", "send", "answer", "receipt"} =>
             manifest[p] \subseteq ToSet(queue)
        /\ pending[p] \subseteq manifest[p]
        /\ Holding(p) => item[p] \in pending[p]

IInv == TypeOK /\ AtMostOnce /\ NeverForgotten /\ HoldersApart /\ ReceiptsTrue /\ Progress

=============================================================================
