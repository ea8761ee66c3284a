------------------------------- MODULE Driver -------------------------------
(***************************************************************************)
(* The driver of a product that speaks HTTP and WebSocket (http_driver.py: *)
(* HttpAgentExecutor): it opens a session, sends one message (run) or      *)
(* several (run_session_sequence) and waits for each one's terminal event. *)
(* The product at the other end sends whenever it likes.  A frame is its   *)
(* type and the message it answers, 0 when it answers none; only the       *)
(* model knows the second.  The payload of an event is left out.           *)
(***************************************************************************)
EXTENDS Naturals, Sequences, FiniteSets, SequencesExt

CONSTANTS
    MaxMessages,    \* bound: messages of a sequence
    DrainInitial,   \* drain_initial_events
    MaxEvents,      \* max_events
    PushTypes,      \* what the product sends unasked: no terminal events, as the code says
    Window          \* bound: frames under way

ASSUME DriverAssumption ==
    /\ MaxMessages \in Nat /\ DrainInitial \in Nat
    /\ MaxEvents \in Nat \ {0} /\ Window \in Nat \ {0}
    /\ PushTypes \subseteq {"other", "broken"}

VARIABLES
    mode,       \* which of the two methods was called
    total,      \* how many messages it is to send
    pc,         \* where it stands
    step,       \* the message it is at
    count,      \* frames received in this loop
    sock,       \* the WebSocket
    frames,     \* what is under way to the driver
    inbox,      \* messages the product has not answered yet
    answered,   \* messages it has
    trouble,    \* what kept the driver from an event
    result      \* what the method returned or raised

vars == <<mode, total, pc, step, count, sock, frames, inbox, answered, trouble, result>>

Types == {"terminal", "error", "other", "broken"}
Frame == [type : Types, of : 0 .. MaxMessages + 1]

NoFrame     == [type |-> "other", of |-> 0]
Pending     == [kind |-> "pending", event |-> NoFrame]
Environment == [kind |-> "environment", event |-> NoFrame]
Raised      == [kind |-> "raised", event |-> NoFrame]
Verdict(f)  == [kind |-> "verdict", event |-> f]

(* A test command is one message, a sequence has any number. *)
Init ==
    /\ \/ mode = "run" /\ total = 1
       \/ mode = "sequence" /\ total \in 0 .. MaxMessages
    /\ pc = "create" /\ step = 1 /\ count = 0 /\ sock = "none"
    /\ frames = <<>> /\ inbox = {} /\ answered = {}
    /\ trouble = "none" /\ result = Pending

Product == <<frames, inbox, answered>>

(* Every way out closes the socket, an exception too. *)
EndRun(r) ==
    /\ pc' = "done" /\ result' = r
    /\ sock' = IF sock = "none" THEN "none" ELSE "closed"

-----------------------------------------------------------------------------
(* The session and the socket *)

(* An answer without session id, and an empty sequence, stop it here. *)
CreateSession(given) ==
    /\ pc = "create"
    /\ IF given /\ total > 0
       THEN pc' = "connect" /\ UNCHANGED <<sock, trouble, result>>
       ELSE EndRun(Environment) /\ trouble' = "session"
    /\ UNCHANGED <<mode, total, step, count, Product>>

Unreachable ==
    /\ pc \in {"create", "connect"}
    /\ EndRun(Environment) /\ trouble' = "network"
    /\ UNCHANGED <<mode, total, step, count, Product>>

Connect ==
    /\ pc = "connect"
    /\ sock' = "open" /\ count' = 0
    /\ pc' = IF mode = "run" THEN "drain" ELSE "send"
    /\ UNCHANGED <<mode, total, step, trouble, result, Product>>

-----------------------------------------------------------------------------
(* Receiving: a frame, or nothing.  A frame that is no JSON object counts  *)
(* as nothing; so does a receive that times out or finds the socket lost.  *)

Final(f) == f.type \in {"terminal", "error"}

Seen_FinalOnly == count     \* mutant: only terminal events are counted

Seen == count + 1

TakeFrame ==
    /\ frames # <<>>
    /\ frames' = Tail(frames)
    /\ UNCHANGED <<inbox, answered>>

(* _drain_initial: the events the product sends first.  A terminal event   *)
(* among them is the result, and the message is never sent.                *)
DrainFrame ==
    /\ pc = "drain" /\ count < DrainInitial
    /\ TakeFrame
    /\ LET f == Head(frames)
       IN  \/ f.type = "broken"
              /\ pc' = "send" /\ UNCHANGED <<count, sock, result>>
           \/ Final(f)
              /\ EndRun(Verdict(f)) /\ UNCHANGED count
           \/ f.type = "other"
              /\ count' = Seen /\ UNCHANGED <<pc, sock, result>>
    /\ UNCHANGED <<mode, total, step, trouble>>

DrainOver ==
    /\ pc = "drain" /\ (count = DrainInitial \/ frames = <<>>)
    /\ pc' = "send"
    /\ UNCHANGED <<mode, total, step, count, sock, trouble, result, Product>>

(* _send_and_wait.  On a lost socket the message may vanish, or the send   *)
(* raises an error that nobody catches.                                    *)
Send ==
    /\ pc = "send"
    /\ pc' = "wait" /\ count' = 0
    /\ inbox' = IF sock = "open" THEN inbox \cup {step} ELSE inbox
    /\ UNCHANGED <<mode, total, step, sock, frames, answered, trouble, result>>

SendRaises ==
    /\ pc = "send" /\ sock = "lost"
    /\ EndRun(Raised) /\ trouble' = "network"
    /\ UNCHANGED <<mode, total, step, count, Product>>

MayWait_OneLess == count + 1 < MaxEvents    \* mutant: the last event is not read

MayWait == count < MaxEvents

WaitFrame_Unsorted ==       \* mutant: any event but an error ends the step
    /\ pc = "wait" /\ MayWait
    /\ TakeFrame
    /\ LET f == Head(frames)
       IN  IF f.type = "broken"
           THEN EndRun(Environment) /\ trouble' = "broken" /\ UNCHANGED <<step, count>>
           ELSE IF step < total
           THEN pc' = "send" /\ step' = step + 1 /\ UNCHANGED <<count, sock, trouble, result>>
           ELSE EndRun(Verdict(f)) /\ UNCHANGED <<step, count, trouble>>
    /\ UNCHANGED <<mode, total>>

(* A terminal event, an error too, ends the step; the last one is judged.  *)
WaitFrame ==
    /\ pc = "wait" /\ MayWait
    /\ TakeFrame
    /\ LET f == Head(frames)
       IN  \/ f.type = "broken"
              /\ EndRun(Environment) /\ trouble' = "broken" /\ UNCHANGED <<step, count>>
           \/ f.type = "other"
              /\ count' = Seen
              /\ UNCHANGED <<pc, step, sock, trouble, result>>
           \/ Final(f) /\ step < total
              /\ pc' = "send" /\ step' = step + 1
              /\ UNCHANGED <<count, sock, trouble, result>>
           \/ Final(f) /\ step = total
              /\ EndRun(Verdict(f)) /\ UNCHANGED <<step, count, trouble>>
    /\ UNCHANGED <<mode, total>>

WaitOver ==
    /\ pc = "wait"
    /\ \/ ~ MayWait /\ trouble' = "limit"
       \/ MayWait /\ frames = <<>> /\ trouble' = "silence"
    /\ EndRun(Environment)
    /\ UNCHANGED <<mode, total, step, count, Product>>

-----------------------------------------------------------------------------
(* The product: it answers each message once, sends other events when it   *)
(* likes, and may go away.                                                 *)
Reach(f) ==
    /\ sock = "open" /\ Len(frames) < Window
    /\ frames' = Append(frames, f)
    /\ UNCHANGED <<mode, total, pc, step, count, sock, trouble, result>>

Push(type) ==
    /\ Reach([type |-> type, of |-> 0])
    /\ UNCHANGED <<inbox, answered>>

Answer(m, type) ==
    /\ m \in inbox
    /\ inbox' = inbox \ {m} /\ answered' = answered \cup {m}
    /\ Reach([type |-> type, of |-> m])

GoAway ==
    /\ sock = "open"
    /\ sock' = "lost"
    /\ UNCHANGED <<mode, total, pc, step, count, trouble, result, Product>>

Client ==
    \/ \E given \in BOOLEAN : CreateSession(given)
    \/ Unreachable \/ Connect
    \/ DrainFrame \/ DrainOver
    \/ Send \/ SendRaises
    \/ WaitFrame \/ WaitOver

Server ==
    \/ \E type \in PushTypes : Push(type)
    \/ \E m \in inbox, type \in {"terminal", "error"} : Answer(m, type)
    \/ GoAway

Next == Client \/ Server

Spec == Init /\ [][Next]_vars

(* The driver goes on: a receive returns with a frame or by its timeout.   *)
(* Nothing is assumed of the product.                                      *)
FairSpec == Spec /\ WF_vars(Client)

-----------------------------------------------------------------------------
(* Properties *)

TypeOK ==
    /\ mode \in {"run", "sequence"} /\ total \in 0 .. MaxMessages \cup {1}
    /\ pc \in {"create", "connect", "drain", "send", "wait", "done"}
    /\ step \in 1 .. MaxMessages + 1 /\ count \in 0 .. MaxEvents \cup 0 .. DrainInitial
    /\ sock \in {"none", "open", "lost", "closed"}
    /\ frames \in Seq(Frame) /\ Len(frames) <= Window
    /\ inbox \subseteq 1 .. total /\ answered \subseteq 1 .. total
    /\ trouble \in {"none", "session", "network", "broken", "limit", "silence"}
    /\ result \in [kind : {"pending", "environment", "verdict", "raised"}, event : Frame]

(* The event that is judged answers the last message of the sequence, and  *)
(* every message before it was answered: no event of an earlier step is    *)
(* taken for it, however late the product is, as long as it sends terminal *)
(* events only as answers and one for each message.                        *)
JudgedOnLastAnswer ==
    result.kind = "verdict" => result.event.of = total /\ answered = 1 .. total

(* The driver and the product hold the conversation that Conversation      *)
(* promises: one message at a time, in order, and the last answer judged.  *)
Promise == INSTANCE Conversation
    WITH asked <- inbox \cup answered, outcome <- result.kind, judged <- result.event.of

KeepsConversation == Promise!Spec

(* An environment event has a cause outside the product's answers: where   *)
(* there was neither trouble nor silence, max_events other events came and *)
(* none of them was the answer.                                            *)
EnvironmentHasCause ==
    result.kind = "environment" =>
        /\ trouble # "none"
        /\ trouble = "limit" => count = MaxEvents
        /\ trouble = "silence" => step \notin answered

(* Whatever way a run ends, it leaves no socket open behind it. *)
EndsClosed == pc = "done" => sock \notin {"open", "lost"}

(* A run ends, also against a product that never stops sending. *)
RunEnds == <>(pc = "done")

(* Why it ends: whatever the product sends, every step of the driver goes  *)
(* on to the next message, to a later stage of this one, or takes one more *)
(* of the frames that the stage allows; it never goes back, and once it is *)
(* done its result stands.                                                 *)
Stage ==
    CASE pc = "create" -> 5
      [] pc = "connect" -> 4
      [] pc = "drain" -> 3
      [] pc = "send" -> 2
      [] pc = "wait" -> 1
      [] pc = "done" -> 0

Limit == IF pc = "drain" THEN DrainInitial ELSE MaxEvents

Nearer ==
    \/ UNCHANGED <<pc, step, count, result>>
    \/ pc' = "done" /\ pc # "done"
    \/ step < step' /\ step' <= total
    \/ step' = step /\ Stage' < Stage
    \/ UNCHANGED <<pc, step>> /\ count < count' /\ count' <= Limit

EverNearer == [][Nearer]_vars

-----------------------------------------------------------------------------
(* The inductive invariant *)

FinalAt == {i \in DOMAIN frames : Final(frames[i])}

(* All that was sent has been answered, and every answer has been taken.   *)
Quiet == inbox = {} /\ FinalAt = {} /\ answered = 1 .. step - 1

(* The answer to the step is to come, if its message arrived, or under way *)
(* and the only one.                                                       *)
Awaiting ==
    \/ inbox \subseteq {step} /\ FinalAt = {} /\ answered = 1 .. step - 1
    \/ /\ inbox = {} /\ answered = 1 .. step
       /\ \E i \in DOMAIN frames : FinalAt = {i} /\ frames[i].of = step

InStep ==
    /\ pc \in {"connect", "drain", "send", "wait"} => step <= total
    /\ pc \in {"create", "connect"} => sock = "none" /\ step = 1
    /\ pc # "done" => result = Pending
    /\ pc \in {"create", "connect", "drain", "send"} => Quiet
    /\ pc = "wait" => Awaiting /\ count <= MaxEvents

IInv == TypeOK /\ InStep /\ EndsClosed /\ JudgedOnLastAnswer /\ EnvironmentHasCause

-----------------------------------------------------------------------------
(* What the documents say and the code does not do. *)

(* What http_driver.py says of the network: every failure of it ends as an *)
(* environment event, none as an exception of the executor.                *)
FailureIsEnvironment == trouble = "network" => result = Environment

=============================================================================
