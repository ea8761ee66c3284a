---------------------------- MODULE DriverProofs ----------------------------
(***************************************************************************)
(* Proofs about Driver for any number of messages, any limits and any      *)
(* number of frames under way.                                             *)
(***************************************************************************)
EXTENDS Driver, SequenceTheorems, TLAPS

USE DriverAssumption

(* What the first frame is, and what is left when it was taken.            *)
LEMMA Taken ==
    ASSUME frames \in Seq(Frame), Len(frames) <= Window, TakeFrame
    PROVE  /\ Head(frames) = frames[1] /\ Head(frames) \in Frame
           /\ frames' \in Seq(Frame) /\ Len(frames') = Len(frames) - 1
           /\ 1 \in DOMAIN frames
           /\ \A i \in DOMAIN frames' : i + 1 \in DOMAIN frames /\ frames'[i] = frames[i + 1]
           /\ \A i \in DOMAIN frames \ {1} : i - 1 \in DOMAIN frames'
<1>1. frames # <<>> /\ frames' = Tail(frames)
  BY DEF TakeFrame
<1>2. /\ Head(frames) = frames[1] /\ Head(frames) \in Frame
      /\ frames' \in Seq(Frame) /\ Len(frames') = Len(frames) - 1
      /\ \A i \in 1 .. Len(frames) - 1 : frames'[i] = frames[i + 1]
  <2>1. Head(frames) = frames[1]
    BY <1>1
  <2> QED
    BY <1>1, <2>1, HeadTailProperties
<1>3. /\ DOMAIN frames = 1 .. Len(frames) /\ DOMAIN frames' = 1 .. Len(frames) - 1
      /\ Len(frames) \in Nat \ {0}
  BY <1>1, <1>2
<1>4. \A i \in 1 .. Len(frames) - 1 : i + 1 \in 1 .. Len(frames)
  BY <1>3
<1>5. \A i \in (1 .. Len(frames)) \ {1} : i - 1 \in 1 .. Len(frames) - 1
  BY <1>3
<1> QED
  BY <1>2, <1>3, <1>4, <1>5

(* A frame that is not final leaves the final ones behind it as they are.  *)
LEMMA TakenOther ==
    ASSUME frames \in Seq(Frame), Len(frames) <= Window, TakeFrame,
           ~ Final(Head(frames)), Awaiting, UNCHANGED step, step \in Nat
    PROVE  Awaiting'
<1>1. /\ Head(frames) = frames[1] /\ 1 \in DOMAIN frames
      /\ \A i \in DOMAIN frames' : i + 1 \in DOMAIN frames /\ frames'[i] = frames[i + 1]
      /\ \A i \in DOMAIN frames \ {1} : i - 1 \in DOMAIN frames'
      /\ DOMAIN frames \subseteq Nat /\ DOMAIN frames' \subseteq Nat
  BY Taken
<1>2. UNCHANGED <<inbox, answered>>
  BY DEF TakeFrame
<1>3. CASE FinalAt = {}
  <2>1. FinalAt' = {}
    BY <1>1, <1>3 DEF FinalAt, Final
  <2> QED
    BY <1>2, <1>3, <2>1 DEF Awaiting
<1>4. ASSUME NEW i \in DOMAIN frames, FinalAt = {i}, frames[i].of = step,
             inbox = {}, answered = 1 .. step
      PROVE  Awaiting'
  <2>1. i # 1 /\ i \in Nat
    BY <1>1, <1>4 DEF FinalAt
  <2>2. i - 1 \in DOMAIN frames' /\ frames'[i - 1] = frames[i]
    BY <1>1, <2>1
  <2>3. ASSUME NEW j \in DOMAIN frames' PROVE j \in FinalAt' <=> j = i - 1
    <3>1. j \in FinalAt' <=> j + 1 \in FinalAt
      BY <1>1 DEF FinalAt, Final
    <3>2. j + 1 \in FinalAt <=> j + 1 = i
      BY <1>4
    <3>3. j \in Nat
      BY <1>1
    <3>4. j + 1 = i <=> j = i - 1
      BY <2>1, <3>3
    <3> QED
      BY <3>1, <3>2, <3>4
  <2>4. FinalAt' = {i - 1}
    BY <2>2, <2>3 DEF FinalAt
  <2> QED
    BY <1>2, <1>4, <2>2, <2>4 DEF Awaiting
<1> QED
  BY <1>3, <1>4 DEF Awaiting

(* Once the answer to the step is taken, nothing is left to come.          *)
LEMMA TakenFinal ==
    ASSUME frames \in Seq(Frame), Len(frames) <= Window, TakeFrame,
           Final(Head(frames)), Awaiting
    PROVE  /\ Head(frames).of = step /\ inbox = {} /\ inbox' = {}
           /\ answered = 1 .. step /\ answered' = 1 .. step /\ FinalAt' = {}
<1>1. /\ Head(frames) = frames[1] /\ 1 \in DOMAIN frames
      /\ \A i \in DOMAIN frames' : i + 1 \in DOMAIN frames /\ frames'[i] = frames[i + 1]
      /\ DOMAIN frames' \subseteq Nat \ {0}
  BY Taken
<1>2. 1 \in FinalAt
  BY <1>1 DEF FinalAt
<1>3. FinalAt = {1} /\ inbox = {} /\ answered = 1 .. step /\ frames[1].of = step
  BY <1>2 DEF Awaiting
<1>4. FinalAt' = {}
  <2> SUFFICES ASSUME NEW i \in DOMAIN frames', Final(frames'[i]) PROVE FALSE
    BY DEF FinalAt, Final
  <2>1. i + 1 \in FinalAt /\ i + 1 # 1
    BY <1>1 DEF FinalAt
  <2> QED
    BY <1>3, <2>1
<1> QED
  BY <1>1, <1>3, <1>4 DEF TakeFrame

LEMMA ReachType ==
    ASSUME frames \in Seq(Frame), Len(frames) <= Window, NEW f \in Frame, Reach(f)
    PROVE  /\ frames' \in Seq(Frame) /\ Len(frames') <= Window
           /\ FinalAt' = FinalAt \cup (IF Final(f) THEN {Len(frames) + 1} ELSE {})
           /\ Len(frames) + 1 \in DOMAIN frames' /\ frames'[Len(frames) + 1] = f
           /\ \A i \in DOMAIN frames : i \in DOMAIN frames' /\ frames'[i] = frames[i]
           /\ \A i \in DOMAIN frames' : i \in DOMAIN frames \/ i = Len(frames) + 1
<1>1. frames' = Append(frames, f) /\ Len(frames) < Window
  BY DEF Reach
<1>2. /\ frames' \in Seq(Frame) /\ Len(frames') = Len(frames) + 1
      /\ frames'[Len(frames) + 1] = f
      /\ \A i \in 1 .. Len(frames) : frames'[i] = frames[i]
  BY <1>1
<1>3. DOMAIN frames = 1 .. Len(frames) /\ DOMAIN frames' = 1 .. Len(frames) + 1
  BY <1>2
<1> QED
  BY <1>1, <1>2, <1>3 DEF FinalAt, Final

LEMMA InvInit == Init => IInv
<1> SUFFICES ASSUME Init PROVE IInv
  OBVIOUS
<1>1. FinalAt = {} /\ answered = 1 .. step - 1 /\ inbox = {}
  BY DEF Init, FinalAt
<1>2. NoFrame \in Frame
  BY DEF NoFrame, Frame, Types
<1>3. TypeOK
  BY <1>2 DEF Init, TypeOK, Pending
<1> QED
  BY <1>1, <1>3 DEF Init, IInv, InStep, Quiet, EndsClosed, JudgedOnLastAnswer,
     EnvironmentHasCause, Pending

(* A run that ends without a verdict needs a cause, and nothing else.      *)
LEMMA EndsWithout ==
    ASSUME IInv, pc # "done", NEW r \in {Environment, Raised}, EndRun(r),
           UNCHANGED <<mode, total, step, count, answered>>,
           trouble' \in {"session", "network", "broken", "limit", "silence"},
           frames' \in Seq(Frame), Len(frames') <= Window, UNCHANGED inbox,
           trouble' = "limit" => count = MaxEvents,
           trouble' = "silence" => step \notin answered
    PROVE  IInv'
<1>1. NoFrame \in Frame
  BY DEF NoFrame, Frame, Types
<1>2. TypeOK'
  BY <1>1 DEF IInv, TypeOK, EndRun, Environment, Raised
<1>3. pc' = "done" /\ result' = r /\ sock' \in {"none", "closed"}
  BY DEF EndRun
<1> QED
  BY <1>2, <1>3 DEF IInv, InStep, EndsClosed, JudgedOnLastAnswer, EnvironmentHasCause,
     Environment, Raised

LEMMA Connecting ==
    ASSUME IInv, (\E given \in BOOLEAN : CreateSession(given)) \/ Unreachable \/ Connect
    PROVE  IInv'
<1> USE DEF Product
<1>1. ASSUME NEW given \in BOOLEAN, CreateSession(given) PROVE IInv'
  <2>1. CASE given /\ total > 0
    <3>1. pc' = "connect" /\ UNCHANGED <<mode, total, step, count, sock, frames, inbox,
                                        answered, trouble, result>>
      BY <1>1, <2>1 DEF CreateSession
    <3>2. step = 1 /\ total \in Nat
      BY <1>1 DEF CreateSession, IInv, TypeOK, InStep
    <3> QED
      BY <1>1, <2>1, <3>1, <3>2 DEF CreateSession, IInv, TypeOK, InStep, Quiet, FinalAt, Final,
         EndsClosed, JudgedOnLastAnswer, EnvironmentHasCause
  <2>2. CASE ~ (given /\ total > 0)
    BY <1>1, <2>2, EndsWithout DEF CreateSession, IInv, TypeOK
  <2> QED
    BY <2>1, <2>2
<1>2. CASE Unreachable
  BY <1>2, EndsWithout DEF Unreachable, IInv, TypeOK
<1>3. CASE Connect
  BY <1>3 DEF Connect, IInv, TypeOK, InStep, Quiet, FinalAt, Final,
     EndsClosed, JudgedOnLastAnswer, EnvironmentHasCause, Pending
<1> QED
  BY <1>1, <1>2, <1>3

LEMMA Draining == IInv /\ (DrainFrame \/ DrainOver) => IInv'
<1> USE DEF Product
<1>1. ASSUME IInv, DrainFrame PROVE IInv'
  <2>1. /\ frames \in Seq(Frame) /\ Len(frames) <= Window /\ pc = "drain" /\ TakeFrame
        /\ FinalAt = {} /\ inbox = {} /\ answered = 1 .. step - 1 /\ step \in Nat
        /\ count < DrainInitial
    BY <1>1 DEF DrainFrame, IInv, TypeOK, InStep, Quiet
  <2>2. /\ Head(frames) \in Frame /\ ~ Final(Head(frames))
        /\ frames' \in Seq(Frame) /\ Len(frames') <= Window
    <3>1. /\ Head(frames) = frames[1] /\ 1 \in DOMAIN frames /\ Head(frames) \in Frame
          /\ frames' \in Seq(Frame) /\ Len(frames') = Len(frames) - 1
      BY <2>1, Taken
    <3> QED
      BY <2>1, <3>1 DEF FinalAt
  <2>3. Quiet'
    <3>1. UNCHANGED <<inbox, answered, step>>
      BY <1>1 DEF DrainFrame, TakeFrame
    <3>2. FinalAt' = {}
      <4> SUFFICES ASSUME NEW i \in DOMAIN frames', Final(frames'[i]) PROVE FALSE
        BY DEF FinalAt, Final
      <4>1. i + 1 \in DOMAIN frames /\ frames'[i] = frames[i + 1]
        BY <2>1, Taken
      <4> QED
        BY <2>1, <4>1 DEF FinalAt
    <3> QED
      BY <2>1, <3>1, <3>2 DEF Quiet
  <2>4. /\ pc' \in {"drain", "send"} /\ UNCHANGED <<mode, total, step, sock, trouble, result,
                                                    inbox, answered>>
        /\ count' = count \/ count' = count + 1
    BY <1>1, <2>2 DEF DrainFrame, TakeFrame, Seen
  <2> QED
    BY <1>1, <2>1, <2>2, <2>3, <2>4 DEF IInv, TypeOK, InStep, EndsClosed,
       JudgedOnLastAnswer, EnvironmentHasCause, Pending
<1>2. ASSUME IInv, DrainOver PROVE IInv'
  BY <1>2 DEF DrainOver, IInv, TypeOK, InStep, Quiet, FinalAt, Final, EndsClosed,
     JudgedOnLastAnswer, EnvironmentHasCause, Pending
<1> QED
  BY <1>1, <1>2

LEMMA Sending == IInv /\ (Send \/ SendRaises) => IInv'
<1> USE DEF Product
<1>1. ASSUME IInv, Send PROVE IInv'
  <2>1. /\ pc = "send" /\ pc' = "wait" /\ count' = 0 /\ step <= total
        /\ inbox' \subseteq {step} /\ result = Pending
        /\ UNCHANGED <<mode, total, step, sock, frames, answered, trouble, result>>
    BY <1>1 DEF Send, IInv, InStep, Quiet
  <2>2. Awaiting'
    BY <1>1, <2>1 DEF IInv, InStep, Quiet, Awaiting, FinalAt, Final
  <2>3. inbox' \subseteq 1 .. total
    BY <1>1, <2>1 DEF IInv, TypeOK
  <2> QED
    BY <1>1, <2>1, <2>2, <2>3 DEF IInv, TypeOK, InStep, EndsClosed,
       JudgedOnLastAnswer, EnvironmentHasCause, Pending
<1>2. ASSUME IInv, SendRaises PROVE IInv'
  BY <1>2, EndsWithout DEF SendRaises, IInv, TypeOK
<1> QED
  BY <1>1, <1>2

LEMMA Waiting == IInv /\ (WaitFrame \/ WaitOver) => IInv'
<1>1. ASSUME IInv, WaitFrame PROVE IInv'
  <2> DEFINE f == Head(frames)
  <2>1. /\ frames \in Seq(Frame) /\ Len(frames) <= Window /\ TakeFrame
        /\ pc = "wait" /\ Awaiting /\ step \in Nat /\ total \in Nat /\ step <= total
        /\ count < MaxEvents /\ count \in Nat /\ result = Pending
        /\ UNCHANGED <<mode, total>>
    BY <1>1 DEF WaitFrame, MayWait, IInv, TypeOK, InStep
  <2>2. /\ f \in Frame /\ frames' \in Seq(Frame) /\ Len(frames') <= Window
        /\ UNCHANGED <<inbox, answered>>
    <3>1. f \in Frame /\ frames' \in Seq(Frame) /\ Len(frames') = Len(frames) - 1
      BY <2>1, Taken
    <3> QED
      BY <2>1, <3>1 DEF TakeFrame
  <2>3. CASE f.type = "broken"
    <3>1. EndRun(Environment) /\ trouble' = "broken" /\ UNCHANGED <<step, count>>
      BY <1>1, <2>3 DEF WaitFrame, Final
    <3> QED
      BY <1>1, <2>1, <2>2, <3>1, EndsWithout
  <2>4. CASE f.type = "other"
    <3>1. count' = count + 1 /\ UNCHANGED <<pc, step, sock, trouble, result>>
      BY <1>1, <2>4 DEF WaitFrame, Final, Seen
    <3>2. Awaiting'
      BY <2>1, <2>4, <3>1, TakenOther DEF Final
    <3> QED
      BY <1>1, <2>1, <2>2, <3>1, <3>2 DEF IInv, TypeOK, InStep, EndsClosed,
         JudgedOnLastAnswer, EnvironmentHasCause, Pending
  <2>5. CASE Final(f)
    <3>1. /\ f.of = step /\ inbox = {} /\ inbox' = {} /\ FinalAt' = {}
          /\ answered = 1 .. step /\ answered' = 1 .. step
      BY <2>1, <2>5, TakenFinal
    <3>2. CASE step < total
      <4>1. /\ pc' = "send" /\ step' = step + 1
            /\ UNCHANGED <<count, sock, trouble, result>>
        BY <1>1, <2>1, <2>5, <3>2 DEF WaitFrame, Final
      <4>2. Quiet'
        BY <2>1, <3>1, <4>1 DEF Quiet
      <4>3. TypeOK'
        BY <1>1, <2>1, <2>2, <3>2, <4>1 DEF IInv, TypeOK
      <4> QED
        BY <1>1, <2>1, <3>2, <4>1, <4>2, <4>3 DEF IInv, InStep, EndsClosed,
           JudgedOnLastAnswer, EnvironmentHasCause, Pending
    <3>3. CASE step = total
      <4>1. EndRun(Verdict(f)) /\ UNCHANGED <<step, count, trouble>>
        BY <1>1, <2>1, <2>5, <3>3 DEF WaitFrame, Final
      <4>2. pc' = "done" /\ sock' \in {"none", "closed"}
            /\ result' = [kind |-> "verdict", event |-> f]
        BY <4>1 DEF EndRun, Verdict
      <4>3. TypeOK'
        BY <1>1, <2>1, <2>2, <4>1, <4>2 DEF IInv, TypeOK
      <4> QED
        BY <1>1, <2>1, <3>1, <3>3, <4>1, <4>2, <4>3 DEF IInv, InStep, EndsClosed,
           JudgedOnLastAnswer, EnvironmentHasCause
    <3> QED
      BY <1>1, <2>1, <3>2, <3>3 DEF IInv, TypeOK
  <2> QED
    BY <2>2, <2>3, <2>4, <2>5 DEF Frame, Types, Final
<1>2. ASSUME IInv, WaitOver PROVE IInv'
  <2>1. /\ pc = "wait" /\ EndRun(Environment) /\ trouble' \in {"limit", "silence"}
        /\ UNCHANGED <<mode, total, step, count, frames, inbox, answered>>
        /\ frames \in Seq(Frame) /\ Len(frames) <= Window
    BY <1>2 DEF WaitOver, Product, IInv, TypeOK
  <2>2. trouble' = "limit" => count = MaxEvents
    BY <1>2, <2>1 DEF WaitOver, MayWait, IInv, TypeOK, InStep
  <2>3. trouble' = "silence" => step \notin answered
    <3>1. ASSUME frames = <<>> PROVE answered = 1 .. step - 1 /\ step \in Nat
      BY <1>2, <2>1, <3>1 DEF IInv, TypeOK, InStep, Awaiting, FinalAt
    <3> QED
      BY <1>2, <3>1 DEF WaitOver
  <2> QED
    BY <1>2, <2>1, <2>2, <2>3, EndsWithout
<1> QED
  BY <1>1, <1>2

LEMMA Serving == IInv /\ Server => IInv'
<1>1. ASSUME IInv, NEW type \in PushTypes, Push(type) PROVE IInv'
  <2> DEFINE f == [type |-> type, of |-> 0]
  <2>1. f \in Frame /\ ~ Final(f) /\ Reach(f)
    BY <1>1 DEF Push, Frame, Types, Final
  <2>2. /\ UNCHANGED <<mode, total, pc, step, count, sock, trouble, result, inbox, answered>>
        /\ frames \in Seq(Frame) /\ Len(frames) <= Window /\ pc # "done"
    BY <1>1 DEF Push, Reach, IInv, TypeOK, EndsClosed
  <2> HIDE DEF f
  <2>3. /\ frames' \in Seq(Frame) /\ Len(frames') <= Window /\ FinalAt' = FinalAt
        /\ \A i \in DOMAIN frames : i \in DOMAIN frames' /\ frames'[i] = frames[i]
    BY <2>1, <2>2, ReachType
  <2>4. Quiet => Quiet'
    BY <2>2, <2>3 DEF Quiet
  <2>5. Awaiting => Awaiting'
    BY <2>2, <2>3 DEF Awaiting
  <2> QED
    BY <1>1, <2>2, <2>3, <2>4, <2>5 DEF IInv, TypeOK, InStep, EndsClosed,
       JudgedOnLastAnswer, EnvironmentHasCause, Pending
<1>2. ASSUME IInv, NEW m \in inbox, NEW type \in {"terminal", "error"}, Answer(m, type)
      PROVE  IInv'
  <2> DEFINE f == [type |-> type, of |-> m]
  <2>1. m \in 1 .. total /\ total \in 0 .. MaxMessages \cup {1} /\ frames \in Seq(Frame)
        /\ Len(frames) <= Window
    BY <1>2 DEF IInv, TypeOK
  <2>2. f \in Frame /\ Final(f) /\ Reach(f) /\ f.of = m
    BY <1>2, <2>1 DEF Answer, Frame, Types, Final
  <2>3. /\ UNCHANGED <<mode, total, pc, step, count, sock, trouble, result>>
        /\ inbox' = inbox \ {m} /\ answered' = answered \cup {m} /\ pc # "done"
    BY <1>2 DEF Answer, Reach, IInv, TypeOK, EndsClosed
  <2>4. /\ pc = "wait" /\ m = step /\ step \in Nat \ {0} /\ inbox = {step}
        /\ FinalAt = {} /\ answered = 1 .. step - 1
    <3>1. pc = "wait" /\ step \in Nat \ {0}
      BY <1>2, <2>3 DEF IInv, TypeOK, InStep, Quiet
    <3>2. Awaiting
      BY <1>2, <3>1 DEF IInv, InStep
    <3> QED
      BY <1>2, <3>1, <3>2 DEF Awaiting
  <2> HIDE DEF f
  <2>5. /\ frames' \in Seq(Frame) /\ Len(frames') <= Window
        /\ FinalAt' = {Len(frames) + 1} /\ Len(frames) + 1 \in DOMAIN frames'
        /\ frames'[Len(frames) + 1] = f
    BY <2>1, <2>2, <2>4, ReachType
  <2>6. Awaiting'
    <3>1. inbox' = {} /\ answered' = 1 .. step
      BY <2>3, <2>4
    <3> QED
      BY <2>2, <2>3, <2>4, <2>5, <3>1 DEF Awaiting
  <2>7. TypeOK'
    BY <1>2, <2>1, <2>3, <2>5 DEF IInv, TypeOK
  <2> QED
    BY <1>2, <2>3, <2>4, <2>6, <2>7 DEF IInv, InStep, EndsClosed,
       JudgedOnLastAnswer, EnvironmentHasCause, Pending
<1>3. ASSUME IInv, GoAway PROVE IInv'
  BY <1>3 DEF GoAway, Product, IInv, TypeOK, InStep, Quiet, Awaiting, FinalAt, Final,
     EndsClosed, JudgedOnLastAnswer, EnvironmentHasCause
<1> QED
  BY <1>1, <1>2, <1>3 DEF Server

LEMMA InvStep == IInv /\ [Next]_vars => IInv'
<1>1. IInv /\ UNCHANGED vars => IInv'
  BY DEF vars, IInv, TypeOK, InStep, Quiet, Awaiting, FinalAt, Final, EndsClosed,
     JudgedOnLastAnswer, EnvironmentHasCause
<1> QED
  BY <1>1, Connecting, Draining, Sending, Waiting, Serving DEF Next, Client

(* Types: a step number stays one of the sequence's, and no limit of       *)
(* frames is passed.                                                       *)
THEOREM TypeCorrect == Spec => []TypeOK
<1>1. IInv => TypeOK
  BY DEF IInv
<1> QED
  BY <1>1, InvInit, InvStep, PTL DEF Spec

(* The event that is judged answers the last message, and all messages     *)
(* were answered: for any length of the sequence and whatever the product  *)
(* sends between its answers.                                              *)
THEOREM JudgedAnswerIsLast == Spec => []JudgedOnLastAnswer
<1>1. IInv => JudgedOnLastAnswer
  BY DEF IInv
<1> QED
  BY <1>1, InvInit, InvStep, PTL DEF Spec

(* An environment event has a cause: never an answer that had come.        *)
THEOREM EnvironmentIsExplained == Spec => []EnvironmentHasCause
<1>1. IInv => EnvironmentHasCause
  BY DEF IInv
<1> QED
  BY <1>1, InvInit, InvStep, PTL DEF Spec

(* No way out of a run leaves its socket open.                             *)
THEOREM SocketIsClosed == Spec => []EndsClosed
<1>1. IInv => EndsClosed
  BY DEF IInv
<1> QED
  BY <1>1, InvInit, InvStep, PTL DEF Spec

(* A run always gets nearer to its end, whatever the product does: the     *)
(* safety half of RunEnds, for any number of messages and any limits.      *)
THEOREM RunOnlyGetsNearer == Spec => EverNearer
<1> USE DEF EndRun, Nearer
<1>1. ASSUME IInv, NEW given \in BOOLEAN, CreateSession(given) PROVE Nearer
  BY <1>1 DEF CreateSession, Stage
<1>2. ASSUME IInv, Unreachable \/ Connect PROVE Nearer
  BY <1>2 DEF Unreachable, Connect, Stage
<1>3. ASSUME IInv, DrainFrame \/ DrainOver PROVE Nearer
  <2>1. count \in Nat
    BY <1>3 DEF IInv, TypeOK
  <2> QED
    BY <1>3, <2>1 DEF DrainFrame, DrainOver, Seen, Stage, Limit
<1>4. ASSUME IInv, Send \/ SendRaises PROVE Nearer
  BY <1>4 DEF Send, SendRaises, Stage
<1>5. ASSUME IInv, WaitFrame PROVE Nearer
  <2>1. count \in Nat /\ step \in Nat /\ total \in Nat /\ pc = "wait" /\ count < MaxEvents
    BY <1>5 DEF WaitFrame, MayWait, IInv, TypeOK
  <2>2. \/ pc' = "done"
        \/ count' = count + 1 /\ UNCHANGED <<pc, step>>
        \/ step < total /\ step' = step + 1
    BY <1>5, <2>1 DEF WaitFrame, Seen
  <2> QED
    BY <2>1, <2>2 DEF Limit
<1>6. ASSUME IInv, WaitOver PROVE Nearer
  BY <1>6 DEF WaitOver
<1>7. ASSUME Server PROVE Nearer
  BY <1>7 DEF Server, Push, Answer, Reach, GoAway
<1>8. IInv /\ [Next]_vars => [Nearer]_vars
  BY <1>1, <1>2, <1>3, <1>4, <1>5, <1>6, <1>7 DEF Next, Client
<1> QED
  BY <1>8, InvInit, InvStep, PTL DEF Spec, EverNearer

-----------------------------------------------------------------------------
(* The refinement of Conversation *)

LEMMA PromiseInit == Init => Promise!Init
BY DEF Init, Promise!Init, Pending, NoFrame

Pace == <<total, inbox, answered, result>>

LEMMA Stutters == UNCHANGED Pace => UNCHANGED Promise!vars
BY DEF Pace, Promise!vars

(* Every end but a verdict gives the conversation up.                      *)
LEMMA EndsGiveUp ==
    ASSUME IInv, pc # "done", NEW r \in {Environment, Raised}, EndRun(r),
           UNCHANGED <<total, inbox, answered>>
    PROVE  Promise!GiveUp
BY DEF IInv, InStep, EndRun, Pending, NoFrame, Environment, Raised, Promise!GiveUp

LEMMA AsksInOrder == IInv /\ Send => Promise!Next \/ UNCHANGED Pace
<1> SUFFICES ASSUME IInv, Send PROVE Promise!Next \/ UNCHANGED Pace
  OBVIOUS
<1>1. /\ step \in Nat \ {0} /\ total \in Nat /\ step <= total /\ result = Pending
      /\ inbox = {} /\ answered = 1 .. step - 1
      /\ UNCHANGED <<total, answered, result>>
  BY DEF Send, IInv, TypeOK, InStep, Quiet
<1>2. CASE inbox' = inbox
  BY <1>1, <1>2 DEF Pace
<1>3. CASE inbox' = inbox \cup {step}
  <2>1. (inbox \cup answered)' = 1 .. step /\ inbox \cup answered = 1 .. step - 1
    BY <1>1, <1>3
  <2>2. Promise!Ask(step)
    BY <1>1, <2>1 DEF Promise!Ask, Pending
  <2>3. step \in 1 .. total
    BY <1>1
  <2> QED
    BY <2>2, <2>3 DEF Promise!Next
<1> QED
  BY <1>2, <1>3 DEF Send

LEMMA AnswersWhatIsAsked ==
    ASSUME IInv, NEW m \in inbox, NEW type \in {"terminal", "error"}, Answer(m, type)
    PROVE  Promise!Answer
<1>1. /\ UNCHANGED <<total, pc, step, result>>
      /\ inbox' = inbox \ {m} /\ answered' = answered \cup {m} /\ pc # "done"
  BY DEF Answer, Reach, IInv, EndsClosed
<1>2. pc = "wait" /\ step \in Nat \ {0}
  BY <1>1 DEF IInv, TypeOK, InStep, Quiet
<1>3. m = step /\ inbox = {step} /\ answered = 1 .. step - 1
  <2>1. Awaiting
    BY <1>2 DEF IInv, InStep
  <2> QED
    BY <2>1 DEF Awaiting
<1>4. /\ answered' = inbox \cup answered /\ (inbox \cup answered)' = inbox \cup answered
      /\ answered # inbox \cup answered
  BY <1>1, <1>2, <1>3
<1>5. result.kind = "pending"
  BY <1>1 DEF IInv, InStep, Pending
<1> QED
  BY <1>1, <1>4, <1>5 DEF Promise!Answer

(* While the first events are drained no answer is under way.              *)
LEMMA DrainsNoAnswer == IInv /\ DrainFrame => UNCHANGED Pace
<1> SUFFICES ASSUME IInv, DrainFrame PROVE UNCHANGED Pace
  OBVIOUS
<1>1. ~ Final(Head(frames))
  <2>1. frames \in Seq(Frame) /\ Len(frames) <= Window /\ TakeFrame /\ FinalAt = {}
    BY DEF DrainFrame, IInv, TypeOK, InStep, Quiet
  <2>2. Head(frames) = frames[1] /\ 1 \in DOMAIN frames
    BY <2>1, Taken
  <2> QED
    BY <2>1, <2>2 DEF FinalAt
<1> QED
  BY <1>1 DEF DrainFrame, TakeFrame, Pace

LEMMA JudgesTheLast == IInv /\ WaitFrame => Promise!Next \/ UNCHANGED Pace
<1> SUFFICES ASSUME IInv, WaitFrame PROVE Promise!Next \/ UNCHANGED Pace
  OBVIOUS
<1> DEFINE f == Head(frames)
<1>1. /\ frames \in Seq(Frame) /\ Len(frames) <= Window /\ TakeFrame /\ Awaiting
      /\ pc = "wait" /\ step <= total /\ step \in Nat \ {0} /\ result = Pending
      /\ UNCHANGED <<total, inbox, answered>>
  BY DEF WaitFrame, TakeFrame, IInv, TypeOK, InStep
<1>2. CASE f.type = "broken"
  <2>1. EndRun(Environment)
    BY <1>2 DEF WaitFrame, Final
  <2> QED
    BY <1>1, <2>1, EndsGiveUp DEF Promise!Next
<1>3. CASE f.type = "other"
  BY <1>1, <1>3 DEF WaitFrame, Final, Pace
<1>4. CASE Final(f) /\ step < total
  BY <1>1, <1>4 DEF WaitFrame, Final, Pace
<1>5. CASE Final(f) /\ step = total
  <2>1. f.of = total /\ answered = 1 .. total
    BY <1>1, <1>5, TakenFinal
  <2>2. EndRun(Verdict(f))
    BY <1>1, <1>5 DEF WaitFrame, Final
  <2>3. result'.kind = "verdict" /\ result'.event.of = total
    BY <2>1, <2>2 DEF EndRun, Verdict
  <2> QED
    BY <1>1, <1>5, <2>1, <2>3 DEF Promise!Judge, Promise!Next, Pending
<1> QED
  BY <1>2, <1>3, <1>4, <1>5 DEF WaitFrame

LEMMA PromiseStep == IInv /\ [Next]_vars => [Promise!Next]_Promise!vars
<1> SUFFICES ASSUME IInv, [Next]_vars PROVE Promise!Next \/ UNCHANGED Pace
  BY Stutters
<1> USE DEF Product
<1>1. ASSUME NEW given \in BOOLEAN, CreateSession(given)
      PROVE  Promise!Next \/ UNCHANGED Pace
  <2>1. CASE EndRun(Environment)
    BY <1>1, <2>1, EndsGiveUp DEF CreateSession, Promise!Next
  <2>2. CASE ~ EndRun(Environment)
    BY <1>1, <2>2 DEF CreateSession, Pace
  <2> QED
    BY <2>1, <2>2
<1>2. CASE Unreachable
  BY <1>2, EndsGiveUp DEF Unreachable, Promise!Next
<1>3. CASE SendRaises
  BY <1>3, EndsGiveUp DEF SendRaises, Promise!Next
<1>4. CASE WaitOver
  BY <1>4, EndsGiveUp DEF WaitOver, Promise!Next
<1>5. CASE Connect \/ DrainOver \/ GoAway \/ UNCHANGED vars
  BY <1>5 DEF Connect, DrainOver, GoAway, vars, Pace
<1>6. ASSUME NEW type \in PushTypes, Push(type) PROVE UNCHANGED Pace
  BY <1>6 DEF Push, Reach, Pace
<1>7. ASSUME NEW m \in inbox, NEW type \in {"terminal", "error"}, Answer(m, type)
      PROVE  Promise!Next
  BY <1>7, AnswersWhatIsAsked DEF Promise!Next
<1> QED
  BY <1>1, <1>2, <1>3, <1>4, <1>5, <1>6, <1>7, AsksInOrder, DrainsNoAnswer, JudgesTheLast
     DEF Next, Client, Server

(* The driver implements Conversation, for any number of messages, any     *)
(* limits and a product that answers each message once: nothing is asked   *)
(* before the last answer was taken, and the verdict is of the last        *)
(* (http_driver.py: run_session_sequence).                                 *)
THEOREM DriverKeepsConversation == Spec => KeepsConversation
<1> QED
  BY PromiseInit, PromiseStep, InvInit, InvStep, PTL
     DEF Spec, Promise!Spec, KeepsConversation

=============================================================================
