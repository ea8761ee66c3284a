-------------------------- MODULE PublishingProofs --------------------------
(***************************************************************************)
(* Proofs about Publishing for any number of flushers, events and scopes,  *)
(* and about the GitHub publisher as its command.                          *)
(***************************************************************************)
EXTENDS GithubPublisher, SequenceTheorems, FiniteSetTheorems,
        WellFoundedInduction, TLAPS

LEMMA ItemType ==
    ASSUME TypeOK, NEW p \in Flushers
    PROVE  /\ Current(p) \in Items /\ Current(p)[1] = item[p]
           /\ Current(p)[2] = scope[p].target
           /\ item[p] \in Events /\ scope[p] \in Scopes
BY DEF TypeOK, Current, Items, Targets

LEMMA TypeInit == Init => TypeOK
<1> SUFFICES ASSUME Init PROVE TypeOK
  OBVIOUS
<1>1. (CHOOSE s \in Scopes : TRUE) \in Scopes /\ (CHOOSE e \in Events : TRUE) \in Events
  BY ScopeAssumption
<1>2. scope \in [Flushers -> Scopes] /\ item \in [Flushers -> Events]
  BY <1>1 DEF Init
<1>3. pc \in [Flushers -> PCs]
  BY DEF Init, PCs, Ended
<1>4. queue \in Seq(Events)
  BY DEF Init
<1> QED
  BY <1>2, <1>3, <1>4 DEF Init, TypeOK

LEMMA TypeStep == TypeOK /\ [Next]_vars => TypeOK'
<1> SUFFICES ASSUME TypeOK, [Next]_vars PROVE TypeOK'
  OBVIOUS
<1>0. ASSUME NEW p \in Flushers, NEW label \in PCs, Goto(p, label)
      PROVE  pc' \in [Flushers -> PCs]
  BY <1>0 DEF TypeOK, Goto
<1> USE DEF TypeOK, disk, locals
<1>1. ASSUME NEW e \in Events, Enqueue(e) PROVE TypeOK'
  BY <1>1 DEF Enqueue
<1>2. ASSUME NEW p \in Flushers, NEW m \in SUBSET Events, NEW s \in Scopes,
             Begin(p, m, s)
      PROVE  TypeOK'
  BY <1>0, <1>2 DEF Begin, Called, PCs, Ended
<1>3. ASSUME NEW p \in Flushers, LoadQueue(p) \/ CheckClaims(p) \/ ClaimExists(p)
             \/ Flushed(p) \/ Answered(p) \/ AnswerLost(p)
      PROVE  TypeOK'
  <2>1. PICK label \in PCs : Goto(p, label)
    BY <1>3 DEF LoadQueue, CheckClaims, ClaimExists, Flushed, Answered, AnswerLost,
       PCs, Ended
  <2>2. pc' \in [Flushers -> PCs]
    BY <1>0, <2>1
  <2>3. UNCHANGED <<queue, receipts, claims, deliveries, locals>> /\ torn' \in BOOLEAN
    BY <1>3 DEF LoadQueue, CheckClaims, ClaimExists, Flushed, Answered, AnswerLost
  <2> QED
    BY <2>2, <2>3
<1>4. ASSUME NEW p \in Flushers, LoadReceipts(p) PROVE TypeOK'
  <2>1. pc' \in [Flushers -> PCs]
    BY <1>0, <1>4 DEF LoadReceipts, PCs, Ended
  <2> QED
    BY <1>4, <2>1 DEF LoadReceipts
<1>5. ASSUME NEW p \in Flushers, Claim(p) PROVE TypeOK'
  <2>1. PICK e \in Events : /\ claims' = claims \cup {<<e, scope[p].target>>}
                            /\ item' = [item EXCEPT ![p] = e]
    BY <1>5 DEF Claim
  <2>2. <<e, scope[p].target>> \in Items
    BY DEF Items, Targets
  <2>3. pc' \in [Flushers -> PCs]
    BY <1>0, <1>5 DEF Claim, PCs
  <2> QED
    BY <1>5, <2>1, <2>2, <2>3 DEF Claim
<1>6. ASSUME NEW p \in Flushers, Deliver(p) \/ CommandFails(p) PROVE TypeOK'
  <2>1. Current(p) \in Items
    BY ItemType
  <2>2. pc' \in [Flushers -> PCs]
    BY <1>0, <1>6 DEF Deliver, CommandFails, PCs, Ended
  <2>3. deliveries' \in [Items -> Nat]
    BY <1>6, <2>1 DEF Deliver, CommandFails
  <2>4. UNCHANGED <<queue, receipts, torn, claims, manifest, scope, pending, item>>
    BY <1>6 DEF Deliver, CommandFails
  <2> QED
    BY <2>2, <2>3, <2>4
<1>7. ASSUME NEW p \in Flushers, WriteReceipt(p) PROVE TypeOK'
  <2>1. pc' \in [Flushers -> PCs]
    BY <1>0, <1>7 DEF WriteReceipt, PCs
  <2>2. receipts' \in [Events \X Scopes -> Nat]
    BY <1>7 DEF WriteReceipt
  <2>3. pending' \in [Flushers -> SUBSET Events]
    BY <1>7 DEF WriteReceipt
  <2> QED
    BY <1>7, <2>1, <2>2, <2>3 DEF WriteReceipt
<1>8. CASE Owner
  <2>1. ASSUME NEW x \in Items, DropClaim(x) PROVE TypeOK'
    BY <2>1 DEF DropClaim
  <2>2. ASSUME NEW x \in Items, NEW s \in Scopes, AddReceipt(x, s) PROVE TypeOK'
    BY <2>2 DEF AddReceipt, Items
  <2>3. CASE MendReceipts
    BY <2>3 DEF MendReceipts
  <2> QED
    BY <1>8, <2>1, <2>2, <2>3 DEF Owner
<1>9. CASE UNCHANGED vars
  BY <1>9 DEF vars
<1>10. ASSUME NEW p \in Flushers, Step(p) PROVE TypeOK'
  BY <1>3, <1>4, <1>5, <1>6, <1>7, <1>10 DEF Step
<1>11. ASSUME NEW p \in Flushers, GateClosed(p) \/ Crash(p) PROVE TypeOK'
  <2>1. PICK label \in PCs : Goto(p, label)
    BY <1>11 DEF GateClosed, Crash, PCs, Ended
  <2>2. pc' \in [Flushers -> PCs]
    BY <1>0, <2>1
  <2>3. /\ UNCHANGED <<queue, receipts, claims, deliveries>>
        /\ torn' \in BOOLEAN /\ Forget(p)
    BY <1>11 DEF GateClosed, Crash
  <2> QED
    BY <2>2, <2>3 DEF Forget
<1> HIDE DEF TypeOK
<1> QED
  BY <1>1, <1>2, <1>8, <1>9, <1>10, <1>11 DEF Next

(* The shared files, the queue and the locals keep their types.            *)
THEOREM TypeCorrect == Spec => []TypeOK
<1> QED
  BY TypeInit, TypeStep, PTL DEF Spec

-----------------------------------------------------------------------------
(* Safety: the inductive invariant *)

Shared == AtMostOnce /\ NeverForgotten /\ HoldersApart /\ ReceiptsTrue

(* Steps that write no receipt, claim or delivery, and leave every item    *)
(* that is still being published where it was.                             *)
LEMMA QuietShared ==
    ASSUME IInv, UNCHANGED <<receipts, claims, deliveries>>,
           \A q \in Flushers : Holding(q)' =>
             pc'[q] = pc[q] /\ item'[q] = item[q] /\ scope'[q] = scope[q]
    PROVE  Shared'
<1>1. \A q \in Flushers : Holding(q)' =>
        Holding(q) /\ Current(q)' = Current(q) /\ pc'[q] = pc[q]
  BY DEF Holding, Current
<1>2. \A x : Unrecorded(x)' = Unrecorded(x)
  BY DEF Unrecorded
<1>3. AtMostOnce' /\ NeverForgotten' /\ ReceiptsTrue'
  BY DEF IInv, AtMostOnce, NeverForgotten, ReceiptsTrue
<1>4. HoldersApart'
  BY <1>1, <1>2 DEF IInv, HoldersApart
<1> QED
  BY <1>3, <1>4 DEF Shared

LEMMA QuietSteps ==
    ASSUME IInv, NEW p \in Flushers,
           \/ LoadQueue(p) \/ LoadReceipts(p) \/ CheckClaims(p) \/ ClaimExists(p)
           \/ Flushed(p) \/ CommandFails(p) \/ AnswerLost(p) \/ GateClosed(p) \/ Crash(p)
           \/ \E m \in SUBSET Events, s \in Scopes : Begin(p, m, s)
    PROVE  Shared'
<1>1. pc \in [Flushers -> PCs] /\ scope \in [Flushers -> Scopes]
  BY DEF IInv, TypeOK
<1>2. /\ UNCHANGED <<receipts, claims, deliveries, item>>
      /\ \A q \in Flushers \ {p} : pc'[q] = pc[q] /\ scope'[q] = scope[q]
  BY <1>1 DEF LoadQueue, LoadReceipts, CheckClaims, ClaimExists, Flushed,
     CommandFails, AnswerLost, GateClosed, Crash, Begin, Forget, Goto, disk, locals
<1>3. ~ Holding(p)'
  BY <1>1 DEF LoadQueue, LoadReceipts, CheckClaims, ClaimExists, Flushed,
     CommandFails, AnswerLost, GateClosed, Crash, Begin, Goto, Holding
<1> QED
  BY <1>2, <1>3, QuietShared

(* A free item is claimed: it was never delivered, so never recorded. *)
LEMMA ClaimShared ==
    ASSUME IInv, NEW p \in Flushers, Claim(p)
    PROVE  Shared'
<1>0. TypeOK /\ AtMostOnce /\ NeverForgotten /\ HoldersApart /\ ReceiptsTrue
  BY DEF IInv
<1>1. PICK e \in Events : /\ <<e, scope[p].target>> \notin claims
                          /\ claims' = claims \cup {<<e, scope[p].target>>}
                          /\ item' = [item EXCEPT ![p] = e]
  BY DEF Claim
<1> DEFINE x == <<e, scope[p].target>>
<1>2. x \in Items /\ x[1] = e /\ x[2] = scope[p].target
  BY <1>0 DEF TypeOK, Items, Targets
<1>3. deliveries[x] = 0
  BY <1>0, <1>1, <1>2 DEF NeverForgotten, TypeOK
<1>4. Unrecorded(x)
  BY <1>0, <1>2, <1>3 DEF Unrecorded, ReceiptsTrue, TypeOK
<1>5. /\ UNCHANGED <<receipts, deliveries, scope>>
      /\ pc'[p] = "send" /\ item'[p] = e
      /\ \A q \in Flushers \ {p} : pc'[q] = pc[q] /\ item'[q] = item[q]
  BY <1>0, <1>1 DEF Claim, Goto, TypeOK
<1> HIDE DEF x
<1>6. Current(p)' = x
  BY <1>5 DEF Current, x
<1>7. \A q \in Flushers \ {p} : /\ Current(q)' = Current(q)
                                /\ Holding(q)' = Holding(q)
  BY <1>5 DEF Current, Holding
<1>8. \A q \in Flushers \ {p} : Holding(q) => Current(q) # x
  BY <1>0, <1>1 DEF HoldersApart, x
<1>9. \A y : Unrecorded(y)' = Unrecorded(y)
  BY <1>5 DEF Unrecorded
<1>10. claims' = claims \cup {x}
  BY <1>1 DEF x
<1>11. HoldersApart'
  BY <1>0, <1>3, <1>4, <1>5, <1>6, <1>7, <1>8, <1>9, <1>10 DEF HoldersApart
<1>12. AtMostOnce' /\ NeverForgotten' /\ ReceiptsTrue'
  BY <1>0, <1>5, <1>10 DEF AtMostOnce, NeverForgotten, ReceiptsTrue
<1> QED
  BY <1>11, <1>12 DEF Shared

(* The item in hand was not delivered before. *)
LEMMA DeliverShared ==
    ASSUME IInv, NEW p \in Flushers, Deliver(p)
    PROVE  Shared'
<1>0. TypeOK /\ AtMostOnce /\ NeverForgotten /\ HoldersApart /\ ReceiptsTrue
  BY DEF IInv
<1> DEFINE x == Current(p)
<1>1. x \in Items
  BY <1>0, ItemType
<1>2. deliveries[x] = 0 /\ x \in claims
  BY <1>0 DEF HoldersApart, Holding, Deliver
<1> HIDE DEF x
<1>3. deliveries' = [deliveries EXCEPT ![x] = deliveries[x] + 1]
  BY DEF Deliver, x
<1>4. deliveries'[x] = 1 /\ \A y \in Items \ {x} : deliveries'[y] = deliveries[y]
  BY <1>0, <1>1, <1>2, <1>3 DEF TypeOK
<1>5. /\ UNCHANGED <<receipts, claims, scope, item>>
      /\ pc[p] = "send" /\ pc'[p] = "answer"
      /\ \A q \in Flushers \ {p} : pc'[q] = pc[q]
  BY <1>0 DEF Deliver, Goto, TypeOK, disk
<1>6. \A q \in Flushers : /\ Current(q)' = Current(q) /\ Current(q) \in Items
                          /\ Holding(q)' = Holding(q)
  BY <1>0, <1>5, ItemType DEF Current, Holding
<1>7. \A q \in Flushers \ {p} : Holding(q) => Current(q) # x
  BY <1>0, <1>5 DEF HoldersApart, Holding, x
<1>8. \A y : Unrecorded(y)' = Unrecorded(y)
  BY <1>5 DEF Unrecorded
<1>9. HoldersApart'
  <2> SUFFICES ASSUME NEW q \in Flushers, Holding(q)
               PROVE  /\ Current(q) \in claims /\ Unrecorded(Current(q))
                      /\ deliveries'[Current(q)] = IF pc'[q] = "send" THEN 0 ELSE 1
                      /\ \A r \in Flushers \ {q} : Holding(r) => Current(q) # Current(r)
    BY <1>5, <1>6, <1>8 DEF HoldersApart
  <2>1. CASE q = p
    BY <1>0, <1>4, <1>5, <2>1 DEF HoldersApart, x
  <2>2. CASE q # p
    BY <1>0, <1>4, <1>5, <1>6, <1>7, <2>2 DEF HoldersApart
  <2> QED
    BY <2>1, <2>2
<1>10. AtMostOnce' /\ NeverForgotten'
  BY <1>0, <1>2, <1>4, <1>5 DEF AtMostOnce, NeverForgotten
<1>11. ReceiptsTrue'
  <2>1. \A e \in Events, s \in Scopes : <<e, s.target>> \in Items
    BY DEF Items, Targets
  <2>2. \A y \in Items : deliveries[y] > 0 => deliveries'[y] > 0
    BY <1>2, <1>4
  <2>3. receipts' = receipts
    BY <1>5
  <2> QED
    BY <1>0, <2>1, <2>2, <2>3 DEF ReceiptsTrue
<1> QED
  BY <1>9, <1>10, <1>11 DEF Shared

LEMMA AnsweredShared ==
    ASSUME IInv, NEW p \in Flushers, Answered(p)
    PROVE  Shared'
<1>0. TypeOK /\ AtMostOnce /\ NeverForgotten /\ HoldersApart /\ ReceiptsTrue
  BY DEF IInv
<1>1. /\ UNCHANGED <<receipts, claims, deliveries, scope, item>>
      /\ pc[p] = "answer" /\ pc'[p] = "receipt"
      /\ \A q \in Flushers \ {p} : pc'[q] = pc[q]
  BY <1>0 DEF Answered, Goto, TypeOK, disk, locals
<1>2. \A q \in Flushers : Current(q)' = Current(q) /\ Holding(q)' = Holding(q)
                          /\ (pc'[q] = "send") = (pc[q] = "send")
  BY <1>1 DEF Current, Holding
<1>3. \A y : Unrecorded(y)' = Unrecorded(y)
  BY <1>1 DEF Unrecorded
<1>4. HoldersApart'
  BY <1>0, <1>1, <1>2, <1>3 DEF HoldersApart
<1>5. AtMostOnce' /\ NeverForgotten' /\ ReceiptsTrue'
  BY <1>0, <1>1 DEF AtMostOnce, NeverForgotten, ReceiptsTrue
<1> QED
  BY <1>4, <1>5 DEF Shared

(* One more receipt for an item that was delivered and has none. *)
LEMMA ReceiptShared ==
    ASSUME IInv, NEW e \in Events, NEW s \in Scopes,
           Unrecorded(<<e, s.target>>), deliveries[<<e, s.target>>] > 0,
           receipts' = [receipts EXCEPT ![<<e, s>>] = receipts[<<e, s>>] + 1],
           UNCHANGED <<claims, deliveries, item, scope>>,
           \A q \in Flushers : Holding(q)' => pc'[q] = pc[q]
                                              /\ Current(q) # <<e, s.target>>
    PROVE  Shared'
<1>0. TypeOK /\ AtMostOnce /\ NeverForgotten /\ HoldersApart /\ ReceiptsTrue
  BY DEF IInv
<1> DEFINE x == <<e, s.target>>
           r == <<e, s>>
<1>1. receipts[r] = 0
  BY DEF Unrecorded
<1>2. r \in Events \X Scopes /\ receipts \in [Events \X Scopes -> Nat]
  BY <1>0 DEF TypeOK
<1>3. receipts'[r] = 1 /\ \A y \in Events \X Scopes : y # r => receipts'[y] = receipts[y]
  BY <1>1, <1>2
<1>4. ReceiptsTrue'
  <2> SUFFICES ASSUME NEW f \in Events, NEW u \in Scopes
               PROVE  /\ receipts'[<<f, u>>] <= 1
                      /\ receipts'[<<f, u>>] > 0 => deliveries[<<f, u.target>>] > 0
    BY DEF ReceiptsTrue
  <2>1. CASE <<f, u>> = r
    BY <1>3, <2>1
  <2>2. CASE <<f, u>> # r
    BY <1>0, <1>3, <2>2 DEF ReceiptsTrue
  <2> QED
    BY <2>1, <2>2
<1>5. ASSUME NEW q \in Flushers, Holding(q)'
      PROVE  /\ Holding(q) /\ pc'[q] = pc[q]
             /\ Current(q)' = Current(q) /\ Current(q) \in Items
             /\ Unrecorded(Current(q))'
  <2>1. Holding(q) /\ Current(q)' = Current(q) /\ Current(q) # x /\ pc'[q] = pc[q]
    BY <1>5 DEF Holding, Current
  <2>2. Unrecorded(Current(q)) /\ Current(q) \in Items /\ Current(q)[1] \in Events
        /\ Current(q) = <<Current(q)[1], Current(q)[2]>>
    BY <1>0, <2>1, ItemType DEF HoldersApart, Current
  <2>3. ASSUME NEW u \in Scopes, u.target = Current(q)[2]
        PROVE  receipts'[<<Current(q)[1], u>>] = 0
    <3>1. <<Current(q)[1], u>> # r
      BY <2>1, <2>2, <2>3
    <3> QED
      BY <1>3, <2>2, <2>3, <3>1 DEF Unrecorded
  <2>4. Unrecorded(Current(q))'
    BY <2>1, <2>3 DEF Unrecorded
  <2> QED
    BY <2>1, <2>2, <2>4
<1>6. HoldersApart'
  BY <1>0, <1>5 DEF HoldersApart
<1>7. AtMostOnce' /\ NeverForgotten'
  BY <1>0 DEF AtMostOnce, NeverForgotten
<1> QED
  BY <1>4, <1>6, <1>7 DEF Shared

LEMMA WriteReceiptShared ==
    ASSUME IInv, NEW p \in Flushers, WriteReceipt(p)
    PROVE  Shared'
<1>0. TypeOK /\ HoldersApart
  BY DEF IInv
<1>1. /\ UNCHANGED <<claims, deliveries, item, scope>>
      /\ pc[p] = "receipt" /\ ~ Holding(p)'
      /\ \A q \in Flushers \ {p} : pc'[q] = pc[q]
  BY <1>0 DEF WriteReceipt, Goto, Holding, TypeOK
<1>2. CASE torn
  BY <1>1, <1>2, QuietShared DEF WriteReceipt
<1>3. CASE ~ torn
  <2>1. /\ item[p] \in Events /\ scope[p] \in Scopes
        /\ Current(p) = <<item[p], scope[p].target>>
    BY <1>0, ItemType DEF Current
  <2>2. Unrecorded(Current(p)) /\ deliveries[Current(p)] = 1
    BY <1>0, <1>1 DEF HoldersApart, Holding
  <2>3. \A q \in Flushers : Holding(q)' => pc'[q] = pc[q] /\ Current(q) # Current(p)
    <3>1. \A q \in Flushers \ {p} : Holding(q)' => Holding(q)
      BY <1>1 DEF Holding
    <3> QED
      BY <1>0, <1>1, <3>1 DEF HoldersApart, Holding
  <2>4. receipts' = [receipts EXCEPT ![<<item[p], scope[p]>>] =
                       receipts[<<item[p], scope[p]>>] + 1]
    BY <1>3 DEF WriteReceipt
  <2> DEFINE e == item[p]
             s == scope[p]
  <2>5. /\ e \in Events /\ s \in Scopes
        /\ Unrecorded(<<e, s.target>>) /\ deliveries[<<e, s.target>>] > 0
        /\ \A q \in Flushers : Holding(q)' => pc'[q] = pc[q]
                                               /\ Current(q) # <<e, s.target>>
        /\ receipts' = [receipts EXCEPT ![<<e, s>>] = receipts[<<e, s>>] + 1]
    BY <2>1, <2>2, <2>3, <2>4
  <2> HIDE DEF e, s
  <2> QED
    BY <1>1, <2>5, ReceiptShared
<1> QED
  BY <1>2, <1>3

LEMMA OwnerShared ==
    ASSUME IInv, Owner
    PROVE  Shared'
<1>0. TypeOK /\ AtMostOnce /\ NeverForgotten /\ HoldersApart /\ ReceiptsTrue
  BY DEF IInv
<1>1. CASE MendReceipts
  BY <1>1, QuietShared DEF MendReceipts, locals
<1>2. ASSUME NEW x \in Items, NEW s \in Scopes, AddReceipt(x, s) PROVE Shared'
  <2>1. x[1] \in Events /\ x = <<x[1], s.target>>
    BY <1>2 DEF AddReceipt, Items
  <2>2. /\ Unrecorded(x) /\ deliveries[x] > 0
        /\ receipts' = [receipts EXCEPT ![<<x[1], s>>] = receipts[<<x[1], s>>] + 1]
        /\ UNCHANGED <<claims, deliveries, item, scope, pc>>
        /\ \A q \in Flushers : Holding(q) => Current(q) # x
    BY <1>2 DEF AddReceipt, InDoubt, locals
  <2>3. \A q \in Flushers : Holding(q)' => pc'[q] = pc[q] /\ Current(q) # x
    BY <2>2 DEF Holding
  <2> DEFINE e == x[1]
  <2>4. e \in Events /\ x = <<e, s.target>>
    BY <2>1
  <2>5. receipts' = [receipts EXCEPT ![<<e, s>>] = receipts[<<e, s>>] + 1]
    BY <2>2
  <2> HIDE DEF e
  <2>6. /\ Unrecorded(<<e, s.target>>) /\ deliveries[<<e, s.target>>] > 0
        /\ \A q \in Flushers : Holding(q)' => pc'[q] = pc[q]
                                               /\ Current(q) # <<e, s.target>>
    BY <2>2, <2>3, <2>4
  <2>7. UNCHANGED <<claims, deliveries, item, scope>>
    BY <2>2
  <2> QED
    BY <2>4, <2>5, <2>6, <2>7, ReceiptShared
<1>3. ASSUME NEW x \in Items, DropClaim(x) PROVE Shared'
  <2>1. /\ deliveries[x] = 0 /\ claims' = claims \ {x}
        /\ \A q \in Flushers : Holding(q) => Current(q) # x
        /\ UNCHANGED <<receipts, deliveries, item, scope, pc>>
    BY <1>3 DEF DropClaim, InDoubt, locals
  <2>2. \A q \in Flushers : Current(q)' = Current(q) /\ Holding(q)' = Holding(q)
    BY <2>1 DEF Current, Holding
  <2>3. \A y : Unrecorded(y)' = Unrecorded(y)
    BY <2>1 DEF Unrecorded
  <2>4. HoldersApart'
    BY <1>0, <2>1, <2>2, <2>3 DEF HoldersApart
  <2>5. AtMostOnce' /\ NeverForgotten' /\ ReceiptsTrue'
    BY <1>0, <2>1 DEF AtMostOnce, NeverForgotten, ReceiptsTrue
  <2> QED
    BY <2>4, <2>5 DEF Shared
<1> QED
  BY <1>1, <1>2, <1>3 DEF Owner

LEMMA SharedStep ==
    ASSUME IInv, Next
    PROVE  Shared'
<1>1. ASSUME NEW e \in Events, Enqueue(e) PROVE Shared'
  BY <1>1, QuietShared DEF Enqueue, Holding, locals
<1>2. ASSUME NEW p \in Flushers, Step(p) PROVE Shared'
  BY <1>2, QuietSteps, ClaimShared, DeliverShared, AnsweredShared, WriteReceiptShared
     DEF Step
<1>3. ASSUME NEW p \in Flushers, NEW m \in SUBSET Events, NEW s \in Scopes,
             Begin(p, m, s)
      PROVE  Shared'
  BY <1>3, QuietSteps
<1>4. ASSUME NEW p \in Flushers, GateClosed(p) \/ Crash(p) PROVE Shared'
  BY <1>4, QuietSteps
<1> QED
  BY <1>1, <1>2, <1>3, <1>4, OwnerShared DEF Next

(* No delivery is undone. *)
LEMMA DeliveriesGrow ==
    ASSUME IInv, Next
    PROVE  \A x \in Items : deliveries[x] > 0 => deliveries'[x] > 0
<1>1. CASE UNCHANGED deliveries
  BY <1>1
<1>2. ASSUME NEW p \in Flushers, Deliver(p)
      PROVE  \A x \in Items : deliveries[x] > 0 => deliveries'[x] > 0
  <2>1. deliveries' = [deliveries EXCEPT ![Current(p)] = deliveries[Current(p)] + 1]
        /\ deliveries \in [Items -> Nat]
    BY <1>2 DEF Deliver, IInv, TypeOK
  <2> QED
    BY <2>1
<1> QED
  BY <1>1, <1>2 DEF Next, Step, Owner, Enqueue, Begin, GateClosed, LoadQueue,
     LoadReceipts, CheckClaims, Claim, ClaimExists, Flushed, CommandFails, Answered,
     AnswerLost, WriteReceipt, Crash, DropClaim, AddReceipt, MendReceipts

Reading == {"claims", "claim", "send", "answer", "receipt", "flushed"}

Done(q) == \A e \in manifest[q] \ pending[q] : deliveries[<<e, scope[q].target>>] > 0

LEMMA ProgressStep ==
    ASSUME IInv, Next
    PROVE  Progress'
<1>0. TypeOK /\ Progress /\ ReceiptsTrue /\ HoldersApart
  BY DEF IInv
<1>1. \A q \in Flushers : /\ pc[q] \in Reading => Done(q)
                          /\ pc[q] = "flushed" => pending[q] = {}
  BY <1>0 DEF Progress, Reading, Done
<1> SUFFICES ASSUME NEW q \in Flushers
             PROVE  /\ pc'[q] \in Reading => Done(q)'
                    /\ pc'[q] = "flushed" => pending'[q] = {}
  BY DEF Progress, Reading, Done
<1>2. \A e \in Events : <<e, scope[q].target>> \in Items
  BY <1>0 DEF TypeOK, Items, Targets
<1>3. manifest[q] \subseteq Events
  BY <1>0 DEF TypeOK
<1>4. CASE /\ manifest'[q] = manifest[q] /\ scope'[q] = scope[q]
           /\ pending'[q] = pending[q]
           /\ pc'[q] \in Reading => pc[q] \in Reading
           /\ pc'[q] = "flushed" => pc[q] = "flushed" \/ pending[q] = {}
  BY <1>1, <1>2, <1>3, <1>4, DeliveriesGrow DEF Done
<1>5. CASE UNCHANGED <<manifest, scope, pending, pc>>
  BY <1>4, <1>5
<1>6. ASSUME NEW p \in Flushers, Step(p) \/ GateClosed(p) \/ Crash(p)
                 \/ \E m \in SUBSET Events, s \in Scopes : Begin(p, m, s),
             q # p
      PROVE  /\ manifest'[q] = manifest[q] /\ scope'[q] = scope[q]
             /\ pending'[q] = pending[q] /\ pc'[q] = pc[q]
  BY <1>0, <1>6 DEF Step, Begin, GateClosed, Forget, LoadQueue, LoadReceipts, CheckClaims, Claim,
     ClaimExists, Flushed, Deliver, CommandFails, Answered, AnswerLost, WriteReceipt,
     Crash, locals, Goto, TypeOK
<1>7. CASE LoadReceipts(q)
  <2>1. CASE Readable(scope[q])
    <3>1. /\ pending'[q] = {e \in manifest[q] : receipts[<<e, scope[q]>>] = 0}
          /\ UNCHANGED <<manifest, scope, deliveries>> /\ pc'[q] = "claims"
      BY <1>0, <1>7, <2>1 DEF LoadReceipts, Goto, TypeOK
    <3>2. \A e \in Events : receipts[<<e, scope[q]>>] \in Nat /\ scope[q] \in Scopes
      BY <1>0 DEF TypeOK
    <3>3. \A e \in manifest[q] \ pending'[q] : receipts[<<e, scope[q]>>] > 0
      BY <1>3, <3>1, <3>2
    <3>4. Done(q)'
      BY <1>0, <1>3, <3>1, <3>2, <3>3 DEF ReceiptsTrue, Done
    <3> QED
      BY <3>1, <3>4
  <2>2. CASE ~ Readable(scope[q])
    BY <1>0, <1>7, <2>2 DEF LoadReceipts, Goto, TypeOK, Reading
  <2> QED
    BY <2>1, <2>2
<1>8. CASE WriteReceipt(q)
  <2>1. /\ pending'[q] = pending[q] \ {item[q]} /\ pc[q] = "receipt"
        /\ UNCHANGED <<manifest, scope, deliveries>> /\ pc'[q] = "claim"
    BY <1>0, <1>8 DEF WriteReceipt, Goto, TypeOK
  <2>2. deliveries[<<item[q], scope[q].target>>] = 1
    BY <1>0, <2>1 DEF HoldersApart, Holding, Current
  <2>3. Done(q)
    BY <1>1, <2>1 DEF Reading
  <2> QED
    BY <2>1, <2>2, <2>3 DEF Done
<1>9. CASE LoadQueue(q) \/ CheckClaims(q) \/ ClaimExists(q) \/ Flushed(q) \/ Claim(q)
           \/ Deliver(q) \/ CommandFails(q) \/ Answered(q) \/ AnswerLost(q)
  BY <1>0, <1>4, <1>9 DEF LoadQueue, CheckClaims, ClaimExists, Flushed, Claim, Deliver,
     CommandFails, Answered, AnswerLost, Goto, Reading, Ended, locals, TypeOK
<1>10. ASSUME \/ GateClosed(q) \/ Crash(q)
              \/ \E m \in SUBSET Events, s \in Scopes : Begin(q, m, s)
       PROVE  pc'[q] \notin Reading
  BY <1>0, <1>10 DEF GateClosed, Crash, Begin, Goto, Reading, TypeOK
<1>11. ASSUME NEW p \in Flushers, Step(p) \/ GateClosed(p) \/ Crash(p)
                 \/ \E m \in SUBSET Events, s \in Scopes : Begin(p, m, s)
       PROVE  /\ pc'[q] \in Reading => Done(q)'
              /\ pc'[q] = "flushed" => pending'[q] = {}
  <2>1. CASE p = q
    BY <1>7, <1>8, <1>9, <1>10, <1>11, <2>1 DEF Step, Reading
  <2>2. CASE p # q
    BY <1>4, <1>6, <1>11, <2>2
  <2> QED
    BY <2>1, <2>2
<1>12. CASE Owner \/ \E e \in Events : Enqueue(e)
  BY <1>5, <1>12 DEF Owner, Enqueue, DropClaim, AddReceipt, MendReceipts, locals
<1> QED
  BY <1>11, <1>12 DEF Next

LEMMA InvInit == Init => IInv
<1> SUFFICES ASSUME Init PROVE IInv
  OBVIOUS
<1>1. /\ \A p \in Flushers : pc[p] = "idle"
      /\ \A x \in Items : deliveries[x] = 0
      /\ \A e \in Events, s \in Scopes : receipts[<<e, s>>] = 0
  BY DEF Init
<1>2. \A p \in Flushers : ~ Holding(p)
  BY <1>1 DEF Holding
<1>3. HoldersApart
  BY <1>2 DEF HoldersApart
<1>4. AtMostOnce /\ NeverForgotten /\ ReceiptsTrue
  BY <1>1 DEF AtMostOnce, NeverForgotten, ReceiptsTrue
<1>5. Progress
  BY <1>1 DEF Progress
<1> QED
  BY <1>3, <1>4, <1>5, TypeInit DEF IInv

LEMMA InvStep == IInv /\ [Next]_vars => IInv'
<1>1. ASSUME IInv, Next PROVE IInv'
  <2>1. TypeOK'
    BY <1>1, TypeStep DEF IInv
  <2> QED
    BY <1>1, <2>1, SharedStep, ProgressStep DEF IInv, Shared
<1>2. ASSUME IInv, UNCHANGED vars PROVE IInv'
  <2>1. TypeOK'
    BY <1>2, TypeStep DEF IInv
  <2>2. Shared'
    BY <1>2, QuietShared DEF vars, disk, locals, Holding
  <2>3. Progress'
    BY <1>2 DEF vars, disk, locals, IInv, Progress
  <2> QED
    BY <2>1, <2>2, <2>3 DEF IInv, Shared
<1> QED
  BY <1>1, <1>2

LEMMA Invariance == Spec => []IInv
<1> QED
  BY InvInit, InvStep, PTL DEF Spec

(* However many flushers race, die, fail and are reconciled by hand, an    *)
(* event reaches a target at most once.                                    *)
THEOREM DeliveredAtMostOnce == Spec => []AtMostOnce
<1>1. IInv => AtMostOnce
  BY DEF IInv
<1> QED
  BY <1>1, Invariance, PTL

(* What reached a target keeps its claim for ever. *)
THEOREM DeliveryIsNeverForgotten == Spec => []NeverForgotten
<1>1. IInv => NeverForgotten
  BY DEF IInv
<1> QED
  BY <1>1, Invariance, PTL

(* A flush that reports success has delivered all its manifest approved.   *)
THEOREM FlushedMeansDelivered == Spec => []FlushedIsDelivered
<1>1. IInv => FlushedIsDelivered
  BY DEF IInv, Progress, FlushedIsDelivered
<1> QED
  BY <1>1, Invariance, PTL

(* A scope that alone has receipts in the file can read it, but for a torn *)
(* line.                                                                   *)
THEOREM LoneScopeStaysReadable == Spec => []StaysReadable
<1>1. IInv => StaysReadable
  <2> SUFFICES ASSUME IInv, NEW s \in Scopes, NEW x \in Events \X Scopes,
                      receipts[x] > 0
               PROVE  receipts[x] = 1
    BY DEF StaysReadable, Readable
  <2>1. PICK e \in Events, u \in Scopes : x = <<e, u>>
    OBVIOUS
  <2>2. receipts[x] <= 1 /\ receipts[x] \in Nat
    BY <2>1 DEF IInv, ReceiptsTrue, TypeOK
  <2> QED
    BY <2>2
<1> QED
  BY <1>1, Invariance, PTL

-----------------------------------------------------------------------------
(* Refinement: the flush implements Delivery *)

LEMMA RecordedSame ==
    ASSUME UNCHANGED receipts
    PROVE  Recorded' = Recorded
BY DEF Recorded

LEMMA RecordOne ==
    ASSUME IInv, NEW e \in Events, NEW s \in Scopes,
           Unrecorded(<<e, s.target>>), deliveries[<<e, s.target>>] > 0,
           receipts' = [receipts EXCEPT ![<<e, s>>] = receipts[<<e, s>>] + 1],
           UNCHANGED deliveries
    PROVE  Promise!Next
<1> DEFINE x == <<e, s.target>>
<1>0. /\ x \in Items /\ receipts \in [Events \X Scopes -> Nat]
      /\ deliveries \in [Items -> Nat] /\ AtMostOnce
  BY DEF IInv, TypeOK, Items, Targets
<1>1. x \notin Recorded /\ deliveries[x] = 1
  <2>1. \A u \in Scopes : u.target = x[2] => receipts[<<x[1], u>>] = 0
    BY DEF Unrecorded
  <2>2. x \notin Recorded
    <3> SUFFICES ASSUME x \in Recorded PROVE FALSE
      OBVIOUS
    <3> HIDE DEF x
    <3>1. PICK u \in Scopes : u.target = x[2] /\ receipts[<<x[1], u>>] > 0
      BY DEF Recorded
    <3>2. receipts[<<x[1], u>>] = 0
      BY <2>1, <3>1
    <3> QED
      BY <3>1, <3>2
  <2>3. deliveries[x] <= 1 /\ deliveries[x] \in Nat /\ deliveries[x] > 0
    BY <1>0 DEF AtMostOnce
  <2> QED
    BY <2>2, <2>3
<1>2. receipts'[<<e, s>>] > 0 /\ \A y \in Events \X Scopes :
        y # <<e, s>> => receipts'[y] = receipts[y]
  BY <1>0
<1>3. ASSUME NEW y \in Items
      PROVE  (\E u \in Scopes : u.target = y[2] /\ receipts'[<<y[1], u>>] > 0)
               <=> y = x \/ \E u \in Scopes : u.target = y[2] /\ receipts[<<y[1], u>>] > 0
  <2>1. y[1] \in Events /\ y = <<y[1], y[2]>>
    BY DEF Items
  <2>2. CASE y = x
    BY <1>2, <2>2
  <2>3. CASE y # x
    <3>1. ASSUME NEW u \in Scopes, u.target = y[2]
          PROVE  receipts'[<<y[1], u>>] = receipts[<<y[1], u>>]
      BY <1>2, <2>1, <2>3, <3>1
    <3> QED
      BY <2>3, <3>1
  <2> QED
    BY <2>2, <2>3
<1>4. Recorded' = Recorded \cup {x}
  <2>1. \A y \in Items : y \in Recorded' <=> y = x \/ y \in Recorded
    BY <1>3 DEF Recorded
  <2>2. Recorded' \subseteq Items /\ Recorded \subseteq Items
    BY DEF Recorded
  <2> HIDE DEF x
  <2> QED
    BY <1>0, <2>1, <2>2
<1> QED
  BY <1>0, <1>1, <1>4 DEF Promise!Next, Promise!Record

LEMMA PromiseNext ==
    ASSUME IInv, Next
    PROVE  Promise!Next \/ UNCHANGED <<deliveries, Recorded>>
<1>0. TypeOK /\ HoldersApart
  BY DEF IInv
<1>1. CASE UNCHANGED <<deliveries, receipts>>
  BY <1>1, RecordedSame
<1>2. ASSUME NEW p \in Flushers, Deliver(p) PROVE Promise!Next
  <2> DEFINE x == Current(p)
  <2>1. x \in Items /\ deliveries[x] = 0
    BY <1>0, <1>2, ItemType DEF Deliver, HoldersApart, Holding
  <2>2. deliveries' = [deliveries EXCEPT ![x] = deliveries[x] + 1] /\ receipts' = receipts
    BY <1>2 DEF Deliver, disk
  <2> HIDE DEF x
  <2>3. deliveries' = [deliveries EXCEPT ![x] = 1]
    BY <2>1, <2>2
  <2> QED
    BY <2>1, <2>2, <2>3, RecordedSame DEF Promise!Next, Promise!Send
<1>3. ASSUME NEW p \in Flushers, WriteReceipt(p), ~ torn PROVE Promise!Next
  <2> DEFINE e == item[p]
             s == scope[p]
  <2>1. /\ e \in Events /\ s \in Scopes
        /\ Unrecorded(<<e, s.target>>) /\ deliveries[<<e, s.target>>] > 0
    BY <1>0, <1>3, ItemType DEF WriteReceipt, HoldersApart, Holding, Current
  <2>2. receipts' = [receipts EXCEPT ![<<e, s>>] = receipts[<<e, s>>] + 1]
        /\ UNCHANGED deliveries
    BY <1>3 DEF WriteReceipt
  <2> HIDE DEF e, s
  <2> QED
    BY <2>1, <2>2, RecordOne
<1>4. ASSUME NEW x \in Items, NEW s \in Scopes, AddReceipt(x, s) PROVE Promise!Next
  <2> DEFINE e == x[1]
  <2>1. /\ e \in Events /\ x = <<e, s.target>>
        /\ Unrecorded(x) /\ deliveries[x] > 0
        /\ receipts' = [receipts EXCEPT ![<<e, s>>] = receipts[<<e, s>>] + 1]
        /\ UNCHANGED deliveries
    BY <1>4 DEF AddReceipt, InDoubt, Items
  <2> HIDE DEF e
  <2>2. Unrecorded(<<e, s.target>>) /\ deliveries[<<e, s.target>>] > 0
    BY <2>1
  <2> QED
    BY <2>1, <2>2, RecordOne
<1>5. ASSUME NEW p \in Flushers, Step(p)
      PROVE  Promise!Next \/ UNCHANGED <<deliveries, receipts>>
  BY <1>2, <1>3, <1>5 DEF Step, LoadQueue, LoadReceipts, CheckClaims, Claim,
     ClaimExists, Flushed, CommandFails, Answered, AnswerLost, WriteReceipt, disk
<1>6. ASSUME NEW p \in Flushers,
             GateClosed(p) \/ Crash(p)
               \/ \E m \in SUBSET Events, s \in Scopes : Begin(p, m, s)
      PROVE  UNCHANGED <<deliveries, receipts>>
  BY <1>6 DEF GateClosed, Crash, Begin, disk
<1>7. CASE Owner
  BY <1>1, <1>4, <1>7 DEF Owner, DropClaim, MendReceipts
<1>8. CASE \E e \in Events : Enqueue(e)
  BY <1>1, <1>8 DEF Enqueue
<1> QED
  BY <1>1, <1>5, <1>6, <1>7, <1>8 DEF Next

LEMMA PromiseInit == Init => Promise!Init
<1> SUFFICES ASSUME Init PROVE Promise!Init
  OBVIOUS
<1>1. Recorded = {}
  <2> SUFFICES ASSUME NEW x \in Items, NEW s \in Scopes
               PROVE  ~ receipts[<<x[1], s>>] > 0
    BY DEF Recorded
  <2>1. x[1] \in Events
    BY DEF Items
  <2>2. receipts[<<x[1], s>>] = 0
    BY <2>1 DEF Init
  <2> QED
    BY <2>2
<1> QED
  BY <1>1 DEF Init, Promise!Init

(* The publisher implements the abstract promise: every item is sent at    *)
(* most once and recorded as published only after it was sent.             *)
THEOREM PublisherKeepsPromise == Spec => KeepsDeliveryPromise
<1>1. IInv /\ [Next]_vars => [Promise!Next]_(Promise!vars)
  <2>1. ASSUME IInv, Next PROVE [Promise!Next]_(Promise!vars)
    BY <2>1, PromiseNext DEF Promise!vars
  <2>2. ASSUME UNCHANGED vars PROVE UNCHANGED Promise!vars
    BY <2>2, RecordedSame DEF vars, disk, Promise!vars
  <2> QED
    BY <2>1, <2>2
<1> QED
  BY <1>1, PromiseInit, InvInit, InvStep, PTL DEF Spec, Promise!Spec, KeepsDeliveryPromise

-----------------------------------------------------------------------------
(* Why a flush ends *)

LEMMA QueueIsFinite ==
    ASSUME TypeOK
    PROVE  IsFiniteSet(ToSet(queue))
<1> DEFINE n == Len(queue)
<1>1. queue \in Seq(Events) /\ n \in Nat /\ DOMAIN queue = 1 .. n
  BY DEF TypeOK
<1>2. ToSet(queue) = {queue[i] : i \in 1 .. n}
  BY <1>1 DEF ToSet
<1>3. queue \in Surjection(1 .. n, ToSet(queue))
  BY <1>1, <1>2 DEF Surjection
<1>4. IsFiniteSet(1 .. n)
  BY <1>1, FS_Interval
<1> HIDE DEF n
<1> QED
  BY <1>3, <1>4, FS_Surjection

LEMMA QueueGrows ==
    ASSUME TypeOK, NEW e \in Events, Enqueue(e)
    PROVE  ToSet(queue) \subseteq ToSet(queue')
<1>1. queue \in Seq(Events) /\ queue' = Append(queue, e)
  BY DEF TypeOK, Enqueue
<1>2. /\ DOMAIN queue \subseteq DOMAIN queue'
      /\ \A i \in DOMAIN queue : queue'[i] = queue[i]
  BY <1>1
<1> QED
  BY <1>2 DEF ToSet

(* The steps of one flusher. *)
Acts(p) ==
    \/ Step(p) \/ GateClosed(p) \/ Crash(p)
    \/ \E m \in SUBSET Events, s \in Scopes : Begin(p, m, s)

LEMMA ActsAlone ==
    ASSUME TypeOK, NEW p \in Flushers, Acts(p)
    PROVE  /\ queue' = queue
           /\ \A q \in Flushers \ {p} :
                /\ pc'[q] = pc[q] /\ manifest'[q] = manifest[q]
                /\ pending'[q] = pending[q] /\ item'[q] = item[q]
<1> USE DEF TypeOK, Goto, disk, locals
<1>1. CASE GateClosed(p) \/ Crash(p) \/ \E m \in SUBSET Events, s \in Scopes : Begin(p, m, s)
  BY <1>1 DEF GateClosed, Crash, Begin, Forget
<1>2. CASE LoadQueue(p) \/ LoadReceipts(p) \/ CheckClaims(p)
  BY <1>2 DEF LoadQueue, LoadReceipts, CheckClaims
<1>3. CASE Claim(p) \/ ClaimExists(p) \/ Flushed(p)
  BY <1>3 DEF Claim, ClaimExists, Flushed
<1>4. CASE Deliver(p) \/ CommandFails(p) \/ Answered(p) \/ AnswerLost(p) \/ WriteReceipt(p)
  BY <1>4 DEF Deliver, CommandFails, Answered, AnswerLost, WriteReceipt
<1> QED
  BY <1>1, <1>2, <1>3, <1>4 DEF Acts, Step

LEMMA NextIsSomeones ==
    ASSUME TypeOK, Next
    PROVE  \/ \E p \in Flushers : Acts(p)
           \/ /\ UNCHANGED <<pc, manifest, pending, item>>
              /\ ToSet(queue) \subseteq ToSet(queue')
<1>1. CASE Owner
  BY <1>1 DEF Owner, DropClaim, AddReceipt, MendReceipts, locals
<1>2. ASSUME NEW e \in Events, Enqueue(e)
      PROVE  UNCHANGED <<pc, manifest, pending, item>>
  BY <1>2 DEF Enqueue, locals
<1> QED
  BY <1>1, <1>2, QueueGrows DEF Next, Acts

Listed(p) ==
    /\ pc[p] \in {"receipts", "claims", "claim", "send", "answer", "receipt"} =>
         manifest[p] \subseteq ToSet(queue)
    /\ pending[p] \subseteq manifest[p]
    /\ Holding(p) => item[p] \in pending[p]

(* In the loop a step leads to the next place of the same event, to the    *)
(* next event with one event less, or out.                                 *)
LEMMA LoopStep ==
    ASSUME TypeOK, NEW p \in Flushers, Step(p), Stage(p) = 1
    PROVE  \/ pc'[p] \in Ended /\ pending'[p] = pending[p]
           \/ /\ pending'[p] = pending[p] /\ item'[p] = item[p]
              /\ \/ pc[p] = "send" /\ pc'[p] = "answer"
                 \/ pc[p] = "answer" /\ pc'[p] = "receipt"
           \/ /\ pc[p] = "claim" /\ pc'[p] = "send"
              /\ pending'[p] = pending[p] /\ item'[p] \in pending[p]
           \/ /\ pc[p] = "receipt" /\ pc'[p] = "claim"
              /\ pending'[p] = pending[p] \ {item[p]}
<1> USE DEF TypeOK, Goto, locals, Ended
<1>1. pc[p] \in {"claim", "send", "answer", "receipt"}
  BY DEF Stage
<1>2. CASE Claim(p)
  BY <1>2 DEF Claim, First
<1>3. CASE ClaimExists(p) \/ Flushed(p) \/ CommandFails(p) \/ AnswerLost(p)
  BY <1>3 DEF ClaimExists, Flushed, CommandFails, AnswerLost
<1>4. CASE Deliver(p) \/ Answered(p)
  BY <1>4 DEF Deliver, Answered
<1>5. CASE WriteReceipt(p)
  BY <1>5 DEF WriteReceipt
<1>6. ~ LoadQueue(p) /\ ~ LoadReceipts(p) /\ ~ CheckClaims(p)
  BY <1>1 DEF LoadQueue, LoadReceipts, CheckClaims
<1> QED
  BY <1>2, <1>3, <1>4, <1>5, <1>6 DEF Step

(* Before the loop a step leads to the next check, or out.                 *)
LEMMA CheckStep ==
    ASSUME TypeOK, NEW p \in Flushers, Step(p), Stage(p) # 1
    PROVE  /\ UNCHANGED <<manifest, item>> /\ pc[p] \in {"queue", "receipts", "claims"}
           /\ \/ pc'[p] \in Ended /\ pending'[p] = pending[p]
              \/ /\ pc[p] = "queue" /\ pc'[p] = "receipts"
                 /\ manifest[p] \subseteq ToSet(queue) /\ pending' = pending
              \/ /\ pc[p] = "receipts" /\ pc'[p] = "claims"
                 /\ pending'[p] \subseteq manifest[p]
              \/ /\ pc[p] = "claims" /\ pc'[p] = "claim" /\ pending' = pending
<1> USE DEF TypeOK, Goto, locals, Ended
<1>1. pc[p] \notin {"claim", "send", "answer", "receipt"}
  BY DEF Stage
<1>2. CASE LoadQueue(p)
  <2> DEFINE Good == /\ IsInjective(queue)
                     /\ manifest[p] # {} /\ manifest[p] \subseteq ToSet(queue)
  <2>1. /\ pc[p] = "queue" /\ UNCHANGED <<manifest, item, pending>>
        /\ pc'[p] = IF Good THEN "receipts" ELSE "blocked"
    BY <1>2 DEF LoadQueue
  <2> QED
    BY <2>1
<1>3. CASE LoadReceipts(p)
  <2>1. CASE Readable(scope[p])
    <3>1. /\ pending'[p] = {e \in manifest[p] : receipts[<<e, scope[p]>>] = 0}
          /\ pc[p] = "receipts" /\ pc'[p] = "claims" /\ UNCHANGED <<manifest, item>>
      BY <1>3, <2>1 DEF LoadReceipts
    <3> QED
      BY <3>1
  <2>2. CASE ~ Readable(scope[p])
    BY <1>3, <2>2 DEF LoadReceipts
  <2> QED
    BY <2>1, <2>2
<1>4. CASE CheckClaims(p)
  <2>1. /\ pc[p] = "claims" /\ UNCHANGED <<manifest, item, pending>>
        /\ pc'[p] \in {"claim", "blocked"}
    BY <1>4 DEF CheckClaims
  <2> QED
    BY <2>1
<1>5. /\ ~ Claim(p) /\ ~ ClaimExists(p) /\ ~ Flushed(p) /\ ~ Deliver(p) /\ ~ CommandFails(p)
      /\ ~ Answered(p) /\ ~ AnswerLost(p) /\ ~ WriteReceipt(p)
  BY <1>1 DEF Claim, ClaimExists, Flushed, Deliver, CommandFails, Answered, AnswerLost,
     WriteReceipt
<1> QED
  BY <1>2, <1>3, <1>4, <1>5 DEF Step

LEMMA PendingInit == Init => PendingInQueue
BY DEF Init, PendingInQueue, Holding

LEMMA PendingStep == TypeOK /\ PendingInQueue /\ [Next]_vars => PendingInQueue'
<1> SUFFICES ASSUME TypeOK, PendingInQueue, [Next]_vars PROVE PendingInQueue'
  OBVIOUS
<1>1. \A q \in Flushers : Listed(q)
  BY DEF PendingInQueue, Listed
<1>2. ASSUME \A q \in Flushers : Listed(q)' PROVE PendingInQueue'
  BY <1>2 DEF PendingInQueue, Listed
<1>3. ASSUME UNCHANGED <<pc, manifest, pending, item>>, ToSet(queue) \subseteq ToSet(queue')
      PROVE  PendingInQueue'
  BY <1>1, <1>2, <1>3 DEF Listed, Holding
<1>4. ASSUME NEW p \in Flushers, Acts(p) PROVE PendingInQueue'
  <2>1. /\ queue' = queue
        /\ \A q \in Flushers \ {p} :
             /\ pc'[q] = pc[q] /\ manifest'[q] = manifest[q]
             /\ pending'[q] = pending[q] /\ item'[q] = item[q]
    BY <1>4, ActsAlone
  <2>2. \A q \in Flushers \ {p} : Listed(q)'
    BY <1>1, <2>1 DEF Listed, Holding
  <2>3. CASE Step(p) /\ Stage(p) = 1
    <3>1. manifest' = manifest
      BY <2>3 DEF Step, LoadQueue, LoadReceipts, CheckClaims, Claim, ClaimExists, Flushed,
         Deliver, CommandFails, Answered, AnswerLost, WriteReceipt, locals
    <3>2. Listed(p)'
      BY <1>1, <2>1, <2>3, <3>1, LoopStep DEF Listed, Holding, Ended
    <3> QED
      BY <1>2, <2>2, <3>2
  <2>4. CASE Step(p) /\ Stage(p) # 1
    <3>1. /\ manifest'[p] = manifest[p] /\ Listed(p)
          /\ \/ pc'[p] \in Ended /\ pending'[p] = pending[p]
             \/ /\ pc[p] = "queue" /\ pc'[p] = "receipts"
                /\ manifest[p] \subseteq ToSet(queue) /\ pending'[p] = pending[p]
             \/ /\ pc[p] = "receipts" /\ pc'[p] = "claims"
                /\ pending'[p] \subseteq manifest[p]
             \/ /\ pc[p] = "claims" /\ pc'[p] = "claim" /\ pending'[p] = pending[p]
      BY <1>1, <2>4, CheckStep
    <3>2. Listed(p)'
      BY <2>1, <3>1 DEF Listed, Holding, Ended
    <3> QED
      BY <1>2, <2>2, <3>2
  <2>5. CASE ~ Step(p)
    <3>1. pc'[p] \in {"queue", "blocked", "idle"} /\ pending'[p] = {}
      BY <1>4, <2>5 DEF Acts, Begin, GateClosed, Crash, Forget, Goto, TypeOK
    <3>2. Listed(p)'
      BY <3>1 DEF Listed, Holding
    <3> QED
      BY <1>2, <2>2, <3>2
  <2> QED
    BY <2>3, <2>4, <2>5
<1>5. CASE UNCHANGED vars
  BY <1>3, <1>5 DEF vars, disk, locals
<1> QED
  BY <1>3, <1>4, <1>5, NextIsSomeones

LEMMA PendingInvariance == Spec => []PendingInQueue
BY PendingInit, PendingStep, TypeCorrect, PTL DEF Spec

Nearer(p) ==
    \/ UNCHANGED <<pc[p], pending[p]>>
    \/ Stage(p)' < Stage(p)
    \/ Stage(p)' = Stage(p) /\ Todo(p)' < Todo(p)

LEMMA StepIsNearer ==
    ASSUME TypeOK, PendingInQueue, NEW p \in Flushers, Step(p)
    PROVE  Nearer(p)
<1>1. pc'[p] \in Ended => Stage(p)' = 0
  BY DEF Ended, Stage
<1>2. CASE Stage(p) = 1
  <2>1. pc[p] \in {"claim", "send", "answer", "receipt"}
    BY <1>2 DEF Stage
  <2>2. IsFiniteSet(pending[p]) /\ Cardinality(pending[p]) \in Nat
    BY <2>1, QueueIsFinite, FS_Subset, FS_CardinalityType DEF PendingInQueue
  <2>3. CASE pc'[p] \in Ended
    BY <1>1, <1>2, <2>3 DEF Nearer
  <2>4. CASE pc[p] = "receipt" /\ pc'[p] = "claim" /\ pending'[p] = pending[p] \ {item[p]}
    <3>1. item[p] \in pending[p]
      BY <2>4 DEF PendingInQueue, Holding
    <3>2. Cardinality(pending'[p]) = Cardinality(pending[p]) - 1
      <4> DEFINE S == pending[p]
                 x == item[p]
      <4>1. IsFiniteSet(S) /\ x \in S /\ pending'[p] = S \ {x}
        BY <2>2, <2>4, <3>1
      <4> HIDE DEF S, x
      <4>2. Cardinality(S \ {x}) = Cardinality(S) - 1
        BY <4>1, FS_RemoveElement
      <4> QED
        BY <4>1, <4>2 DEF S
    <3>3. Place(p) = 0 /\ Place(p)' = 3 /\ Stage(p)' = 1
      BY <2>4 DEF Place, Stage
    <3>4. /\ Todo(p) = 4 * Cardinality(pending[p])
          /\ Todo(p)' = 4 * (Cardinality(pending[p]) - 1) + 3
      BY <1>2, <2>2, <3>2, <3>3 DEF Todo
    <3> QED
      BY <1>2, <2>2, <3>3, <3>4 DEF Nearer
  <2>5. CASE /\ pending'[p] = pending[p]
             /\ \/ pc[p] = "send" /\ pc'[p] = "answer"
                \/ pc[p] = "answer" /\ pc'[p] = "receipt"
                \/ pc[p] = "claim" /\ pc'[p] = "send"
    <3>1. /\ Stage(p)' = 1 /\ Place(p)' < Place(p)
          /\ Place(p) \in Nat /\ Place(p)' \in Nat
      BY <2>5 DEF Stage, Place
    <3>2. /\ Todo(p) = 4 * Cardinality(pending[p]) + Place(p)
          /\ Todo(p)' = 4 * Cardinality(pending[p]) + Place(p)'
      BY <1>2, <2>5, <3>1 DEF Todo
    <3> QED
      BY <1>2, <2>2, <3>1, <3>2 DEF Nearer
  <2> QED
    BY <1>2, <2>3, <2>4, <2>5, LoopStep
<1>3. CASE Stage(p) # 1
  <2>1. CASE pc'[p] \in Ended
    <3>1. pc[p] \in {"queue", "receipts", "claims"}
      BY <1>3, CheckStep
    <3>2. Stage(p) > 0
      BY <3>1 DEF Stage
    <3> QED
      BY <1>1, <2>1, <3>2 DEF Nearer
  <2>2. CASE \/ pc[p] = "queue" /\ pc'[p] = "receipts"
             \/ pc[p] = "receipts" /\ pc'[p] = "claims"
             \/ pc[p] = "claims" /\ pc'[p] = "claim"
    BY <2>2 DEF Nearer, Stage
  <2> QED
    BY <1>3, <2>1, <2>2, CheckStep
<1> QED
  BY <1>2, <1>3

(* A running flush only gets nearer to its end, whatever the other         *)
(* flushers, the pipeline and the owner do to the files (why               *)
(* flush_reviewed_queue ends).                                             *)
THEOREM FlushOnlyGetsNearer == Spec => EverNearer
<1> DEFINE A == \A p \in Flushers : pc[p] \notin Ended => Nearer(p)
<1>1. TypeOK /\ PendingInQueue /\ [Next]_vars => [A]_vars
  <2> SUFFICES ASSUME TypeOK, PendingInQueue, Next, NEW p \in Flushers, pc[p] \notin Ended
               PROVE  Nearer(p)
    OBVIOUS
  <2>1. CASE UNCHANGED <<pc, manifest, pending, item>>
    BY <2>1 DEF Nearer
  <2>2. ASSUME NEW q \in Flushers, Acts(q) PROVE Nearer(p)
    <3>1. CASE p # q
      BY <2>2, <3>1, ActsAlone DEF Nearer
    <3>2. CASE p = q
      <4>1. CASE Step(p)
        BY <4>1, StepIsNearer
      <4>2. CASE ~ Step(p)
        <5>1. Crash(p)
          BY <2>2, <3>2, <4>2 DEF Acts, Begin, GateClosed, Called
        <5>2. Stage(p)' = 0
          BY <5>1 DEF Crash, Goto, TypeOK, Stage
        <5>3. Stage(p) > 0
          BY DEF Stage, TypeOK, PCs
        <5> QED
          BY <5>2, <5>3 DEF Nearer
      <4> QED
        BY <4>1, <4>2
    <3> QED
      BY <3>1, <3>2
  <2> QED
    BY <2>1, <2>2, NextIsSomeones
<1>2. [][A]_vars => EverNearer
  BY PTL DEF EverNearer, Nearer
<1> QED
  BY <1>1, <1>2, TypeCorrect, PendingInvariance, PTL DEF Spec

LEMMA LeastIndex ==
    ASSUME NEW I \in SUBSET Nat, I # {}
    PROVE  \E i \in I : \A j \in I : ~ (j < i)
<1> DEFINE R == OpToRel(<, Nat)
<1>1. R = {ss \in Nat \X Nat : ss[1] < ss[2]}
  BY DEF OpToRel
<1>2. IsWellFoundedOn(R, Nat)
  BY NatLessThanWellFounded
<1> HIDE DEF R
<1>3. \E i \in I : \A j \in I : ~ (<<j, i>> \in R)
  BY <1>2, WFMin, Zenon
<1> QED
  BY <1>1, <1>3

(* The loop finds the pending event that comes first, however the queue    *)
(* has grown since it was read.                                            *)
THEOREM LoopFindsTheNext == Spec => []NextIsFound
<1>1. ASSUME TypeOK, PendingInQueue PROVE NextIsFound
  <2> SUFFICES ASSUME NEW p \in Flushers, pc[p] = "claim", pending[p] # {}
               PROVE  \E e \in Events : First(e, pending[p])
    BY DEF NextIsFound
  <2> DEFINE S == pending[p]
             I == {i \in DOMAIN queue : queue[i] \in S}
  <2>1. queue \in Seq(Events) /\ DOMAIN queue \subseteq Nat \ {0}
    BY <1>1 DEF TypeOK
  <2>2. S \subseteq ToSet(queue)
    BY <1>1 DEF PendingInQueue
  <2>3. I \in SUBSET Nat /\ I # {}
    BY <2>1, <2>2 DEF ToSet
  <2> HIDE DEF I
  <2>4. PICK i \in I : \A j \in I : ~ (j < i)
    BY <2>3, LeastIndex
  <2>5. i \in DOMAIN queue /\ queue[i] \in S /\ queue[i] \in Events /\ i \in Nat
    BY <2>1, <2>4 DEF I
  <2>6. ASSUME NEW f \in S \ {queue[i]}, NEW j \in 1 .. i PROVE queue[j] # f
    <3>1. CASE j = i
      BY <2>6, <3>1
    <3>2. CASE j # i
      <4>1. j < i /\ j \in DOMAIN queue
        BY <2>1, <2>5, <3>2
      <4>2. j \notin I
        BY <2>4, <4>1
      <4> QED
        BY <4>1, <4>2 DEF I
    <3> QED
      BY <3>1, <3>2
  <2>7. First(queue[i], S)
    BY <2>5, <2>6 DEF First, Before
  <2> QED
    BY <2>5, <2>7
<1> QED
  BY <1>1, TypeCorrect, PendingInvariance, PTL

-----------------------------------------------------------------------------
(* The GitHub publisher as the command of the flush *)

LEMMA PrintedIsNotAccepted == ~ Accepted(PrintedReport)
BY DEF Accepted, PrintedReport

LEMMA GithubStep == [GhNext]_ghVars => [Next]_vars
<1>1. ASSUME NEW p \in Flushers,
             GhPosts(p) \/ GhFails(p) \/ NothingToPost(p) \/ ReadAnswer(p) \/ TimesOut(p)
      PROVE  Deliver(p) \/ CommandFails(p) \/ AnswerLost(p)
  BY <1>1, PrintedIsNotAccepted DEF GhPosts, GhFails, NothingToPost, ReadAnswer, TimesOut
<1>2. ASSUME NEW p \in Flushers, Starts(p) \/ Guarded(p) PROVE Next
  BY <1>2 DEF Starts, Guarded, Next, Step
<1>3. ASSUME NEW p \in Flushers,
             GhPosts(p) \/ GhFails(p) \/ NothingToPost(p) \/ ReadAnswer(p) \/ TimesOut(p)
      PROVE  Next
  BY <1>1, <1>3 DEF Next, Step
<1>4. ASSUME (\E e \in Events : Enqueue(e)) \/ Owner PROVE Next
  BY <1>4 DEF Next
<1>5. ASSUME UNCHANGED ghVars PROVE UNCHANGED vars
  BY <1>5 DEF ghVars
<1> QED
  BY <1>2, <1>3, <1>4, <1>5 DEF GhNext

(* The flush with the GitHub publisher is a flush: what is proved of any   *)
(* command holds with this one (github_publisher.py:main as the            *)
(* create_bug_command of publishing.py).                                   *)
THEOREM GithubFlushIsFlush == GhSpec => Spec
<1>1. GhInit => Init
  BY DEF GhInit
<1> QED
  BY <1>1, GithubStep, PTL DEF GhSpec, Spec

(* So it posts no finding twice for one target, and forgets none, though   *)
(* it takes every post for a failure.                                      *)
THEOREM GithubKeepsPromise == GhSpec => []AtMostOnce /\ []NeverForgotten /\ KeepsDeliveryPromise
BY GithubFlushIsFlush, DeliveredAtMostOnce, DeliveryIsNeverForgotten,
   PublisherKeepsPromise, PTL

(* A flush that is past its checks has something to publish, and never     *)
(* gets a receipt to cross it off with.                                    *)
StillPending ==
    /\ NeverSucceeds
    /\ \A p \in Flushers : pc[p] \in {"claim", "send", "answer"} => pending[p] # {}

LEMMA GithubPendingStep == TypeOK /\ StillPending /\ [GhNext]_ghVars => StillPending'
<1> SUFFICES ASSUME TypeOK, StillPending, [GhNext]_ghVars PROVE StillPending'
  OBVIOUS
<1> DEFINE Kept(q) == /\ pc[q] \notin {"receipt", "flushed"}
                      /\ pc[q] \in {"claim", "send", "answer"} => pending[q] # {}
<1>1. /\ pc \in [Flushers -> PCs] /\ pending \in [Flushers -> SUBSET Events]
      /\ \A q \in Flushers : Kept(q)
  BY DEF TypeOK, StillPending, NeverSucceeds
<1>2. ASSUME \A q \in Flushers : Kept(q)' PROVE StillPending'
  BY <1>2 DEF StillPending, NeverSucceeds
<1>3. CASE UNCHANGED <<pc, pending>>
  BY <1>1, <1>2, <1>3
<1>4. ASSUME NEW p \in Flushers, Kept(p)',
             \A q \in Flushers \ {p} : pc'[q] = pc[q] /\ pending'[q] = pending[q]
      PROVE  StillPending'
  BY <1>1, <1>2, <1>4
<1>5. ASSUME NEW p \in Flushers,
             GhPosts(p) \/ GhFails(p) \/ NothingToPost(p) \/ ReadAnswer(p) \/ TimesOut(p)
      PROVE  StillPending'
  <2>1. Deliver(p) \/ CommandFails(p) \/ AnswerLost(p)
    BY <1>5, PrintedIsNotAccepted DEF GhPosts, GhFails, NothingToPost, ReadAnswer, TimesOut
  <2>2. /\ pc[p] \in {"send", "answer"} /\ pc'[p] \in {"answer", "partial-failure"}
        /\ pending' = pending /\ \A q \in Flushers \ {p} : pc'[q] = pc[q]
    BY <1>1, <2>1 DEF Deliver, CommandFails, AnswerLost, Goto, locals
  <2>3. Kept(p)'
    BY <1>1, <2>2
  <2> QED
    BY <1>4, <2>2, <2>3
<1>6. ASSUME NEW p \in Flushers, Starts(p) PROVE StillPending'
  <2>1. /\ pc'[p] \in {"queue", "blocked"}
        /\ \A q \in Flushers \ {p} : pc'[q] = pc[q] /\ pending'[q] = pending[q]
    BY <1>1, <1>6 DEF Starts, Begin, GateClosed, Forget, Goto
  <2> QED
    BY <1>4, <2>1
<1>7. ASSUME NEW p \in Flushers, Guarded(p) PROVE StillPending'
  <2>1. CASE LoadQueue(p) \/ LoadReceipts(p)
    <3>1. /\ pc'[p] \in {"receipts", "claims", "blocked"}
          /\ \A q \in Flushers \ {p} : pc'[q] = pc[q] /\ pending'[q] = pending[q]
      BY <1>1, <2>1 DEF LoadQueue, LoadReceipts, Goto, locals
    <3> QED
      BY <1>4, <3>1
  <2>2. CASE CheckClaims(p)
    <3>1. /\ (pc'[p] = "claim" /\ pending[p] # {}) \/ pc'[p] = "blocked"
          /\ pending' = pending /\ \A q \in Flushers \ {p} : pc'[q] = pc[q]
      BY <1>1, <2>2 DEF CheckClaims, Goto, locals
    <3> QED
      BY <1>4, <3>1
  <2>3. CASE Claim(p) \/ ClaimExists(p)
    <3>1. /\ pc[p] = "claim" /\ pc'[p] \in {"send", "blocked"}
          /\ pending' = pending /\ \A q \in Flushers \ {p} : pc'[q] = pc[q]
      BY <1>1, <2>3 DEF Claim, ClaimExists, Goto, locals
    <3> QED
      BY <1>1, <1>4, <3>1
  <2>4. ~ Flushed(p) /\ ~ WriteReceipt(p)
    BY <1>1 DEF Flushed, WriteReceipt
  <2>5. CASE Crash(p)
    <3>1. /\ pc'[p] = "idle"
          /\ \A q \in Flushers \ {p} : pc'[q] = pc[q] /\ pending'[q] = pending[q]
      BY <1>1, <2>5 DEF Crash, Forget, Goto
    <3> QED
      BY <1>4, <3>1
  <2> QED
    BY <1>7, <2>1, <2>2, <2>3, <2>4, <2>5 DEF Guarded
<1>8. CASE (\E e \in Events : Enqueue(e)) \/ Owner \/ UNCHANGED ghVars
  BY <1>3, <1>8 DEF Enqueue, Owner, DropClaim, AddReceipt, MendReceipts, locals, ghVars, vars
<1> QED
  BY <1>5, <1>6, <1>7, <1>8 DEF GhNext

LEMMA GithubPending == GhSpec => []StillPending
<1>1. GhInit => StillPending
  BY DEF GhInit, Init, StillPending, NeverSucceeds
<1> QED
  BY <1>1, GithubPendingStep, GithubFlushIsFlush, TypeCorrect, PTL DEF GhSpec

(* No flush with this command succeeds, whatever it posts                  *)
(* (publish_queue_event asks for an attestation the tool never prints).    *)
THEOREM GithubFlushesNeverSucceed == GhSpec => []NeverSucceeds
<1>1. StillPending => NeverSucceeds
  BY DEF StillPending
<1> QED
  BY <1>1, GithubPending, PTL

(* With this command every receipt is written by the owner's hand.         *)
THEOREM GithubReceiptsAreTheOwners == GhSpec => OwnersReceipts
<1>1. StillPending /\ [GhNext]_ghVars => [receipts' # receipts => Owner]_ghVars
  <2> SUFFICES ASSUME StillPending, GhNext, receipts' # receipts PROVE Owner
    OBVIOUS
  <2>1. \A p \in Flushers : ~ WriteReceipt(p)
    BY DEF StillPending, NeverSucceeds, WriteReceipt
  <2>2. ASSUME NEW p \in Flushers, Starts(p) \/ Guarded(p) PROVE receipts' = receipts
    BY <2>1, <2>2 DEF Starts, Guarded, Begin, GateClosed, LoadQueue, LoadReceipts,
       CheckClaims, Claim, ClaimExists, Flushed, Crash, disk
  <2>3. ASSUME NEW p \in Flushers,
               GhPosts(p) \/ GhFails(p) \/ NothingToPost(p) \/ ReadAnswer(p) \/ TimesOut(p)
        PROVE  receipts' = receipts
    BY <2>3, PrintedIsNotAccepted DEF GhPosts, GhFails, NothingToPost, ReadAnswer, TimesOut,
       Deliver, CommandFails, AnswerLost, disk
  <2>4. ASSUME NEW e \in Events, Enqueue(e) PROVE receipts' = receipts
    BY <2>4 DEF Enqueue
  <2> QED
    BY <2>2, <2>3, <2>4 DEF GhNext
<1> QED
  BY <1>1, GithubPending, PTL DEF GhSpec, OwnersReceipts

=============================================================================
