-------------------------- MODULE TargetPlanProofs --------------------------
(***************************************************************************)
(* Theorems about TargetPlan, for every code map and adapter.              *)
(***************************************************************************)
EXTENDS TargetPlan, WellFoundedInduction, TLAPS

-----------------------------------------------------------------------------
(* Plans *)

LEMMA LevelIsList == \A c \in Channels : Level(c) \in {"L1", "L2", "L3"}
BY DEF Channels, Level

LEMMA ItemsAreList ==
    ASSUME NEW a \in Adapters, NEW c \in Channels
    PROVE  /\ Len(Items(a, c)) \in Nat
           /\ DOMAIN Items(a, c) = 1 .. Len(Items(a, c))
BY PlanAssumption DEF Items, IsList

LEMMA ChannelNames ==
    "playwright" \in Channels /\ "http" \in Channels /\ "l1-fuzz" \in Channels
BY DEF Channels

(* Linked specs come behind the whitelist.                                 *)
LEMMA SpecsArePlaced ==
    ASSUME NEW a \in Adapters
    PROVE  /\ \A i \in Whitelisted(a) : SpecTarget(a, i).at \in Nat
           /\ \A k \in SpecLinks : LinkTarget(a, k).at \in Nat
<1>1. \A i \in Whitelisted(a) : SpecTarget(a, i).at \in Nat
  BY ItemsAreList, ChannelNames DEF Whitelisted, SpecTarget
<1>2. \A k \in SpecLinks : LinkTarget(a, k).at \in Nat
  <2>1. \A k \in SpecLinks : k \in Nat
    BY PlanAssumption DEF SpecLinks, IsList
  <2> QED
    BY <2>1, ItemsAreList, ChannelNames DEF LinkTarget
<1> QED
  BY <1>1, <1>2

(* The targets of a change have their places in the adapter's lists.       *)
LEMMA TestPlanIsPlaced ==
    ASSUME NEW files, NEW a \in Adapters
    PROVE  /\ \A t \in MustRunL1(files, a) : t.at \in Nat
           /\ \A t \in MustRunL2(files, a) : t.at \in Nat
           /\ \A t \in MustRunL3(files, a) : t.at \in Nat
<1>1. \A t \in MustRunL1(files, a) : t.at \in Nat
  <2>1. \A t \in MustRunL1(files, a) : t.at \in DOMAIN Items(a, "l1-fuzz")
    BY DEF MustRunL1
  <2> QED
    BY <2>1, ItemsAreList, ChannelNames
<1>2. \A t \in MustRunL3(files, a) : t.at \in Nat
  <2>1. \A t \in MustRunL3(files, a) : t.at \in DOMAIN Items(a, "http")
    BY DEF MustRunL3
  <2> QED
    BY <2>1, ItemsAreList, ChannelNames
<1>3. \A t \in MustRunL2(files, a) : t.at \in Nat
  <2>1. \A t \in MustRunL2(files, a) :
            \/ \E i \in Whitelisted(a) : t = SpecTarget(a, i)
            \/ \E k \in SpecLinks : t = LinkTarget(a, k)
    BY DEF MustRunL2, FirstOnly
  <2> QED
    BY <2>1, SpecsArePlaced
<1> QED
  BY <1>1, <1>2, <1>3

LEMMA SeedPlanIsPlaced ==
    ASSUME NEW a \in Adapters, NEW declared
    PROVE  \A t \in SeedPlan(a, declared).L2 : t.at \in Nat
<1>1. \A i \in Whitelisted(a) : SpecTarget(a, i).at \in Nat
  BY ItemsAreList, ChannelNames DEF Whitelisted, SpecTarget
<1>2. ASSUME NEW i \in Whitelisted(a)
      PROVE  SeedTarget(a, declared, SpecTarget(a, i)).at = SpecTarget(a, i).at
  <2> DEFINE t == SpecTarget(a, i)
  <2>1. t.at = i /\ \A f : [t EXCEPT !.file = f].at = t.at
    BY DEF SpecTarget
  <2> QED
    BY <2>1 DEF SeedTarget
<1>3. \A t \in SeedPlan(a, declared).L2 :
          \E i \in Whitelisted(a) : t = SeedTarget(a, declared, SpecTarget(a, i))
  BY DEF SeedPlan, FirstOnly
<1> QED
  BY <1>1, <1>2, <1>3

LEMMA PlansArePlaced ==
    ASSUME NEW a \in Adapters, NEW files, NEW declared, NEW c \in Channels
    PROVE  /\ \A t \in Targets(TestPlan(files, a), c) : t.at \in Nat
           /\ \A t \in Targets(SeedPlan(a, declared), c) : t.at \in Nat
<1>1. Level(c) \in {"L1", "L2", "L3"}
  BY LevelIsList
<1>2. \A t \in Targets(TestPlan(files, a), c) : t.at \in Nat
  BY <1>1, TestPlanIsPlaced DEF Targets, TestPlan
<1>3. \A t \in Targets(SeedPlan(a, declared), c) : t.at \in Nat
  <2>1. SeedPlan(a, declared).L1 = {} /\ SeedPlan(a, declared).L3 = {}
        /\ SeedPlan(a, declared).made
    BY DEF SeedPlan
  <2>2. CASE Level(c) = "L2"
    BY <2>1, <2>2, SeedPlanIsPlaced DEF Targets
  <2>3. CASE Level(c) \in {"L1", "L3"}
    BY <2>1, <2>3 DEF Targets
  <2> QED
    BY <1>1, <2>2, <2>3
<1> QED
  BY <1>2, <1>3

-----------------------------------------------------------------------------
(* The invariant *)

LEMMA InitIInv == Init => IInv
<1> SUFFICES ASSUME Init PROVE IInv
  OBVIOUS
<1>1. TypeOK
  BY DEF Init, TypeOK, TargetsPlaced, Targets, NoPlan
<1>2. BatchIsCurrent /\ ReadyIsCurrent
  BY DEF Init, BatchIsCurrent, ReadyIsCurrent
<1> QED
  BY <1>1, <1>2 DEF IInv

(* What a call of the builder comes to is a batch, of its own arguments.   *)
LEMMA BuiltIsBatch ==
    ASSUME NEW a, NEW c \in Channels, NEW ack, NEW p, NEW planned
    PROVE  LET b == Built(a, c, ack, p, planned)
           IN  b.channel = c /\ b.planned = planned
BY DEF Built

LEMMA AcceptedIsSelected ==
    ASSUME NEW a, NEW c \in Channels, NEW ack, NEW p,
           Built(a, c, ack, p, TRUE).accepted
    PROVE  /\ Executable(a, c, p)
           /\ Built(a, c, ack, p, TRUE).ran = Selected(a, c, p)
BY DEF Built

LEMMA NextIInv == IInv /\ [Next]_vars => IInv'
<1> SUFFICES ASSUME IInv, [Next]_vars PROVE IInv'
  OBVIOUS
<1> USE DEF IInv
<1>1. CASE UNCHANGED vars
  BY <1>1 DEF vars, TypeOK, TargetsPlaced, BatchIsCurrent, ReadyIsCurrent
<1>2. ASSUME NEW f \in Files, ProductChanges(f) PROVE IInv'
  BY <1>2 DEF ProductChanges, TypeOK, TargetsPlaced, BatchIsCurrent, ReadyIsCurrent
<1>3. ASSUME NEW a \in Adapters, EditAdapter(a) PROVE IInv'
  BY <1>3 DEF EditAdapter, Forget, TypeOK, TargetsPlaced, BatchIsCurrent, ReadyIsCurrent
<1>4. CASE Acknowledge
  BY <1>4 DEF Acknowledge, Forget, TypeOK, TargetsPlaced, BatchIsCurrent, ReadyIsCurrent
<1>5. CASE MakePlan
  <2>1. plan'.made = TRUE
    BY <1>5 DEF MakePlan, TestPlan
  <2>2. TargetsPlaced'
    BY <1>5, PlansArePlaced DEF MakePlan, TypeOK, TargetsPlaced
  <2> QED
    BY <1>5, <2>1, <2>2 DEF MakePlan, Forget, TypeOK, BatchIsCurrent, ReadyIsCurrent
<1>6. CASE MakeSeed
  <2>1. plan'.made = TRUE
    BY <1>6 DEF MakeSeed, SeedPlan
  <2>2. TargetsPlaced'
    BY <1>6, PlansArePlaced DEF MakeSeed, TypeOK, TargetsPlaced
  <2> QED
    BY <1>6, <2>1, <2>2 DEF MakeSeed, Forget, TypeOK, BatchIsCurrent, ReadyIsCurrent
<1>7. ASSUME NEW planned \in BOOLEAN, NEW sane \in BOOLEAN,
             HttpPreflight(planned, sane) \/ PlaywrightPreflight(planned, sane)
      PROVE  IInv'
  <2>1. \A r \in ready' : /\ r \in Channels \X BOOLEAN
                          /\ Built(adapter, r[1], acknowledged, plan, r[2]).accepted
    BY <1>7, ChannelNames
       DEF HttpPreflight, PlaywrightPreflight, HttpReady, PlaywrightReady
  <2>2. UNCHANGED <<changed, adapter, acknowledged, plan, batch>>
    BY <1>7 DEF HttpPreflight, PlaywrightPreflight
  <2> QED
    BY <2>1, <2>2 DEF TypeOK, TargetsPlaced, BatchIsCurrent, ReadyIsCurrent
<1>8. ASSUME NEW c \in Channels, NEW planned \in BOOLEAN, Build(c, planned)
      PROVE  IInv'
  <2>1. /\ batch' = Built(adapter, c, acknowledged, plan, planned)
        /\ batch'.channel = c /\ batch'.planned = planned
    BY <1>8, BuiltIsBatch DEF Build
  <2>2. UNCHANGED <<changed, adapter, acknowledged, plan, ready>>
    BY <1>8 DEF Build
  <2>3. TypeOK'
    BY <2>1, <2>2 DEF TypeOK, TargetsPlaced
  <2>4. BatchIsCurrent'
    BY <2>1, <2>2 DEF BatchIsCurrent
  <2>5. ReadyIsCurrent'
    BY <2>2 DEF ReadyIsCurrent
  <2> QED
    BY <2>3, <2>4, <2>5
<1> QED
  BY <1>1, <1>2, <1>3, <1>4, <1>5, <1>6, <1>7, <1>8 DEF Next

LEMMA IInvHolds == Spec => []IInv
BY InitIInv, NextIInv, PTL DEF Spec

(* The plan, the adapter and the last batch keep their types.              *)
THEOREM TypeCorrect == Spec => []TypeOK
<1>1. IInv => TypeOK
  BY DEF IInv
<1> QED
  BY <1>1, IInvHolds, PTL

-----------------------------------------------------------------------------
(* The target-plan filter *)

(* No scenario is found before itself.                                     *)
LEMMA FoundBeforeIsStrict ==
    ASSUME NEW a \in Adapters, NEW c \in Channels, NEW p,
           \A t \in Targets(p, c) : t.at \in Nat,
           NEW s \in Scenarios(a, c)
    PROVE  ~FoundBefore(c, p, s, s)
<1>1. s.at \in Nat
  <2>1. s.at \in DOMAIN Items(a, c)
    BY DEF Scenarios
  <2> QED
    BY <2>1, ItemsAreList
<1> SUFFICES ASSUME NEW v \in Targets(p, c), Matches(c, s, v),
                    \A t \in Targets(p, c) :
                        Matches(c, s, t) => v.at < t.at \/ (v.at = t.at /\ s.at < s.at)
             PROVE  FALSE
  BY DEF FoundBefore
<1>2. v.at < v.at \/ s.at < s.at
  OBVIOUS
<1> QED
  BY <1>1, <1>2

(* Where every item has an identity of its own, the filter keeps all the   *)
(* scenarios that match.                                                   *)
LEMMA AllMatchingAreKept ==
    ASSUME NEW a \in Adapters, NEW c \in Channels, NEW p,
           \A t \in Targets(p, c) : t.at \in Nat,
           Unambiguous(a, c),
           NEW s \in Scenarios(a, c), NEW t \in Targets(p, c), Matches(c, s, t)
    PROVE  s \in Selected(a, c, p)
<1>1. ASSUME NEW u \in Scenarios(a, c), u.id = s.id PROVE u = s
  <2>1. PICK i \in DOMAIN Items(a, c) :
            s = [at |-> i, id |-> Identity(c, i, Items(a, c)[i]),
                 cmd |-> Command(c, i, Items(a, c)[i]), entry |-> Items(a, c)[i].entry]
    BY DEF Scenarios
  <2>2. PICK j \in DOMAIN Items(a, c) :
            u = [at |-> j, id |-> Identity(c, j, Items(a, c)[j]),
                 cmd |-> Command(c, j, Items(a, c)[j]), entry |-> Items(a, c)[j].entry]
    BY DEF Scenarios
  <2>3. Identity(c, j, Items(a, c)[j]) = Identity(c, i, Items(a, c)[i])
    BY <1>1, <2>1, <2>2
  <2>4. i = j
    BY <2>3 DEF Unambiguous
  <2> QED
    BY <2>1, <2>2, <2>4
<1>2. \A u \in Scenarios(a, c) : u.id = s.id => ~FoundBefore(c, p, u, s)
  BY <1>1, FoundBeforeIsStrict
<1> QED
  BY <1>2 DEF Selected

(* A batch that is built with the plan runs all of its level and nothing   *)
(* else, whatever was edited between plan and batch.                       *)
THEOREM BatchesRunThePlan == Spec => []RunsThePlan
<1>1. IInv => RunsThePlan
  <2> SUFFICES ASSUME IInv, batch # NoBatch, batch.planned, batch.accepted,
                      Unambiguous(adapter, batch.channel)
               PROVE  /\ batch.ran # {}
                      /\ \A t \in Targets(plan, batch.channel) :
                             \E s \in batch.ran : t.entry \in {NoName, s.entry}
                      /\ \A s \in batch.ran :
                             \E t \in Targets(plan, batch.channel) :
                                 Matches(batch.channel, s, t)
    BY DEF RunsThePlan
  <2> DEFINE c == batch.channel
  <2>1. /\ c \in Channels /\ adapter \in Adapters
        /\ \A t \in Targets(plan, c) : t.at \in Nat
    BY DEF IInv, TypeOK, TargetsPlaced
  <2>2. Executable(adapter, c, plan) /\ batch.ran = Selected(adapter, c, plan)
    <3>1. batch = Built(adapter, c, acknowledged, plan, batch.planned)
      BY DEF IInv, BatchIsCurrent
    <3>2. batch.planned = TRUE
      BY DEF IInv, TypeOK
    <3>3. batch = Built(adapter, c, acknowledged, plan, TRUE)
      BY <3>1, <3>2
    <3>4. Built(adapter, c, acknowledged, plan, TRUE).accepted
      BY <3>3
    <3>5. /\ Executable(adapter, c, plan)
          /\ Built(adapter, c, acknowledged, plan, TRUE).ran = Selected(adapter, c, plan)
      <4> HIDE DEF c
      <4> QED
        BY <2>1, <3>4, AcceptedIsSelected
    <3> QED
      BY <3>3, <3>5
  <2>3. ASSUME NEW t \in Targets(plan, c)
        PROVE  \E s \in batch.ran : t.entry \in {NoName, s.entry}
    <3>1. PICK s \in Scenarios(adapter, c) : Matches(c, s, t)
      BY <2>2 DEF Executable
    <3>2. s \in batch.ran
      BY <2>1, <2>2, <3>1, AllMatchingAreKept
    <3> QED
      BY <3>1, <3>2 DEF Matches
  <2>4. \A s \in batch.ran : \E t \in Targets(plan, c) : Matches(c, s, t)
    BY <2>2 DEF Selected
  <2>5. batch.ran # {}
    <3>1. PICK t \in Targets(plan, c) : TRUE
      BY <2>2 DEF Executable
    <3> QED
      BY <2>3, <3>1
  <2> QED
    BY <2>3, <2>4, <2>5
<1> QED
  BY <1>1, IInvHolds, PTL

(* The builders accept what a preflight has found ready.                   *)
THEOREM ReadyBatchesAreAccepted == Spec => []ReadyIsAccepted
<1>1. IInv => ReadyIsAccepted
  <2> SUFFICES ASSUME IInv, batch # NoBatch, <<batch.channel, batch.planned>> \in ready
               PROVE  batch.accepted
    BY DEF ReadyIsAccepted
  <2>1. batch = Built(adapter, batch.channel, acknowledged, plan, batch.planned)
    BY DEF IInv, BatchIsCurrent
  <2>2. Built(adapter, batch.channel, acknowledged, plan, batch.planned).accepted
    BY DEF IInv, ReadyIsCurrent
  <2> QED
    BY <2>1, <2>2
<1> QED
  BY <1>1, IInvHolds, PTL

-----------------------------------------------------------------------------
(* More changes *)

(* A set of numbers has a least one.                                       *)
LEMMA Least ==
    ASSUME NEW T \in SUBSET Nat, T # {}
    PROVE  \E x \in T : \A y \in T : x <= y
<1> DEFINE R == OpToRel(<, Nat)
<1>1. R = {ss \in Nat \X Nat : ss[1] < ss[2]}
  BY DEF OpToRel
<1>2. IsWellFoundedOn(R, Nat)
  BY NatLessThanWellFounded
<1> HIDE DEF R
<1>3. \E x \in T : \A y \in T : ~ (<<y, x>> \in R)
  BY <1>2, WFMin, Zenon
<1>4. \E x \in T : \A y \in T : ~ (y < x)
  BY <1>1, <1>3
<1>5. \A x, y \in T : ~ (y < x) => x <= y
  OBVIOUS
<1> QED
  BY <1>4, <1>5

(* Of the targets of one spec and entry, a first one is kept.              *)
LEMMA FirstIsKept ==
    ASSUME NEW targets, \A u \in targets : u.at \in Nat, NEW t \in targets
    PROVE  \E u \in FirstOnly(targets) : u.spec = t.spec /\ u.entry = t.entry
<1> DEFINE same == {u \in targets : u.spec = t.spec /\ u.entry = t.entry}
           places == {u.at : u \in same}
<1>1. places \in SUBSET Nat /\ places # {}
  OBVIOUS
<1>2. PICK x \in places : \A y \in places : x <= y
  BY <1>1, Least
<1>3. PICK u \in same : u.at = x
  OBVIOUS
<1>4. \A v \in same : u.at <= v.at
  BY <1>2, <1>3
<1> QED
  BY <1>3, <1>4 DEF FirstOnly

LEMMA ImpactedGrows ==
    ASSUME NEW files, NEW more, files \subseteq more
    PROVE  /\ Endpoints(files) \subseteq Endpoints(more)
           /\ ImpactedEntries(files) \subseteq ImpactedEntries(more)
<1>1. \A kinds : EndpointsIn(files, kinds) \subseteq EndpointsIn(more, kinds)
  BY DEF EndpointsIn
<1>2. WsCommands(files) \subseteq WsCommands(more)
  BY <1>1 DEF WsCommands
<1> QED
  BY <1>1, <1>2 DEF Endpoints, ImpactedEntries

LEMMA ChosenGrows ==
    ASSUME NEW files, NEW more, files \subseteq more, NEW a \in Adapters
    PROVE  Chosen(files, a) \subseteq Chosen(more, a)
<1>1. ASSUME NEW t \in MustRunL1(files, a)
      PROVE  \E u \in MustRunL1(more, a) : u.id = t.id /\ u.path = t.path
  <2> DEFINE cases == Items(a, "l1-fuzz")
  <2>1. PICK i \in DOMAIN cases : /\ Probed(cases[i], Endpoints(files)) # {}
                                  /\ t.id = cases[i].id /\ t.path = cases[i].path
    BY <1>1 DEF MustRunL1
  <2>2. Probed(cases[i], Endpoints(more)) # {}
    BY <2>1, ImpactedGrows DEF Probed
  <2> DEFINE probed(j) == Probed(cases[j], Endpoints(more))
             first(j) == CHOOSE n \in probed(j) : \A m \in probed(j) : n <= m
             target(j) == [at |-> j, id |-> cases[j].id, path |-> cases[j].path,
                           entry |-> cases[j].entry, endpoint |-> EndpointKey(first(j))]
  <2>3. MustRunL1(more, a) = {target(j) : j \in {k \in DOMAIN cases : probed(k) # {}}}
    BY DEF MustRunL1
  <2>4. target(i).id = t.id /\ target(i).path = t.path
    BY <2>1
  <2> HIDE DEF target, first
  <2> QED
    BY <2>1, <2>2, <2>3, <2>4
<1>2. ASSUME NEW t \in MustRunL2(files, a)
      PROVE  \E u \in MustRunL2(more, a) : u.spec = t.spec /\ u.entry = t.entry
  <2> DEFINE specs == {SpecTarget(a, i) : i \in Whitelisted(a)}
                        \cup {LinkTarget(a, k) : k \in SpecLinks}
             wanted(s) == {u \in specs : u.entry \in ImpactedEntries(s) \/ u.file \in s}
  <2>1. t \in wanted(files) /\ MustRunL2(more, a) = FirstOnly(wanted(more))
    BY <1>2 DEF MustRunL2, FirstOnly
  <2>2. t \in wanted(more)
    BY <2>1, ImpactedGrows
  <2>3. \A u \in specs : u.at \in Nat
    BY SpecsArePlaced
  <2> HIDE DEF specs
  <2>4. \A u \in wanted(more) : u.at \in Nat
    BY <2>3
  <2> HIDE DEF wanted
  <2> QED
    BY <2>1, <2>2, <2>4, FirstIsKept
<1>3. ASSUME NEW t \in MustRunL3(files, a)
      PROVE  \E u \in MustRunL3(more, a) : u.id = t.id /\ u.entry = t.entry
  <2> DEFINE scenarios == Items(a, "http")
  <2>1. PICK i \in DOMAIN scenarios : /\ scenarios[i].entry \in ImpactedEntries(files)
                                      /\ t.id = scenarios[i].id
                                      /\ t.entry = scenarios[i].entry
    BY <1>3 DEF MustRunL3
  <2>2. [at |-> i, id |-> t.id, entry |-> t.entry] \in MustRunL3(more, a)
    BY <2>1, ImpactedGrows DEF MustRunL3
  <2> QED
    BY <2>2
<1> QED
  BY <1>1, <1>2, <1>3 DEF Chosen

(* One more changed file takes no case, spec or scenario from the plan     *)
(* (change_impact.py: each is chosen for a file on its own).               *)
THEOREM MoreChangesChooseMore == Spec => MoreChangesMoreTargets
<1>1. TypeOK /\ [Next]_vars =>
        [changed' # changed
           => Chosen(changed, adapter) \subseteq Chosen(changed', adapter)]_changed
  <2> SUFFICES ASSUME TypeOK, Next, changed' # changed
               PROVE  Chosen(changed, adapter) \subseteq Chosen(changed', adapter)
    BY DEF vars
  <2>1. changed \subseteq changed'
    BY DEF Next, ProductChanges, EditAdapter, Acknowledge, MakePlan, MakeSeed,
       HttpPreflight, PlaywrightPreflight, Build
  <2> QED
    BY <2>1, ChosenGrows DEF TypeOK
<1> QED
  BY <1>1, TypeCorrect, PTL DEF Spec, MoreChangesMoreTargets

=============================================================================
