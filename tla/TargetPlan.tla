----------------------------- MODULE TargetPlan -----------------------------
(***************************************************************************)
(* What a batch runs after a change of the product: the files that changed *)
(* are looked up in the code map, the entries and endpoints they touch     *)
(* select items of the adapter for a target plan (change_impact.py), and   *)
(* the builders of the executors keep of the adapter's scenarios those the *)
(* plan names, or refuse (orchestrator.py).  The plan and the adapter are  *)
(* files that change independently of each other.                          *)
(*                                                                         *)
(* A list is a sequence; a selection from it is the set of what is kept,   *)
(* each with its place "at" in the list where the order matters.           *)
(***************************************************************************)
EXTENDS Naturals, Sequences

CONSTANTS
    Files,          \* the product's files
    LastName(_),    \* the last segment of a file's path
    Entries,        \* entries of the semantic map
    CodeMap,        \* [endpoints, links], sequences of records
    Adapters,       \* the contents an owner may give the adapter file
    Param,          \* a {parameter} in a route
    NoName          \* an empty string

Channels == {"playwright", "http", "external", "l1-fuzz"}

Level(c) == CASE c = "l1-fuzz" -> "L1" [] c = "http" -> "L3" [] OTHER -> "L2"

IsList(s) == Len(s) \in Nat /\ DOMAIN s = 1 .. Len(s)

ASSUME PlanAssumption ==
    /\ NoName \notin Entries
    /\ IsList(CodeMap.endpoints) /\ IsList(CodeMap.links)
    /\ \A a \in Adapters : \A c \in Channels : IsList(a.section[c].items)

VARIABLES
    changed,        \* the files that differ from the code map's commit
    adapter,
    acknowledged,   \* the environment acknowledges the adapter's owner gate
    plan,           \* the target plan file
    ready,          \* what the last preflight, of what is there now, found ready
    batch           \* the last batch built from what is there now

vars == <<changed, adapter, acknowledged, plan, ready, batch>>

NoPlan == [made |-> FALSE]
NoBatch == [channel |-> "none"]

Items(a, c) == a.section[c].items

-----------------------------------------------------------------------------
(* What a change touches: compute_impacted.  The callers of what changed   *)
(* are collected there too, but only reported.                             *)

EndpointsIn(files, kinds) ==
    {i \in DOMAIN CodeMap.endpoints : /\ CodeMap.endpoints[i].file \in files
                                      /\ CodeMap.endpoints[i].kind \in kinds}

Endpoints(files) == EndpointsIn(files, {"http", "ws"})

WsCommands(files) ==
    {CodeMap.endpoints[i].command : i \in EndpointsIn(files, {"ws_command"})}

(* The entries linked to a changed file or to one of its commands.         *)
ImpactedEntries(files) ==
    LET commands == WsCommands(files)
        linked == {k \in DOMAIN CodeMap.links : \/ CodeMap.links[k].file \in files
                                                \/ CodeMap.links[k].from \in commands}
    IN  {CodeMap.links[k].entry : k \in linked} \ {NoName}

-----------------------------------------------------------------------------
(* The target plan: build_test_plan *)

(* The specs a plan can ask for: those of the whitelist, then those that   *)
(* the code map links.                                                     *)
Whitelisted(a) ==
    {i \in DOMAIN Items(a, "playwright") : /\ Items(a, "playwright")[i].spec # NoName
                                           /\ Items(a, "playwright")[i].entry # NoName}

SpecTarget(a, i) ==
    LET item == Items(a, "playwright")[i]
    IN  [at |-> i, spec |-> item.spec, file |-> item.file, entry |-> item.entry]

LinkTarget(a, k) ==
    LET link == CodeMap.links[k]
    IN  [at    |-> Len(Items(a, "playwright")) + k,
         spec  |-> IF link.from = NoName THEN LastName(link.file) ELSE link.from,
         file  |-> link.file,
         entry |-> link.entry]

SpecLinks ==
    {k \in DOMAIN CodeMap.links : /\ CodeMap.links[k].kind = "playwright_spec"
                                  /\ CodeMap.links[k].entry # NoName
                                  /\ CodeMap.links[k].file # NoName}

(* Of several with one spec and entry, the first.                          *)
FirstOnly(targets) ==
    {t \in targets : \A u \in targets :
                         u.spec = t.spec /\ u.entry = t.entry => t.at <= u.at}

MustRunL2(files, a) ==
    LET impacted == ImpactedEntries(files)
        specs == {SpecTarget(a, i) : i \in Whitelisted(a)} \cup {LinkTarget(a, k) : k \in SpecLinks}
    IN  FirstOnly({t \in specs : t.entry \in impacted \/ t.file \in files})

MustRunL3(files, a) ==
    LET impacted == ImpactedEntries(files)
        scenarios == Items(a, "http")
    IN  {[at |-> i, id |-> scenarios[i].id, entry |-> scenarios[i].entry] :
            i \in {j \in DOMAIN scenarios : scenarios[j].entry \in impacted}}

(* _route_matches_endpoint: the route is a prefix of the path.             *)
RouteMatches(path, route) ==
    /\ route # <<>> /\ Len(route) <= Len(path)
    /\ \A i \in DOMAIN route : route[i] \in {Param, path[i]}

(* The endpoints among "touched" that a fuzz case probes.                  *)
Probed(case, touched) ==
    {i \in touched : /\ CodeMap.endpoints[i].method # NoName
                     /\ CodeMap.endpoints[i].method = case.method
                     /\ RouteMatches(case.path, CodeMap.endpoints[i].route)}

EndpointKey(i) == <<CodeMap.endpoints[i].method, CodeMap.endpoints[i].route>>

MustRunL1_BreaksAtRoute(files, a) ==
    LET cases == Items(a, "l1-fuzz")
        routed(i) == {n \in Endpoints(files) :
                         RouteMatches(cases[i].path, CodeMap.endpoints[n].route)}
        first(i) == CHOOSE n \in routed(i) : \A m \in routed(i) : n <= m
    IN  {[at |-> i, id |-> cases[i].id, path |-> cases[i].path, entry |-> cases[i].entry,
          endpoint |-> EndpointKey(first(i))] :
            i \in {j \in DOMAIN cases : /\ routed(j) # {}
                                        /\ CodeMap.endpoints[first(j)].method # NoName
                                        /\ CodeMap.endpoints[first(j)].method = cases[j].method}}

(* A case is taken for the first endpoint it probes.                       *)
MustRunL1(files, a) ==
    LET cases == Items(a, "l1-fuzz")
        touched == Endpoints(files)
        probed(i) == Probed(cases[i], touched)
    IN  {[at |-> i, id |-> cases[i].id, path |-> cases[i].path, entry |-> cases[i].entry,
          endpoint |-> EndpointKey(CHOOSE n \in probed(i) : \A m \in probed(i) : n <= m)] :
            i \in {j \in DOMAIN cases : probed(j) # {}}}

EntryGaps(files, a) ==
    {[entry   |-> e,
      channel |-> IF e \in a.catalog THEN "owner-gate" ELSE "L4-suggestion"] :
        e \in ImpactedEntries(files) \ {t.entry : t \in MustRunL3(files, a)}}

EndpointGaps(files, a) ==
    {EndpointKey(i) : i \in {n \in Endpoints(files) : CodeMap.endpoints[n].route # <<>>}}
        \ {t.endpoint : t \in MustRunL1(files, a)}

TestPlan(files, a) ==
    [made |-> TRUE,
     L1   |-> MustRunL1(files, a),
     L2   |-> MustRunL2(files, a),
     L3   |-> MustRunL3(files, a),
     gaps |-> EntryGaps(files, a),
     open |-> EndpointGaps(files, a)]

-----------------------------------------------------------------------------
(* Without a change: build_profile_seed_plan *)

(* The targets of the plan that the adapter declares, if they restrict the *)
(* seed: a plan without any item does not, a missing one allows nothing.   *)
Restricted(a, declared) ==
    a.declares /\ (declared.made =>
        \E list \in {"L1", "L2", "L3", "gaps", "open"} : declared[list] # {})

Explicit(declared, t) ==
    IF declared.made
    THEN {u \in declared.L2 : u.spec = t.spec /\ u.entry = t.entry}
    ELSE {}

SeedTarget(a, declared, t) ==
    LET files == IF Restricted(a, declared) THEN {u.file : u \in Explicit(declared, t)} \ {NoName}
                 ELSE {}
    IN  IF files # {} THEN [t EXCEPT !.file = CHOOSE f \in files : TRUE] ELSE t

SeedPlan(a, declared) ==
    [made |-> TRUE,
     L1   |-> {}, L3 |-> {}, gaps |-> {}, open |-> {},
     L2   |-> FirstOnly({SeedTarget(a, declared, t) :
                             t \in {u \in {SpecTarget(a, i) : i \in Whitelisted(a)} :
                                        Restricted(a, declared) => Explicit(declared, u) # {}}})]

-----------------------------------------------------------------------------
(* The builders: build_adapter_..._run *)

(* The command a scenario runs by, and its identity; a case or scenario    *)
(* without id is named by its place in the list.                           *)
Command(c, i, item) ==
    CASE c = "playwright" -> item.spec
      [] c = "l1-fuzz"    -> IF item.id = NoName THEN <<"fuzz", i>> ELSE item.id
      [] c = "external"   -> IF item.cmd = NoName THEN item.entry ELSE item.cmd
      [] c = "http"       -> item.steps

Identity(c, i, item) ==
    CASE c \in {"playwright", "l1-fuzz"} -> Command(c, i, item)
      [] c = "external" -> IF item.id = NoName THEN <<"ext", i>> ELSE item.id
      [] c = "http"     -> IF item.id = NoName THEN <<"l3", i>> ELSE item.id

Scenarios(a, c) ==
    {[at |-> i, id |-> Identity(c, i, Items(a, c)[i]), cmd |-> Command(c, i, Items(a, c)[i]),
      entry |-> Items(a, c)[i].entry] : i \in DOMAIN Items(a, c)}

(* An item some check of its builder refuses; "sound" stands for those of  *)
(* its other fields.                                                       *)
Unsound(c, item) ==
    \/ ~item.sound \/ item.entry \notin Entries
    \/ c = "playwright" /\ item.spec = NoName
    \/ c = "l1-fuzz" /\ item.path = <<>>

(* The owner gate of an adapter that has one (_enforce_owner_gate).        *)
GateOpen(a, ack) == a.gate => ack

(* A testdata gate speaks of known entries and whitelisted specs.          *)
TestdataGatesHold(a, specs) ==
    \A g \in a.testdata : g.entry \in Entries \cup {NoName} /\ g.specs \subseteq specs

Specs(scenarios) == {s.cmd : s \in scenarios}

Buildable(a, c, ack) ==
    /\ GateOpen(a, ack) /\ a.section[c].configured
    /\ Items(a, c) # <<>> /\ \A i \in DOMAIN Items(a, c) : ~Unsound(c, Items(a, c)[i])
    /\ c = "playwright" => TestdataGatesHold(a, Specs(Scenarios(a, c)))

(* _scenario_matches_target *)
Matches(c, s, t) ==
    /\ t.entry \in {NoName, s.entry}
    /\ CASE Level(c) = "L2" -> \/ t.spec # NoName /\ t.spec = s.cmd
                               \/ t.file # NoName /\ LastName(t.file) = s.cmd
         [] Level(c) = "L3" -> t.id # NoName /\ t.id = s.id
         [] Level(c) = "L1" -> \/ t.id # NoName /\ t.id = s.cmd
                               \/ t.path # <<>> /\ t.path = s.cmd

Targets(p, c) == IF p.made THEN p[Level(c)] ELSE {}

Executable_SomeTarget(a, c, p) ==
    \E t \in Targets(p, c), s \in Scenarios(a, c) : Matches(c, s, t)

(* Every target needs a scenario, or nothing is run.                       *)
Executable(a, c, p) ==
    /\ Targets(p, c) # {}
    /\ \A t \in Targets(p, c) : \E s \in Scenarios(a, c) : Matches(c, s, t)

(* Of two scenarios the one of an earlier target, and for one target the   *)
(* one in the earlier place, is found first.                               *)
FoundBefore(c, p, u, s) ==
    \E v \in Targets(p, c) :
        /\ Matches(c, u, v)
        /\ \A t \in Targets(p, c) :
               Matches(c, s, t) => v.at < t.at \/ (v.at = t.at /\ u.at < s.at)

(* Of those with one id, the first that is found is kept (selected_ids).   *)
Selected(a, c, p) ==
    LET matching == {s \in Scenarios(a, c) : \E t \in Targets(p, c) : Matches(c, s, t)}
    IN  {s \in matching : ~\E u \in matching : u.id = s.id /\ FoundBefore(c, p, u, s)}

(* What a call of the builder comes to; "planned": it is given the plan.   *)
Built(a, c, ack, p, planned) ==
    LET accepted == Buildable(a, c, ack) /\ (planned => Executable(a, c, p))
    IN  [channel  |-> c,
         planned  |-> planned,
         accepted |-> accepted,
         ran      |-> IF ~accepted THEN {}
                      ELSE IF planned THEN Selected(a, c, p) ELSE Scenarios(a, c)]

-----------------------------------------------------------------------------
(* The preflights.  That of http builds both of its channels; "sane" stands *)
(* for what they look at outside of adapter and plan.                       *)

HttpReady_L3Only(a, ack, p, planned, sane) ==
    sane /\ Built(a, "http", ack, p, planned).accepted

HttpReady(a, ack, p, planned, sane) ==
    /\ sane
    /\ Built(a, "http", ack, p, planned).accepted
    /\ Built(a, "l1-fuzz", ack, p, planned).accepted

PlaywrightReady(a, ack, p, planned, sane) ==
    LET built == Built(a, "playwright", ack, p, planned)
    IN  /\ sane /\ built.accepted
        /\ \A g \in a.testdata : g.specs \subseteq Specs(built.ran)

-----------------------------------------------------------------------------
(* The steps *)

Init ==
    /\ changed = {} /\ adapter \in Adapters /\ acknowledged = FALSE
    /\ plan = NoPlan /\ ready = {} /\ batch = NoBatch

(* What was built and checked speaks of what was there.                    *)
Forget == ready' = {} /\ batch' = NoBatch

ProductChanges(f) ==
    /\ f \notin changed /\ changed' = changed \cup {f}
    /\ UNCHANGED <<adapter, acknowledged, plan, ready, batch>>

EditAdapter(a) ==
    /\ a # adapter /\ adapter' = a /\ Forget
    /\ UNCHANGED <<changed, acknowledged, plan>>

Acknowledge ==
    /\ acknowledged' = ~acknowledged /\ Forget
    /\ UNCHANGED <<changed, adapter, plan>>

MakePlan ==
    /\ plan' = TestPlan(changed, adapter) /\ Forget
    /\ UNCHANGED <<changed, adapter, acknowledged>>

MakeSeed ==
    /\ changed = {}
    /\ plan' = SeedPlan(adapter, plan) /\ Forget
    /\ UNCHANGED <<changed, adapter, acknowledged>>

HttpPreflight(planned, sane) ==
    /\ HttpReady(adapter, acknowledged, plan, planned, sane)
    /\ ready' = {<<"http", planned>>, <<"l1-fuzz", planned>>}
    /\ UNCHANGED <<changed, adapter, acknowledged, plan, batch>>

PlaywrightPreflight(planned, sane) ==
    /\ PlaywrightReady(adapter, acknowledged, plan, planned, sane)
    /\ ready' = {<<"playwright", planned>>}
    /\ UNCHANGED <<changed, adapter, acknowledged, plan, batch>>

Build(c, planned) ==
    /\ batch' = Built(adapter, c, acknowledged, plan, planned)
    /\ UNCHANGED <<changed, adapter, acknowledged, plan, ready>>

Next ==
    \/ \E f \in Files : ProductChanges(f)
    \/ \E a \in Adapters : EditAdapter(a)
    \/ Acknowledge \/ MakePlan \/ MakeSeed
    \/ \E planned, sane \in BOOLEAN :
           HttpPreflight(planned, sane) \/ PlaywrightPreflight(planned, sane)
    \/ \E c \in Channels, planned \in BOOLEAN : Build(c, planned)

Spec == Init /\ [][Next]_vars

-----------------------------------------------------------------------------
(* Properties *)

(* The places of the plan's targets in their lists.                        *)
TargetsPlaced == \A c \in Channels : \A t \in Targets(plan, c) : t.at \in Nat

(* The files, and what was built from them.                                *)
TypeOK ==
    /\ changed \subseteq Files /\ adapter \in Adapters /\ acknowledged \in BOOLEAN
    /\ plan.made \in BOOLEAN /\ TargetsPlaced
    /\ ready \subseteq Channels \X BOOLEAN
    /\ batch # NoBatch => batch.channel \in Channels /\ batch.planned \in BOOLEAN

Unambiguous(a, c) ==
    \A i, j \in DOMAIN Items(a, c) :
        Identity(c, i, Items(a, c)[i]) = Identity(c, j, Items(a, c)[j]) => i = j

(* A batch that is built with the plan runs all its level asks for and     *)
(* nothing else, also when the adapter was edited behind the plan: every   *)
(* target's entry is judged, and every scenario has a target.  (Two items  *)
(* of one identity are taken for one, which Unambiguous excludes.)         *)
RunsThePlan ==
    batch # NoBatch /\ batch.planned /\ batch.accepted
        /\ Unambiguous(adapter, batch.channel) =>
        /\ batch.ran # {}
        /\ \A t \in Targets(plan, batch.channel) :
               \E s \in batch.ran : t.entry \in {NoName, s.entry}
        /\ \A s \in batch.ran :
               \E t \in Targets(plan, batch.channel) : Matches(batch.channel, s, t)

(* What a change selects, without the reasons.                             *)
Chosen(files, a) ==
    {<<"L1", t.id, t.path>> : t \in MustRunL1(files, a)}
        \cup {<<"L2", t.spec, t.entry>> : t \in MustRunL2(files, a)}
        \cup {<<"L3", t.id, t.entry>> : t \in MustRunL3(files, a)}

(* One more changed file takes nothing from the plan, although a case is   *)
(* taken for the first endpoint only and a spec for its first link.        *)
MoreChangesMoreTargets ==
    [][changed' # changed => Chosen(changed, adapter) \subseteq Chosen(changed', adapter)]_changed

(* What a preflight found ready is not refused when it is built: the two   *)
(* look at the same plan, adapter and gate.                                *)
ReadyIsAccepted ==
    batch # NoBatch /\ <<batch.channel, batch.planned>> \in ready => batch.accepted

(* What the last batch and the last preflight say is what they would say   *)
(* again: every change of what they were built from has made them void.    *)
BatchIsCurrent ==
    batch # NoBatch =>
        batch = Built(adapter, batch.channel, acknowledged, plan, batch.planned)

ReadyIsCurrent ==
    \A r \in ready : Built(adapter, r[1], acknowledged, plan, r[2]).accepted

IInv == TypeOK /\ BatchIsCurrent /\ ReadyIsCurrent

=============================================================================
