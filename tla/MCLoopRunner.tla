---------------------------- MODULE MCLoopRunner ----------------------------
(* Loops for TLC: two kinds of blocker; a loop of two rounds, and one that *)
(* only its duration ends; and files that are sound but for one thing.     *)
EXTENDS GatedLoop

CONSTANTS da, db

TwoDetails == {da, db}

MixedLoops == {[max_rounds |-> 2, stop_on_not_ready |-> TRUE],
               [max_rounds |-> NoLimit, stop_on_not_ready |-> FALSE]}

-----------------------------------------------------------------------------
Case(entry, level, status, triage, commit) ==
    [entry |-> entry, level |-> level, status |-> status, triage |-> triage, commit |-> commit]

(* One bug of this commit, and one of each that does not count.            *)
Cases ==
    {Case("e1", "L2", "reported", "pending", "new")}
    \cup {Case("e2", "L2", status, "pending", "new") : status \in {"vetoed", "observing"}}
    \cup {Case("e2", "L2", "reported", "false-positive", "new"),
          Case("e2", "L2", "reported", "confirmed", "old"),
          Case("e2", "L4", "reported", "pending", "new")}

(* A flow that must be known in full, and one that may be incomplete.      *)
Domain(id, required, oracles, blocking) ==
    [id |-> id, required |-> required, entries |-> Cardinality(required), links |-> 1,
     kinds |-> {"symbol"}, oracles |-> oracles, evidence |-> {"gate"}, anchors |-> {"gate"},
     blocking |-> blocking]

Checkout == Domain("checkout", {"e1"}, {"L2", "L3"}, TRUE)
Search   == Domain("search", {"e2"}, {"L2"}, FALSE)

Profile(domains) == {[commit |-> "new", domains |-> domains]}

Plans == {{{"L2", "gap"}}, {{"gap"}}, {{}}, {}}

Sound ==
    [head |-> "new",
     semantic |-> {[commit |-> "new", entries |-> {"e1", "e2"}, checked |-> {}]},
     code |-> {[commit |-> "new", links |-> {[kind |-> "symbol", entry |-> "e1"],
                                             [kind |-> "doc", entry |-> "e2"]}]},
     adapter |-> [relations |-> {"e1"}, probes |-> {}, overrides |-> <<>>],
     cases |-> Cases, profile |-> Profile({Checkout, Search}),
     plan |-> {{"L2", "gap"}}, unreadable |-> {}]

Commits == {"new", "old", NoCommit}

MCFileSets ==
    {Sound}
    \cup {[Sound EXCEPT !.head = h] : h \in Commits}
    \cup {[Sound EXCEPT !.semantic = {[m EXCEPT !.commit = h] : m \in @}] : h \in Commits}
    \cup {[Sound EXCEPT !.code = {[m EXCEPT !.commit = h] : m \in @}] : h \in Commits}
    \cup {[Sound EXCEPT !.profile = {[m EXCEPT !.commit = h] : m \in @}] : h \in Commits}
    \cup {[Sound EXCEPT !.semantic = {}], [Sound EXCEPT !.code = {}],
          [Sound EXCEPT !.head = NoCommit, !.code = {}]}
    \cup {[Sound EXCEPT !.unreadable = {u}] : u \in {"plan", "other"}}
    \cup {[Sound EXCEPT !.plan = p] : p \in Plans}
    \cup {[Sound EXCEPT !.cases = {[c EXCEPT !.commit = "old"] : c \in @}],
          [Sound EXCEPT !.adapter.relations = {"e2"}],
          [Sound EXCEPT !.profile = Profile({[Checkout EXCEPT !.required = {"e1", "e3"}]})],
          [Sound EXCEPT !.profile = Profile({[Checkout EXCEPT !.required = {"e2"}]})],
          [Sound EXCEPT !.profile = Profile({[Checkout EXCEPT !.links = 2]})],
          [Sound EXCEPT !.profile = Profile({[Checkout EXCEPT !.kinds = {"doc"}]})],
          [Sound EXCEPT !.profile = Profile({[Search EXCEPT !.anchors = {}]})],
          [Sound EXCEPT !.profile = Profile({[Checkout EXCEPT !.oracles = {"L1"}]}),
                        !.adapter.probes = {"e1"}],
          [Sound EXCEPT !.adapter.relations = {},
                        !.adapter.overrides = [id \in {"checkout"} |-> {"L2"}]]}

(* All of them for the first call; the second finds sound or old ones.     *)
MCFilesOf(call) ==
    IF call = 1 THEN MCFileSets
    ELSE {Sound, [Sound EXCEPT !.semantic = {[m EXCEPT !.commit = "old"] : m \in @}]}
=============================================================================
