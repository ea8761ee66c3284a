---------------------------- MODULE MCTargetPlan ----------------------------
(***************************************************************************)
(* A product of three modules and two spec files, and three states of its  *)
(* adapter: as the plan finds it, edited, and with names used twice.       *)
(***************************************************************************)
EXTENDS TargetPlan, TLC

CONSTANTS server, ws, agent, fileA, fileB,          \* files
          ea, eb, ec,                               \* entries
          specA, specB, h1, h2, c1, c2, x1, mode,   \* names
          api, sessions, chat, GET, POST

MCLastName(file) == CASE file = fileA -> specA [] file = fileB -> specB [] OTHER -> file

Endpoint(kind, method, route, file, command) ==
    [kind |-> kind, method |-> method, route |-> route, file |-> file, command |-> command]

Link(kind, from, file, entry) == [kind |-> kind, from |-> from, file |-> file, entry |-> entry]

(* One route under two methods and with a parameter; a command; a spec     *)
(* that only a link knows; an entry that hangs on a file alone.            *)
MCCodeMap ==
    [endpoints |-> << Endpoint("http", GET, <<api, sessions>>, server, NoName),
                      Endpoint("http", POST, <<api, sessions>>, ws, NoName),
                      Endpoint("http", POST, <<api, Param>>, agent, NoName),
                      Endpoint("ws", NoName, <<api, chat>>, ws, NoName),
                      Endpoint("ws_command", NoName, <<>>, ws, mode) >>,
     links     |-> << Link("ws_command", mode, ws, ea),
                      Link("playwright_spec", NoName, fileB, eb),
                      Link("symbol", NoName, ws, eb),
                      Link("doc", NoName, server, ec) >>]

Section(items) == [configured |-> TRUE, items |-> items]
Listed(spec, file, entry) == [spec |-> spec, file |-> file, entry |-> entry, sound |-> TRUE]
Http(id, entry) == [id |-> id, steps |-> "steps", entry |-> entry, sound |-> TRUE]
External(id, cmd, entry) == [id |-> id, cmd |-> cmd, entry |-> entry, sound |-> TRUE]
Case(id, method, path, entry) ==
    [id |-> id, method |-> method, path |-> path, entry |-> entry, sound |-> TRUE]

Planned ==
    [gate |-> TRUE, declares |-> FALSE, catalog |-> {ec}, testdata |-> {},
     section |->
        [playwright |-> Section(<< Listed(specA, fileA, ea), Listed(specB, fileB, eb) >>),
         http       |-> Section(<< Http(h1, ea), Http(h2, eb) >>),
         external   |-> Section(<< External(x1, specB, eb) >>)]
        @@ ("l1-fuzz" :> Section(<< Case(c1, POST, <<api, sessions, c1>>, ea),
                                    Case(c2, GET, <<api, sessions>>, eb),
                                    Case(<<api, sessions>>, NoName, <<api, chat>>, eb) >>))]

Edited ==
    [Planned EXCEPT
        !.gate = FALSE, !.declares = TRUE,
        !.testdata = {[entry |-> NoName, specs |-> {specA}]},
        !.section["playwright"].items[2].entry = ea,
        !.section["http"].items[2].id = NoName,
        !.section["external"].configured = FALSE,
        !.section["l1-fuzz"].items[2].entry = ec]

Doubled ==
    [Planned EXCEPT
        !.gate = FALSE,
        !.section["playwright"].items[2] = Listed(specA, fileA, eb),
        !.section["http"].items[2].id = h1,
        !.section["external"].items[1].cmd = NoName,
        !.section["l1-fuzz"].items[1].sound = FALSE]

MCAdapters == {Planned, Edited, Doubled}
=============================================================================
