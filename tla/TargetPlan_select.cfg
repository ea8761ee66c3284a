SPECIFICATION Spec
CONSTANTS
    server = server  ws = ws  agent = agent  fileA = fileA  fileB = fileB
    ea = ea  eb = eb  ec = ec
    specA = specA  specB = specB  h1 = h1  h2 = h2  c1 = c1  c2 = c2  x1 = x1  mode = mode
    api = api  sessions = sessions  chat = chat  GET = GET  POST = POST
    Param = Param  NoName = NoName
    Files = {server, ws, agent, fileB}
    Entries = {ea, eb, ec}
    LastName <- MCLastName
    CodeMap <- MCCodeMap
    Adapters <- MCAdapters
INVARIANTS RunsThePlan ReadyIsAccepted
PROPERTIES MoreChangesMoreTargets
