SPECIFICATION Spec
CONSTANTS
    f = f  g = g  note = note  spaced = spaced  at1 = at1  at2 = at2
    Fields = {f, g, note}
    TextFields = {note}
    Stripped <- MCStripped
    NoField = NoField
    NoMoment = NoMoment
    Scenarios <- MCScenarios
    ResultsOf <- MCResultsOf
\* A scenario is judged and the model stops.
CHECK_DEADLOCK FALSE
INVARIANTS SpecsBlameProduct SameRunReproduces MoreIsNoOther WordingOnlyByEq OrderFree DeviantsAreFew
