------------------------------ MODULE Oracles -------------------------------
(***************************************************************************)
(* The oracles: what one observation, or several, say of the product.      *)
(* L1 sees hard failures, L2 compares a state with its contract, L3        *)
(* compares runs with each other.  A value is its kind and what the        *)
(* oracles look at: a truth value, a number, the length of a list, the     *)
(* keys of a mapping, whether a text is empty, short or long, and what     *)
(* else tells it from others, apart by whether the fingerprint keeps it.   *)
(* A path of nested fields is one field, by the name that is written.      *)
(***************************************************************************)
EXTENDS Naturals, Sequences, FiniteSets, Functions, SequencesExt

CONSTANTS
    Fields,         \* the fields of observed states
    TextFields,     \* those with a name of TEXT_STATE_KEYS
    Stripped(_),    \* a written name without the blanks at its ends
    NoField,
    NoMoment        \* no sampling method is declared, or reported

ASSUME OracleAssumption ==
    /\ TextFields \subseteq Fields /\ NoField \notin Fields
    /\ \A x \in TextFields : Stripped(x) \in TextFields

-----------------------------------------------------------------------------
(* Values *)

(* kept is what a list or a mapping holds, or which short text this is; words *)
(* is what fingerprints drop: the wording of another text, or of texts inside. *)
Value(kind, n, keys, kept, words) ==
    [kind |-> kind, n |-> n, keys |-> keys, kept |-> kept, words |-> words]

Plain(kind, n)      == Value(kind, n, {}, {}, {})
Null                == Plain("null", 0)
Bool(b)             == Plain("bool", IF b THEN 1 ELSE 0)
Num(n)              == Plain("num", n)
Empty               == Plain("text", 0)
Short(which)        == Value("text", 1, {}, which, {})      \* and plain
Wording(words)      == Value("text", 2, {}, {}, words)      \* any other text
List(n, kept, words)  == Value("list", n, {}, kept, words)
Map(ks, kept, words)  == Value("map", Cardinality(ks), ks, kept, words)
Name(k)             == Value("text", 1, {k}, {}, {})        \* the text that names a key

Scalar(v) == v.kind \in {"bool", "num"}

IsTrue(v) == v.kind = "bool" /\ v.n = 1

(* Python's ==, for which True is 1 and False is 0: whole values, with all *)
(* that a list or a mapping holds.                                         *)
Same(v, w) == v = w \/ (Scalar(v) /\ Scalar(w) /\ v.n = w.n)

Present(v) ==
    CASE v.kind = "null" -> FALSE
      [] v.kind \in {"text", "list", "map"} -> v.n > 0
      [] OTHER -> TRUE

(* A truth value is no number here, and a text has no length. *)
Countable(v) == v.kind \in {"num", "list", "map"}

Unworded(v) == [kind |-> v.kind, n |-> v.n, keys |-> v.keys, kept |-> v.kept]

(* What the fingerprint keeps of a value (_shape): a short plain text, the  *)
(* type of any other; lists here are too short to be cut off.              *)
Shape(v) == IF v.kind = "text" /\ v.n # 1 THEN [kind |-> "text"] ELSE Unworded(v)

-----------------------------------------------------------------------------
(* L1: hard failures *)

NoFailure == "none"

(* evaluate_l1: the first of four.  0 stands for no status and for a good  *)
(* exit.                                                                   *)
HardFailure(x) ==
    CASE x.timed_out -> "hang_timeout"
      [] ~ x.timed_out /\ x.crash_text -> "process_crash"
      [] ~ x.timed_out /\ ~ x.crash_text /\ x.exit_code # 0 -> "nonzero_exit"
      [] ~ x.timed_out /\ ~ x.crash_text /\ x.exit_code = 0 /\ x.http_status \in 500 .. 599
            -> "server_5xx"
      [] OTHER -> NoFailure

(* L1FuzzExecutor: how an HTTP probe ended, and what the oracle is told.   *)
ProbeEnds == {"unknown case", "refused", "timeout", "answered"}

Told(end, status, crashes) ==
    [available |-> end \in {"timeout", "answered"},
     timed_out |-> end = "timeout",
     crash_text |-> end = "answered" /\ crashes,
     exit_code |-> 0,
     http_status |-> IF end = "answered" THEN status ELSE 0]

-----------------------------------------------------------------------------
(* L2: a contract, [terminal, when, registered, check], and a state, a      *)
(* function from the fields that were observed; a check is [op, fields,    *)
(* value, from] with no values, or one, in "value".                        *)

Pass == [status |-> "pass", class |-> "none"]
Fail == [status |-> "fail", class |-> "none"]
Inconclusive(class) == [status |-> "inconclusive", class |-> class]

MACHINE_CHECK_OPS == {"all_true", "any_true", "contains_key", "count_ge", "eq", "present"}

OneField(op) == op \notin {"all_true", "any_true"}

TextFree_NotFrom(c) ==      \* mutant: value_from may be a text
    \A x \in c.fields : Stripped(x) \notin TextFields

(* The fields are stripped before they are looked at, value_from is not.   *)
TextFree(c) ==
    /\ \A x \in c.fields : Stripped(x) \notin TextFields
    /\ c.from \notin TextFields

(* validate_machine_check *)
ValidCheck(c) ==
    /\ c.op \in MACHINE_CHECK_OPS
    /\ c.fields # {} /\ (OneField(c.op) => Cardinality(c.fields) = 1)
    /\ TextFree(c)
    /\ c.op = "eq" => c.value # {} \/ c.from # NoField
    /\ c.op = "contains_key" => c.value # {}
    /\ c.op = "count_ge" => \E v \in c.value : v.kind = "num"

(* _resolve_expected: the value, or else what another field shows, whose    *)
(* name is stripped now.  (The fields of a check are read as written.)      *)
ExpectedOf(c, state) ==
    IF c.value # {} THEN c.value
    ELSE {state[x] : x \in {Stripped(c.from)} \cap DOMAIN state}

Verdict(holds) == IF holds THEN Pass ELSE Fail

Measured_AnyTrueSkips(c, state) ==  \* mutant: one observed field is enough
    /\ IF c.op = "any_true" THEN c.fields \cap DOMAIN state # {}
                            ELSE c.fields \subseteq DOMAIN state
    /\ c.op = "eq" => ExpectedOf(c, state) # {}
    /\ c.op = "contains_key" => \A f \in c.fields : state[f].kind = "map"
    /\ c.op = "count_ge" => \A f \in c.fields : Countable(state[f])

(* Everything the check needs was observed, and is of a kind it can judge. *)
Measured(c, state) ==
    /\ c.fields \subseteq DOMAIN state
    /\ c.op = "eq" => ExpectedOf(c, state) # {}
    /\ c.op = "contains_key" => \A f \in c.fields : state[f].kind = "map"
    /\ c.op = "count_ge" => \A f \in c.fields : Countable(state[f])

(* What _run_machine_check asks of a measured state. *)
Holds(c, state) ==
    LET True(f) == f \in DOMAIN state /\ IsTrue(state[f])
    IN  CASE c.op = "all_true" -> \A f \in c.fields : True(f)
          [] c.op = "any_true" -> \E f \in c.fields : True(f)
          [] c.op = "present" -> \A f \in c.fields : Present(state[f])
          [] c.op = "eq" ->
               \A f \in c.fields, v \in ExpectedOf(c, state) : Same(state[f], v)
          [] c.op = "contains_key" ->
               \A f \in c.fields, v \in c.value : v.keys \subseteq state[f].keys
          [] c.op = "count_ge" -> \A f \in c.fields, v \in c.value : state[f].n >= v.n

MomentFits(entry, at) == entry.when = NoMoment \/ at = entry.when

(* evaluate_l2_oracle *)
EvaluateL2(entry, state, at) ==
    IF ~ entry.terminal THEN Inconclusive("contract")
    ELSE IF ~ MomentFits(entry, at) THEN Inconclusive("observation")
    ELSE IF ~ entry.registered \/ ~ ValidCheck(entry.check) THEN Inconclusive("contract")
    ELSE IF ~ Measured(entry.check, state) THEN Inconclusive("observation")
    ELSE Verdict(Holds(entry.check, state))

(* What the fingerprint of an L2 failure keeps of the state.               *)
ActualShape(c, state) ==
    CASE c.op = "contains_key" -> [f \in c.fields |-> state[f].keys]
      [] c.op = "count_ge" -> [f \in c.fields |-> state[f].n]
      [] OTHER -> [f \in c.fields |-> Shape(state[f])]

ExpectedShape(c, state) ==
    IF c.op = "eq" THEN {Shape(v) : v \in ExpectedOf(c, state)} ELSE {}

-----------------------------------------------------------------------------
(* L3: runs compared with each other.  A terminal state is a list or a      *)
(* mapping of numbers, or something that can only be equal.                *)

(* evaluate_differential: the index of the first run that differs from the *)
(* first one, 0 if there is none.                                          *)
Diverged_LastOnly(states) ==    \* mutant: compares the first with the last
    IF Last(states) # Head(states) THEN Len(states) ELSE 0

Diverged(states) ==
    LET off == {i \in DOMAIN states : states[i] # states[1]}
    IN  IF off = {} THEN 0 ELSE CHOOSE i \in off : \A j \in off : i <= j

EvaluateDifferential(states) ==
    IF Len(states) < 2 THEN Inconclusive("opaque") ELSE Verdict(Diverged(states) = 0)

(* _relation_holds; what is not one of these cannot be judged. *)
Relations == {"equal", "restored", "subset"}

Judgeable(relation, base, transformed) ==
    \/ relation \in {"equal", "restored"}
    \/ relation = "subset" /\ base.kind = transformed.kind /\ base.kind \in {"list", "map"}

RelationHolds(relation, base, transformed) ==
    IF relation # "subset" THEN base = transformed
    ELSE IF base.kind = "list" THEN Range(transformed.items) \subseteq Range(base.items)
    ELSE \A k \in DOMAIN transformed.items :
           k \in DOMAIN base.items /\ base.items[k] = transformed.items[k]

EvaluateMetamorphic(relation, base, transformed) ==
    IF ~ Judgeable(relation, base, transformed) THEN Inconclusive("opaque")
    ELSE Verdict(RelationHolds(relation, base, transformed))

(* evaluate_sibling_consistency: which siblings rejected the input.  Half   *)
(* of them is no majority: then those that rejected it are the deviants.   *)
Rejecting(rejected) == {i \in DOMAIN rejected : rejected[i]}

MajorityRejects_OneIsEnough(rejected) ==    \* mutant
    Rejecting(rejected) # {}

MajorityRejects(rejected) ==
    2 * Cardinality(Rejecting(rejected)) > Len(rejected)

Deviants(rejected) ==
    IF MajorityRejects(rejected) THEN DOMAIN rejected \ Rejecting(rejected)
    ELSE Rejecting(rejected)

EvaluateSiblings(rejected) ==
    IF Len(rejected) < 3 THEN Inconclusive("opaque") ELSE Verdict(Deviants(rejected) = {})

=============================================================================
