------------------------------- MODULE Probes -------------------------------
(***************************************************************************)
(* The deterministic probe executors (engine/probes.py): five ways to read *)
(* one source file, each deciding one premise by the first top-level       *)
(* definition that fits, and failing closed on everything else.            *)
(*                                                                         *)
(* A file is the sequence of its top-level definitions; a line is the      *)
(* position <<definition, line below its header>>, and -1 is what stands    *)
(* between the definition before and the header: comments, imports.  Of    *)
(* the text of a line we keep the names it has in it, of an annotation and *)
(* a value what the executors tell apart.                                  *)
(***************************************************************************)
EXTENDS Gate, Integers

CONSTANTS Names,       \* identifiers that occur in the file or in a probe
          Values       \* what str() makes of the values of a mapping

(* A value of a mapping: a text, another literal, or an expression, of      *)
(* which ast.literal_eval raises.  9 and "9" have one str().                *)
Literals == [kind : {"text", "other", "computed"}, str : Values]

Quoted(value) == [kind |-> "text", str |-> value]

Annotations == {"list_of", "other_collection", "plain"}

(* <<k, n>>: line k has the name n in it, because it defines, calls or      *)
(* mentions n or a name that n is a part of.                                *)
Texts == SUBSET ((Nat \cup {-1}) \X Names)

(* outcome is what pytest makes of a function: it exits with 0 (also when   *)
(* it skips the test), with another status, or not within 30 seconds.  A    *)
(* header has the name it defines in it.                                    *)
Definitions ==
  {d \in [kind : {"mapping"}, name : Names, values : Seq(Literals),
          text : Texts]
           \cup
         [kind : {"class"}, name : Names,
          fields : Seq([name : Names, annotation : Annotations]),
          text : Texts]
           \cup
         [kind : {"function"}, name : Names, async : BOOLEAN, params : Seq(Names),
          calls : Seq(SUBSET Names),               \* the calls on each line
          outcome : {"passes", "fails", "hangs"},
          text : Texts] :
     <<0, d.name>> \in d.text}

(* Not readable: missing, outside the workspace, or not parseable.         *)
Files == [readable : BOOLEAN, body : Seq(Definitions)]

-----------------------------------------------------------------------------
(* What an executor answers.                                               *)

Unknown == [verdict |-> "unknown", evidence |-> {}]

Decided(holds, evidence) ==
  [verdict |-> IF holds THEN "verified" ELSE "contradicted",
   evidence |-> evidence]

At(part, line) == [part |-> part, line |-> line]

FirstOf(positions) ==
  CHOOSE i \in positions : \A j \in positions : i <= j

LastOf(positions) ==
  CHOOSE i \in positions : \A j \in positions : j <= i

(* The top-level definitions of a name.                                    *)
Defining(body, kind, name) ==
  {i \in DOMAIN body : body[i].kind = kind /\ body[i].name = name}

LinesWith(definition, name) ==
  {entry[1] : entry \in {e \in definition.text : e[2] = name}}

(* The params an executor reads with [..]; a missing one is a KeyError.    *)
RequiredParams(kind) ==
  CASE kind = "mapping_all_equal"  -> {"symbol", "expected_value"}
    [] kind = "field_shape"        -> {"class", "field", "expected_shape"}
    [] kind = "pytest_node"        -> {"node"}
    [] kind = "ast_order"          -> {"function", "before", "after"}
    [] kind = "function_signature" -> {"function"}

-----------------------------------------------------------------------------
(* The executors.                                                          *)

(* Variant: one matching value is enough.                                  *)
MappingSomeEqual(body, spec) ==
  LET hits == Defining(body, "mapping", spec.symbol)
      values == body[FirstOf(hits)].values
  IN IF hits = {} \/ \E k \in DOMAIN values : values[k].kind = "computed"
     THEN Unknown
     ELSE Decided(\E k \in DOMAIN values : values[k].str = spec.expected_value,
                  {At("", <<FirstOf(hits), 0>>)})

MappingAllEqual(body, spec) ==
  LET hits == Defining(body, "mapping", spec.symbol)
      values == body[FirstOf(hits)].values
  IN IF hits = {} \/ \E k \in DOMAIN values : values[k].kind = "computed"
     THEN Unknown
     ELSE Decided(/\ values # << >>
                  /\ \A k \in DOMAIN values : values[k].str = spec.expected_value,
                  {At("", <<FirstOf(hits), 0>>)})

FieldsNamed(class, name) ==
  {j \in DOMAIN class.fields : class.fields[j].name = name}

(* Variant: the line of the class is cited, not the one of the field.       *)
FieldShapeAtClass(body, spec) ==
  LET hits == {i \in Defining(body, "class", spec.class) :
                 FieldsNamed(body[i], spec.field) # {}}
      class == body[FirstOf(hits)]
      j == FirstOf(FieldsNamed(class, spec.field))
      shape == IF class.fields[j].annotation = "list_of" THEN "list" ELSE "scalar"
  IN IF hits = {} THEN Unknown
     ELSE Decided(shape = spec.expected_shape, {At("", <<FirstOf(hits), 0>>)})

(* Only the spelling list[...] counts as a list.                           *)
FieldShape(body, spec) ==
  LET hits == {i \in Defining(body, "class", spec.class) :
                 FieldsNamed(body[i], spec.field) # {}}
      class == body[FirstOf(hits)]
      j == FirstOf(FieldsNamed(class, spec.field))
      shape == IF class.fields[j].annotation = "list_of" THEN "list" ELSE "scalar"
  IN IF hits = {} THEN Unknown
     ELSE Decided(shape = spec.expected_shape, {At("", <<FirstOf(hits), j>>)})

(* pytest imports the file, so it runs the last definition of the name; a   *)
(* hanging test is a TimeoutExpired, every other non-zero exit contradicts. *)
(* The line cited is the first of the file that has the test's name in it;  *)
(* there is one, because the test has a header.                             *)
PytestNode(body, spec) ==
  LET hits == Defining(body, "function", spec.node)
      bound == body[LastOf({i \in DOMAIN body : body[i].name = spec.node})]
      passes == bound.kind = "function" /\ bound.outcome = "passes"
      hangs == bound.kind = "function" /\ bound.outcome = "hangs"
      first == FirstOf({i \in DOMAIN body : LinesWith(body[i], spec.node) # {}})
      line == FirstOf(LinesWith(body[first], spec.node))
  IN IF hits = {} \/ hangs THEN Unknown
     ELSE Decided(passes, {At("", <<first, line>>)})

CallLines(function, name) ==
  {k \in DOMAIN function.calls : name \in function.calls[k]}

(* The first line that calls before against the first that calls after.    *)
AstOrder(body, spec) ==
  LET hits == {i \in Defining(body, "function", spec.function) :
                 /\ ~ body[i].async
                 /\ CallLines(body[i], spec.before) # {}
                 /\ CallLines(body[i], spec.after) # {}}
      i == FirstOf(hits)
      before == FirstOf(CallLines(body[i], spec.before))
      after == FirstOf(CallLines(body[i], spec.after))
  IN IF hits = {} THEN Unknown
     ELSE Decided(before < after, {At("A", <<i, before>>), At("B", <<i, after>>)})

ParamOr(spec, param, default) ==
  IF param \in DOMAIN spec THEN spec[param] ELSE default

(* Variant: mode is not looked at.                                         *)
FunctionSignatureExact(body, spec) ==
  LET hits == Defining(body, "function", spec.function) IN
  IF hits = {} THEN Unknown
  ELSE Decided(body[FirstOf(hits)].params = ParamOr(spec, "expected_params", << >>),
               {At("", <<FirstOf(hits), 0>>)})

FunctionSignature(body, spec) ==
  LET hits == Defining(body, "function", spec.function)
      actual == body[FirstOf(hits)].params
      expected == ParamOr(spec, "expected_params", << >>)
      accepted == IF ParamOr(spec, "mode", "subset") = "exact"
                  THEN actual = expected
                  ELSE \A k \in DOMAIN expected :
                         \E n \in DOMAIN actual : actual[n] = expected[k]
  IN IF hits = {} THEN Unknown
     ELSE Decided(accepted, {At("", <<FirstOf(hits), 0>>)})

Execute(body, spec) ==
  CASE spec.kind = "mapping_all_equal"  -> MappingAllEqual(body, spec)
    [] spec.kind = "field_shape"        -> FieldShape(body, spec)
    [] spec.kind = "pytest_node"        -> PytestNode(body, spec)
    [] spec.kind = "ast_order"          -> AstOrder(body, spec)
    [] spec.kind = "function_signature" -> FunctionSignature(body, spec)

(* The result as the pipeline sees it: evidence by id.                     *)
Report(spec, answer) ==
  [probe_id      |-> spec.id,
   assumption_id |-> spec.assumption_id,
   verdict       |-> answer.verdict,
   evidence      |-> {[probe |-> spec.id, part |-> e.part] : e \in answer.evidence}]

(* What makes run_probe raise: a file that cannot be read, a param that is  *)
(* not there, a computed value in the mapping, a test that does not end.    *)
Raises(file, spec) ==
  \/ ~ file.readable
  \/ ~ (RequiredParams(spec.kind) \subseteq DOMAIN spec)
  \/ /\ spec.kind = "mapping_all_equal"
     /\ LET hits == Defining(file.body, "mapping", spec.symbol)
            values == file.body[FirstOf(hits)].values
        IN hits # {} /\ \E k \in DOMAIN values : values[k].kind = "computed"
  \/ /\ spec.kind = "pytest_node"
     /\ LET named == {i \in DOMAIN file.body : file.body[i].name = spec.node}
            bound == file.body[LastOf(named)]
        IN /\ Defining(file.body, "function", spec.node) # {}
           /\ bound.kind = "function" /\ bound.outcome = "hangs"

(* run_probe_fail_closed: whatever raises is an unknown without evidence.  *)
RunProbe(file, spec) ==
  IF file.readable /\ RequiredParams(spec.kind) \subseteq DOMAIN spec
  THEN Execute(file.body, spec)
  ELSE Unknown

-----------------------------------------------------------------------------
(* The same premises read off the program Python would build from the file, *)
(* where the last definition of a name counts.                              *)

Bound(body, kind, name) ==
  LET all == {i \in DOMAIN body : body[i].name = name} IN
  {body[i] : i \in {k \in all : body[k].kind = kind /\ \A j \in all : j <= k}}

Holds(body, spec) ==
  CASE spec.kind = "mapping_all_equal" ->
         \E m \in Bound(body, "mapping", spec.symbol) :
           {m.values[k].str : k \in DOMAIN m.values} = {spec.expected_value}
    [] spec.kind = "field_shape" ->
         \E c \in Bound(body, "class", spec.class) :
           \E j \in DOMAIN c.fields :
             /\ c.fields[j].name = spec.field
             /\ spec.expected_shape =
                  IF c.fields[j].annotation = "plain" THEN "scalar" ELSE "list"
    [] spec.kind = "pytest_node" ->
         \E f \in Bound(body, "function", spec.node) : f.outcome = "passes"
    [] spec.kind = "ast_order" ->
         \E f \in Bound(body, "function", spec.function) :
           \E k \in DOMAIN f.calls :
             /\ spec.before \in f.calls[k]
             /\ \A n \in 1..k : spec.after \notin f.calls[n]
    [] spec.kind = "function_signature" ->
         \E f \in Bound(body, "function", spec.function) :
           LET expected == ParamOr(spec, "expected_params", << >>) IN
           /\ {expected[k] : k \in DOMAIN expected}
                \subseteq {f.params[k] : k \in DOMAIN f.params}
           /\ ParamOr(spec, "mode", "subset") = "exact" => f.params = expected
=============================================================================
