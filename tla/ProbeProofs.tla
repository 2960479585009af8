---------------------------- MODULE ProbeProofs -----------------------------
(***************************************************************************)
(* What every probe report looks like, whatever the file and the probe; and *)
(* what it says: its evidence is on the probed thing, and a decided verdict *)
(* is true of the program Python builds from the file, or, where the file   *)
(* defines a name more than once, of the definition it cites.  And that the *)
(* frozen suite is answered as it expects.                                  *)
(***************************************************************************)
EXTENDS ProbeSuite, GateProofs

(* An answer is one of two kinds: nothing found and nothing cited, or a     *)
(* decided verdict with the evidence of its kind.                           *)
AnswerOf(spec, found) ==
  \/ found = Unknown
  \/ /\ found.verdict \in {"verified", "contradicted"}
     /\ {e.part : e \in found.evidence} =
          IF spec.kind = "ast_order" THEN {"A", "B"} ELSE {""}

(* Each executor of the four one-line kinds cites one reference.            *)
LEMMA DecidedOnce ==
  ASSUME NEW holds, NEW line
  PROVE  LET found == Decided(holds, {At("", line)}) IN
         /\ found.verdict \in {"verified", "contradicted"}
         /\ {e.part : e \in found.evidence} = {""}
<1>1. At("", line).part = ""
  BY DEF At
<1>2. Decided(holds, {At("", line)}).evidence = {At("", line)}
  BY DEF Decided
<1>3. Decided(holds, {At("", line)}).verdict \in {"verified", "contradicted"}
  BY DEF Decided
<1>4. QED  BY <1>1, <1>2, <1>3

(* Every executor answers in one of the two ways.                           *)
LEMMA ExecutorsAnswer ==
  ASSUME NEW body, NEW spec, spec.kind \in ProbeKinds
  PROVE  AnswerOf(spec, Execute(body, spec))
<1>1. CASE spec.kind = "mapping_all_equal"
  <2>1. Execute(body, spec) = MappingAllEqual(body, spec)
    BY <1>1 DEF Execute
  <2>2. QED  BY <1>1, <2>1, DecidedOnce DEF AnswerOf, MappingAllEqual
<1>2. CASE spec.kind = "field_shape"
  <2>1. Execute(body, spec) = FieldShape(body, spec)
    BY <1>2 DEF Execute
  <2> DEFINE hits == {i \in Defining(body, "class", spec.class) :
                        FieldsNamed(body[i], spec.field) # {}}
             class == body[FirstOf(hits)]
             j == FirstOf(FieldsNamed(class, spec.field))
             shape == IF class.fields[j].annotation = "list_of"
                      THEN "list" ELSE "scalar"
             matches == shape = spec.expected_shape
             line == <<FirstOf(hits), j>>
  <2>2. FieldShape(body, spec) =
          IF hits = {} THEN Unknown ELSE Decided(matches, {At("", line)})
    BY DEF FieldShape
  <2> HIDE DEF hits, class, j, shape, matches, line
  <2>3. CASE hits = {}
    BY <2>1, <2>2, <2>3 DEF AnswerOf
  <2>4. CASE hits # {}
    <3>1. Execute(body, spec) = Decided(matches, {At("", line)})
      BY <2>1, <2>2, <2>4
    <3>2. QED  BY <1>2, <3>1, DecidedOnce DEF AnswerOf
  <2>5. QED  BY <2>3, <2>4
<1>3. CASE spec.kind = "pytest_node"
  <2>1. Execute(body, spec) = PytestNode(body, spec)
    BY <1>3 DEF Execute
  <2>2. QED  BY <1>3, <2>1, DecidedOnce DEF AnswerOf, PytestNode
<1>4. CASE spec.kind = "ast_order"
  <2>1. Execute(body, spec) = AstOrder(body, spec)
    BY <1>4 DEF Execute
  <2> DEFINE hits == {i \in Defining(body, "function", spec.function) :
                        /\ ~ body[i].async
                        /\ CallLines(body[i], spec.before) # {}
                        /\ CallLines(body[i], spec.after) # {}}
             i == FirstOf(hits)
             before == FirstOf(CallLines(body[i], spec.before))
             after == FirstOf(CallLines(body[i], spec.after))
  <2>2. AstOrder(body, spec) =
          IF hits = {} THEN Unknown
          ELSE Decided(before < after,
                       {At("A", <<i, before>>), At("B", <<i, after>>)})
    BY DEF AstOrder
  <2> HIDE DEF hits, i, before, after
  <2>3. CASE hits = {}
    BY <2>1, <2>2, <2>3 DEF AnswerOf
  <2>4. CASE hits # {}
    <3>1. Execute(body, spec) = Decided(before < after,
            {At("A", <<i, before>>), At("B", <<i, after>>)})
      BY <2>1, <2>2, <2>4
    <3>2. /\ Execute(body, spec).verdict \in {"verified", "contradicted"}
          /\ Execute(body, spec).evidence =
               {At("A", <<i, before>>), At("B", <<i, after>>)}
      BY <3>1 DEF Decided
    <3>3. {e.part : e \in Execute(body, spec).evidence} =
            {"A", "B"}
      BY <3>2 DEF At
    <3>4. QED  BY <1>4, <3>2, <3>3 DEF AnswerOf
  <2>5. QED  BY <2>3, <2>4
<1>5. CASE spec.kind = "function_signature"
  <2>1. Execute(body, spec) = FunctionSignature(body, spec)
    BY <1>5 DEF Execute
  <2> DEFINE hits == Defining(body, "function", spec.function)
             actual == body[FirstOf(hits)].params
             expected == ParamOr(spec, "expected_params", << >>)
             accepted == IF ParamOr(spec, "mode", "subset") = "exact"
                         THEN actual = expected
                         ELSE \A k \in DOMAIN expected :
                                \E n \in DOMAIN actual : actual[n] = expected[k]
  <2>2. FunctionSignature(body, spec) =
          IF hits = {} THEN Unknown
          ELSE Decided(accepted, {At("", <<FirstOf(hits), 0>>)})
    BY DEF FunctionSignature
  <2> HIDE DEF hits, actual, expected, accepted
  <2>3. QED  BY <1>5, <2>1, <2>2, DecidedOnce DEF AnswerOf
<1>6. QED  BY <1>1, <1>2, <1>3, <1>4, <1>5 DEF ProbeKinds

(* The report of every probe on every file is one that the pipeline model   *)
(* draws from (Gate!ResultOf): the evidence ids follow from the probe's id, *)
(* its kind and the verdict alone (probes.py:79-198).                       *)
THEOREM ReportIsResultOf ==
  ASSUME NEW file, NEW spec, spec.kind \in ProbeKinds
  PROVE  LET found == RunProbe(file, spec) IN
         /\ found.verdict \in Verdicts
         /\ Report(spec, found) = ResultOf(spec, found.verdict)
<1> DEFINE found == RunProbe(file, spec)
<1>1. AnswerOf(spec, found)
  BY ExecutorsAnswer DEF AnswerOf, RunProbe
<1>2. CASE found = Unknown
  BY <1>2 DEF Unknown, Verdicts, Report, ResultOf, EvidenceOf
<1>3. CASE found # Unknown
  <2> DEFINE parts == IF spec.kind = "ast_order" THEN {"A", "B"} ELSE {""}
  <2>1. /\ found.verdict \in {"verified", "contradicted"}
        /\ {e.part : e \in found.evidence} = parts
    BY <1>1, <1>3 DEF AnswerOf
  <2>2. {[probe |-> spec.id, part |-> e.part] : e \in found.evidence} =
          [probe : {spec.id}, part : parts]
    <3>1. \A e \in found.evidence : e.part \in parts
      BY <2>1
    <3>2. \A part \in parts : \E e \in found.evidence : e.part = part
      BY <2>1
    <3> HIDE DEF parts, found
    <3>3. ASSUME NEW x \in [probe : {spec.id}, part : parts]
          PROVE  x \in {[probe |-> spec.id, part |-> e.part] : e \in found.evidence}
      <4>1. PICK e \in found.evidence : e.part = x.part
        BY <3>2
      <4>2. x = [probe |-> spec.id, part |-> e.part]
        BY <4>1
      <4>3. QED  BY <4>2
    <3>4. ASSUME NEW e \in found.evidence
          PROVE  [probe |-> spec.id, part |-> e.part]
                   \in [probe : {spec.id}, part : parts]
      BY <3>1
    <3>5. QED  BY <3>3, <3>4
  <2>3. EvidenceOf(spec, found.verdict) = [probe : {spec.id}, part : parts]
    BY <2>1 DEF EvidenceOf
  <2>4. QED  BY <2>1, <2>2, <2>3 DEF Verdicts, Report, ResultOf
<1>4. QED  BY <1>2, <1>3

-----------------------------------------------------------------------------
(* What the executors say is true of the file.                              *)

(* The first position of a search that found some (probes.py:70-77).        *)
LEMMA FirstIsThere ==
  ASSUME NEW S, S \subseteq Nat, S # {}
  PROVE  FirstOf(S) \in S /\ \A j \in S : FirstOf(S) <= j
<1>1. \E i \in S : \A j \in S : i <= j
  BY LeastOf
<1>2. QED
  BY <1>1 DEF FirstOf

(* Positions in a file are numbers.                                         *)
LEMMA PositionsAreNumbers ==
  ASSUME NEW S, NEW body \in Seq(S), NEW kind, NEW name
  PROVE  Defining(body, kind, name) \subseteq Nat /\ DOMAIN body \subseteq Nat
BY DEF Defining

(* A search in a file of one definition finds it or nothing.                *)
LEMMA OneDefinition ==
  ASSUME NEW d, NEW kind, NEW name
  PROVE  /\ Defining(<<d>>, kind, name) = IF d.kind = kind /\ d.name = name THEN {1} ELSE {}
         /\ FirstOf({1}) = 1 /\ LastOf({1}) = 1
<1>1. DOMAIN <<d>> = {1} /\ <<d>>[1] = d
  OBVIOUS
<1>2. Defining(<<d>>, kind, name) = {i \in {1} : d.kind = kind /\ d.name = name}
  BY <1>1 DEF Defining
<1>3. FirstOf({1}) = 1 /\ LastOf({1}) = 1
  BY DEF FirstOf, LastOf
<1>4. QED
  BY <1>2, <1>3

NamesOnce(body) ==
  \A i, j \in DOMAIN body : body[i].name = body[j].name => i = j

FieldsOnce(body) ==
  \A i \in DOMAIN body : body[i].kind = "class" =>
    \A j, k \in DOMAIN body[i].fields :
      /\ body[i].fields[j].name = body[i].fields[k].name => j = k
      /\ body[i].fields[j].annotation # "other_collection"

(* Where names are defined once, the first definition is the last one, and  *)
(* the one Python binds (probes.py:70-77).                                  *)
LEMMA OnlyOne ==
  ASSUME NEW body \in Seq(Definitions), NamesOnce(body), NEW kind, NEW name,
         NEW i \in Defining(body, kind, name)
  PROVE  /\ \A S : S \subseteq Defining(body, kind, name) /\ S # {} => FirstOf(S) = i
         /\ LastOf({k \in DOMAIN body : body[k].name = name}) = i
         /\ Bound(body, kind, name) = {body[i]}
<1>1. Defining(body, kind, name) = {i} /\ i \in Nat
  BY DEF Defining, NamesOnce
<1>2. {k \in DOMAIN body : body[k].name = name} = {i} /\ body[i].kind = kind
  BY DEF Defining, NamesOnce
<1>3. FirstOf({i}) = i /\ LastOf({i}) = i
  BY <1>1 DEF FirstOf, LastOf
<1>4. \A S : S \subseteq Defining(body, kind, name) /\ S # {} => S = {i}
  BY <1>1
<1>5. Bound(body, kind, name) = {body[i]}
  <2>1. Bound(body, kind, name) =
          {body[m] : m \in {k \in {i} : body[k].kind = kind /\ \A j \in {i} : j <= k}}
    BY <1>2 DEF Bound
  <2>2. {k \in {i} : body[k].kind = kind /\ \A j \in {i} : j <= k} = {i}
    BY <1>1, <1>2
  <2>3. QED
    BY <2>1, <2>2
<1>6. QED
  BY <1>2, <1>3, <1>4, <1>5

(* A decided answer to a probe, and whether its premise holds.              *)
TrueOf(body, spec, found) ==
  found.verdict # "unknown" =>
    (found.verdict = "verified" <=> Holds(body, spec))

(* A sequence is empty when it has no positions.                            *)
LEMMA EmptyHasNoPosition ==
  ASSUME NEW S, NEW s \in Seq(S)
  PROVE  s # << >> <=> DOMAIN s # {}
<1>1. s # << >> => Len(s) \in Nat \ {0}
  OBVIOUS
<1>2. s # << >> => 1 \in DOMAIN s
  BY <1>1
<1>3. s = << >> => DOMAIN s = {}
  OBVIOUS
<1>4. QED
  BY <1>2, <1>3

(* An element of a sequence is one of its set.                              *)
LEMMA ElementOf ==
  ASSUME NEW S, NEW s \in Seq(S), NEW k \in DOMAIN s
  PROVE  s[k] \in S
OBVIOUS

(* What a definition of each kind holds.                                    *)
LEMMA KindsHold ==
  ASSUME NEW d \in Definitions
  PROVE  /\ d.kind = "mapping" => d.values \in Seq(Literals)
         /\ d.kind = "class" =>
              d.fields \in Seq([name : Names, annotation : Annotations])
         /\ d.kind = "function" =>
              /\ d.params \in Seq(Names)
              /\ d.calls \in Seq(SUBSET Names)
         /\ d.text \in Texts /\ <<0, d.name>> \in d.text
BY DEF Definitions

(* Every value of the mapping is the expected one, and there are values     *)
(* (probes.py:65-82).                                                       *)
LEMMA MappingIsTrue ==
  ASSUME NEW body \in Seq(Definitions), NamesOnce(body), NEW spec,
         spec.kind = "mapping_all_equal"
  PROVE  TrueOf(body, spec, MappingAllEqual(body, spec))
<1> DEFINE hits == Defining(body, "mapping", spec.symbol)
           values == body[FirstOf(hits)].values
           equal == /\ values # << >>
                    /\ \A k \in DOMAIN values : values[k].str = spec.expected_value
           evidence == {At("", <<FirstOf(hits), 0>>)}
<1>1. CASE MappingAllEqual(body, spec) = Unknown
  BY <1>1 DEF TrueOf, Unknown
<1>2. CASE MappingAllEqual(body, spec) # Unknown
  <2>1. /\ hits # {}
        /\ MappingAllEqual(body, spec) = Decided(equal, evidence)
    BY <1>2 DEF MappingAllEqual
  <2>2. PICK i \in hits : /\ FirstOf(hits) = i
                          /\ Bound(body, "mapping", spec.symbol) = {body[i]}
    <3>1. PICK i \in Defining(body, "mapping", spec.symbol) : TRUE
      BY <2>1
    <3>2. /\ \A S : S \subseteq hits /\ S # {} => FirstOf(S) = i
          /\ Bound(body, "mapping", spec.symbol) = {body[i]}
      BY ONLY NamesOnce(body), body \in Seq(Definitions), <3>1, OnlyOne
    <3>3. QED
      BY <2>1, <3>2
  <2>3. values \in Seq(Literals)
    <3>1. body[i] \in Definitions /\ body[i].kind = "mapping"
      BY <2>2, ElementOf DEF Defining
    <3>2. body[i].values \in Seq(Literals)
      BY <3>1, KindsHold
    <3>3. QED
      BY <2>2, <3>2
  <2>4. equal <=> {values[k].str : k \in DOMAIN values} = {spec.expected_value}
    <3>1. values # << >> <=> DOMAIN values # {}
      BY <2>3, EmptyHasNoPosition
    <3> HIDE DEF values
    <3>2. QED
      BY <3>1
  <2>5. Holds(body, spec) <=> {values[k].str : k \in DOMAIN values} = {spec.expected_value}
    BY <2>2 DEF Holds
  <2> HIDE DEF equal, values, evidence
  <2>6. equal \in BOOLEAN
    BY DEF equal
  <2>7. MappingAllEqual(body, spec).verdict = IF equal THEN "verified" ELSE "contradicted"
    BY <2>1, <2>6 DEF Decided
  <2>8. QED
    BY <2>4, <2>5, <2>7 DEF TrueOf
<1>3. QED
  BY <1>1, <1>2

(* The field is a list or a scalar as expected (probes.py:85-104).          *)
LEMMA ShapeIsTrue ==
  ASSUME NEW body \in Seq(Definitions), NamesOnce(body), FieldsOnce(body), NEW spec,
         spec.kind = "field_shape"
  PROVE  TrueOf(body, spec, FieldShape(body, spec))
<1> DEFINE hits == {i \in Defining(body, "class", spec.class) :
                      FieldsNamed(body[i], spec.field) # {}}
           class == body[FirstOf(hits)]
           j == FirstOf(FieldsNamed(class, spec.field))
           shape == IF class.fields[j].annotation = "list_of" THEN "list" ELSE "scalar"
           expected == shape = spec.expected_shape
           evidence == {At("", <<FirstOf(hits), j>>)}
<1>1. CASE FieldShape(body, spec) = Unknown
  BY <1>1 DEF TrueOf, Unknown
<1>2. CASE FieldShape(body, spec) # Unknown
  <2>1. /\ hits # {} /\ hits \subseteq Defining(body, "class", spec.class)
        /\ FieldShape(body, spec) = Decided(expected, evidence)
    BY <1>2 DEF FieldShape
  <2>2. PICK i \in hits : /\ FirstOf(hits) = i
                          /\ Bound(body, "class", spec.class) = {body[i]}
    <3> HIDE DEF hits
    <3>1. PICK i \in hits : i \in Defining(body, "class", spec.class)
      BY <2>1
    <3>2. FirstOf(hits) = i /\ Bound(body, "class", spec.class) = {body[i]}
      BY <2>1, <3>1, OnlyOne
    <3>3. QED
      BY <3>1, <3>2
  <2>3. /\ class = body[i] /\ i \in DOMAIN body /\ class.kind = "class"
        /\ class.fields \in Seq([name : Names, annotation : Annotations])
        /\ FieldsNamed(class, spec.field) # {}
    <3>1. /\ class = body[i] /\ i \in DOMAIN body /\ class.kind = "class"
          /\ FieldsNamed(class, spec.field) # {}
      BY <2>2 DEF Defining
    <3> HIDE DEF class, hits
    <3>2. class \in Definitions
      BY <3>1
    <3>3. QED
      BY <3>1, <3>2, KindsHold
  <2>4. j \in FieldsNamed(class, spec.field)
    <3>1. FieldsNamed(class, spec.field) \subseteq Nat
      BY <2>3 DEF FieldsNamed
    <3>2. QED
      BY <2>3, <3>1, FirstIsThere
  <2>5. /\ j \in DOMAIN class.fields /\ class.fields[j].name = spec.field
        /\ class.fields[j].annotation \in {"list_of", "plain"}
        /\ \A k \in DOMAIN class.fields : class.fields[k].name = spec.field => k = j
    <3> HIDE DEF j, class, hits
    <3>1. j \in DOMAIN class.fields /\ class.fields[j].name = spec.field
      BY <2>4 DEF FieldsNamed
    <3>2. /\ class.fields[j].annotation # "other_collection"
          /\ \A k \in DOMAIN class.fields : class.fields[k].name = spec.field => k = j
      BY <2>3, <3>1 DEF FieldsOnce
    <3>3. class.fields[j].annotation \in Annotations
      <4>1. class.fields[j] \in [name : Names, annotation : Annotations]
        BY <2>3, <3>1, ElementOf
      <4>2. QED
        BY <4>1
    <3>4. QED
      BY <3>1, <3>2, <3>3 DEF Annotations
  <2>6. Holds(body, spec) <=>
          \E k \in DOMAIN class.fields :
            /\ class.fields[k].name = spec.field
            /\ spec.expected_shape =
                 IF class.fields[k].annotation = "plain" THEN "scalar" ELSE "list"
    BY <2>2 DEF Holds
  <2>7. Holds(body, spec) <=> expected
    <3> HIDE DEF j, class
    <3>1. QED
      BY <2>5, <2>6
  <2>8. expected \in BOOLEAN
    OBVIOUS
  <2> HIDE DEF expected, evidence
  <2>9. FieldShape(body, spec).verdict = IF expected THEN "verified" ELSE "contradicted"
    BY <2>1, <2>8 DEF Decided
  <2>10. QED
    BY <2>7, <2>9 DEF TrueOf
<1>3. QED
  BY <1>1, <1>2

(* The last of some positions of a file.                                    *)
LEMMA LastIsThere ==
  ASSUME NEW N \in Nat, NEW S, S \subseteq 1..N, S # {}
  PROVE  LastOf(S) \in S /\ \A j \in S : j <= LastOf(S)
<1> DEFINE R == {N - i : i \in S}
<1>1. R \subseteq Nat /\ R # {}
  OBVIOUS
<1>2. PICK r \in R : \A q \in R : r <= q
  BY <1>1, LeastOf
<1>3. PICK i \in S : r = N - i
  BY <1>2
<1>4. ASSUME NEW j \in S PROVE j <= i
  <2>1. N - i <= N - j
    BY <1>2, <1>3
  <2>2. QED
    BY <2>1
<1>5. \E k \in S : \A j \in S : j <= k
  BY <1>4
<1>6. QED
  BY <1>5 DEF LastOf

(* Python binds the last definition of a name, if it is of the kind.        *)
LEMMA BoundIsLast ==
  ASSUME NEW body \in Seq(Definitions), NEW kind, NEW name,
         NEW n \in DOMAIN body, body[n].name = name
  PROVE  LET last == LastOf({i \in DOMAIN body : body[i].name = name}) IN
         /\ last \in DOMAIN body
         /\ Bound(body, kind, name) = IF body[last].kind = kind THEN {body[last]} ELSE {}
<1> DEFINE all == {i \in DOMAIN body : body[i].name = name}
           last == LastOf(all)
<1>1. Len(body) \in Nat /\ all \subseteq 1..Len(body) /\ n \in all
  OBVIOUS
<1>2. last \in all /\ \A j \in all : j <= last
  <2> HIDE DEF all
  <2>1. QED
    BY <1>1, LastIsThere
<1>3. \A k \in all : (\A j \in all : j <= k) <=> k = last
  <2> HIDE DEF all, last
  <2>1. \A k \in all : k \in Nat
    BY <1>1
  <2>2. QED
    BY <1>2, <2>1
<1>4. Bound(body, kind, name) = {body[i] : i \in {k \in all : body[k].kind = kind /\ k = last}}
  <2>1. Bound(body, kind, name) =
          {body[i] : i \in {k \in all : body[k].kind = kind /\ \A j \in all : j <= k}}
    BY DEF Bound
  <2> HIDE DEF all, last
  <2>2. QED
    BY <1>3, <2>1
<1>5. last \in DOMAIN body
  BY <1>2
<1> HIDE DEF all, last
<1>6. Bound(body, kind, name) = IF body[last].kind = kind THEN {body[last]} ELSE {}
  BY <1>2, <1>4
<1>7. QED
  BY <1>5, <1>6 DEF all, last

(* pytest imports the file, so what it says is true of every file,          *)
(* however often the test's name is defined (probes.py:107-134).            *)
LEMMA NodeIsTrue ==
  ASSUME NEW body \in Seq(Definitions), NEW spec, spec.kind = "pytest_node"
  PROVE  TrueOf(body, spec, PytestNode(body, spec))
<1> DEFINE hits == Defining(body, "function", spec.node)
           last == LastOf({i \in DOMAIN body : body[i].name = spec.node})
           bound == body[last]
           passes == bound.kind = "function" /\ bound.outcome = "passes"
           first == FirstOf({i \in DOMAIN body : LinesWith(body[i], spec.node) # {}})
           line == FirstOf(LinesWith(body[first], spec.node))
           evidence == {At("", <<first, line>>)}
<1>1. CASE PytestNode(body, spec) = Unknown
  BY <1>1 DEF TrueOf, Unknown
<1>2. CASE PytestNode(body, spec) # Unknown
  <2>1. /\ hits # {}
        /\ PytestNode(body, spec) = Decided(passes, evidence)
    BY <1>2 DEF PytestNode
  <2>2. PICK n \in DOMAIN body : body[n].name = spec.node
    BY <2>1 DEF Defining
  <2>3. Bound(body, "function", spec.node) = IF bound.kind = "function" THEN {bound} ELSE {}
    BY <2>2, BoundIsLast
  <2> HIDE DEF bound
  <2>4. Holds(body, spec) <=> passes
    <3>1. Holds(body, spec) <=>
            \E f \in Bound(body, "function", spec.node) : f.outcome = "passes"
      BY DEF Holds
    <3>2. QED
      BY <2>3, <3>1
  <2>5. passes \in BOOLEAN
    OBVIOUS
  <2> HIDE DEF passes, evidence
  <2>6. PytestNode(body, spec).verdict = IF passes THEN "verified" ELSE "contradicted"
    BY <2>1, <2>5 DEF Decided
  <2>7. QED
    BY <2>4, <2>6 DEF TrueOf
<1>3. QED
  BY <1>1, <1>2

(* Before is called before after, on an earlier line (probes.py:137-166).   *)
LEMMA OrderIsTrue ==
  ASSUME NEW body \in Seq(Definitions), NamesOnce(body), NEW spec,
         spec.kind = "ast_order"
  PROVE  TrueOf(body, spec, AstOrder(body, spec))
<1> DEFINE hits == {i \in Defining(body, "function", spec.function) :
                      /\ ~ body[i].async
                      /\ CallLines(body[i], spec.before) # {}
                      /\ CallLines(body[i], spec.after) # {}}
           first == FirstOf(hits)
           before == FirstOf(CallLines(body[first], spec.before))
           after == FirstOf(CallLines(body[first], spec.after))
           evidence == {At("A", <<first, before>>), At("B", <<first, after>>)}
<1>1. CASE AstOrder(body, spec) = Unknown
  BY <1>1 DEF TrueOf, Unknown
<1>2. CASE AstOrder(body, spec) # Unknown
  <2>1. /\ hits # {} /\ hits \subseteq Defining(body, "function", spec.function)
        /\ AstOrder(body, spec) = Decided(before < after, evidence)
    BY <1>2 DEF AstOrder
  <2>2. PICK i \in hits : /\ first = i
                          /\ Bound(body, "function", spec.function) = {body[i]}
    <3> HIDE DEF hits
    <3>1. PICK i \in hits : i \in Defining(body, "function", spec.function)
      BY <2>1
    <3>2. first = i /\ Bound(body, "function", spec.function) = {body[i]}
      BY <2>1, <3>1, OnlyOne
    <3>3. QED
      BY <3>1, <3>2
  <2>3. /\ body[i].calls \in Seq(SUBSET Names)
        /\ CallLines(body[i], spec.before) # {} /\ CallLines(body[i], spec.after) # {}
    <3>1. body[i] \in Definitions /\ body[i].kind = "function"
      BY <2>2, ElementOf DEF Defining
    <3>2. QED
      BY <2>2, <3>1, KindsHold
  <2>4. /\ CallLines(body[i], spec.before) \subseteq DOMAIN body[i].calls
        /\ CallLines(body[i], spec.after) \subseteq DOMAIN body[i].calls
        /\ DOMAIN body[i].calls = 1..Len(body[i].calls) /\ Len(body[i].calls) \in Nat
    BY <2>3 DEF CallLines
  <2>5. /\ before \in CallLines(body[i], spec.before)
        /\ \A k \in CallLines(body[i], spec.before) : before <= k
        /\ after \in CallLines(body[i], spec.after)
        /\ \A k \in CallLines(body[i], spec.after) : after <= k
    <3>1. DOMAIN body[i].calls \subseteq Nat
      BY <2>4
    <3>2. QED
      BY <2>2, <2>3, <2>4, <3>1, FirstIsThere
  <2>6. Holds(body, spec) <=>
          \E k \in CallLines(body[i], spec.before) :
            \A n \in 1..k : n \notin CallLines(body[i], spec.after)
    <3>1. Holds(body, spec) <=>
            \E k \in DOMAIN body[i].calls :
              /\ spec.before \in body[i].calls[k]
              /\ \A n \in 1..k : spec.after \notin body[i].calls[n]
      BY <2>2 DEF Holds
    <3>2. \A k \in DOMAIN body[i].calls : \A n \in 1..k : n \in DOMAIN body[i].calls
      BY <2>4
    <3>3. QED
      BY <3>1, <3>2 DEF CallLines
  <2>7. Holds(body, spec) <=> before < after
    <3> HIDE DEF before, after
    <3> DEFINE some == CallLines(body[i], spec.before)
               others == CallLines(body[i], spec.after)
    <3>1. some \subseteq Nat /\ others \subseteq Nat \ {0}
      BY <2>4
    <3> HIDE DEF some, others
    <3>2. CASE before < after
      <4>1. \A n \in 1..before : n \notin others
        BY <2>5, <3>1, <3>2 DEF some, others
      <4>2. QED
        BY <2>5, <2>6, <3>2, <4>1 DEF some, others
    <3>3. CASE ~ (before < after)
      <4>1. ASSUME NEW k \in some PROVE after \in 1..k
        <5>1. before <= k /\ before \in Nat /\ after \in Nat \ {0} /\ k \in Nat
          BY <2>5, <3>1 DEF some, others
        <5>2. QED
          BY <3>3, <5>1
      <4>2. QED
        BY <2>5, <2>6, <3>3, <4>1 DEF some, others
    <3>4. QED
      BY <3>2, <3>3
  <2> HIDE DEF before, after, evidence
  <2>8. AstOrder(body, spec).verdict = IF before < after THEN "verified" ELSE "contradicted"
    BY <2>1 DEF Decided
  <2>9. QED
    BY <2>7, <2>8 DEF TrueOf
<1>3. QED
  BY <1>1, <1>2

(* The parameters are there, and no others if the probe says exact          *)
(* (probes.py:169-198).                                                     *)
LEMMA SignatureIsTrue ==
  ASSUME NEW body \in Seq(Definitions), NamesOnce(body), NEW spec,
         spec.kind = "function_signature"
  PROVE  TrueOf(body, spec, FunctionSignature(body, spec))
<1> DEFINE hits == Defining(body, "function", spec.function)
           actual == body[FirstOf(hits)].params
           expected == ParamOr(spec, "expected_params", << >>)
           exact == ParamOr(spec, "mode", "subset") = "exact"
           accepted == IF exact THEN actual = expected
                       ELSE \A k \in DOMAIN expected :
                              \E n \in DOMAIN actual : actual[n] = expected[k]
           evidence == {At("", <<FirstOf(hits), 0>>)}
<1>1. CASE FunctionSignature(body, spec) = Unknown
  BY <1>1 DEF TrueOf, Unknown
<1>2. CASE FunctionSignature(body, spec) # Unknown
  <2>1. /\ hits # {}
        /\ FunctionSignature(body, spec) = Decided(accepted, evidence)
    BY <1>2 DEF FunctionSignature
  <2>2. PICK i \in hits : /\ FirstOf(hits) = i
                          /\ Bound(body, "function", spec.function) = {body[i]}
    <3>1. PICK i \in Defining(body, "function", spec.function) : TRUE
      BY <2>1
    <3>2. /\ \A S : S \subseteq hits /\ S # {} => FirstOf(S) = i
          /\ Bound(body, "function", spec.function) = {body[i]}
      BY ONLY NamesOnce(body), body \in Seq(Definitions), <3>1, OnlyOne
    <3>3. QED
      BY <2>1, <3>2
  <2>3. Holds(body, spec) <=>
          /\ {expected[k] : k \in DOMAIN expected} \subseteq {actual[k] : k \in DOMAIN actual}
          /\ exact => actual = expected
    BY <2>2 DEF Holds
  <2>4. accepted <=> Holds(body, spec)
    <3> HIDE DEF actual, expected, exact
    <3>1. QED
      BY <2>3
  <2>5. accepted \in BOOLEAN
    OBVIOUS
  <2> HIDE DEF accepted, evidence
  <2>6. FunctionSignature(body, spec).verdict =
          IF accepted THEN "verified" ELSE "contradicted"
    BY <2>1, <2>5 DEF Decided
  <2>7. QED
    BY <2>4, <2>6 DEF TrueOf
<1>3. QED
  BY <1>1, <1>2

(* Whatever the file and the probe, a decided verdict is true of the file.  *)
LEMMA ProbeIsTrue ==
  ASSUME NEW file \in Files, NamesOnce(file.body), FieldsOnce(file.body),
         NEW spec, spec.kind \in ProbeKinds
  PROVE  TrueOf(file.body, spec, RunProbe(file, spec))
<1>1. CASE RunProbe(file, spec) = Unknown
  BY <1>1 DEF TrueOf, Unknown
<1>2. CASE RunProbe(file, spec) # Unknown
  <2>1. RunProbe(file, spec) = Execute(file.body, spec)
    BY <1>2 DEF RunProbe
  <2>2. file.body \in Seq(Definitions)
    BY DEF Files
  <2> DEFINE body == file.body
  <2> HIDE DEF body
  <2>3. body \in Seq(Definitions) /\ NamesOnce(body) /\ FieldsOnce(body)
    BY <2>2 DEF body
  <2>4. TrueOf(body, spec, Execute(body, spec))
    <3>1. CASE spec.kind = "mapping_all_equal"
      <4>1. Execute(body, spec) = MappingAllEqual(body, spec)
        BY <3>1 DEF Execute
      <4>2. QED
        BY <2>3, <3>1, <4>1, MappingIsTrue
    <3>2. CASE spec.kind = "field_shape"
      <4>1. Execute(body, spec) = FieldShape(body, spec)
        BY <3>2 DEF Execute
      <4>2. QED
        BY <2>3, <3>2, <4>1, ShapeIsTrue
    <3>3. CASE spec.kind = "pytest_node"
      <4>1. Execute(body, spec) = PytestNode(body, spec)
        BY <3>3 DEF Execute
      <4>2. QED
        BY <2>3, <3>3, <4>1, NodeIsTrue
    <3>4. CASE spec.kind = "ast_order"
      <4>1. Execute(body, spec) = AstOrder(body, spec)
        BY <3>4 DEF Execute
      <4>2. QED
        BY <2>3, <3>4, <4>1, OrderIsTrue
    <3>5. CASE spec.kind = "function_signature"
      <4>1. Execute(body, spec) = FunctionSignature(body, spec)
        BY <3>5 DEF Execute
      <4>2. QED
        BY <2>3, <3>5, <4>1, SignatureIsTrue
    <3>6. QED
      BY <3>1, <3>2, <3>3, <3>4, <3>5 DEF ProbeKinds
  <2>5. QED
    BY <2>1, <2>4 DEF body
<1>3. QED
  BY <1>1, <1>2

-----------------------------------------------------------------------------
(* Where the executors' evidence stands.                                    *)

(* Every reference is a ground of the verdict, and none is without one.     *)
Grounded(body, spec, found) ==
  /\ found.evidence = {} <=> found.verdict = "unknown"
  /\ \A e \in found.evidence : Grounds(body, spec, e)

(* Nothing found, nothing cited.                                            *)
LEMMA UnknownIsGrounded ==
  ASSUME NEW body, NEW spec
  PROVE  Grounded(body, spec, Unknown)
BY DEF Grounded, Unknown

(* A decided verdict is grounded when each of its references is.            *)
LEMMA DecidedIsGrounded ==
  ASSUME NEW body, NEW spec, NEW holds \in BOOLEAN, NEW evidence, evidence # {},
         \A e \in evidence : Grounds(body, spec, e)
  PROVE  Grounded(body, spec, Decided(holds, evidence))
<1>1. /\ Decided(holds, evidence).evidence = evidence
      /\ Decided(holds, evidence).verdict # "unknown"
  BY DEF Decided
<1>2. QED
  BY <1>1 DEF Grounded

(* The mapping that was read is the one cited (probes.py:77-79).            *)
LEMMA MappingIsGrounded ==
  ASSUME NEW body \in Seq(Definitions), NEW spec, spec.kind = "mapping_all_equal"
  PROVE  Grounded(body, spec, MappingAllEqual(body, spec))
<1> DEFINE hits == Defining(body, "mapping", spec.symbol)
           values == body[FirstOf(hits)].values
           equal == /\ values # << >>
                    /\ \A k \in DOMAIN values : values[k].str = spec.expected_value
           evidence == {At("", <<FirstOf(hits), 0>>)}
<1>1. CASE MappingAllEqual(body, spec) = Unknown
  BY <1>1, UnknownIsGrounded
<1>2. CASE MappingAllEqual(body, spec) # Unknown
  <2>1. hits # {} /\ MappingAllEqual(body, spec) = Decided(equal, evidence)
    BY <1>2 DEF MappingAllEqual
  <2>2. FirstOf(hits) \in hits
    BY <2>1, PositionsAreNumbers, FirstIsThere
  <2>3. ASSUME NEW e \in evidence PROVE Grounds(body, spec, e)
    <3>1. e.line[1] = FirstOf(hits) /\ e.line[2] = 0
      <4> DEFINE p == FirstOf(hits)
      <4>1. e = At("", <<p, 0>>)
        OBVIOUS
      <4> HIDE DEF p
      <4>2. QED
        BY <4>1 DEF At
    <3>2. body[FirstOf(hits)].kind = "mapping" /\ body[FirstOf(hits)].name = spec.symbol
      BY <2>2 DEF Defining
    <3> HIDE DEF hits
    <3>3. QED
      BY <3>1, <3>2 DEF Grounds
  <2>4. evidence # {} /\ equal \in BOOLEAN
    OBVIOUS
  <2> HIDE DEF evidence, equal
  <2>5. QED
    BY <2>1, <2>3, <2>4, DecidedIsGrounded
<1>3. QED
  BY <1>1, <1>2

(* The function whose parameters were read is cited (probes.py:184-187).    *)
LEMMA SignatureIsGrounded ==
  ASSUME NEW body \in Seq(Definitions), NEW spec, spec.kind = "function_signature"
  PROVE  Grounded(body, spec, FunctionSignature(body, spec))
<1> DEFINE hits == Defining(body, "function", spec.function)
           actual == body[FirstOf(hits)].params
           expected == ParamOr(spec, "expected_params", << >>)
           accepted == IF ParamOr(spec, "mode", "subset") = "exact"
                       THEN actual = expected
                       ELSE \A k \in DOMAIN expected :
                              \E n \in DOMAIN actual : actual[n] = expected[k]
           evidence == {At("", <<FirstOf(hits), 0>>)}
<1>1. CASE FunctionSignature(body, spec) = Unknown
  BY <1>1, UnknownIsGrounded
<1>2. CASE FunctionSignature(body, spec) # Unknown
  <2>1. hits # {} /\ FunctionSignature(body, spec) = Decided(accepted, evidence)
    BY <1>2 DEF FunctionSignature
  <2>2. FirstOf(hits) \in hits
    BY <2>1, PositionsAreNumbers, FirstIsThere
  <2>3. ASSUME NEW e \in evidence PROVE Grounds(body, spec, e)
    <3>1. e.line[1] = FirstOf(hits) /\ e.line[2] = 0
      <4> DEFINE p == FirstOf(hits)
      <4>1. e = At("", <<p, 0>>)
        OBVIOUS
      <4> HIDE DEF p
      <4>2. QED
        BY <4>1 DEF At
    <3>2. body[FirstOf(hits)].kind = "function" /\ body[FirstOf(hits)].name = spec.function
      BY <2>2 DEF Defining
    <3> HIDE DEF hits
    <3>3. QED
      BY <3>1, <3>2 DEF Grounds
  <2>4. evidence # {} /\ accepted \in BOOLEAN
    OBVIOUS
  <2> HIDE DEF evidence, accepted
  <2>5. QED
    BY <2>1, <2>3, <2>4, DecidedIsGrounded
<1>3. QED
  BY <1>1, <1>2

(* The first of the lines below and above a header.                         *)
LEMMA FirstLine ==
  ASSUME NEW S, S \subseteq Nat \cup {-1}, S # {}
  PROVE  FirstOf(S) \in S /\ \A k \in S : FirstOf(S) <= k
<1>1. CASE -1 \in S
  <2>1. \A k \in S : -1 <= k
    OBVIOUS
  <2>2. QED
    BY <1>1, <2>1 DEF FirstOf
<1>2. CASE -1 \notin S
  <2>1. S \subseteq Nat
    BY <1>2
  <2>2. QED
    BY <2>1, FirstIsThere
<1>3. QED
  BY <1>1, <1>2

(* Lines with a name in them are counted from its header, which has its own *)
(* name in it.                                                              *)
LEMMA HeaderHasName ==
  ASSUME NEW d \in Definitions, NEW name
  PROVE  /\ LinesWith(d, name) \subseteq Nat \cup {-1}
         /\ d.name = name => 0 \in LinesWith(d, name)
<1>1. \A entry \in d.text : entry[1] \in Nat \cup {-1}
  BY KindsHold DEF Texts
<1>2. LinesWith(d, name) \subseteq Nat \cup {-1}
  BY <1>1 DEF LinesWith
<1>3. ASSUME d.name = name PROVE 0 \in LinesWith(d, name)
  <2>1. <<0, name>> \in {e \in d.text : e[2] = name}
    BY <1>3, KindsHold
  <2>2. <<0, name>>[1] \in LinesWith(d, name)
    BY <2>1 DEF LinesWith
  <2>3. QED
    BY <2>2
<1>4. QED
  BY <1>2, <1>3

(* The first line of a file with the name in it is the header of the first  *)
(* test of the name or a line above it (probes.py:129).                     *)
LEMMA FirstMention ==
  ASSUME NEW body \in Seq(Definitions), NEW node,
         Defining(body, "function", node) # {}
  PROVE  LET test == FirstOf(Defining(body, "function", node))
             first == FirstOf({i \in DOMAIN body : LinesWith(body[i], node) # {}})
             line == FirstOf(LinesWith(body[first], node))
             above == LinesAbove(body, test, node)
         IN IF <<first, line>> = <<test, 0>> THEN above = {}
            ELSE <<first, line>> \in above
<1> DEFINE tests == Defining(body, "function", node)
           test == FirstOf(tests)
           named == {i \in DOMAIN body : LinesWith(body[i], node) # {}}
           first == FirstOf(named)
           lines == LinesWith(body[first], node)
           line == FirstOf(lines)
           above == LinesAbove(body, test, node)
<1>1. test \in DOMAIN body /\ body[test].name = node
  <2>1. tests \subseteq Nat
    BY PositionsAreNumbers
  <2>2. test \in tests
    BY <2>1, FirstIsThere
  <2>3. QED
    BY <2>2 DEF Defining
<1>2. DOMAIN body = 1..Len(body) /\ Len(body) \in Nat
  OBVIOUS
<1>3. /\ \A i \in DOMAIN body : LinesWith(body[i], node) \subseteq Nat \cup {-1}
      /\ 0 \in LinesWith(body[test], node)
  <2>1. \A i \in DOMAIN body : body[i] \in Definitions
    OBVIOUS
  <2> HIDE DEF test
  <2>2. QED
    BY <1>1, <2>1, HeaderHasName
<1>4. first \in named /\ \A i \in named : first <= i
  <2>1. named \subseteq Nat
    BY <1>2
  <2>2. named # {}
    <3> HIDE DEF test
    <3>1. test \in named
      BY <1>1, <1>3
    <3>2. QED
      BY <3>1
  <2> HIDE DEF named
  <2>3. QED
    BY <2>1, <2>2, FirstIsThere
<1>5. line \in lines /\ \A k \in lines : line <= k
  <2>1. first \in DOMAIN body /\ LinesWith(body[first], node) # {}
    BY <1>4
  <2> HIDE DEF first
  <2>2. lines \subseteq Nat \cup {-1} /\ lines # {}
    BY <1>3, <2>1
  <2> HIDE DEF lines
  <2>3. QED
    BY <2>2, FirstLine
<1>6. /\ first \in 1..test /\ test \in Nat
      /\ \A i \in 1..test : LinesWith(body[i], node) # {} => first <= i
  <2> HIDE DEF test, first
  <2>1. \A i \in DOMAIN body : LinesWith(body[i], node) # {} => first <= i
    BY <1>4
  <2>2. LinesWith(body[test], node) # {}
    BY <1>3
  <2>3. first \in DOMAIN body
    BY <1>4
  <2>4. first <= test
    BY <1>1, <2>1, <2>2
  <2>5. 1..test \subseteq DOMAIN body
    BY <1>1, <1>2
  <2>6. QED
    BY <1>1, <1>2, <2>1, <2>3, <2>4, <2>5
<1> HIDE DEF tests, test, named, first, line
<1>7. \A j, k : <<j, k>> \in above <=>
        j \in 1..test /\ k \in LinesWith(body[j], node) /\ (j < test \/ k < 0)
  BY DEF LinesAbove
<1>8. \A x \in above : x = <<x[1], x[2]>>
  BY DEF LinesAbove
<1> HIDE DEF above
<1>9. CASE first = test
  <2>1. line \in lines /\ lines = LinesWith(body[test], node) /\ 0 \in lines
    BY <1>3, <1>5, <1>9
  <2>2. lines \subseteq Nat \cup {-1}
    BY <1>1, <1>3, <2>1
  <2>3. CASE line = 0
    <3>1. ASSUME NEW x \in above PROVE FALSE
      <4> DEFINE j == x[1]
                 k == x[2]
      <4>1. <<j, k>> \in above
        BY <1>8
      <4> HIDE DEF j, k
      <4>2. j \in 1..test /\ k \in LinesWith(body[j], node) /\ (j < test \/ k < 0)
        BY <1>7, <4>1
      <4>3. test <= j
        BY <1>6, <1>9, <4>2
      <4>4. j = test /\ k < 0
        BY <1>6, <4>2, <4>3
      <4>5. 0 <= k
        BY <1>5, <2>1, <2>3, <4>2, <4>4
      <4>6. k \in Nat \cup {-1}
        BY <2>1, <2>2, <4>2, <4>4
      <4>7. QED
        BY <4>4, <4>5, <4>6
    <3>2. above = {}
      BY <3>1
    <3>3. QED
      BY <1>9, <2>3, <3>2 DEF test, first, line, above, tests, named
  <2>4. CASE line # 0
    <3>1. line < 0
      BY <1>5, <2>1, <2>2, <2>4
    <3>2. <<first, line>> \in above
      BY <1>6, <1>7, <1>9, <2>1, <3>1
    <3>3. <<first, line>> # <<test, 0>>
      BY <2>4
    <3>4. QED
      BY <3>2, <3>3 DEF test, first, line, above, tests, named
  <2>5. QED
    BY <2>3, <2>4
<1>10. CASE first # test
  <2>1. first < test
    BY <1>6, <1>10
  <2>2. <<first, line>> \in above
    BY <1>5, <1>6, <1>7, <2>1
  <2>3. <<first, line>> # <<test, 0>>
    BY <1>10
  <2>4. QED
    BY <2>2, <2>3 DEF test, first, line, above, tests, named
<1>11. QED
  BY <1>9, <1>10

(* The line cited for a test is its header or one above with its name in    *)
(* it, and the test has ended (probes.py:112-134).                          *)
LEMMA NodeIsGrounded ==
  ASSUME NEW body \in Seq(Definitions), NEW spec, spec.kind = "pytest_node"
  PROVE  Grounded(body, spec, PytestNode(body, spec))
<1> DEFINE hits == Defining(body, "function", spec.node)
           last == LastOf({i \in DOMAIN body : body[i].name = spec.node})
           bound == body[last]
           passes == bound.kind = "function" /\ bound.outcome = "passes"
           hangs == bound.kind = "function" /\ bound.outcome = "hangs"
           first == FirstOf({i \in DOMAIN body : LinesWith(body[i], spec.node) # {}})
           line == FirstOf(LinesWith(body[first], spec.node))
           evidence == {At("", <<first, line>>)}
           test == FirstOf(hits)
           above == LinesAbove(body, test, spec.node)
<1>1. CASE PytestNode(body, spec) = Unknown
  BY <1>1, UnknownIsGrounded
<1>2. CASE PytestNode(body, spec) # Unknown
  <2>1. hits # {} /\ ~ hangs /\ PytestNode(body, spec) = Decided(passes, evidence)
    BY <1>2 DEF PytestNode
  <2>2. \A f \in Bound(body, "function", spec.node) : f.outcome # "hangs"
    <3>1. PICK n \in DOMAIN body : body[n].name = spec.node
      BY <2>1 DEF Defining
    <3>2. Bound(body, "function", spec.node) =
            IF bound.kind = "function" THEN {bound} ELSE {}
      BY <3>1, BoundIsLast
    <3> HIDE DEF bound
    <3>3. QED
      BY <2>1, <3>2
  <2>3. IF <<first, line>> = <<test, 0>> THEN above = {} ELSE <<first, line>> \in above
    BY <2>1, FirstMention
  <2>4. ASSUME NEW e \in evidence PROVE Grounds(body, spec, e)
    <3> HIDE DEF first, line, above, test, hits
    <3>1. e.line = <<first, line>>
      <4>1. e = At("", <<first, line>>)
        OBVIOUS
      <4>2. QED
        BY <4>1 DEF At
    <3> HIDE DEF evidence
    <3>2. IF e.line = <<test, 0>> THEN above = {} ELSE e.line \in above
      BY <2>3, <3>1
    <3>3. QED
      BY <2>2, <3>2 DEF Grounds, above, test, hits
  <2>5. evidence # {} /\ passes \in BOOLEAN
    OBVIOUS
  <2> HIDE DEF evidence, passes
  <2>6. QED
    BY <2>1, <2>4, <2>5, DecidedIsGrounded
<1>3. QED
  BY <1>1, <1>2

(* The field whose annotation was read is cited (probes.py:93-101).         *)
LEMMA ShapeIsGrounded ==
  ASSUME NEW body \in Seq(Definitions), NEW spec, spec.kind = "field_shape"
  PROVE  Grounded(body, spec, FieldShape(body, spec))
<1> DEFINE hits == {i \in Defining(body, "class", spec.class) :
                      FieldsNamed(body[i], spec.field) # {}}
           i == FirstOf(hits)
           class == body[i]
           j == FirstOf(FieldsNamed(class, spec.field))
           shape == IF class.fields[j].annotation = "list_of" THEN "list" ELSE "scalar"
           expected == shape = spec.expected_shape
           evidence == {At("", <<i, j>>)}
<1>1. CASE FieldShape(body, spec) = Unknown
  BY <1>1, UnknownIsGrounded
<1>2. CASE FieldShape(body, spec) # Unknown
  <2>1. hits # {} /\ FieldShape(body, spec) = Decided(expected, evidence)
    BY <1>2 DEF FieldShape
  <2>2. i \in hits
    <3>1. hits \subseteq Nat
      BY PositionsAreNumbers
    <3> HIDE DEF hits
    <3>2. QED
      BY <2>1, <3>1, FirstIsThere
  <2>3. /\ class \in Definitions /\ class.kind = "class" /\ class.name = spec.class
        /\ FieldsNamed(class, spec.field) # {}
    <3>1. /\ i \in DOMAIN body /\ class.kind = "class" /\ class.name = spec.class
          /\ FieldsNamed(class, spec.field) # {}
      BY <2>2 DEF Defining
    <3> HIDE DEF i
    <3>2. QED
      BY <3>1, ElementOf
  <2>4. j \in DOMAIN class.fields /\ class.fields[j].name = spec.field
    <3> HIDE DEF class
    <3>1. class.fields \in Seq([name : Names, annotation : Annotations])
      BY <2>3, KindsHold
    <3>2. FieldsNamed(class, spec.field) \subseteq Nat
      BY <3>1 DEF FieldsNamed
    <3>3. j \in FieldsNamed(class, spec.field)
      BY <2>3, <3>2, FirstIsThere
    <3> HIDE DEF j
    <3>4. QED
      BY <3>3 DEF FieldsNamed
  <2>5. ASSUME NEW e \in evidence PROVE Grounds(body, spec, e)
    <3>1. e = At("", <<i, j>>)
      OBVIOUS
    <3> HIDE DEF i, j, evidence
    <3>2. e.line[1] = i /\ e.line[2] = j
      BY <3>1 DEF At
    <3>3. body[i].kind = "class" /\ body[i].name = spec.class
      BY <2>3
    <3>4. j \in DOMAIN body[i].fields /\ body[i].fields[j].name = spec.field
      BY <2>4
    <3>5. QED
      BY <3>2, <3>3, <3>4 DEF Grounds
  <2>6. evidence # {} /\ expected \in BOOLEAN
    OBVIOUS
  <2> HIDE DEF evidence, expected
  <2>7. QED
    BY <2>1, <2>5, <2>6, DecidedIsGrounded
<1>3. QED
  BY <1>1, <1>2

(* Both call sites are cited, each at its own line (probes.py:151-163).     *)
LEMMA OrderIsGrounded ==
  ASSUME NEW body \in Seq(Definitions), NEW spec, spec.kind = "ast_order"
  PROVE  Grounded(body, spec, AstOrder(body, spec))
<1> DEFINE hits == {i \in Defining(body, "function", spec.function) :
                      /\ ~ body[i].async
                      /\ CallLines(body[i], spec.before) # {}
                      /\ CallLines(body[i], spec.after) # {}}
           i == FirstOf(hits)
           before == FirstOf(CallLines(body[i], spec.before))
           after == FirstOf(CallLines(body[i], spec.after))
           evidence == {At("A", <<i, before>>), At("B", <<i, after>>)}
           earlier == before < after
<1>1. CASE AstOrder(body, spec) = Unknown
  BY <1>1, UnknownIsGrounded
<1>2. CASE AstOrder(body, spec) # Unknown
  <2>1. hits # {} /\ AstOrder(body, spec) = Decided(earlier, evidence)
    BY <1>2 DEF AstOrder
  <2>2. i \in hits
    <3>1. hits \subseteq Nat
      BY PositionsAreNumbers
    <3> HIDE DEF hits
    <3>2. QED
      BY <2>1, <3>1, FirstIsThere
  <2>3. /\ body[i] \in Definitions /\ body[i].kind = "function"
        /\ body[i].name = spec.function
        /\ CallLines(body[i], spec.before) # {}
        /\ CallLines(body[i], spec.after) # {}
    <3>1. /\ i \in DOMAIN body /\ body[i].kind = "function" /\ body[i].name = spec.function
          /\ CallLines(body[i], spec.before) # {}
          /\ CallLines(body[i], spec.after) # {}
      BY <2>2 DEF Defining
    <3> HIDE DEF i
    <3>2. QED
      BY <3>1, ElementOf
  <2>4. /\ before \in CallLines(body[i], spec.before)
        /\ after \in CallLines(body[i], spec.after)
    <3> HIDE DEF i
    <3>1. body[i].calls \in Seq(SUBSET Names)
      BY <2>3, KindsHold
    <3>2. /\ CallLines(body[i], spec.before) \subseteq Nat
          /\ CallLines(body[i], spec.after) \subseteq Nat
      BY <3>1 DEF CallLines
    <3>3. QED
      BY <2>3, <3>2, FirstIsThere
  <2>5. ASSUME NEW e \in evidence PROVE Grounds(body, spec, e)
    <3>1. \/ e.part = "A" /\ e.line[1] = i /\ e.line[2] = before
          \/ e.part = "B" /\ e.line[1] = i /\ e.line[2] = after
      BY DEF At
    <3> HIDE DEF i, before, after
    <3>2. QED
      BY <2>3, <2>4, <3>1 DEF Grounds
  <2>6. evidence # {} /\ earlier \in BOOLEAN
    OBVIOUS
  <2> HIDE DEF evidence, earlier
  <2>7. QED
    BY <2>1, <2>5, <2>6, DecidedIsGrounded
<1>3. QED
  BY <1>1, <1>2

(* Whatever the file and the probe, the evidence is on the probed thing.    *)
LEMMA ProbeIsGrounded ==
  ASSUME NEW file \in Files, NEW spec, spec.kind \in ProbeKinds
  PROVE  Grounded(file.body, spec, RunProbe(file, spec))
<1>1. CASE RunProbe(file, spec) = Unknown
  BY <1>1, UnknownIsGrounded
<1>2. CASE RunProbe(file, spec) # Unknown
  <2>1. RunProbe(file, spec) = Execute(file.body, spec)
    BY <1>2 DEF RunProbe
  <2> DEFINE body == file.body
  <2>2. body \in Seq(Definitions)
    BY DEF Files
  <2> HIDE DEF body
  <2>3. Grounded(body, spec, Execute(body, spec))
    <3>1. CASE spec.kind = "mapping_all_equal"
      <4>1. Execute(body, spec) = MappingAllEqual(body, spec)
        BY <3>1 DEF Execute
      <4>2. QED
        BY <2>2, <3>1, <4>1, MappingIsGrounded
    <3>2. CASE spec.kind = "field_shape"
      <4>1. Execute(body, spec) = FieldShape(body, spec)
        BY <3>2 DEF Execute
      <4>2. QED
        BY <2>2, <3>2, <4>1, ShapeIsGrounded
    <3>3. CASE spec.kind = "pytest_node"
      <4>1. Execute(body, spec) = PytestNode(body, spec)
        BY <3>3 DEF Execute
      <4>2. QED
        BY <2>2, <3>3, <4>1, NodeIsGrounded
    <3>4. CASE spec.kind = "ast_order"
      <4>1. Execute(body, spec) = AstOrder(body, spec)
        BY <3>4 DEF Execute
      <4>2. QED
        BY <2>2, <3>4, <4>1, OrderIsGrounded
    <3>5. CASE spec.kind = "function_signature"
      <4>1. Execute(body, spec) = FunctionSignature(body, spec)
        BY <3>5 DEF Execute
      <4>2. QED
        BY <2>2, <3>5, <4>1, SignatureIsGrounded
    <3>6. QED
      BY <3>1, <3>2, <3>3, <3>4, <3>5 DEF ProbeKinds
  <2>4. QED
    BY <2>1, <2>3 DEF body
<1>3. QED
  BY <1>1, <1>2

-----------------------------------------------------------------------------
(* Files that define a name more than once.                                 *)

(* The first of the definitions a search hits is there, and is the only one *)
(* of a file of its own (probes.py:70-77).                                  *)
LEMMA FirstHit ==
  ASSUME NEW body \in Seq(Definitions), NEW kind, NEW name,
         NEW hits, hits \subseteq Defining(body, kind, name), hits # {}
  PROVE  /\ FirstOf(hits) \in hits
         /\ FirstOf(hits) \in Defining(body, kind, name)
         /\ Defining(<<body[FirstOf(hits)]>>, kind, name) = {1}
<1>1. FirstOf(hits) \in hits
  BY PositionsAreNumbers, FirstIsThere
<1>2. /\ FirstOf(hits) \in Defining(body, kind, name)
      /\ body[FirstOf(hits)].kind = kind /\ body[FirstOf(hits)].name = name
  BY <1>1 DEF Defining
<1> DEFINE d == body[FirstOf(hits)]
<1>3. d.kind = kind /\ d.name = name
  BY <1>2
<1> HIDE DEF d
<1>4. Defining(<<d>>, kind, name) = {1}
  BY <1>3, OneDefinition
<1>5. QED
  BY <1>1, <1>2, <1>4 DEF d

(* A file of one definition.                                                *)
LEMMA Alone ==
  ASSUME NEW d
  PROVE  <<d>>[1] = d /\ FirstOf({1}) = 1
BY DEF FirstOf

(* Whatever else the file holds, mapping_all_equal says of it what it says  *)
(* of the first mapping of the name alone (probes.py:65-82).                *)
LEMMA MappingByFirst ==
  ASSUME NEW body \in Seq(Definitions), NEW spec,
         MappingAllEqual(body, spec) # Unknown
  PROVE  LET i == FirstOf(Defining(body, "mapping", spec.symbol))
             found == MappingAllEqual(body, spec) IN
         /\ i \in Defining(body, "mapping", spec.symbol)
         /\ \A e \in found.evidence : e.line[1] = i
         /\ MappingAllEqual(<<body[i]>>, spec).verdict = found.verdict
<1> DEFINE hits == Defining(body, "mapping", spec.symbol)
           i == FirstOf(hits)
           values == body[i].values
           equal == values # << >> /\ \A k \in DOMAIN values : values[k].str = spec.expected_value
<1>1. /\ hits # {} /\ ~ \E k \in DOMAIN values : values[k].kind = "computed"
      /\ MappingAllEqual(body, spec) = Decided(equal, {At("", <<i, 0>>)})
  BY DEF MappingAllEqual
<1>2. /\ i \in hits /\ i \in Defining(body, "mapping", spec.symbol)
      /\ Defining(<<body[i]>>, "mapping", spec.symbol) = {1}
  <2> HIDE DEF hits
  <2>1. body \in Seq(Definitions) /\ hits # {}
        /\ hits \subseteq Defining(body, "mapping", spec.symbol)
    BY <1>1 DEF hits
  <2>2. QED
    BY ONLY <2>1, FirstHit
<1>3. FirstOf({1}) = 1 /\ <<body[i]>>[1] = body[i]
  BY Alone
<1> HIDE DEF hits, i
<1>4. MappingAllEqual(<<body[i]>>, spec) = Decided(equal, {At("", <<1, 0>>)})
  BY <1>1, <1>2, <1>3 DEF MappingAllEqual
<1> HIDE DEF equal
<1>5. /\ MappingAllEqual(<<body[i]>>, spec).verdict = MappingAllEqual(body, spec).verdict
      /\ MappingAllEqual(body, spec).evidence = {At("", <<i, 0>>)}
  <2>1. MappingAllEqual(body, spec) = Decided(equal, {At("", <<i, 0>>)})
    BY <1>1
  <2>2. MappingAllEqual(<<body[i]>>, spec) = Decided(equal, {At("", <<1, 0>>)})
    BY <1>4
  <2>3. Decided(equal, {At("", <<i, 0>>)}).verdict = Decided(equal, {At("", <<1, 0>>)}).verdict
    BY DEF Decided
  <2>4. Decided(equal, {At("", <<i, 0>>)}).evidence = {At("", <<i, 0>>)}
    BY DEF Decided
  <2>5. QED
    BY <2>1, <2>2, <2>3, <2>4
<1>6. \A e \in MappingAllEqual(body, spec).evidence : e.line[1] = i
  <2>1. At("", <<i, 0>>).line[1] = i
    BY DEF At
  <2>2. QED
    BY <1>5, <2>1
<1>7. QED
  BY <1>2, <1>5, <1>6 DEF i, hits

(* So does field_shape, of the first class of the name with the field       *)
(* (probes.py:85-104).                                                      *)
LEMMA ShapeByFirst ==
  ASSUME NEW body \in Seq(Definitions), NEW spec,
         FieldShape(body, spec) # Unknown
  PROVE  LET i == FirstOf({k \in Defining(body, "class", spec.class) :
                             FieldsNamed(body[k], spec.field) # {}})
             found == FieldShape(body, spec) IN
         /\ i \in Defining(body, "class", spec.class)
         /\ \A e \in found.evidence : e.line[1] = i
         /\ FieldShape(<<body[i]>>, spec).verdict = found.verdict
<1> DEFINE hits == {k \in Defining(body, "class", spec.class) :
                      FieldsNamed(body[k], spec.field) # {}}
           i == FirstOf(hits)
           j == FirstOf(FieldsNamed(body[i], spec.field))
           shape == IF body[i].fields[j].annotation = "list_of" THEN "list" ELSE "scalar"
           equal == shape = spec.expected_shape
<1>1. /\ hits # {} /\ hits \subseteq Defining(body, "class", spec.class)
      /\ FieldShape(body, spec) = Decided(equal, {At("", <<i, j>>)})
  BY DEF FieldShape
<1>2. /\ i \in hits /\ i \in Defining(body, "class", spec.class)
      /\ Defining(<<body[i]>>, "class", spec.class) = {1}
  <2> HIDE DEF hits
  <2>1. body \in Seq(Definitions) /\ hits # {}
        /\ hits \subseteq Defining(body, "class", spec.class)
    BY <1>1
  <2>2. QED
    BY ONLY <2>1, FirstHit
<1>3. FirstOf({1}) = 1 /\ <<body[i]>>[1] = body[i]
  BY Alone
<1>4. FieldsNamed(body[i], spec.field) # {}
  BY <1>2
<1> HIDE DEF hits, i
<1> DEFINE ones == {k \in Defining(<<body[i]>>, "class", spec.class) :
                      FieldsNamed(<<body[i]>>[k], spec.field) # {}}
<1>5. ones = {1}
  BY <1>2, <1>4, <1>3
<1>6. FieldShape(<<body[i]>>, spec) = Decided(equal, {At("", <<1, j>>)})
  <2> DEFINE first == FirstOf(ones)
             class == <<body[i]>>[first]
             n == FirstOf(FieldsNamed(class, spec.field))
             shapeOf == IF class.fields[n].annotation = "list_of" THEN "list" ELSE "scalar"
             same == shapeOf = spec.expected_shape
  <2>1. FieldShape(<<body[i]>>, spec) =
          IF ones = {} THEN Unknown ELSE Decided(same, {At("", <<first, n>>)})
    BY DEF FieldShape
  <2>2. first = 1 /\ class = body[i]
    BY <1>2, <1>5, <1>3
  <2>3. n = j /\ (same <=> equal)
    <3> HIDE DEF first, class
    <3>1. n = j
      BY <2>2
    <3>2. shapeOf = shape
      BY <2>2, <3>1
    <3>3. QED
      BY <3>1, <3>2
  <2> HIDE DEF ones, first, same, n, j, equal
  <2>4. QED
    BY <1>5, <2>1, <2>2, <2>3 DEF equal, same
<1> HIDE DEF equal, j
<1>7. /\ FieldShape(<<body[i]>>, spec).verdict = FieldShape(body, spec).verdict
      /\ FieldShape(body, spec).evidence = {At("", <<i, j>>)}
  <2>1. FieldShape(body, spec) = Decided(equal, {At("", <<i, j>>)})
    BY <1>1
  <2>2. FieldShape(<<body[i]>>, spec) = Decided(equal, {At("", <<1, j>>)})
    BY <1>6
  <2>3. Decided(equal, {At("", <<i, j>>)}).verdict = Decided(equal, {At("", <<1, j>>)}).verdict
    BY DEF Decided
  <2>4. Decided(equal, {At("", <<i, j>>)}).evidence = {At("", <<i, j>>)}
    BY DEF Decided
  <2>5. QED
    BY <2>1, <2>2, <2>3, <2>4
<1>8. \A e \in FieldShape(body, spec).evidence : e.line[1] = i
  <2>1. At("", <<i, j>>).line[1] = i
    BY DEF At
  <2>2. QED
    BY <1>7, <2>1
<1>9. QED
  BY <1>2, <1>7, <1>8 DEF i, hits

(* So does ast_order, of the first plain function of the name that calls    *)
(* both (probes.py:137-166).                                                *)
LEMMA OrderByFirst ==
  ASSUME NEW body \in Seq(Definitions), NEW spec,
         AstOrder(body, spec) # Unknown
  PROVE  LET i == FirstOf({k \in Defining(body, "function", spec.function) :
                             /\ ~ body[k].async
                             /\ CallLines(body[k], spec.before) # {}
                             /\ CallLines(body[k], spec.after) # {}})
             found == AstOrder(body, spec) IN
         /\ i \in Defining(body, "function", spec.function)
         /\ \A e \in found.evidence : e.line[1] = i
         /\ AstOrder(<<body[i]>>, spec).verdict = found.verdict
<1> DEFINE hits == {k \in Defining(body, "function", spec.function) :
                      /\ ~ body[k].async
                      /\ CallLines(body[k], spec.before) # {}
                      /\ CallLines(body[k], spec.after) # {}}
           i == FirstOf(hits)
           before == FirstOf(CallLines(body[i], spec.before))
           after == FirstOf(CallLines(body[i], spec.after))
<1>1. /\ hits # {} /\ hits \subseteq Defining(body, "function", spec.function)
      /\ AstOrder(body, spec) =
           Decided(before < after, {At("A", <<i, before>>), At("B", <<i, after>>)})
  BY DEF AstOrder
<1>2. /\ i \in hits /\ i \in Defining(body, "function", spec.function)
      /\ Defining(<<body[i]>>, "function", spec.function) = {1}
  <2> HIDE DEF hits
  <2>1. body \in Seq(Definitions) /\ hits # {}
        /\ hits \subseteq Defining(body, "function", spec.function)
    BY <1>1
  <2>2. QED
    BY ONLY <2>1, FirstHit
<1>3. FirstOf({1}) = 1 /\ <<body[i]>>[1] = body[i]
  BY Alone
<1>4. /\ ~ body[i].async
      /\ CallLines(body[i], spec.before) # {} /\ CallLines(body[i], spec.after) # {}
  BY <1>2
<1> HIDE DEF hits, i
<1> DEFINE ones == {k \in Defining(<<body[i]>>, "function", spec.function) :
                      /\ ~ <<body[i]>>[k].async
                      /\ CallLines(<<body[i]>>[k], spec.before) # {}
                      /\ CallLines(<<body[i]>>[k], spec.after) # {}}
<1>5. ones = {1}
  BY <1>2, <1>4, <1>3
<1>6. AstOrder(<<body[i]>>, spec) =
        Decided(before < after, {At("A", <<1, before>>), At("B", <<1, after>>)})
  <2> DEFINE first == FirstOf(ones)
             b == FirstOf(CallLines(<<body[i]>>[first], spec.before))
             a == FirstOf(CallLines(<<body[i]>>[first], spec.after))
  <2>1. AstOrder(<<body[i]>>, spec) =
          IF ones = {} THEN Unknown
          ELSE Decided(b < a, {At("A", <<first, b>>), At("B", <<first, a>>)})
    BY DEF AstOrder
  <2>2. first = 1 /\ <<body[i]>>[first] = body[i]
    BY <1>2, <1>5, <1>3
  <2>3. b = before /\ a = after
    BY <2>2
  <2> HIDE DEF ones, first, b, a
  <2>4. QED
    BY <1>5, <2>1, <2>2, <2>3
<1> HIDE DEF before, after
<1>7. /\ AstOrder(<<body[i]>>, spec).verdict = AstOrder(body, spec).verdict
      /\ AstOrder(body, spec).evidence = {At("A", <<i, before>>), At("B", <<i, after>>)}
  BY <1>1, <1>6 DEF Decided
<1>8. \A e \in AstOrder(body, spec).evidence : e.line[1] = i
  <2>1. At("A", <<i, before>>).line[1] = i /\ At("B", <<i, after>>).line[1] = i
    BY DEF At
  <2>2. QED
    BY <1>7, <2>1
<1>9. QED
  BY <1>2, <1>7, <1>8 DEF i, hits

(* So does function_signature, of the first function of the name            *)
(* (probes.py:169-198).                                                     *)
LEMMA SignatureByFirst ==
  ASSUME NEW body \in Seq(Definitions), NEW spec,
         FunctionSignature(body, spec) # Unknown
  PROVE  LET i == FirstOf(Defining(body, "function", spec.function))
             found == FunctionSignature(body, spec) IN
         /\ i \in Defining(body, "function", spec.function)
         /\ \A e \in found.evidence : e.line[1] = i
         /\ FunctionSignature(<<body[i]>>, spec).verdict = found.verdict
<1> DEFINE hits == Defining(body, "function", spec.function)
           i == FirstOf(hits)
           expected == ParamOr(spec, "expected_params", << >>)
           exact == ParamOr(spec, "mode", "subset") = "exact"
           Accepts(actual) == IF exact THEN actual = expected
                              ELSE \A k \in DOMAIN expected :
                                     \E n \in DOMAIN actual : actual[n] = expected[k]
           equal == Accepts(body[i].params)
<1>1. /\ hits # {}
      /\ FunctionSignature(body, spec) = Decided(equal, {At("", <<i, 0>>)})
  BY DEF FunctionSignature
<1>2. /\ i \in hits /\ i \in Defining(body, "function", spec.function)
      /\ Defining(<<body[i]>>, "function", spec.function) = {1}
  <2> HIDE DEF hits
  <2>1. body \in Seq(Definitions) /\ hits # {}
        /\ hits \subseteq Defining(body, "function", spec.function)
    BY <1>1 DEF hits
  <2>2. QED
    BY ONLY <2>1, FirstHit
<1>3. FirstOf({1}) = 1 /\ <<body[i]>>[1] = body[i]
  BY Alone
<1> HIDE DEF hits, i
<1> DEFINE ones == Defining(<<body[i]>>, "function", spec.function)
           first == FirstOf(ones)
           same == Accepts(<<body[i]>>[first].params)
<1>4. FunctionSignature(<<body[i]>>, spec) =
        IF ones = {} THEN Unknown ELSE Decided(same, {At("", <<first, 0>>)})
  BY DEF FunctionSignature
<1>5. ones = {1} /\ first = 1 /\ <<body[i]>>[first].params = body[i].params
  BY <1>2, <1>3
<1> HIDE DEF Accepts
<1>6. same = equal
  BY <1>5
<1> HIDE DEF ones, first, equal, same
<1>7. /\ FunctionSignature(<<body[i]>>, spec).verdict = FunctionSignature(body, spec).verdict
      /\ FunctionSignature(body, spec).evidence = {At("", <<i, 0>>)}
  <2>1. FunctionSignature(body, spec) = Decided(equal, {At("", <<i, 0>>)})
    BY <1>1
  <2>2. FunctionSignature(<<body[i]>>, spec) = Decided(equal, {At("", <<first, 0>>)})
    BY <1>4, <1>5, <1>6
  <2>3. Decided(equal, {At("", <<i, 0>>)}).verdict = Decided(equal, {At("", <<first, 0>>)}).verdict
    BY DEF Decided
  <2>4. Decided(equal, {At("", <<i, 0>>)}).evidence = {At("", <<i, 0>>)}
    BY DEF Decided
  <2>5. QED
    BY <2>1, <2>2, <2>3, <2>4
<1>8. \A e \in FunctionSignature(body, spec).evidence : e.line[1] = i
  <2>1. At("", <<i, 0>>).line[1] = i
    BY DEF At
  <2>2. QED
    BY <1>7, <2>1
<1>9. QED
  BY <1>2, <1>7, <1>8 DEF i, hits

(* The name a probe asks about, and the kind of definition it looks for.    *)
Probed(spec) ==
  CASE spec.kind = "mapping_all_equal" -> spec.symbol
    [] spec.kind = "field_shape"       -> spec.class
    [] spec.kind = "pytest_node"       -> spec.node
    [] OTHER                           -> spec.function

KindOf(spec) ==
  CASE spec.kind = "mapping_all_equal" -> "mapping"
    [] spec.kind = "field_shape"       -> "class"
    [] OTHER                           -> "function"

(* An executor that reads the file says of it what it says of the one       *)
(* definition it cites.                                                     *)
LEMMA CitedDecides ==
  ASSUME NEW body \in Seq(Definitions), NEW spec,
         spec.kind \in ProbeKinds, spec.kind # "pytest_node",
         NEW e \in Execute(body, spec).evidence
  PROVE  /\ e.line[1] \in Defining(body, KindOf(spec), Probed(spec))
         /\ Execute(<<body[e.line[1]]>>, spec).verdict = Execute(body, spec).verdict
<1>1. Execute(body, spec) # Unknown
  BY DEF Unknown
<1>2. CASE spec.kind = "mapping_all_equal"
  <2>1. /\ KindOf(spec) = "mapping" /\ Probed(spec) = spec.symbol
        /\ \A any : Execute(any, spec) = MappingAllEqual(any, spec)
    BY <1>2 DEF KindOf, Probed, Execute
  <2> DEFINE i == FirstOf(Defining(body, "mapping", spec.symbol))
  <2>2. MappingAllEqual(body, spec) # Unknown
    BY <1>1, <2>1
  <2>3. /\ i \in Defining(body, "mapping", spec.symbol)
        /\ \A f \in MappingAllEqual(body, spec).evidence : f.line[1] = i
        /\ MappingAllEqual(<<body[i]>>, spec).verdict = MappingAllEqual(body, spec).verdict
    BY ONLY body \in Seq(Definitions), <2>2, MappingByFirst
  <2> HIDE DEF i
  <2>4. QED
    BY <2>1, <2>3
<1>3. CASE spec.kind = "field_shape"
  <2>1. /\ KindOf(spec) = "class" /\ Probed(spec) = spec.class
        /\ \A any : Execute(any, spec) = FieldShape(any, spec)
    BY <1>3 DEF KindOf, Probed, Execute
  <2> DEFINE i == FirstOf({k \in Defining(body, "class", spec.class) :
                                  FieldsNamed(body[k], spec.field) # {}})
  <2>2. FieldShape(body, spec) # Unknown
    BY <1>1, <2>1
  <2>3. /\ i \in Defining(body, "class", spec.class)
        /\ \A f \in FieldShape(body, spec).evidence : f.line[1] = i
        /\ FieldShape(<<body[i]>>, spec).verdict = FieldShape(body, spec).verdict
    BY ONLY body \in Seq(Definitions), <2>2, ShapeByFirst
  <2> HIDE DEF i
  <2>4. QED
    BY <2>1, <2>3
<1>4. CASE spec.kind = "ast_order"
  <2>1. /\ KindOf(spec) = "function" /\ Probed(spec) = spec.function
        /\ \A any : Execute(any, spec) = AstOrder(any, spec)
    BY <1>4 DEF KindOf, Probed, Execute
  <2> DEFINE i == FirstOf({k \in Defining(body, "function", spec.function) :
                                  /\ ~ body[k].async
                                  /\ CallLines(body[k], spec.before) # {}
                                  /\ CallLines(body[k], spec.after) # {}})
  <2>2. AstOrder(body, spec) # Unknown
    BY <1>1, <2>1
  <2>3. /\ i \in Defining(body, "function", spec.function)
        /\ \A f \in AstOrder(body, spec).evidence : f.line[1] = i
        /\ AstOrder(<<body[i]>>, spec).verdict = AstOrder(body, spec).verdict
    BY ONLY body \in Seq(Definitions), <2>2, OrderByFirst
  <2> HIDE DEF i
  <2>4. QED
    BY <2>1, <2>3
<1>5. CASE spec.kind = "function_signature"
  <2>1. /\ KindOf(spec) = "function" /\ Probed(spec) = spec.function
        /\ \A any : Execute(any, spec) = FunctionSignature(any, spec)
    BY <1>5 DEF KindOf, Probed, Execute
  <2> DEFINE i == FirstOf(Defining(body, "function", spec.function))
  <2>2. FunctionSignature(body, spec) # Unknown
    BY <1>1, <2>1
  <2>3. /\ i \in Defining(body, "function", spec.function)
        /\ \A f \in FunctionSignature(body, spec).evidence : f.line[1] = i
        /\ FunctionSignature(<<body[i]>>, spec).verdict = FunctionSignature(body, spec).verdict
    BY ONLY body \in Seq(Definitions), <2>2, SignatureByFirst
  <2> HIDE DEF i
  <2>4. QED
    BY <2>1, <2>3
<1>6. QED
  BY <1>2, <1>3, <1>4, <1>5 DEF ProbeKinds

(* What a decided verdict says of any file: a test's is true of the file,   *)
(* every other of the definition it cites, taken alone.                     *)
TrueOfCited(body, spec, found) ==
  IF spec.kind = "pytest_node" THEN TrueOf(body, spec, found)
  ELSE \A e \in found.evidence :
         LET alone == <<body[e.line[1]]>> IN
         (spec.kind = "field_shape" => FieldsOnce(alone)) => TrueOf(alone, spec, found)

(* Every probe of every readable file is true of what it cites.             *)
LEMMA ProbeIsTrueOfCited ==
  ASSUME NEW body \in Seq(Definitions), NEW spec, spec.kind \in ProbeKinds
  PROVE  TrueOfCited(body, spec, Execute(body, spec))
<1>1. CASE spec.kind = "pytest_node"
  <2>1. Execute(body, spec) = PytestNode(body, spec)
    BY <1>1 DEF Execute
  <2>2. QED
    BY <1>1, <2>1, NodeIsTrue DEF TrueOfCited
<1>2. CASE spec.kind # "pytest_node"
  <2> SUFFICES ASSUME NEW e \in Execute(body, spec).evidence,
                      spec.kind = "field_shape" => FieldsOnce(<<body[e.line[1]]>>)
               PROVE  TrueOf(<<body[e.line[1]]>>, spec, Execute(body, spec))
    BY <1>2 DEF TrueOfCited
  <2> DEFINE d == body[e.line[1]]
             alone == <<d>>
  <2>1. /\ e.line[1] \in DOMAIN body
        /\ Execute(alone, spec).verdict = Execute(body, spec).verdict
    BY <1>2, CitedDecides DEF Defining
  <2>2. d \in Definitions
    BY <2>1, ElementOf
  <2>3. spec.kind = "field_shape" => FieldsOnce(alone)
    OBVIOUS
  <2> HIDE DEF d
  <2>4. alone \in Seq(Definitions) /\ NamesOnce(alone)
    BY <2>2 DEF NamesOnce
  <2> HIDE DEF alone
  <2>5. TrueOf(alone, spec, Execute(alone, spec))
    <3>1. CASE spec.kind = "mapping_all_equal"
      <4>1. Execute(alone, spec) = MappingAllEqual(alone, spec)
        BY <3>1 DEF Execute
      <4>2. QED
        BY <2>4, <3>1, <4>1, MappingIsTrue
    <3>2. CASE spec.kind = "field_shape"
      <4>1. Execute(alone, spec) = FieldShape(alone, spec)
        BY <3>2 DEF Execute
      <4>2. QED
        BY <2>3, <2>4, <3>2, <4>1, ShapeIsTrue
    <3>3. CASE spec.kind = "ast_order"
      <4>1. Execute(alone, spec) = AstOrder(alone, spec)
        BY <3>3 DEF Execute
      <4>2. QED
        BY <2>4, <3>3, <4>1, OrderIsTrue
    <3>4. CASE spec.kind = "function_signature"
      <4>1. Execute(alone, spec) = FunctionSignature(alone, spec)
        BY <3>4 DEF Execute
      <4>2. QED
        BY <2>4, <3>4, <4>1, SignatureIsTrue
    <3>5. QED
      BY <1>2, <3>1, <3>2, <3>3, <3>4 DEF ProbeKinds
  <2>6. QED
    BY <2>1, <2>5 DEF TrueOf, alone, d
<1>3. QED
  BY <1>1, <1>2

(* Whether a premise holds depends on the definition Python binds alone.    *)
LEMMA HoldsByBound ==
  ASSUME NEW body, NEW other, NEW spec, spec.kind \in ProbeKinds,
         Bound(body, KindOf(spec), Probed(spec)) = Bound(other, KindOf(spec), Probed(spec))
  PROVE  Holds(body, spec) <=> Holds(other, spec)
<1>1. CASE spec.kind = "mapping_all_equal"
  BY <1>1 DEF Holds, KindOf, Probed
<1>2. CASE spec.kind = "field_shape"
  BY <1>2 DEF Holds, KindOf, Probed
<1>3. CASE spec.kind = "pytest_node"
  BY <1>3 DEF Holds, KindOf, Probed
<1>4. CASE spec.kind = "ast_order"
  BY <1>4 DEF Holds, KindOf, Probed
<1>5. CASE spec.kind = "function_signature"
  BY <1>5 DEF Holds, KindOf, Probed
<1>6. QED
  BY <1>1, <1>2, <1>3, <1>4, <1>5 DEF ProbeKinds

(* The probed name is defined once, and each field of its class is.         *)
ProbedOnce(body, spec) ==
  \A i, j \in DOMAIN body :
    body[i].name = Probed(spec) /\ body[j].name = Probed(spec) =>
      /\ i = j
      /\ spec.kind = "field_shape" => FieldsOnce(<<body[i]>>)

(* One definition of the name is the one Python binds.                      *)
LEMMA OnlyOneIsBound ==
  ASSUME NEW body \in Seq(Definitions), NEW kind, NEW name,
         NEW i \in Defining(body, kind, name),
         \A j \in DOMAIN body : body[j].name = name => j = i
  PROVE  Bound(body, kind, name) = Bound(<<body[i]>>, kind, name)
<1> DEFINE d == body[i]
<1>1. i \in Nat /\ i \in DOMAIN body /\ d.kind = kind /\ d.name = name
  BY DEF Defining
<1>2. {k \in DOMAIN body : body[k].name = name} = {i}
  BY <1>1
<1>3. Bound(body, kind, name) = {d}
  <2>1. Bound(body, kind, name) =
          {body[m] : m \in {k \in {i} : body[k].kind = kind /\ \A j \in {i} : j <= k}}
    BY <1>2 DEF Bound
  <2>2. {k \in {i} : body[k].kind = kind /\ \A j \in {i} : j <= k} = {i}
    BY <1>1
  <2>3. QED
    BY <2>1, <2>2
<1> HIDE DEF d
<1>4. Bound(<<d>>, kind, name) = {d}
  <2>1. DOMAIN <<d>> = {1} /\ <<d>>[1] = d
    OBVIOUS
  <2>2. {k \in DOMAIN <<d>> : <<d>>[k].name = name} = {1}
    BY <1>1, <2>1
  <2>3. Bound(<<d>>, kind, name) =
          {<<d>>[m] : m \in {k \in {1} : <<d>>[k].kind = kind /\ \A j \in {1} : j <= k}}
    BY <2>2 DEF Bound
  <2>4. {k \in {1} : <<d>>[k].kind = kind /\ \A j \in {1} : j <= k} = {1}
    BY <1>1, <2>1
  <2>5. QED
    BY <2>1, <2>3, <2>4
<1>5. QED
  BY <1>3, <1>4 DEF d

-----------------------------------------------------------------------------
(* The frozen suite: files of one definition, or of two helpers and a       *)
(* caller.                                                                  *)

(* Of a file that does not define the name, mapping_all_equal says unknown; *)
(* of one mapping of literals it says whether all are the expected one.     *)
LEMMA OneMapping ==
  ASSUME NEW name, NEW values, NEW symbol, NEW value,
         \A k \in DOMAIN values : values[k].kind # "computed"
  PROVE  LET found == MappingAllEqual(<<Mapping(name, values)>>, AllEqual(symbol, value)) IN
         found.verdict = IF name # symbol THEN "unknown"
                         ELSE IF values # << >> /\ \A k \in DOMAIN values : values[k].str = value
                         THEN "verified" ELSE "contradicted"
<1> DEFINE d == Mapping(name, values)
           spec == AllEqual(symbol, value)
           equal == values # << >> /\ \A k \in DOMAIN values : values[k].str = value
<1>1. /\ d.kind = "mapping" /\ d.name = name /\ d.values = values
      /\ spec.symbol = symbol /\ spec.expected_value = value
  BY DEF Mapping, AllEqual
<1>2. /\ Defining(<<d>>, "mapping", spec.symbol) = IF name = symbol THEN {1} ELSE {}
      /\ FirstOf({1}) = 1
  BY <1>1, OneDefinition
<1>3. <<d>>[1] = d
  OBVIOUS
<1> HIDE DEF d, spec
<1>4. CASE name # symbol
  BY <1>2, <1>4 DEF MappingAllEqual, Unknown, d, spec
<1>5. CASE name = symbol
  <2>1. MappingAllEqual(<<d>>, spec) = Decided(equal, {At("", <<1, 0>>)})
    BY <1>1, <1>2, <1>3, <1>5 DEF MappingAllEqual
  <2>2. equal \in BOOLEAN
    OBVIOUS
  <2> HIDE DEF equal
  <2>3. Decided(equal, {At("", <<1, 0>>)}).verdict = IF equal THEN "verified" ELSE "contradicted"
    BY <2>2 DEF Decided
  <2>4. QED
    BY <1>5, <2>1, <2>3 DEF d, spec, equal
<1>6. QED
  BY <1>4, <1>5

(* Likewise field_shape of one class of one field.                          *)
LEMMA OneClass ==
  ASSUME NEW name, NEW field, NEW annotation, NEW class, NEW probed, NEW expected
  PROVE  LET found == FieldShape(<<Class(name, field, annotation)>>,
                                 Shape(class, probed, expected)) IN
         found.verdict =
           IF name # class \/ field # probed THEN "unknown"
           ELSE IF expected = IF annotation = "list_of" THEN "list" ELSE "scalar"
           THEN "verified" ELSE "contradicted"
<1> DEFINE d == Class(name, field, annotation)
           spec == Shape(class, probed, expected)
           shape == IF annotation = "list_of" THEN "list" ELSE "scalar"
           hits == {i \in Defining(<<d>>, "class", spec.class) :
                      FieldsNamed(<<d>>[i], spec.field) # {}}
           equal == shape = expected
<1>1. /\ d.kind = "class" /\ d.name = name
      /\ d.fields = <<[name |-> field, annotation |-> annotation]>>
      /\ spec.class = class /\ spec.field = probed /\ spec.expected_shape = expected
  BY DEF Class, Shape
<1>2. /\ Defining(<<d>>, "class", spec.class) = IF name = class THEN {1} ELSE {}
      /\ FirstOf({1}) = 1
  BY <1>1, OneDefinition
<1>3. <<d>>[1] = d
  OBVIOUS
<1>4. FieldsNamed(d, probed) = IF field = probed THEN {1} ELSE {}
  <2>1. DOMAIN d.fields = {1} /\ d.fields[1].name = field
    BY <1>1
  <2>2. FieldsNamed(d, probed) = {j \in {1} : field = probed}
    BY <2>1 DEF FieldsNamed
  <2>3. QED
    BY <2>2
<1>5. hits = IF name = class /\ field = probed THEN {1} ELSE {}
  BY <1>1, <1>2, <1>3, <1>4
<1>6. d.fields[1].annotation = annotation
  BY <1>1
<1> HIDE DEF d, spec
<1>7. CASE name # class \/ field # probed
  BY <1>5, <1>7 DEF FieldShape, Unknown, d, spec
<1>8. CASE name = class /\ field = probed
  <2>1. hits = {1} /\ FirstOf(hits) = 1 /\ FirstOf(FieldsNamed(d, spec.field)) = 1
    BY <1>1, <1>2, <1>4, <1>5, <1>8
  <2>2. FieldShape(<<d>>, spec) = Decided(equal, {At("", <<1, 1>>)})
    BY <1>1, <1>3, <1>6, <2>1 DEF FieldShape
  <2>3. equal \in BOOLEAN
    OBVIOUS
  <2> HIDE DEF equal
  <2>4. Decided(equal, {At("", <<1, 1>>)}).verdict = IF equal THEN "verified" ELSE "contradicted"
    BY <2>3 DEF Decided
  <2>5. QED
    BY <1>8, <2>2, <2>4 DEF d, spec, equal
<1>9. QED
  BY <1>7, <1>8

(* Likewise pytest_node of one test that ends.                              *)
LEMMA OneTest ==
  ASSUME NEW name, NEW outcome, outcome # "hangs", NEW node
  PROVE  LET found == PytestNode(<<Test(name, outcome)>>, Node(node)) IN
         found.verdict = IF name # node THEN "unknown"
                         ELSE IF outcome = "passes" THEN "verified" ELSE "contradicted"
<1> DEFINE d == Test(name, outcome)
           spec == Node(node)
           passes == outcome = "passes"
<1>1. /\ d.kind = "function" /\ d.name = name /\ d.outcome = outcome
      /\ spec.node = node
  BY DEF Test, Function, Node
<1>2. /\ Defining(<<d>>, "function", spec.node) = IF name = node THEN {1} ELSE {}
      /\ FirstOf({1}) = 1 /\ LastOf({1}) = 1
  BY <1>1, OneDefinition
<1>3. <<d>>[1] = d /\ DOMAIN <<d>> = {1}
  OBVIOUS
<1> HIDE DEF d, spec
<1>4. CASE name # node
  BY <1>2, <1>4 DEF PytestNode, Unknown, d, spec
<1>5. CASE name = node
  <2>1. {i \in DOMAIN <<d>> : <<d>>[i].name = spec.node} = {1}
    BY <1>1, <1>3, <1>5
  <2> DEFINE first == FirstOf({i \in DOMAIN <<d>> : LinesWith(<<d>>[i], spec.node) # {}})
             line == <<first, FirstOf(LinesWith(<<d>>[first], spec.node))>>
  <2>2. PytestNode(<<d>>, spec) = Decided(passes, {At("", line)})
    <3>1. /\ Defining(<<d>>, "function", spec.node) # {}
          /\ <<d>>[LastOf({i \in DOMAIN <<d>> : <<d>>[i].name = spec.node})] = d
      BY <1>1, <1>2, <1>3, <1>5, <2>1
    <3>2. d.kind = "function" /\ d.outcome # "hangs" /\ (d.outcome = "passes" <=> passes)
      BY <1>1
    <3> HIDE DEF passes, line
    <3>3. passes \in BOOLEAN /\ (d.kind = "function" /\ d.outcome = "passes" <=> passes)
      BY <3>2 DEF passes
    <3>4. QED
      BY <3>1, <3>2, <3>3 DEF PytestNode, line
  <2>3. passes \in BOOLEAN
    OBVIOUS
  <2> HIDE DEF passes, line
  <2>4. Decided(passes, {At("", line)}).verdict = IF passes THEN "verified" ELSE "contradicted"
    BY <2>3 DEF Decided
  <2>5. QED
    BY <1>5, <2>2, <2>4 DEF d, spec, passes
<1>6. QED
  BY <1>4, <1>5

(* Likewise function_signature of one function.                             *)
LEMMA OneFunction ==
  ASSUME NEW name, NEW params, NEW function, NEW expected, NEW mode
  PROVE  LET found == FunctionSignature(<<Function(name, params, << >>)>>,
                                        Signature(function, expected, mode)) IN
         found.verdict =
           IF name # function THEN "unknown"
           ELSE IF IF mode = "exact" THEN params = expected
                   ELSE \A k \in DOMAIN expected :
                          \E n \in DOMAIN params : params[n] = expected[k]
           THEN "verified" ELSE "contradicted"
<1> DEFINE d == Function(name, params, << >>)
           spec == Signature(function, expected, mode)
           accepted == IF mode = "exact" THEN params = expected
                       ELSE \A k \in DOMAIN expected :
                              \E n \in DOMAIN params : params[n] = expected[k]
<1>1. /\ d.kind = "function" /\ d.name = name /\ d.params = params
      /\ spec.function = function
      /\ ParamOr(spec, "expected_params", << >>) = expected
      /\ ParamOr(spec, "mode", "subset") = mode
  BY DEF Function, Signature, ParamOr
<1>2. /\ Defining(<<d>>, "function", spec.function) = IF name = function THEN {1} ELSE {}
      /\ FirstOf({1}) = 1
  BY <1>1, OneDefinition
<1>3. <<d>>[1] = d
  OBVIOUS
<1> HIDE DEF d, spec
<1>4. CASE name # function
  BY <1>1, <1>2, <1>4 DEF FunctionSignature, Unknown, d, spec
<1>5. CASE name = function
  <2> DEFINE hits == Defining(<<d>>, "function", spec.function)
             actual == <<d>>[FirstOf(hits)].params
             wanted == ParamOr(spec, "expected_params", << >>)
             judged == IF ParamOr(spec, "mode", "subset") = "exact"
                       THEN actual = wanted
                       ELSE \A k \in DOMAIN wanted :
                              \E n \in DOMAIN actual : actual[n] = wanted[k]
  <2>1. FunctionSignature(<<d>>, spec) =
          IF hits = {} THEN Unknown ELSE Decided(judged, {At("", <<FirstOf(hits), 0>>)})
    BY DEF FunctionSignature
  <2>2. hits = {1} /\ FirstOf(hits) = 1 /\ actual = params /\ wanted = expected
    BY <1>1, <1>2, <1>3, <1>5
  <2>3. judged = accepted
    <3> HIDE DEF actual, wanted
    <3>1. QED
      BY <1>1, <2>2
  <2> HIDE DEF judged, accepted, hits
  <2>4. FunctionSignature(<<d>>, spec) = Decided(accepted, {At("", <<1, 0>>)})
    BY <2>1, <2>2, <2>3
  <2>5. accepted \in BOOLEAN
    BY DEF accepted
  <2>6. Decided(accepted, {At("", <<1, 0>>)}).verdict =
          IF accepted THEN "verified" ELSE "contradicted"
    BY <2>5 DEF Decided
  <2>7. QED
    BY <1>5, <2>4, <2>6 DEF d, spec, accepted
<1>6. QED
  BY <1>4, <1>5

(* An ordering probe compares the one line that calls before with the one   *)
(* that calls after.                                                        *)
LEMMA OneCaller ==
  ASSUME NEW body, NEW function, NEW before, NEW after,
         NEW i, NEW b \in Nat, NEW a \in Nat, i = 1 \/ i = 2 \/ i = 3,
         Defining(body, "function", function) = {i}, ~ body[i].async,
         CallLines(body[i], before) = {b}, CallLines(body[i], after) = {a}
  PROVE  AstOrder(body, Order(function, before, after)).verdict =
           IF b < a THEN "verified" ELSE "contradicted"
<1> DEFINE spec == Order(function, before, after)
           hits == {k \in Defining(body, "function", spec.function) :
                      /\ ~ body[k].async
                      /\ CallLines(body[k], spec.before) # {}
                      /\ CallLines(body[k], spec.after) # {}}
           first == FirstOf(hits)
           lineb == FirstOf(CallLines(body[first], spec.before))
           linea == FirstOf(CallLines(body[first], spec.after))
           evidence == {At("A", <<first, lineb>>), At("B", <<first, linea>>)}
<1>1. spec.function = function /\ spec.before = before /\ spec.after = after
  BY DEF Order
<1> HIDE DEF spec
<1>2. hits = {i}
  BY <1>1
<1>3. \A n \in Nat : FirstOf({n}) = n
  BY DEF FirstOf
<1>4. first = i /\ lineb = b /\ linea = a
  BY <1>1, <1>2, <1>3
<1>5. AstOrder(body, spec) = IF hits = {} THEN Unknown ELSE Decided(lineb < linea, evidence)
  BY DEF AstOrder
<1> HIDE DEF first, lineb, linea, evidence, hits
<1>6. AstOrder(body, spec) = Decided(b < a, evidence)
  BY <1>2, <1>4, <1>5
<1>7. QED
  BY <1>6 DEF Decided, spec

(* Without a line that calls what the probe asks about it says unknown.     *)
LEMMA NoCaller ==
  ASSUME NEW name, NEW function, NEW before, NEW after
  PROVE  AstOrder(<<Function(name, << >>, <<{}>>)>>,
                  Order(function, before, after)).verdict = "unknown"
<1> DEFINE body == <<Function(name, << >>, <<{}>>)>>
           spec == Order(function, before, after)
           hits == {k \in Defining(body, "function", spec.function) :
                      /\ ~ body[k].async
                      /\ CallLines(body[k], spec.before) # {}
                      /\ CallLines(body[k], spec.after) # {}}
<1>1. DOMAIN body = {1} /\ body[1].calls = <<{}>>
  BY DEF Function
<1>2. CallLines(body[1], spec.before) = {}
  BY <1>1 DEF CallLines
<1>3. hits = {}
  BY <1>1, <1>2 DEF Defining
<1> HIDE DEF hits, body, spec
<1>4. AstOrder(body, spec) = Unknown
  BY <1>3 DEF AstOrder, hits
<1>5. QED
  BY <1>4 DEF Unknown, body, spec

(* The function of a TwoCalls file calls first on its first line and second *)
(* on its second.                                                           *)
LEMMA TwoCallers ==
  ASSUME NEW function, NEW first, NEW second,
         function # first, function # second, first # second
  PROVE  LET body == TwoCalls(function, first, second) IN
         /\ AstOrder(body, Order(function, first, second)).verdict = "verified"
         /\ AstOrder(body, Order(function, second, first)).verdict = "contradicted"
<1> DEFINE body == TwoCalls(function, first, second)
<1>1. DOMAIN body = 1..3
  BY DEF TwoCalls
<1>2. /\ body[1].name = first /\ body[2].name = second /\ body[3].name = function
      /\ body[3].kind = "function" /\ ~ body[3].async
      /\ body[3].calls = <<{first}, {second}>>
  BY DEF TwoCalls, Function
<1> HIDE DEF body
<1>3. Defining(body, "function", function) = {3}
  BY <1>1, <1>2 DEF Defining
<1>4. CallLines(body[3], first) = {1} /\ CallLines(body[3], second) = {2}
  <2>1. /\ DOMAIN body[3].calls = 1..2
        /\ body[3].calls[1] = {first} /\ body[3].calls[2] = {second}
    BY <1>2
  <2>2. QED
    BY <2>1 DEF CallLines
<1>5. /\ AstOrder(body, Order(function, first, second)).verdict =
           IF 1 < 2 THEN "verified" ELSE "contradicted"
      /\ AstOrder(body, Order(function, second, first)).verdict =
           IF 2 < 1 THEN "verified" ELSE "contradicted"
  <2>1. 1 \in Nat /\ 2 \in Nat
    OBVIOUS
  <2>2. QED
    BY ONLY <1>2, <1>3, <1>4, <2>1, OneCaller
<1>6. QED
  BY <1>5 DEF body

(* What the suite expects of a case is what its probe says of its file.     *)
AsExpected(c) == RunProbe(c.file, c.probe).verdict = c.expected

(* A case with a readable file and a full probe is judged by its executor.  *)
LEMMA CaseRuns ==
  ASSUME NEW body, NEW probe, NEW expected,
         RequiredParams(probe.kind) \subseteq DOMAIN probe
  PROVE  AsExpected(Case(body, probe, expected)) <=>
           Execute(body, probe).verdict = expected
BY DEF AsExpected, Case, Readable, RunProbe

(* The shape cases are read as the suite expects (probe_suite.py:57-120).   *)
LEMMA SchemaAsExpected == \A c \in SchemaCases : AsExpected(c)
<1>1. ASSUME NEW name, NEW field, NEW annotation, NEW class, NEW probed, NEW shape,
             NEW expected,
             expected = IF name # class \/ field # probed THEN "unknown"
               ELSE IF shape = IF annotation = "list_of" THEN "list" ELSE "scalar"
               THEN "verified" ELSE "contradicted"
      PROVE  AsExpected(Case(<<Class(name, field, annotation)>>,
                             Shape(class, probed, shape), expected))
  <2> DEFINE body == <<Class(name, field, annotation)>>
             probe == Shape(class, probed, shape)
  <2>1. probe.kind = "field_shape" /\ RequiredParams(probe.kind) \subseteq DOMAIN probe
    BY DEF Shape, RequiredParams
  <2>2. Execute(body, probe) = FieldShape(body, probe)
    BY <2>1 DEF Execute
  <2>3. FieldShape(body, probe).verdict = expected
    BY <1>1, OneClass
  <2>4. QED
    BY <2>1, <2>2, <2>3, CaseRuns
<1>2. QED
  BY <1>1 DEF SchemaCases

(* So are the mapping cases.                                                *)
LEMMA TimezoneAsExpected == \A c \in TimezoneCases : AsExpected(c)
<1>1. ASSUME NEW name, NEW values, NEW symbol, NEW value, NEW expected,
             \A k \in DOMAIN values : values[k].kind # "computed",
             expected = IF name # symbol THEN "unknown"
               ELSE IF values # << >> /\ \A k \in DOMAIN values : values[k].str = value
               THEN "verified" ELSE "contradicted"
      PROVE  AsExpected(Case(<<Mapping(name, values)>>, AllEqual(symbol, value), expected))
  <2> DEFINE body == <<Mapping(name, values)>>
             probe == AllEqual(symbol, value)
  <2>1. /\ probe.kind = "mapping_all_equal"
        /\ RequiredParams(probe.kind) \subseteq DOMAIN probe
    BY DEF AllEqual, RequiredParams
  <2>2. Execute(body, probe) = MappingAllEqual(body, probe)
    BY <2>1 DEF Execute
  <2>3. MappingAllEqual(body, probe).verdict = expected
    BY <1>1, OneMapping
  <2>4. QED
    BY <2>1, <2>2, <2>3, CaseRuns
<1>2. AsExpected(Case(<<Mapping("REGION_TIMEZONES",
                        <<Quoted("UTC"), Quoted("UTC"), Quoted("UTC")>>)>>,
                      AllEqual("REGION_TIMEZONES", "UTC"), "verified"))
  <2> DEFINE values == <<Quoted("UTC"), Quoted("UTC"), Quoted("UTC")>>
  <2>1. DOMAIN values = 1..3 /\ \A k \in 1..3 : values[k].str = "UTC" /\ values[k].kind = "text"
    BY DEF Quoted
  <2>2. values # << >>
    OBVIOUS
  <2>3. \A k \in DOMAIN values : values[k].kind # "computed"
    BY <2>1
  <2> HIDE DEF values
  <2>4. AsExpected(Case(<<Mapping("REGION_TIMEZONES", values)>>,
                        AllEqual("REGION_TIMEZONES", "UTC"), "verified"))
    BY <1>1, <2>1, <2>2, <2>3
  <2>5. QED
    BY <2>4 DEF values
<1>3. AsExpected(Case(<<Mapping("REGION_TIMEZONES",
                        <<Quoted("Asia/Seoul"), Quoted("Asia/Tokyo"),
                          Quoted("America/Los_Angeles")>>)>>,
                      AllEqual("REGION_TIMEZONES", "UTC"), "contradicted"))
  <2> DEFINE values == <<Quoted("Asia/Seoul"), Quoted("Asia/Tokyo"),
                      Quoted("America/Los_Angeles")>>
  <2>1. DOMAIN values = 1..3 /\ values[1].str = "Asia/Seoul" /\ \A k \in 1..3 : values[k].kind = "text"
    BY DEF Quoted
  <2>2. \A k \in DOMAIN values : values[k].kind # "computed"
    BY <2>1
  <2> HIDE DEF values
  <2>3. 1 \in DOMAIN values /\ values[1].str # "UTC"
    BY <2>1
  <2>4. AsExpected(Case(<<Mapping("REGION_TIMEZONES", values)>>,
                        AllEqual("REGION_TIMEZONES", "UTC"), "contradicted"))
    BY <1>1, <2>2, <2>3
  <2>5. QED
    BY <2>4 DEF values
<1>4. AsExpected(Case(<< >>, AllEqual("REGION_TIMEZONES", "UTC"), "unknown"))
  <2> DEFINE probe == AllEqual("REGION_TIMEZONES", "UTC")
  <2>1. /\ probe.kind = "mapping_all_equal"
        /\ RequiredParams(probe.kind) \subseteq DOMAIN probe
    BY DEF AllEqual, RequiredParams
  <2>2. Defining(<< >>, "mapping", probe.symbol) = {}
    BY DEF Defining
  <2> HIDE DEF probe
  <2>3. MappingAllEqual(<< >>, probe) = Unknown
    BY <2>2 DEF MappingAllEqual
  <2>4. Execute(<< >>, probe) = Unknown
    BY <2>1, <2>3 DEF Execute
  <2>5. Unknown.verdict = "unknown"
    BY DEF Unknown
  <2>6. AsExpected(Case(<< >>, probe, "unknown"))
    BY ONLY <2>1, <2>4, <2>5, CaseRuns
  <2>7. QED
    BY <2>6 DEF probe
<1>5. AsExpected(Case(<<Mapping("SETTLEMENT_ZONES",
                        <<Quoted("Asia/Seoul"), Quoted("Asia/Seoul")>>)>>,
                      AllEqual("SETTLEMENT_ZONES", "Asia/Seoul"), "verified"))
  <2> DEFINE values == <<Quoted("Asia/Seoul"), Quoted("Asia/Seoul")>>
  <2>1. DOMAIN values = 1..2 /\ \A k \in 1..2 : values[k].str = "Asia/Seoul" /\ values[k].kind = "text"
    BY DEF Quoted
  <2>2. values # << >>
    OBVIOUS
  <2>3. \A k \in DOMAIN values : values[k].kind # "computed"
    BY <2>1
  <2> HIDE DEF values
  <2>4. AsExpected(Case(<<Mapping("SETTLEMENT_ZONES", values)>>,
                        AllEqual("SETTLEMENT_ZONES", "Asia/Seoul"), "verified"))
    BY <1>1, <2>1, <2>2, <2>3
  <2>5. QED
    BY <2>4 DEF values
<1>6. QED
  BY <1>2, <1>3, <1>4, <1>5 DEF TimezoneCases

(* So are the test cases.                                                   *)
LEMMA RetryAsExpected == \A c \in RetryCases : AsExpected(c)
<1>1. ASSUME NEW name, NEW outcome, outcome # "hangs", NEW node, NEW expected,
             expected = IF name # node THEN "unknown"
               ELSE IF outcome = "passes" THEN "verified" ELSE "contradicted"
      PROVE  AsExpected(Case(<<Test(name, outcome)>>, Node(node), expected))
  <2> DEFINE body == <<Test(name, outcome)>>
             probe == Node(node)
  <2>1. probe.kind = "pytest_node" /\ RequiredParams(probe.kind) \subseteq DOMAIN probe
    BY DEF Node, RequiredParams
  <2>2. Execute(body, probe) = PytestNode(body, probe)
    BY <2>1 DEF Execute
  <2>3. PytestNode(body, probe).verdict =
          IF name # node THEN "unknown"
          ELSE IF outcome = "passes" THEN "verified" ELSE "contradicted"
    BY <1>1, OneTest
  <2> HIDE DEF body, probe
  <2>4. PytestNode(body, probe).verdict = expected
    BY <1>1, <2>3
  <2>5. QED
    BY <2>1, <2>2, <2>4, CaseRuns DEF body, probe
<1>2. QED
  BY <1>1 DEF RetryCases

(* So are the ordering cases, of the contracts and of the owners.           *)
LEMMA OrderAsExpected == \A c \in OrderCases \cup OwnershipCases : AsExpected(c)
<1>1. ASSUME NEW body, NEW function, NEW before, NEW after, NEW expected,
             AstOrder(body, Order(function, before, after)).verdict = expected
      PROVE  AsExpected(Case(body, Order(function, before, after), expected))
  <2> DEFINE probe == Order(function, before, after)
  <2>1. probe.kind = "ast_order" /\ RequiredParams(probe.kind) \subseteq DOMAIN probe
    BY DEF Order, RequiredParams
  <2>2. Execute(body, probe) = AstOrder(body, probe)
    BY <2>1 DEF Execute
  <2>3. QED
    BY <1>1, <2>1, <2>2, CaseRuns
<1>2. AsExpected(Case(<<Function("Receipt", << >>, <<{"object"}>>),
                        Function("claim", << >>, <<{"Receipt"}, {"append"}, {}>>)>>,
                      Order("claim", "Receipt", "append"), "verified"))
  <2> DEFINE body == <<Function("Receipt", << >>, <<{"object"}>>),
                       Function("claim", << >>, <<{"Receipt"}, {"append"}, {}>>)>>
  <2>1. /\ DOMAIN body = 1..2 /\ body[1].name = "Receipt" /\ body[2].name = "claim"
        /\ body[2].kind = "function" /\ ~ body[2].async
        /\ body[2].calls = <<{"Receipt"}, {"append"}, {}>>
    BY DEF Function
  <2> HIDE DEF body
  <2>2. Defining(body, "function", "claim") = {2}
    BY <2>1 DEF Defining
  <2>3. CallLines(body[2], "Receipt") = {1} /\ CallLines(body[2], "append") = {2}
    <3>1. /\ DOMAIN body[2].calls = 1..3 /\ body[2].calls[1] = {"Receipt"}
          /\ body[2].calls[2] = {"append"} /\ body[2].calls[3] = {}
      BY <2>1
    <3>2. QED
      BY <3>1 DEF CallLines
  <2>4. AstOrder(body, Order("claim", "Receipt", "append")).verdict = "verified"
    <3>1. 1 \in Nat /\ 2 \in Nat /\ 1 < 2
      OBVIOUS
    <3>2. AstOrder(body, Order("claim", "Receipt", "append")).verdict =
            IF 1 < 2 THEN "verified" ELSE "contradicted"
      BY ONLY <2>1, <2>2, <2>3, <3>1, OneCaller
    <3>3. QED
      BY <3>1, <3>2
  <2>5. QED
    BY <1>1, <2>4 DEF body
<1>3. ASSUME NEW c \in OrderCases PROVE AsExpected(c)
  BY <1>1, <1>2, NoCaller, TwoCallers DEF OrderCases
<1>4. ASSUME NEW c \in OwnershipCases PROVE AsExpected(c)
  BY <1>1, NoCaller, TwoCallers DEF OwnershipCases
<1>5. QED
  BY <1>3, <1>4

(* So are the signature cases.                                              *)
LEMMA CompatibilityAsExpected == \A c \in CompatibilityCases : AsExpected(c)
<1>1. ASSUME NEW name, NEW params, NEW function, NEW wanted, NEW mode, NEW expected,
             expected = IF name # function THEN "unknown"
               ELSE IF IF mode = "exact" THEN params = wanted
                       ELSE \A k \in DOMAIN wanted :
                              \E n \in DOMAIN params : params[n] = wanted[k]
               THEN "verified" ELSE "contradicted"
      PROVE  AsExpected(Case(<<Function(name, params, << >>)>>,
                             Signature(function, wanted, mode), expected))
  <2> DEFINE body == <<Function(name, params, << >>)>>
             probe == Signature(function, wanted, mode)
  <2>1. /\ probe.kind = "function_signature"
        /\ RequiredParams(probe.kind) \subseteq DOMAIN probe
    BY DEF Signature, RequiredParams
  <2>2. Execute(body, probe) = FunctionSignature(body, probe)
    BY <2>1 DEF Execute
  <2>3. FunctionSignature(body, probe).verdict = expected
    BY <1>1, OneFunction
  <2>4. QED
    BY <2>1, <2>2, <2>3, CaseRuns
<1>2. \A k \in DOMAIN <<"event_id", "locale">> :
        \E n \in DOMAIN <<"event_id", "locale", "dry_run">> :
          <<"event_id", "locale", "dry_run">>[n] = <<"event_id", "locale">>[k]
  OBVIOUS
<1>3. ~ \A k \in DOMAIN <<"event_id", "locale">> :
          \E n \in DOMAIN <<"event_id", "language_code">> :
            <<"event_id", "language_code">>[n] = <<"event_id", "locale">>[k]
  OBVIOUS
<1>4. QED
  BY <1>1, <1>2, <1>3 DEF CompatibilityCases

(* Every frozen case is read as the suite expects, and its one premise      *)
(* bears load (probe_suite.py:57-585).                                      *)
THEOREM FrozenAsExpected ==
  \A c \in FrozenCases :
    AsExpected(c) /\ c.load_bearing = TRUE /\ c.probe.assumption_id = PremiseId
<1>1. \A c \in FrozenCases : AsExpected(c)
  BY SchemaAsExpected, TimezoneAsExpected, RetryAsExpected, OrderAsExpected,
     CompatibilityAsExpected DEF FrozenCases
<1>2. \A body, probe, expected : /\ Case(body, probe, expected).load_bearing = TRUE
                                 /\ Case(body, probe, expected).probe = probe
  BY DEF Case
<1>3. /\ \A class, field, shape : Shape(class, field, shape).assumption_id = PremiseId
      /\ \A symbol, value : AllEqual(symbol, value).assumption_id = PremiseId
      /\ \A test : Node(test).assumption_id = PremiseId
      /\ \A function, before, after :
           Order(function, before, after).assumption_id = PremiseId
      /\ \A function, params, mode :
           Signature(function, params, mode).assumption_id = PremiseId
  BY DEF Shape, AllEqual, Node, Order, Signature
<1>4. ASSUME NEW c \in FrozenCases
      PROVE  c.load_bearing = TRUE /\ c.probe.assumption_id = PremiseId
  <2>1. CASE c \in SchemaCases \cup TimezoneCases
    BY <1>2, <1>3, <2>1 DEF SchemaCases, TimezoneCases
  <2>2. CASE c \in RetryCases
    BY <1>2, <1>3, <2>2 DEF RetryCases
  <2>3. CASE c \in OrderCases
    BY <1>2, <1>3, <2>3 DEF OrderCases
  <2>4. CASE c \in CompatibilityCases
    BY <1>2, <1>3, <2>4 DEF CompatibilityCases
  <2>5. CASE c \in OwnershipCases
    BY <1>2, <1>3, <2>5 DEF OwnershipCases
  <2>6. QED
    BY <2>1, <2>2, <2>3, <2>4, <2>5 DEF FrozenCases
<1>5. QED
  BY <1>1, <1>4

(* One result about the one premise of a plan: the gate passes when it is   *)
(* verified and at no other verdict (gate.py:16-30).                        *)
LEMMA OneResultGate ==
  ASSUME NEW c, c.load_bearing = TRUE, c.probe.assumption_id = PremiseId,
         NEW found, found.verdict \in Verdicts
  PROVE  DecideGate(PlanFor(c), <<Report(c.probe, found)>>).status =
           IF found.verdict = "verified" THEN "pass" ELSE "block"
<1> DEFINE plan == PlanFor(c)
           results == <<Report(c.probe, found)>>
<1>1. LoadBearing(plan) = {PremiseId}
  <2>1. plan.assumptions = {[id |-> PremiseId, load_bearing |-> TRUE]}
    BY DEF PlanFor
  <2>2. LoadBearing(plan) = {[id |-> PremiseId, load_bearing |-> TRUE].id}
    BY <2>1 DEF LoadBearing
  <2>3. QED
    BY <2>2
<1>2. DOMAIN results = {1} /\ results[1].assumption_id = PremiseId
      /\ results[1].verdict = found.verdict
  BY DEF Report
<1> HIDE DEF plan, results
<1>3. LatestVerdict(results, PremiseId) = {found.verdict}
  BY <1>2 DEF LatestVerdict
<1>4. BlockedAssumptions(plan, results) = {} <=> found.verdict = "verified"
  <2>1. {found.verdict} \subseteq {"contradicted", "unknown"} <=> found.verdict # "verified"
    BY DEF Verdicts
  <2>2. BlockedAssumptions(plan, results) =
          {a \in {PremiseId} : LatestVerdict(results, a) \subseteq {"contradicted", "unknown"}}
    BY <1>1 DEF BlockedAssumptions
  <2>3. QED
    BY <1>3, <2>1, <2>2
<1>5. QED
  BY <1>4 DEF DecideGate, plan, results

-----------------------------------------------------------------------------
(* In every behaviour of the suite.                                         *)

(* The answer there is, is the probe's to the case at hand.                 *)
AnswerInv ==
  /\ case \in FrozenCases \cup Lab
  /\ answer = Unanswered \/ answer = RunProbe(case.file, case.probe)

(* The answer always is the one to the case at hand.                        *)
LEMMA AnswerIsOwn == Spec => []AnswerInv
<1>1. Init => AnswerInv
  BY DEF Init, AnswerInv
<1>2. AnswerInv /\ [Probe]_vars => AnswerInv'
  <2> SUFFICES ASSUME AnswerInv, [Probe]_vars PROVE AnswerInv'
    OBVIOUS
  <2>1. CASE Probe
    BY <2>1 DEF AnswerInv, Probe
  <2>2. CASE UNCHANGED vars
    BY <2>2 DEF AnswerInv, vars
  <2>3. QED
    BY <2>1, <2>2
<1>3. QED
  BY <1>1, <1>2, PTL DEF Spec

(* A decided verdict is true of the file, for every file in which names are *)
(* defined once and every probe of the five kinds (probes.py:65-198).       *)
THEOREM VerdictsAreTrue == Spec => []VerdictIsTrue
<1>1. AnswerInv => VerdictIsTrue
  <2> SUFFICES ASSUME AnswerInv, Answered, Plain PROVE TrueOf(case.file.body, case.probe, answer)
    BY DEF VerdictIsTrue, TrueOf
  <2>1. answer = RunProbe(case.file, case.probe)
    BY DEF AnswerInv, Answered
  <2>2. case.file \in Files /\ case.probe.kind \in ProbeKinds
    BY CaseAssumption DEF AnswerInv
  <2>3. NamesOnce(case.file.body) /\ FieldsOnce(case.file.body)
    BY DEF Plain, NamesOnce, FieldsOnce
  <2>4. QED
    BY <2>1, <2>2, <2>3, ProbeIsTrue
<1>2. QED
  BY <1>1, AnswerIsOwn, PTL

(* In every behaviour, and in every file: what pytest says is true of the   *)
(* file, and every other decided verdict is true of the definition it       *)
(* cites.  What is excluded is a class that annotates the field twice or    *)
(* spells a collection otherwise than list[...] (probes.py:65-198).         *)
THEOREM VerdictsAreTrueOfCited ==
  Spec => [](Answered => TrueOfCited(case.file.body, case.probe, answer))
<1>1. AnswerInv => (Answered => TrueOfCited(case.file.body, case.probe, answer))
  <2> SUFFICES ASSUME AnswerInv, Answered
               PROVE  TrueOfCited(case.file.body, case.probe, answer)
    OBVIOUS
  <2>1. /\ answer = RunProbe(case.file, case.probe)
        /\ case.file \in Files /\ case.probe.kind \in ProbeKinds
    BY CaseAssumption DEF AnswerInv, Answered
  <2>2. CASE answer = Unknown
    BY <2>2 DEF TrueOfCited, TrueOf, Unknown
  <2>3. CASE answer # Unknown
    <3>1. answer = Execute(case.file.body, case.probe)
      BY <2>1, <2>3 DEF RunProbe
    <3>2. case.file.body \in Seq(Definitions)
      BY <2>1 DEF Files
    <3>3. QED
      BY <2>1, <3>1, <3>2, ProbeIsTrueOfCited
  <2>4. QED
    BY <2>2, <2>3
<1>2. QED
  BY <1>1, AnswerIsOwn, PTL

(* So a decided verdict is true of the program Python builds as soon as the *)
(* probed name is defined once, however often other names are               *)
(* (probes.py:65-198).                                                      *)
THEOREM VerdictsAreTrueWhereProbedOnce ==
  Spec => [](Answered /\ ProbedOnce(case.file.body, case.probe)
               => TrueOf(case.file.body, case.probe, answer))
<1>1. AnswerInv => (Answered /\ ProbedOnce(case.file.body, case.probe)
                      => TrueOf(case.file.body, case.probe, answer))
  <2> SUFFICES ASSUME AnswerInv, Answered, ProbedOnce(case.file.body, case.probe)
               PROVE  TrueOf(case.file.body, case.probe, answer)
    OBVIOUS
  <2> DEFINE body == case.file.body
             spec == case.probe
  <2>1. /\ answer = RunProbe(case.file, spec)
        /\ case.file \in Files /\ spec.kind \in ProbeKinds
    BY CaseAssumption DEF AnswerInv, Answered
  <2>2. CASE answer = Unknown
    BY <2>2 DEF TrueOf, Unknown
  <2>3. CASE answer # Unknown
    <3>1. answer = Execute(body, spec)
      BY <2>1, <2>3 DEF RunProbe
    <3>2. body \in Seq(Definitions)
      BY <2>1 DEF Files
    <3>3. ProbedOnce(body, spec)
      OBVIOUS
    <3>4. answer.verdict # "unknown" => answer.evidence # {}
      BY <2>1, ProbeIsGrounded DEF Grounded
    <3> HIDE DEF body, spec
    <3>5. TrueOfCited(body, spec, answer)
      BY <2>1, <3>1, <3>2, ProbeIsTrueOfCited
    <3>6. CASE spec.kind = "pytest_node"
      BY <3>5, <3>6 DEF TrueOfCited, body, spec
    <3>7. CASE spec.kind # "pytest_node" /\ answer.verdict # "unknown"
      <4>1. PICK e \in answer.evidence : TRUE
        BY <3>4, <3>7
      <4> DEFINE i == e.line[1]
      <4>2. i \in Defining(body, KindOf(spec), Probed(spec))
        BY <2>1, <3>1, <3>2, <3>7, <4>1, CitedDecides
      <4>3. /\ spec.kind = "field_shape" => FieldsOnce(<<body[i]>>)
            /\ \A j \in DOMAIN body : body[j].name = Probed(spec) => j = i
        BY <3>3, <4>2 DEF ProbedOnce, Defining
      <4>4. TrueOf(<<body[i]>>, spec, answer)
        BY <3>5, <3>7, <4>1, <4>3 DEF TrueOfCited
      <4> HIDE DEF i
      <4>5. Bound(body, KindOf(spec), Probed(spec)) =
              Bound(<<body[i]>>, KindOf(spec), Probed(spec))
        BY <3>2, <4>2, <4>3, OnlyOneIsBound
      <4>6. Holds(body, spec) <=> Holds(<<body[i]>>, spec)
        BY <2>1, <4>5, HoldsByBound
      <4>7. QED
        BY <4>4, <4>6 DEF TrueOf, body, spec
    <3>8. QED
      BY <3>6, <3>7 DEF TrueOf, body, spec
  <2>4. QED
    BY <2>2, <2>3
<1>2. QED
  BY <1>1, AnswerIsOwn, PTL

(* A field verified as scalar is not spelled list[...], in any file: the    *)
(* other collections are all that ScalarMeansScalar fails on                *)
(* (probes.py:97-104, deterministic.py:93).                                 *)
THEOREM ScalarIsNoList ==
  Spec => [](Answered /\ case.probe.kind = "field_shape"
               /\ answer.verdict = "verified" /\ case.probe.expected_shape = "scalar" =>
                 \A e \in answer.evidence :
                   case.file.body[e.line[1]].fields[e.line[2]].annotation
                     \in {"plain", "other_collection"})
<1>1. AnswerInv => (Answered /\ case.probe.kind = "field_shape"
               /\ answer.verdict = "verified" /\ case.probe.expected_shape = "scalar" =>
                 \A e \in answer.evidence :
                   case.file.body[e.line[1]].fields[e.line[2]].annotation
                     \in {"plain", "other_collection"})
  <2> SUFFICES ASSUME AnswerInv, Answered, case.probe.kind = "field_shape",
                      answer.verdict = "verified", case.probe.expected_shape = "scalar",
                      NEW e \in answer.evidence
               PROVE  case.file.body[e.line[1]].fields[e.line[2]].annotation
                        \in {"plain", "other_collection"}
    OBVIOUS
  <2> DEFINE body == case.file.body
             spec == case.probe
             hits == {k \in Defining(body, "class", spec.class) :
                        FieldsNamed(body[k], spec.field) # {}}
             i == FirstOf(hits)
             fields == body[i].fields
             j == FirstOf(FieldsNamed(body[i], spec.field))
             shape == IF fields[j].annotation = "list_of" THEN "list" ELSE "scalar"
             equal == shape = spec.expected_shape
  <2>1. /\ answer = RunProbe(case.file, spec) /\ case.file \in Files
        /\ spec.kind = "field_shape"
    BY CaseAssumption DEF AnswerInv, Answered
  <2>2. body \in Seq(Definitions)
    BY <2>1 DEF Files
  <2>3. answer = FieldShape(body, spec) /\ answer # Unknown
    <3>1. answer # Unknown
      BY DEF Unknown
    <3>2. answer = Execute(body, spec)
      BY <2>1, <3>1 DEF RunProbe
    <3>3. QED
      BY <2>1, <3>1, <3>2 DEF Execute
  <2>4. /\ hits # {} /\ hits \subseteq Defining(body, "class", spec.class)
        /\ answer = Decided(equal, {At("", <<i, j>>)})
    BY <2>3 DEF FieldShape
  <2>5. equal
    <3>1. equal \in BOOLEAN
      OBVIOUS
    <3> HIDE DEF equal, i, j
    <3>2. answer.verdict = IF equal THEN "verified" ELSE "contradicted"
      BY <2>4, <3>1 DEF Decided
    <3>3. QED
      BY <3>2
  <2>6. fields[j].annotation # "list_of"
    BY <2>5
  <2>7. i \in hits /\ i \in Defining(body, "class", spec.class)
    <3> HIDE DEF hits, body
    <3>1. body \in Seq(Definitions) /\ hits # {}
          /\ hits \subseteq Defining(body, "class", spec.class)
      BY <2>2, <2>4
    <3>2. QED
      BY ONLY <3>1, FirstHit
  <2>8. fields \in Seq([name : Names, annotation : Annotations])
    <3>1. body[i] \in Definitions /\ body[i].kind = "class"
      BY <2>2, <2>7, ElementOf DEF Defining
    <3>2. QED
      BY <3>1, KindsHold
  <2>9. j \in DOMAIN fields
    <3>1. FieldsNamed(body[i], spec.field) # {}
      BY <2>7
    <3>2. FieldsNamed(body[i], spec.field) \subseteq DOMAIN fields
      BY DEF FieldsNamed
    <3> HIDE DEF i, fields, body
    <3>3. DOMAIN fields \subseteq Nat
      BY <2>8
    <3>4. QED
      BY <3>1, <3>2, <3>3, FirstIsThere
  <2>10. fields[j].annotation \in {"plain", "other_collection"}
    <3> HIDE DEF i, j, fields, body
    <3>1. fields[j] \in [name : Names, annotation : Annotations]
      BY ONLY <2>8, <2>9, ElementOf
    <3>2. fields[j].annotation \in Annotations
      BY <3>1
    <3>3. QED
      BY <2>6, <3>2 DEF Annotations
  <2>11. e.line[1] = i /\ e.line[2] = j
    <3> HIDE DEF equal, i, j
    <3>1. e = At("", <<i, j>>)
      BY <2>4 DEF Decided
    <3>2. QED
      BY <3>1 DEF At
  <2>12. QED
    BY <2>10, <2>11
<1>2. QED
  BY <1>1, AnswerIsOwn, PTL

(* Evidence stands on the probed thing, in every file, however often its    *)
(* names are defined: a header, a field or a call of the probed definition, *)
(* from which alone the same verdict follows; for a test its header, unless *)
(* its name occurs above it, and then such a line (probes.py:65-198).       *)
THEOREM EvidenceStands == Spec => []EvidenceIsGrounded
<1>1. AnswerInv => EvidenceIsGrounded
  <2> DEFINE body == case.file.body
             spec == case.probe
  <2> SUFFICES ASSUME AnswerInv, Answered
               PROVE  /\ Grounded(body, spec, answer)
                      /\ \A e \in answer.evidence : spec.kind # "pytest_node" =>
                           Execute(<<body[e.line[1]]>>, spec).verdict = answer.verdict
    BY DEF EvidenceIsGrounded, Grounded
  <2>1. /\ answer = RunProbe(case.file, spec)
        /\ case.file \in Files /\ spec.kind \in ProbeKinds
    BY CaseAssumption DEF AnswerInv, Answered
  <2>2. Grounded(body, spec, answer)
    BY <2>1, ProbeIsGrounded
  <2>3. ASSUME NEW e \in answer.evidence, spec.kind # "pytest_node"
        PROVE  Execute(<<body[e.line[1]]>>, spec).verdict = answer.verdict
    <3>1. answer # Unknown
      BY <2>3 DEF Unknown
    <3>2. answer = Execute(body, spec)
      BY <2>1, <3>1 DEF RunProbe
    <3>3. body \in Seq(Definitions)
      BY <2>1 DEF Files
    <3> HIDE DEF body, spec
    <3>4. QED
      BY <2>1, <2>3, <3>2, <3>3, CitedDecides
  <2>4. QED
    BY <2>2, <2>3
<1>2. QED
  BY <1>1, AnswerIsOwn, PTL

(* The gate's decision is the one on the answer to the case at hand.        *)
GateInv ==
  Answered => gate = DecideGate(PlanFor(case), <<Report(case.probe, answer)>>)

(* The gate always decides on the answer there is.                          *)
LEMMA GateIsOwn == Spec => []GateInv
<1>1. Init => GateInv
  BY DEF Init, GateInv, Answered
<1>2. GateInv /\ [Probe]_vars => GateInv'
  <2> SUFFICES ASSUME GateInv, [Probe]_vars PROVE GateInv'
    OBVIOUS
  <2>1. CASE Probe
    BY <2>1 DEF GateInv, Answered, Probe
  <2>2. CASE UNCHANGED vars
    BY <2>2 DEF GateInv, Answered, vars
  <2>3. QED
    BY <2>1, <2>2
<1>3. QED
  BY <1>1, <1>2, PTL DEF Spec

(* The file has nothing the probe asks about: no definition of its kind and *)
(* name, no such class with the field, no such function with both calls.    *)
NothingFits(body, spec) ==
  \/ /\ spec.kind \in {"mapping_all_equal", "pytest_node", "function_signature"}
     /\ Defining(body, KindOf(spec), Probed(spec)) = {}
  \/ /\ spec.kind = "field_shape"
     /\ \A i \in Defining(body, "class", spec.class) : FieldsNamed(body[i], spec.field) = {}
  \/ /\ spec.kind = "ast_order"
     /\ \A i \in Defining(body, "function", spec.function) :
          \/ body[i].async
          \/ CallLines(body[i], spec.before) = {}
          \/ CallLines(body[i], spec.after) = {}

(* A decided answer is not the unknown one.                                 *)
LEMMA DecidedIsKnown ==
  ASSUME NEW holds, NEW evidence
  PROVE  Decided(holds, evidence) # Unknown
BY DEF Decided, Unknown

(* An executor that can read the file and its params knows the answer,      *)
(* unless it raises or finds nothing (probes.py:65-198).                    *)
LEMMA ExecutorKnows ==
  ASSUME NEW file, file.readable = TRUE, NEW spec, spec.kind \in ProbeKinds,
         RequiredParams(spec.kind) \subseteq DOMAIN spec
  PROVE  Execute(file.body, spec) = Unknown <=>
           Raises(file, spec) \/ NothingFits(file.body, spec)
<1> DEFINE body == file.body
<1>1. CASE spec.kind = "mapping_all_equal"
  <2>1. Execute(body, spec) = MappingAllEqual(body, spec)
    BY <1>1 DEF Execute
  <2>2. KindOf(spec) = "mapping" /\ Probed(spec) = spec.symbol
    BY <1>1 DEF KindOf, Probed
  <2> DEFINE hits == Defining(body, "mapping", spec.symbol)
             values == body[FirstOf(hits)].values
             computed == \E k \in DOMAIN values : values[k].kind = "computed"
  <2>3. MappingAllEqual(body, spec) = Unknown <=> hits = {} \/ computed
    BY DecidedIsKnown DEF MappingAllEqual
  <2>4. Raises(file, spec) <=> hits # {} /\ computed
    BY <1>1 DEF Raises
  <2>5. NothingFits(body, spec) <=> hits = {}
    BY <1>1, <2>2 DEF NothingFits
  <2> HIDE DEF hits, computed
  <2>6. QED
    BY <2>1, <2>3, <2>4, <2>5
<1>2. CASE spec.kind = "pytest_node"
  <2>1. Execute(body, spec) = PytestNode(body, spec)
    BY <1>2 DEF Execute
  <2>2. KindOf(spec) = "function" /\ Probed(spec) = spec.node
    BY <1>2 DEF KindOf, Probed
  <2> DEFINE hits == Defining(body, "function", spec.node)
             bound == body[LastOf({i \in DOMAIN body : body[i].name = spec.node})]
             hangs == bound.kind = "function" /\ bound.outcome = "hangs"
  <2>3. PytestNode(body, spec) = Unknown <=> hits = {} \/ hangs
    BY DecidedIsKnown DEF PytestNode
  <2>4. Raises(file, spec) <=> hits # {} /\ hangs
    BY <1>2 DEF Raises
  <2>5. NothingFits(body, spec) <=> hits = {}
    BY <1>2, <2>2 DEF NothingFits
  <2> HIDE DEF hits, hangs
  <2>6. QED
    BY <2>1, <2>3, <2>4, <2>5
<1>3. CASE spec.kind = "function_signature"
  <2>1. Execute(body, spec) = FunctionSignature(body, spec)
    BY <1>3 DEF Execute
  <2>2. KindOf(spec) = "function" /\ Probed(spec) = spec.function
    BY <1>3 DEF KindOf, Probed
  <2> DEFINE hits == Defining(body, "function", spec.function)
  <2>3. FunctionSignature(body, spec) = Unknown <=> hits = {}
    BY DecidedIsKnown DEF FunctionSignature
  <2>4. ~ Raises(file, spec)
    BY <1>3 DEF Raises
  <2>5. NothingFits(body, spec) <=> hits = {}
    BY <1>3, <2>2 DEF NothingFits
  <2> HIDE DEF hits
  <2>6. QED
    BY <2>1, <2>3, <2>4, <2>5
<1>4. CASE spec.kind = "field_shape"
  <2>1. Execute(body, spec) = FieldShape(body, spec)
    BY <1>4 DEF Execute
  <2> DEFINE hits == {i \in Defining(body, "class", spec.class) :
                        FieldsNamed(body[i], spec.field) # {}}
  <2>2. FieldShape(body, spec) = Unknown <=> hits = {}
    BY DecidedIsKnown DEF FieldShape
  <2>3. ~ Raises(file, spec)
    BY <1>4 DEF Raises
  <2>4. NothingFits(body, spec) <=> hits = {}
    BY <1>4 DEF NothingFits
  <2> HIDE DEF hits
  <2>5. QED
    BY <2>1, <2>2, <2>3, <2>4
<1>5. CASE spec.kind = "ast_order"
  <2>1. Execute(body, spec) = AstOrder(body, spec)
    BY <1>5 DEF Execute
  <2> DEFINE hits == {i \in Defining(body, "function", spec.function) :
                        /\ ~ body[i].async
                        /\ CallLines(body[i], spec.before) # {}
                        /\ CallLines(body[i], spec.after) # {}}
  <2>2. AstOrder(body, spec) = Unknown <=> hits = {}
    BY DecidedIsKnown DEF AstOrder
  <2>3. ~ Raises(file, spec)
    BY <1>5 DEF Raises
  <2>4. NothingFits(body, spec) <=> hits = {}
    BY <1>5 DEF NothingFits
  <2> HIDE DEF hits
  <2>5. QED
    BY <2>1, <2>2, <2>3, <2>4
<1>6. QED
  BY <1>1, <1>2, <1>3, <1>4, <1>5 DEF ProbeKinds

(* The gate blocks a load-bearing premise of which nothing is known.        *)
LEMMA UnknownBlocks ==
  ASSUME NEW c, c.load_bearing = TRUE, NEW found, found.verdict = "unknown"
  PROVE  DecideGate(PlanFor(c), <<Report(c.probe, found)>>).status = "block"
<1> DEFINE plan == PlanFor(c)
           results == <<Report(c.probe, found)>>
<1>1. PremiseId \in LoadBearing(plan)
  <2>1. plan.assumptions = {[id |-> PremiseId, load_bearing |-> TRUE]}
    BY DEF PlanFor
  <2>2. LoadBearing(plan) = {[id |-> PremiseId, load_bearing |-> TRUE].id}
    BY <2>1 DEF LoadBearing
  <2>3. QED
    BY <2>2
<1>2. DOMAIN results = {1} /\ results[1].verdict = "unknown"
  BY DEF Report
<1> HIDE DEF plan, results
<1>3. LatestVerdict(results, PremiseId) \subseteq {"contradicted", "unknown"}
  BY <1>2 DEF LatestVerdict
<1>4. BlockedAssumptions(plan, results) # {}
  BY <1>1, <1>3 DEF BlockedAssumptions
<1>5. QED
  BY <1>4 DEF DecideGate, plan, results

(* Fail closed: in every behaviour the answer is unknown exactly when the   *)
(* probe raises (an unreadable file, a missing param, a computed value, a   *)
(* test that does not end) or finds nothing to read; it then cites nothing, *)
(* and the gate blocks the premise if it bears load (probes.py:39-54,       *)
(* 65-198, gate.py:16-30).                                                  *)
THEOREM FailsClosed ==
  Spec => [](Answered =>
    /\ answer.verdict = "unknown" <=>
         Raises(case.file, case.probe) \/ NothingFits(case.file.body, case.probe)
    /\ answer.verdict = "unknown" =>
         answer.evidence = {} /\ (case.load_bearing = TRUE => gate.status = "block"))
<1> DEFINE Closed ==
      Answered =>
        /\ answer.verdict = "unknown" <=>
             Raises(case.file, case.probe) \/ NothingFits(case.file.body, case.probe)
        /\ answer.verdict = "unknown" =>
             answer.evidence = {} /\ (case.load_bearing = TRUE => gate.status = "block")
<1>1. AnswerInv /\ GateInv => Closed
  <2> SUFFICES ASSUME AnswerInv, GateInv, Answered
               PROVE  Closed
    OBVIOUS
  <2> DEFINE file == case.file
             spec == case.probe
  <2>1. /\ answer = RunProbe(file, spec) /\ file \in Files /\ spec.kind \in ProbeKinds
        /\ gate = DecideGate(PlanFor(case), <<Report(spec, answer)>>)
    BY CaseAssumption DEF AnswerInv, GateInv, Answered
  <2>2. file.readable \in BOOLEAN
    BY <2>1 DEF Files
  <2>3. answer.verdict = "unknown" <=> answer = Unknown
    <3>1. AnswerOf(spec, answer)
      BY <2>1, ExecutorsAnswer DEF AnswerOf, RunProbe
    <3>2. Unknown.verdict = "unknown"
      BY DEF Unknown
    <3>3. QED
      BY <3>1, <3>2 DEF AnswerOf
  <2> HIDE DEF file, spec
  <2>4. answer = Unknown <=> Raises(file, spec) \/ NothingFits(file.body, spec)
    <3>1. CASE file.readable = TRUE /\ RequiredParams(spec.kind) \subseteq DOMAIN spec
      <4>1. answer = Execute(file.body, spec)
        BY <2>1, <3>1 DEF RunProbe
      <4>2. QED
        BY <2>1, <3>1, <4>1, ExecutorKnows
    <3>2. CASE ~ (file.readable = TRUE /\ RequiredParams(spec.kind) \subseteq DOMAIN spec)
      <4>1. answer = Unknown
        BY <2>1, <2>2, <3>2 DEF RunProbe
      <4>2. Raises(file, spec)
        BY <2>2, <3>2 DEF Raises
      <4>3. QED
        BY <4>1, <4>2
    <3>3. QED
      BY <3>1, <3>2
  <2>5. answer = Unknown => answer.evidence = {}
    BY DEF Unknown
  <2>6. ASSUME answer.verdict = "unknown", case.load_bearing = TRUE
        PROVE  gate.status = "block"
    BY <2>1, <2>6, UnknownBlocks DEF spec
  <2>7. QED
    BY <2>3, <2>4, <2>5, <2>6 DEF file, spec
<1>2. QED
  BY <1>1, AnswerIsOwn, GateIsOwn, PTL

(* All frozen cases get the verdict and the gate the suite expects, beside  *)
(* any other cases, and whatever names and values there are besides         *)
(* (tests/test_probe_suite.py:14-23).                                       *)
THEOREM SuiteClassified == Spec => []SuiteIsClassified
<1>1. AnswerInv /\ GateInv => SuiteIsClassified
  <2> SUFFICES ASSUME AnswerInv, GateInv, Answered, case.expected # "any"
               PROVE  answer.verdict = case.expected /\ gate.status = ExpectedGate(case)
    BY DEF SuiteIsClassified
  <2>1. /\ case \in FrozenCases
        /\ answer = RunProbe(case.file, case.probe)
        /\ case.probe.kind \in ProbeKinds
    BY CaseAssumption DEF AnswerInv, Answered
  <2>2. /\ answer.verdict = case.expected
        /\ case.load_bearing = TRUE /\ case.probe.assumption_id = PremiseId
    BY <2>1, FrozenAsExpected DEF AsExpected
  <2>3. answer.verdict \in Verdicts
    BY <2>1, ReportIsResultOf
  <2>4. gate.status = IF answer.verdict = "verified" THEN "pass" ELSE "block"
    BY <2>2, <2>3, OneResultGate DEF GateInv
  <2>5. QED
    BY <2>2, <2>4 DEF ExpectedGate
<1>2. QED
  BY <1>1, AnswerIsOwn, GateIsOwn, PTL
=============================================================================
