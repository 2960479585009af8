---------------------------- MODULE MCProbeSuite ----------------------------
(***************************************************************************)
(* A laboratory of small files for ProbeSuite: up to two definitions of one *)
(* or two names, every shape the executors tell apart, crossed with probes  *)
(* that fit, do not fit, or lack a parameter.                               *)
(***************************************************************************)
EXTENDS ProbeSuite, TLC

CONSTANTS p1, a1

MCNames == STRING

(* A literal with the str() of a text, and an expression.                  *)
Other(value) == [kind |-> "other", str |-> value]
Computed == [kind |-> "computed", str |-> "UTC"]

(* The definition with the name on line k as well.                         *)
Naming(definition, k, name) == [definition EXCEPT !.text = @ \cup {<<k, name>>}]

LabMappings ==
  {Mapping(n, vs) : n \in {"f", "fg"},
     vs \in {<< >>, <<Quoted("UTC")>>, <<Quoted("UTC"), Quoted("KST")>>,
             <<Quoted("KST"), Quoted("UTC")>>, <<Other("UTC")>>,
             <<Quoted("UTC"), Computed>>}}

LabClasses ==
  {[kind |-> "class", name |-> n, fields |-> fs, text |-> {<<0, n>>}] :
     n \in {"f", "fg"},
     fs \in {<< >>} \cup
       {<<[name |-> "x", annotation |-> a], [name |-> m, annotation |-> b]>> :
          m \in {"x", "y"}, a, b \in Annotations}}

LabFunctions ==
  {[kind |-> "function", name |-> n, async |-> s, params |-> ps,
    calls |-> cs, outcome |-> o, text |-> {<<0, n>>}] :
     n \in {"f", "fg"}, s \in BOOLEAN, ps \in {<< >>, <<"x">>, <<"y", "x">>},
     cs \in {<< >>, <<{"save"}>>, <<{"check", "save"}>>, <<{"check"}, {"save"}>>,
             <<{"save"}, {"check"}, {"save"}>>, <<{"check"}, {"save"}, {"check"}>>},
     o \in {"passes", "fails", "hangs"}}

(* Definitions of f, and of other names, whose text may have f in it: as a  *)
(* part of their own name, in a line of their body or one above them.       *)
Typical ==
  {Mapping("f", <<Quoted("UTC")>>), Mapping("f", <<Quoted("KST")>>),
   Class("f", "x", "plain"), Class("f", "x", "list_of"), Class("f", "y", "plain"),
   Function("f", <<"x">>, <<{"check"}, {"save"}>>),
   Function("f", << >>, <<{"save"}, {"check"}>>),
   Test("f", "fails"), Test("f", "hangs"), Naming(Test("f", "passes"), -1, "f"),
   Naming(Mapping("fg", << >>), 0, "f"),
   Naming(Class("fg", "x", "list_of"), 0, "f"),
   Naming(Function("fg", <<"y">>, << >>), 0, "f"),
   Function("save", << >>, << >>), Function("save", << >>, <<{"f"}>>),
   Naming(Function("save", << >>, << >>), -1, "f")}

Bodies ==
  {<< >>} \cup {<<d>> : d \in LabMappings \cup LabClasses \cup LabFunctions}
          \cup {<<d, e>> : d, e \in Typical}

Sensible ==
  {AllEqual("f", "UTC"), Shape("f", "x", "scalar"), Shape("f", "x", "list"),
   Node("f"), Order("f", "check", "save"), Order("f", "save", "check"),
   Order("f", "check", "check"), Signature("f", <<"x">>, "subset"),
   Signature("f", <<"x">>, "exact"), Signature("f", << >>, "subset")}

Incomplete ==
  {[id |-> p1, assumption_id |-> a1, kind |-> k] : k \in ProbeKinds}
    \cup {[id |-> p1, assumption_id |-> a1, kind |-> "function_signature",
           function |-> "f"]}

MCLab ==
  {[file |-> Readable(body), probe |-> probe, expected |-> "any",
    load_bearing |-> TRUE] : body \in Bodies, probe \in Sensible}
   \cup
  {[file |-> [readable |-> r, body |-> <<Function("f", <<"x">>, << >>)>>],
    probe |-> probe, expected |-> "any", load_bearing |-> lb] :
     r \in BOOLEAN, lb \in BOOLEAN, probe \in Sensible \cup Incomplete}

=============================================================================
