--------------------------- MODULE MCModelClient ----------------------------
(***************************************************************************)
(* Small workspaces for ModelClient: any of four files, one in a build       *)
(* directory, shorter than the budget, as long as what is left of it, or     *)
(* longer; large, unreadable or gone; and every way to name the roots.       *)
(***************************************************************************)
EXTENDS ModelClient

Source(path, block) ==
  [path |-> path, suffix_allowed |-> TRUE, stat |-> "small", readable |-> TRUE,
   block |-> block]

Leading ==
  {Source(<<"a.py">>, n) : n \in {1, 3, 5}} \cup
  {[Source(<<"a.py">>, 1) EXCEPT !.stat = s] : s \in {"large", "fails"}} \cup
  {[Source(<<"a.py">>, 1) EXCEPT !.readable = FALSE]}

Trailing ==
  {Source(<<"src", "d.py">>, 2), [Source(<<"src", "d.py">>, 1) EXCEPT !.readable = FALSE]}

MCFiles ==
  {<<a, Source(<<"build", "b.py">>, 1)>> \o c \o d :
     a \in Leading, c \in {<< >>, <<Source(<<"src", "c.py">>, 1)>>},
     d \in {<< >>} \cup {<<f>> : f \in Trailing}}
    \cup {<< >>, <<Source(<<"a.py">>, 1), Source(Preferred \o <<"rewards.py">>, 4)>>}

Candidate(path) == [path |-> path, inside |-> TRUE, exists |-> TRUE]

MCExplicit ==
  {<< >>, <<Candidate(<<"src">>)>>, <<Candidate(<<"a.py">>)>>,
   <<Candidate(<<"src">>), Candidate(<< >>)>>,
   <<[path |-> <<"missing">>, inside |-> TRUE, exists |-> FALSE],
     [path |-> << >>, inside |-> FALSE, exists |-> TRUE]>>}

MCSources ==
  {w \in [files : MCFiles, below_excluded : {FALSE}, preferred : BOOLEAN,
          explicit : MCExplicit] :
     (\E i \in DOMAIN w.files : Under(Preferred, w.files[i])) => w.preferred}
    \cup {[files |-> <<Source(<<"a.py">>, 1)>>, below_excluded |-> TRUE,
           preferred |-> FALSE, explicit |-> << >>]}
=============================================================================
