---------------------------- MODULE ContextPack -----------------------------
(***************************************************************************)
(* The repository source a model gets to read (agent/context.py): the files *)
(* of one or several roots, filtered, in path order, until a budget of       *)
(* characters is used up.  A path is the sequence of its parts below the     *)
(* workspace; of a file's text only the length of its block matters.         *)
(***************************************************************************)
EXTENDS Integers, SequencesExt

CONSTANTS MaxChars,   \* 24,000 in the code
          Marker      \* the length of "\n<TRUNCATED/>\n"

ASSUME BudgetAssumption == MaxChars \in Nat \ {0} /\ Marker \in Nat

Preferred == <<"synthetic_app", "liveops_service">>

(* stat: the size, at most 512,000 bytes or more, or an OSError.           *)
Files == [path : Seq(STRING), suffix_allowed : BOOLEAN,
          stat : {"small", "large", "fails"}, readable : BOOLEAN, block : Nat]

(* A candidate of PLANPROBE_CONTEXT_ROOTS; between two commas is the base.  *)
Candidates == [path : Seq(STRING), inside : BOOLEAN, exists : BOOLEAN]

-----------------------------------------------------------------------------
Excluded == {".git", ".hg", ".svn", ".venv", "venv", "node_modules", "dist", "build",
             "__pycache__", ".pytest_cache", ".mypy_cache", ".ruff_cache"}

Under(root, file) == IsStrictPrefix(root, file.path)

(* A workspace: its files in path order, whether a directory above it has   *)
(* an excluded name, whether there is something at the demo's path, be it   *)
(* an empty directory, and the value of PLANPROBE_CONTEXT_ROOTS.            *)
Workspaces ==
  {w \in [files : Seq(Files), below_excluded : BOOLEAN, preferred : BOOLEAN,
          explicit : Seq(Candidates)] :
     (\E i \in DOMAIN w.files : Under(Preferred, w.files[i])) => w.preferred}

(* The elements of a sequence that are kept, in their order.               *)
Filtered(s, kept) ==
  LET filtered[n \in 0..Len(s)] ==
        IF n = 0 THEN << >>
        ELSE IF s[n] \in kept THEN Append(filtered[n - 1], s[n]) ELSE filtered[n - 1]
  IN filtered[Len(s)]

(* The candidates that exist inside the workspace; if there are none, the   *)
(* demo's service, if there is none, the workspace.                         *)
Roots(workspace) ==
  LET usable == Filtered(workspace.explicit,
                         {candidate \in Range(workspace.explicit) :
                            candidate.inside /\ candidate.exists})
  IN IF usable # << >> THEN [i \in DOMAIN usable |-> usable[i].path]
     ELSE IF workspace.preferred THEN <<Preferred>> ELSE <<(<< >>)>>

(* The parts of the absolute path are looked at, the workspace's included.  *)
Admissible(workspace, file) ==
  /\ file.suffix_allowed
  /\ ~ workspace.below_excluded
  /\ \A i \in DOMAIN file.path : file.path[i] \notin Excluded
  /\ file.stat = "small"

Listing(workspace, root) ==
  Filtered(workspace.files,
           {file \in Range(workspace.files) :
              Under(root, file) /\ Admissible(workspace, file)})

NoPack == [chunks |-> << >>, used |-> 0, stopped |-> FALSE, raised |-> FALSE]

Chunk(file, length, whole) == [path |-> file.path, length |-> length, whole |-> whole]

Add(pack, chunk) ==
  [pack EXCEPT !.chunks = Append(@, chunk), !.used = @ + chunk.length]

(* Variant: a block that does not fit is left out and the next one tried.  *)
SkipBlock(pack, file) ==
  IF pack.stopped \/ pack.raised THEN pack
  ELSE IF ~ file.readable THEN [pack EXCEPT !.raised = TRUE]
  ELSE IF file.block > MaxChars - pack.used THEN pack
  ELSE Add(pack, Chunk(file, file.block, TRUE))

(* Variant: the budget is not counted down.                                *)
AddUncounted(pack, file) ==
  IF pack.stopped \/ pack.raised THEN pack
  ELSE IF ~ file.readable THEN [pack EXCEPT !.raised = TRUE]
  ELSE IF file.block > MaxChars
  THEN Add(pack, Chunk(file, MaxChars + Marker, FALSE))
  ELSE Add(pack, Chunk(file, file.block, TRUE))

(* The body of the inner loop: the file is read before the budget is looked *)
(* at, and what does not fit is cut.                                        *)
AddFile(pack, file) ==
  LET remaining == MaxChars - pack.used IN
  IF pack.stopped \/ pack.raised THEN pack
  ELSE IF ~ file.readable THEN [pack EXCEPT !.raised = TRUE]
  ELSE IF remaining <= 0 THEN [pack EXCEPT !.stopped = TRUE]
  ELSE IF file.block > remaining THEN Add(pack, Chunk(file, remaining + Marker, FALSE))
  ELSE Add(pack, Chunk(file, file.block, TRUE))

(* The inner loop, over the files of one root.                             *)
AddFiles(pack, files) ==
  LET added[n \in 0..Len(files)] ==
        IF n = 0 THEN pack ELSE AddFile(added[n - 1], files[n])
  IN added[Len(files)]

(* The outer loop, with its break.                                         *)
repository_context(workspace) ==
  LET roots == Roots(workspace)
      packed[n \in 0..Len(roots)] ==
        IF n = 0 THEN NoPack
        ELSE IF packed[n - 1].used >= MaxChars \/ packed[n - 1].raised THEN packed[n - 1]
        ELSE AddFiles(packed[n - 1], Listing(workspace, roots[n]))
  IN packed[Len(roots)]

-----------------------------------------------------------------------------
TotalLength(chunks) ==
  LET total[n \in 0..Len(chunks)] ==
        IF n = 0 THEN 0 ELSE total[n - 1] + chunks[n].length
  IN total[Len(chunks)]

(* All that the roots have to offer, in order.                             *)
Offered(workspace) ==
  LET roots == Roots(workspace)
      offered[n \in 0..Len(roots)] ==
        IF n = 0 THEN << >> ELSE offered[n - 1] \o Listing(workspace, roots[n])
  IN offered[Len(roots)]

(* The pack fits: the budget is passed by the mark of one cut at most, and  *)
(* only what comes last is cut.                                             *)
FitsBudget(chunks) ==
  /\ TotalLength(chunks) <= MaxChars + Marker
  /\ \A i \in DOMAIN chunks : ~ chunks[i].whole =>
       i = Len(chunks) /\ TotalLength(chunks) = MaxChars + Marker

(* Nothing is left out for nothing: the chunks are a beginning of what the  *)
(* roots have to offer, all of it unless the budget is used up.             *)
HasNoGap(workspace, chunks) ==
  LET offered == Offered(workspace) IN
  /\ Len(chunks) <= Len(offered)
  /\ \A i \in DOMAIN chunks : chunks[i].path = offered[i].path
  /\ Len(chunks) < Len(offered) => TotalLength(chunks) >= MaxChars
=============================================================================
