-------------------------- MODULE ModelClientProofs --------------------------
(***************************************************************************)
(* Proofs about a run's conversation with its model, for every workspace,   *)
(* every budget and whatever the server answers: the packed source fits the *)
(* budget and has no gap, the published counters can be audited, the        *)
(* requests are bounded, and what goes out is the prompt of the call under  *)
(* way.                                                                     *)
(***************************************************************************)
EXTENDS ModelClient, GateProofs

-----------------------------------------------------------------------------

(* Packing the repository (context.py).                                     *)

(* A chunk and a pack.                                                      *)
Chunks == [path : Seq(STRING), length : Nat, whole : BOOLEAN]

Packs == [chunks : Seq(Chunks), used : Nat, stopped : BOOLEAN, raised : BOOLEAN]

(* The sums of the lengths of the first chunks.                             *)
Totals(f, s) ==
  /\ f \in [0..Len(s) -> Nat]
  /\ f[0] = 0
  /\ \A n \in 1..Len(s) : f[n] = f[n - 1] + s[n].length
  /\ TotalLength(s) = f[Len(s)]

(* They are there.                                                          *)
LEMMA TotalRuns ==
  ASSUME NEW s \in Seq(Chunks)
  PROVE  \E f : Totals(f, s)
<1> DEFINE N == Len(s)
           Sums(f) == f = [n \in 0..N |-> IF n = 0 THEN 0 ELSE f[n - 1] + s[n].length]
<1>1. N \in Nat /\ \A n \in 1..N : s[n].length \in Nat
  <2>1. \A n \in 1..N : s[n] \in Chunks
    OBVIOUS
  <2>2. QED
    BY <2>1 DEF Chunks
<1>2. \E f : Sums(f)
  <2> DEFINE F == [p \in (1..N) \X Nat |-> p[2] + s[p[1]].length]
  <2>1. F \in [(1..N) \X Nat -> Nat] /\ 0 \in Nat
    BY <1>1
  <2>2. PICK f : IsLoop(f, N, Nat, 0, F)
    <3> HIDE DEF F, N
    <3>1. QED
      BY <1>1, <2>1, LoopExists
  <2>3. ASSUME NEW n \in 1..N PROVE f[n] = f[n - 1] + s[n].length
    <3>1. n - 1 \in 0..N /\ f[n - 1] \in Nat
      <4> HIDE DEF F, N
      <4>1. QED
        BY <1>1, <2>2 DEF IsLoop
    <3>2. F[<<n, f[n - 1]>>] = f[n - 1] + s[n].length
      BY <3>1
    <3>3. f[n] = F[<<n, f[n - 1]>>]
      BY <2>2 DEF IsLoop
    <3>4. QED
      BY <3>2, <3>3
  <2>4. \A n \in 0..N : f[n] = IF n = 0 THEN 0 ELSE f[n - 1] + s[n].length
    BY <1>1, <2>2, <2>3 DEF IsLoop
  <2>5. Sums(f)
    BY <2>2, <2>4 DEF IsLoop
  <2>6. QED
    BY <2>5
<1> DEFINE g == CHOOSE f : Sums(f)
<1>3. TotalLength(s) = g[N]
  BY DEF TotalLength
<1>4. Sums(g)
  BY <1>2
<1> HIDE DEF g
<1>5. g[0] = 0 /\ \A n \in 1..N : g[n] = g[n - 1] + s[n].length
  BY <1>1, <1>4
<1> DEFINE P == {n \in 0..N : g[n] \in Nat}
<1>6. \A n \in 0..N : n \in P
  <2>1. 0 \in P
    BY <1>1, <1>5
  <2>2. ASSUME NEW n \in 1..N, n - 1 \in P PROVE n \in P
    <3>1. g[n] = g[n - 1] + s[n].length /\ g[n - 1] \in Nat /\ s[n].length \in Nat
      BY <1>1, <1>5, <2>2
    <3>2. n \in 0..N /\ g[n] \in Nat
      <4> HIDE DEF N
      <4>1. QED
        BY <1>1, <3>1
    <3>3. QED
      BY <3>2
  <2> HIDE DEF P, N
  <2>3. QED
    BY <1>1, <2>1, <2>2, UpTo
<1>7. g \in [0..N -> Nat]
  BY <1>4, <1>6
<1>8. Totals(g, s)
  BY <1>3, <1>5, <1>7 DEF Totals
<1>9. QED
  BY <1>8

(* Nothing has no length.                                                   *)
LEMMA TotalOfNone == TotalLength(<< >>) = 0
<1>1. << >> \in Seq(Chunks) /\ Len(<< >>) = 0
  OBVIOUS
<1>2. PICK f : Totals(f, << >>)
  BY <1>1, TotalRuns
<1>3. QED
  BY <1>1, <1>2 DEF Totals

(* One chunk more adds its length.                                          *)
LEMMA TotalOfAppend ==
  ASSUME NEW s \in Seq(Chunks), NEW c \in Chunks
  PROVE  TotalLength(Append(s, c)) = TotalLength(s) + c.length
<1> DEFINE N == Len(s)
           t == Append(s, c)
<1>1. /\ t \in Seq(Chunks) /\ Len(t) = N + 1 /\ t[N + 1] = c /\ N \in Nat
      /\ \A n \in 1..N : t[n] = s[n]
  OBVIOUS
<1>2. PICK f : Totals(f, s)
  BY TotalRuns
<1> HIDE DEF t
<1>3. PICK g : Totals(g, t)
  BY <1>1, TotalRuns
<1> HIDE DEF N
<1> DEFINE P == {n \in 0..N : g[n] = f[n]}
<1>4. \A n \in 0..N : n \in P
  <2>1. 0 \in P
    BY <1>1, <1>2, <1>3 DEF Totals
  <2>2. ASSUME NEW n \in 1..N, n - 1 \in P PROVE n \in P
    <3>1. f[n] = f[n - 1] + s[n].length
      BY <1>2 DEF Totals, N
    <3>2. g[n] = g[n - 1] + t[n].length
      BY <1>1, <1>3 DEF Totals
    <3>3. QED
      BY <1>1, <2>2, <3>1, <3>2
  <2> HIDE DEF P
  <2>3. QED
    BY <1>1, <2>1, <2>2, UpTo
<1>5. g[N] = f[N]
  BY <1>1, <1>4
<1>6. g[N + 1] = g[N] + c.length
  BY <1>1, <1>3 DEF Totals
<1>7. QED
  BY <1>1, <1>2, <1>3, <1>5, <1>6 DEF Totals, t, N

(* What is filtered is a sequence over the same set (context.py:28-49).     *)
LEMMA FilteredType ==
  ASSUME NEW A, NEW s \in Seq(A), NEW kept
  PROVE  Filtered(s, kept) \in Seq(A)
<1> DEFINE N == Len(s)
           S == Seq(A)
           Step(x, n) == IF s[n] \in kept THEN Append(x, s[n]) ELSE x
           Runs(f) == f = [n \in 0..N |-> IF n = 0 THEN << >> ELSE Step(f[n - 1], n)]
<1>1. /\ N \in Nat /\ << >> \in S
      /\ \A n \in 1..N, x \in S : Step(x, n) \in S
  <2>1. \A n \in 1..N : s[n] \in A
    OBVIOUS
  <2>2. QED
    BY <2>1
<1> HIDE DEF S, Step
<1>2. \E f : Runs(f)
  <2> DEFINE F == [p \in (1..N) \X S |-> Step(p[2], p[1])]
  <2>1. F \in [(1..N) \X S -> S]
    BY <1>1
  <2>2. PICK f : IsLoop(f, N, S, << >>, F)
    <3> HIDE DEF F, N
    <3>1. QED
      BY <1>1, <2>1, LoopExists
  <2>3. ASSUME NEW n \in 1..N PROVE f[n] = Step(f[n - 1], n)
    <3>1. n - 1 \in 0..N /\ f[n - 1] \in S
      <4> HIDE DEF F, N
      <4>1. QED
        BY <1>1, <2>2 DEF IsLoop
    <3>2. F[<<n, f[n - 1]>>] = Step(f[n - 1], n)
      BY <3>1
    <3>3. QED
      BY <2>2, <3>2 DEF IsLoop
  <2>4. \A n \in 0..N : f[n] = IF n = 0 THEN << >> ELSE Step(f[n - 1], n)
    BY <1>1, <2>2, <2>3 DEF IsLoop
  <2>5. Runs(f)
    BY <2>2, <2>4 DEF IsLoop
  <2>6. QED
    BY <2>5
<1> DEFINE g == CHOOSE f : Runs(f)
<1>3. Filtered(s, kept) = g[N]
  BY DEF Filtered, Step
<1>4. Runs(g)
  BY <1>2
<1> HIDE DEF g
<1>5. g[0] = << >> /\ \A n \in 1..N : g[n] = Step(g[n - 1], n)
  BY <1>1, <1>4
<1> DEFINE P == {n \in 0..N : g[n] \in S}
<1>6. \A n \in 0..N : n \in P
  <2>1. 0 \in P
    BY <1>1, <1>5
  <2>2. ASSUME NEW n \in 1..N, n - 1 \in P PROVE n \in P
    BY <1>1, <1>5, <2>2
  <2> HIDE DEF P, N
  <2>3. QED
    BY <1>1, <2>1, <2>2, UpTo
<1>7. QED
  BY <1>1, <1>3, <1>6 DEF S

(* A root offers files of the workspace.                                    *)
LEMMA ListingType ==
  ASSUME NEW workspace \in Workspaces, NEW root
  PROVE  Listing(workspace, root) \in Seq(Files)
BY FilteredType DEF Listing, Workspaces

(* There are so many roots (context.py:13-27).                              *)
LEMMA RootsCount ==
  ASSUME NEW workspace \in Workspaces
  PROVE  Len(Roots(workspace)) \in Nat
<1> DEFINE usable == Filtered(workspace.explicit,
                              {candidate \in Range(workspace.explicit) :
                                 candidate.inside /\ candidate.exists})
<1>1. usable \in Seq(Candidates)
  BY FilteredType DEF Workspaces
<1> HIDE DEF usable
<1>2. Len([i \in DOMAIN usable |-> usable[i].path]) \in Nat
  <2>1. [i \in DOMAIN usable |-> usable[i].path] \in Seq({usable[i].path : i \in DOMAIN usable})
    BY <1>1
  <2>2. QED
    BY <2>1
<1>3. Len(<<Preferred>>) \in Nat /\ Len(<<(<< >>)>>) \in Nat
  OBVIOUS
<1>4. QED
  BY <1>2, <1>3 DEF Roots, usable

(* Adding a file to a pack makes a pack (context.py:57-76).                 *)
LEMMA AddFileType ==
  ASSUME NEW pack \in Packs, NEW file \in Files
  PROVE  AddFile(pack, file) \in Packs
<1>1. /\ pack.chunks \in Seq(Chunks) /\ pack.used \in Nat
      /\ pack.stopped \in BOOLEAN /\ pack.raised \in BOOLEAN
  BY DEF Packs
<1>2. file.path \in Seq(STRING) /\ file.block \in Nat
  BY DEF Files
<1>3. MaxChars \in Nat /\ Marker \in Nat
  BY BudgetAssumption
<1>4. ASSUME NEW c \in Chunks PROVE Add(pack, c) \in Packs
  <2>1. c.length \in Nat
    BY DEF Chunks
  <2>2. Append(pack.chunks, c) \in Seq(Chunks) /\ pack.used + c.length \in Nat
    BY <1>1, <2>1
  <2>3. QED
    BY <1>1, <2>2 DEF Add, Packs
<1> DEFINE remaining == MaxChars - pack.used
<1>5. ~ (remaining <= 0) => remaining + Marker \in Nat
  BY <1>1, <1>3
<1>6. Chunk(file, file.block, TRUE) \in Chunks
  BY <1>2 DEF Chunk, Chunks
<1>7. ~ (remaining <= 0) => Chunk(file, remaining + Marker, FALSE) \in Chunks
  <2> DEFINE length == remaining + Marker
  <2> HIDE DEF length
  <2>1. length \in Nat => Chunk(file, length, FALSE) \in Chunks
    BY <1>2 DEF Chunk, Chunks
  <2>2. QED
    BY <1>5, <2>1 DEF length
<1>8. [pack EXCEPT !.raised = TRUE] \in Packs /\ [pack EXCEPT !.stopped = TRUE] \in Packs
  BY DEF Packs
<1>9. QED
  BY <1>4, <1>6, <1>7, <1>8 DEF AddFile

(* The packs of the inner loop.                                             *)
Inner(f, pack, files) ==
  /\ f \in [0..Len(files) -> Packs]
  /\ f[0] = pack
  /\ \A n \in 1..Len(files) : f[n] = AddFile(f[n - 1], files[n])
  /\ AddFiles(pack, files) = f[Len(files)]

(* They are there.                                                          *)
LEMMA InnerRuns ==
  ASSUME NEW pack \in Packs, NEW files \in Seq(Files)
  PROVE  \E f : Inner(f, pack, files)
<1> DEFINE N == Len(files)
           Runs(f) == f = [n \in 0..N |-> IF n = 0 THEN pack
                                          ELSE AddFile(f[n - 1], files[n])]
<1>1. N \in Nat /\ \A n \in 1..N : files[n] \in Files
  OBVIOUS
<1>2. \A n \in 1..N, x \in Packs : AddFile(x, files[n]) \in Packs
  BY <1>1, AddFileType
<1>3. \E f : Runs(f)
  <2> DEFINE F == [p \in (1..N) \X Packs |-> AddFile(p[2], files[p[1]])]
  <2>1. F \in [(1..N) \X Packs -> Packs]
    BY <1>2
  <2>2. PICK f : IsLoop(f, N, Packs, pack, F)
    <3> HIDE DEF F, N
    <3>1. QED
      BY <1>1, <2>1, LoopExists
  <2>3. ASSUME NEW n \in 1..N PROVE f[n] = AddFile(f[n - 1], files[n])
    <3>1. n - 1 \in 0..N /\ f[n - 1] \in Packs
      <4> HIDE DEF F, N
      <4>1. QED
        BY <1>1, <2>2 DEF IsLoop
    <3>2. F[<<n, f[n - 1]>>] = AddFile(f[n - 1], files[n])
      BY <3>1
    <3>3. QED
      BY <2>2, <3>2 DEF IsLoop
  <2>4. \A n \in 0..N : f[n] = IF n = 0 THEN pack ELSE AddFile(f[n - 1], files[n])
    BY <1>1, <2>2, <2>3 DEF IsLoop
  <2>5. Runs(f)
    BY <2>2, <2>4 DEF IsLoop
  <2>6. QED
    BY <2>5
<1> DEFINE g == CHOOSE f : Runs(f)
<1>4. AddFiles(pack, files) = g[N]
  BY DEF AddFiles
<1>5. Runs(g)
  BY <1>3
<1> HIDE DEF g
<1>6. g[0] = pack /\ \A n \in 1..N : g[n] = AddFile(g[n - 1], files[n])
  BY <1>1, <1>5
<1> DEFINE P == {n \in 0..N : g[n] \in Packs}
<1>7. \A n \in 0..N : n \in P
  <2>1. 0 \in P
    BY <1>1, <1>6
  <2>2. ASSUME NEW n \in 1..N, n - 1 \in P PROVE n \in P
    BY <1>1, <1>2, <1>6, <2>2
  <2> HIDE DEF P, N
  <2>3. QED
    BY <1>1, <2>1, <2>2, UpTo
<1>8. g \in [0..N -> Packs]
  BY <1>5, <1>7
<1>9. Inner(g, pack, files)
  BY <1>4, <1>6, <1>8 DEF Inner
<1>10. QED
  BY <1>9

(* A root adds to a pack what makes a pack.                                 *)
LEMMA AddFilesType ==
  ASSUME NEW pack \in Packs, NEW files \in Seq(Files)
  PROVE  AddFiles(pack, files) \in Packs
<1>1. PICK f : Inner(f, pack, files)
  BY InnerRuns
<1>2. Len(files) \in 0..Len(files)
  OBVIOUS
<1>3. QED
  BY <1>1, <1>2 DEF Inner

(* One round of the outer loop.                                             *)
Round(pack, files) ==
  IF pack.used >= MaxChars \/ pack.raised THEN pack ELSE AddFiles(pack, files)

(* The packs of the outer loop (context.py:52-78).                          *)
Outer(f, workspace) ==
  /\ f \in [0..Len(Roots(workspace)) -> Packs]
  /\ f[0] = NoPack
  /\ \A n \in 1..Len(Roots(workspace)) :
       f[n] = Round(f[n - 1], Listing(workspace, Roots(workspace)[n]))
  /\ repository_context(workspace) = f[Len(Roots(workspace))]

(* They are there.                                                          *)
LEMMA OuterRuns ==
  ASSUME NEW workspace \in Workspaces
  PROVE  \E f : Outer(f, workspace)
<1> DEFINE roots == Roots(workspace)
           N == Len(roots)
           S == Packs
           Step(x, n) == Round(x, Listing(workspace, roots[n]))
           Runs(f) == f = [n \in 0..N |-> IF n = 0 THEN NoPack ELSE Step(f[n - 1], n)]
<1>1. /\ N \in Nat /\ NoPack \in S
      /\ \A n \in 1..N, x \in S : Step(x, n) \in S
  <2>1. N \in Nat
    BY RootsCount
  <2>2. NoPack \in S
    BY DEF NoPack, Packs
  <2>3. ASSUME NEW x \in S, NEW n \in 1..N PROVE Step(x, n) \in S
    BY ListingType, AddFilesType DEF Round
  <2>4. QED
    BY <2>1, <2>2, <2>3
<1> HIDE DEF S, Step, roots
<1>2. \E f : Runs(f)
  <2> DEFINE F == [p \in (1..N) \X S |-> Step(p[2], p[1])]
  <2>1. F \in [(1..N) \X S -> S]
    BY <1>1
  <2>2. PICK f : IsLoop(f, N, S, NoPack, F)
    <3> HIDE DEF F, N
    <3>1. QED
      BY <1>1, <2>1, LoopExists
  <2>3. ASSUME NEW n \in 1..N PROVE f[n] = Step(f[n - 1], n)
    <3>1. n - 1 \in 0..N /\ f[n - 1] \in S
      <4> HIDE DEF F, N
      <4>1. QED
        BY <1>1, <2>2 DEF IsLoop
    <3>2. F[<<n, f[n - 1]>>] = Step(f[n - 1], n)
      BY <3>1
    <3>3. QED
      BY <2>2, <3>2 DEF IsLoop
  <2>4. \A n \in 0..N : f[n] = IF n = 0 THEN NoPack ELSE Step(f[n - 1], n)
    BY <1>1, <2>2, <2>3 DEF IsLoop
  <2>5. Runs(f)
    BY <2>2, <2>4 DEF IsLoop
  <2>6. QED
    BY <2>5
<1> DEFINE g == CHOOSE f : Runs(f)
<1>3. repository_context(workspace) = g[N]
  BY DEF repository_context, Round, Step, roots
<1>4. Runs(g)
  BY <1>2
<1> HIDE DEF g
<1>5. g[0] = NoPack /\ \A n \in 1..N : g[n] = Step(g[n - 1], n)
  BY <1>1, <1>4
<1> DEFINE P == {n \in 0..N : g[n] \in S}
<1>6. \A n \in 0..N : n \in P
  <2>1. 0 \in P
    BY <1>1, <1>5
  <2>2. ASSUME NEW n \in 1..N, n - 1 \in P PROVE n \in P
    BY <1>1, <1>5, <2>2
  <2> HIDE DEF P, N
  <2>3. QED
    BY <1>1, <2>1, <2>2, UpTo
<1>7. g \in [0..N -> S]
  BY <1>4, <1>6
<1>8. Outer(g, workspace)
  BY <1>3, <1>5, <1>7 DEF Outer, S, Step, roots
<1>9. QED
  BY <1>8

(* What the first roots have to offer.                                      *)
Offers(f, workspace) ==
  /\ f \in [0..Len(Roots(workspace)) -> Seq(Files)]
  /\ f[0] = << >>
  /\ \A n \in 1..Len(Roots(workspace)) :
       f[n] = f[n - 1] \o Listing(workspace, Roots(workspace)[n])
  /\ Offered(workspace) = f[Len(Roots(workspace))]

(* It is there.                                                             *)
LEMMA OffersRun ==
  ASSUME NEW workspace \in Workspaces
  PROVE  \E f : Offers(f, workspace)
<1> DEFINE roots == Roots(workspace)
           N == Len(roots)
           S == Seq(Files)
           Step(x, n) == x \o Listing(workspace, roots[n])
           Runs(f) == f = [n \in 0..N |-> IF n = 0 THEN << >> ELSE Step(f[n - 1], n)]
<1>1. /\ N \in Nat /\ << >> \in S
      /\ \A n \in 1..N, x \in S : Step(x, n) \in S
  <2>1. N \in Nat
    BY RootsCount
  <2>2. << >> \in S
    OBVIOUS
  <2>3. ASSUME NEW x \in S, NEW n \in 1..N PROVE Step(x, n) \in S
    <3>1. Listing(workspace, roots[n]) \in Seq(Files)
      BY ListingType
    <3>2. QED
      BY <3>1
  <2>4. QED
    BY <2>1, <2>2, <2>3
<1> HIDE DEF S, Step, roots
<1>2. \E f : Runs(f)
  <2> DEFINE F == [p \in (1..N) \X S |-> Step(p[2], p[1])]
  <2>1. F \in [(1..N) \X S -> S]
    BY <1>1
  <2>2. PICK f : IsLoop(f, N, S, << >>, F)
    <3> HIDE DEF F, N
    <3>1. QED
      BY <1>1, <2>1, LoopExists
  <2>3. ASSUME NEW n \in 1..N PROVE f[n] = Step(f[n - 1], n)
    <3>1. n - 1 \in 0..N /\ f[n - 1] \in S
      <4> HIDE DEF F, N
      <4>1. QED
        BY <1>1, <2>2 DEF IsLoop
    <3>2. F[<<n, f[n - 1]>>] = Step(f[n - 1], n)
      BY <3>1
    <3>3. QED
      BY <2>2, <3>2 DEF IsLoop
  <2>4. \A n \in 0..N : f[n] = IF n = 0 THEN << >> ELSE Step(f[n - 1], n)
    BY <1>1, <2>2, <2>3 DEF IsLoop
  <2>5. Runs(f)
    BY <2>2, <2>4 DEF IsLoop
  <2>6. QED
    BY <2>5
<1> DEFINE g == CHOOSE f : Runs(f)
<1>3. Offered(workspace) = g[N]
  BY DEF Offered, Step, roots
<1>4. Runs(g)
  BY <1>2
<1> HIDE DEF g
<1>5. g[0] = << >> /\ \A n \in 1..N : g[n] = Step(g[n - 1], n)
  BY <1>1, <1>4
<1> DEFINE P == {n \in 0..N : g[n] \in S}
<1>6. \A n \in 0..N : n \in P
  <2>1. 0 \in P
    BY <1>1, <1>5
  <2>2. ASSUME NEW n \in 1..N, n - 1 \in P PROVE n \in P
    BY <1>1, <1>5, <2>2
  <2> HIDE DEF P, N
  <2>3. QED
    BY <1>1, <2>1, <2>2, UpTo
<1>7. g \in [0..N -> S]
  BY <1>4, <1>6
<1>8. Offers(g, workspace)
  BY <1>3, <1>5, <1>7 DEF Offers, S, Step, roots
<1>9. QED
  BY <1>8

(* A pack of the repository is a pack.                                      *)
LEMMA ContextType ==
  ASSUME NEW workspace \in Workspaces
  PROVE  repository_context(workspace) \in Packs
<1>1. PICK f : Outer(f, workspace)
  BY OuterRuns
<1>2. Len(Roots(workspace)) \in 0..Len(Roots(workspace))
  BY RootsCount
<1>3. QED
  BY <1>1, <1>2 DEF Outer

-----------------------------------------------------------------------------
(* What holds of a pack after every file.                                   *)

(* The budget is counted right, only the last chunk may be cut, and then it *)
(* is used up.                                                              *)
Counted(pack) ==
  /\ pack.used = TotalLength(pack.chunks)
  /\ pack.used <= MaxChars + Marker
  /\ pack.stopped => pack.used >= MaxChars
  /\ \A i \in 1..Len(pack.chunks) : ~ pack.chunks[i].whole =>
       i = Len(pack.chunks) /\ pack.used = MaxChars + Marker

(* It is a beginning of the first k files offered, all of them unless the   *)
(* budget is used up.                                                       *)
NoGap(pack, offered, k) ==
  pack.raised \/
    /\ Len(pack.chunks) <= k
    /\ \A i \in 1..Len(pack.chunks) : pack.chunks[i].path = offered[i].path
    /\ Len(pack.chunks) < k => pack.used >= MaxChars

(* The ways a file can be added.                                            *)
LEMMA AddFileCases ==
  ASSUME NEW pack \in Packs, NEW file \in Files
  PROVE  \/ AddFile(pack, file) = pack /\ (pack.stopped \/ pack.raised)
         \/ AddFile(pack, file) = [pack EXCEPT !.raised = TRUE]
         \/ /\ AddFile(pack, file) = [pack EXCEPT !.stopped = TRUE]
            /\ pack.used >= MaxChars
         \/ /\ pack.used < MaxChars
            /\ \E c \in Chunks :
                 /\ AddFile(pack, file) = Add(pack, c)
                 /\ c.path = file.path
                 /\ IF c.whole THEN pack.used + c.length <= MaxChars
                               ELSE pack.used + c.length = MaxChars + Marker
<1> DEFINE remaining == MaxChars - pack.used
<1>1. pack.used \in Nat /\ file.path \in Seq(STRING) /\ file.block \in Nat
  BY DEF Packs, Files
<1>2. MaxChars \in Nat /\ Marker \in Nat
  BY BudgetAssumption
<1>3. CASE pack.stopped \/ pack.raised
  BY <1>3 DEF AddFile
<1>4. CASE ~ (pack.stopped \/ pack.raised) /\ ~ file.readable
  BY <1>4 DEF AddFile
<1>5. CASE ~ (pack.stopped \/ pack.raised) /\ file.readable /\ remaining <= 0
  <2>1. AddFile(pack, file) = [pack EXCEPT !.stopped = TRUE]
    BY <1>5 DEF AddFile
  <2>2. pack.used >= MaxChars
    BY <1>1, <1>2, <1>5
  <2>3. QED
    BY <2>1, <2>2
<1>6. CASE /\ ~ (pack.stopped \/ pack.raised) /\ file.readable
           /\ ~ (remaining <= 0) /\ file.block > remaining
  <2> DEFINE length == remaining + Marker
             c == Chunk(file, length, FALSE)
  <2>1. pack.used < MaxChars /\ length \in Nat /\ pack.used + length = MaxChars + Marker
    BY <1>1, <1>2, <1>6
  <2>2. AddFile(pack, file) = Add(pack, c)
    BY <1>6 DEF AddFile
  <2> HIDE DEF length
  <2>3. c \in Chunks /\ c.path = file.path /\ c.whole = FALSE /\ c.length = length
    BY <1>1, <2>1 DEF Chunk, Chunks
  <2> HIDE DEF c
  <2>4. QED
    BY <2>1, <2>2, <2>3
<1>7. CASE /\ ~ (pack.stopped \/ pack.raised) /\ file.readable
           /\ ~ (remaining <= 0) /\ ~ (file.block > remaining)
  <2> DEFINE length == file.block
             c == Chunk(file, length, TRUE)
  <2>1. pack.used < MaxChars /\ length \in Nat /\ pack.used + length <= MaxChars
    BY <1>1, <1>2, <1>7
  <2>2. AddFile(pack, file) = Add(pack, c)
    BY <1>7 DEF AddFile
  <2> HIDE DEF length
  <2>3. c \in Chunks /\ c.path = file.path /\ c.whole = TRUE /\ c.length = length
    BY <1>1, <2>1 DEF Chunk, Chunks
  <2> HIDE DEF c
  <2>4. QED
    BY <2>1, <2>2, <2>3
<1>8. QED
  BY <1>3, <1>4, <1>5, <1>6, <1>7

(* The next file keeps both (context.py:57-76).                             *)
LEMMA AddFileKeeps ==
  ASSUME NEW pack \in Packs, NEW offered, NEW k \in Nat,
         offered[k + 1] \in Files, Counted(pack), NoGap(pack, offered, k)
  PROVE  /\ Counted(AddFile(pack, offered[k + 1]))
         /\ NoGap(AddFile(pack, offered[k + 1]), offered, k + 1)
<1> DEFINE file == offered[k + 1]
           next == AddFile(pack, file)
<1>1. /\ pack.chunks \in Seq(Chunks) /\ pack.used \in Nat /\ Len(pack.chunks) \in Nat
      /\ MaxChars \in Nat /\ Marker \in Nat
  BY BudgetAssumption DEF Packs
<1> HIDE DEF next
<1>2. CASE next = pack /\ (pack.stopped \/ pack.raised)
  <2>1. pack.raised \/ pack.used >= MaxChars
    BY <1>2 DEF Counted
  <2>2. NoGap(next, offered, k + 1)
    BY <1>1, <1>2, <2>1 DEF NoGap
  <2>3. QED
    BY <1>2, <2>2 DEF next
<1>3. CASE next = [pack EXCEPT !.raised = TRUE]
  <2>1. /\ next.chunks = pack.chunks /\ next.used = pack.used
        /\ next.stopped = pack.stopped /\ next.raised = TRUE
    BY <1>3 DEF Packs
  <2>2. QED
    BY <2>1 DEF Counted, NoGap, next
<1>4. CASE next = [pack EXCEPT !.stopped = TRUE] /\ pack.used >= MaxChars
  <2>1. /\ next.chunks = pack.chunks /\ next.used = pack.used
        /\ next.raised = pack.raised
    BY <1>4 DEF Packs
  <2>2. Counted(next)
    BY <1>4, <2>1 DEF Counted
  <2>3. NoGap(next, offered, k + 1)
    BY <1>1, <1>4, <2>1 DEF NoGap
  <2>4. QED
    BY <2>2, <2>3 DEF next
<1>5. ASSUME NEW c \in Chunks, next = Add(pack, c), pack.used < MaxChars,
             c.path = file.path,
             IF c.whole THEN pack.used + c.length <= MaxChars
                        ELSE pack.used + c.length = MaxChars + Marker
      PROVE  Counted(next) /\ NoGap(next, offered, k + 1)
  <2> DEFINE s == pack.chunks
             t == Append(s, c)
             n == Len(s)
  <2>1. /\ next.chunks = t /\ next.used = pack.used + c.length
        /\ next.stopped = pack.stopped /\ next.raised = pack.raised
    BY <1>5 DEF Add, Packs
  <2>2. c.length \in Nat
    BY DEF Chunks
  <2>3. Len(t) = n + 1 /\ t[n + 1] = c /\ \A i \in 1..n : t[i] = s[i]
    BY <1>1
  <2>4. TotalLength(t) = pack.used + c.length
    BY <1>1, TotalOfAppend DEF Counted
  <2>5. \A i \in 1..n : s[i].whole
    BY <1>1, <1>5 DEF Counted
  <2> HIDE DEF s, t, n
  <2>6. n \in Nat
    BY <1>1 DEF n, s
  <2>7. Counted(next)
    <3>1. next.used = TotalLength(next.chunks)
      BY <2>1, <2>4
    <3>2. next.used <= MaxChars + Marker
      BY <1>1, <1>5, <2>1, <2>2
    <3>3. next.stopped => next.used >= MaxChars
      BY <1>1, <1>5, <2>1 DEF Counted
    <3>4. ASSUME NEW i \in 1..Len(t), ~ t[i].whole
          PROVE  i = Len(t) /\ next.used = MaxChars + Marker
      <4>1. i = n + 1
        BY <2>3, <2>5, <2>6, <3>4
      <4>2. ~ c.whole
        BY <2>3, <3>4, <4>1
      <4>3. QED
        BY <1>5, <2>1, <2>3, <4>1, <4>2
    <3>5. QED
      BY <2>1, <3>1, <3>2, <3>3, <3>4 DEF Counted
  <2>8. NoGap(next, offered, k + 1)
    <3>1. CASE pack.raised
      BY <2>1, <3>1 DEF NoGap
    <3>2. CASE ~ pack.raised
      <4>1. n = k /\ \A i \in 1..n : s[i].path = offered[i].path
        BY <1>1, <1>5, <2>6, <3>2 DEF NoGap, n, s
      <4>2. \A i \in 1..(n + 1) : t[i].path = offered[i].path
        BY <1>5, <2>3, <2>6, <4>1
      <4>3. QED
        BY <2>1, <2>3, <2>6, <4>1, <4>2 DEF NoGap
    <3>3. QED
      BY <3>1, <3>2
  <2>9. QED
    BY <2>7, <2>8
<1>6. QED
  BY <1>2, <1>3, <1>4, <1>5, AddFileCases DEF next

(* A root's files keep both, when they come next (context.py:53-76).        *)
LEMMA AddFilesKeeps ==
  ASSUME NEW pack \in Packs, NEW files \in Seq(Files), NEW offered, NEW k \in Nat,
         \A n \in 1..Len(files) : offered[k + n] = files[n],
         Counted(pack), NoGap(pack, offered, k)
  PROVE  /\ Counted(AddFiles(pack, files))
         /\ NoGap(AddFiles(pack, files), offered, k + Len(files))
<1>1. PICK f : Inner(f, pack, files)
  BY InnerRuns
<1> DEFINE N == Len(files)
           P == {n \in 0..N : Counted(f[n]) /\ NoGap(f[n], offered, k + n)}
<1>2. N \in Nat
  OBVIOUS
<1>3. 0 \in P
  BY <1>1, <1>2 DEF Inner
<1>4. ASSUME NEW n \in 1..N, n - 1 \in P PROVE n \in P
  <2> DEFINE m == k + (n - 1)
  <2>1. m \in Nat /\ m + 1 = k + n /\ n - 1 \in 0..N
    BY <1>2
  <2>2. f[n - 1] \in Packs /\ f[n] = AddFile(f[n - 1], files[n])
    BY <1>1, <2>1 DEF Inner
  <2>3. offered[m + 1] = files[n] /\ files[n] \in Files
    BY <2>1
  <2>4. Counted(f[n - 1]) /\ NoGap(f[n - 1], offered, m)
    BY <1>4
  <2> HIDE DEF m
  <2>5. Counted(f[n]) /\ NoGap(f[n], offered, m + 1)
    BY <2>1, <2>2, <2>3, <2>4, AddFileKeeps
  <2>6. QED
    BY <2>1, <2>5
<1>5. N \in P
  <2> HIDE DEF P, N
  <2>1. \A n \in 0..N : n \in P
    BY <1>2, <1>3, <1>4, UpTo
  <2>2. QED
    BY <1>2, <2>1
<1>6. QED
  BY <1>1, <1>5 DEF Inner

(* Whatever comes after the first k does not matter to them.                *)
LEMMA NoGapLocal ==
  ASSUME NEW pack \in Packs, NEW s \in Seq(Files), NEW t \in Seq(Files),
         NoGap(pack, s, Len(s))
  PROVE  NoGap(pack, s \o t, Len(s))
<1>1. Len(pack.chunks) \in Nat
  BY DEF Packs
<1>2. \A i \in 1..Len(s) : (s \o t)[i] = s[i]
  OBVIOUS
<1>3. QED
  BY <1>1, <1>2 DEF NoGap

(* A root keeps both, and the break too (context.py:52-76).                 *)
LEMMA RoundKeeps ==
  ASSUME NEW pack \in Packs, NEW s \in Seq(Files), NEW files \in Seq(Files),
         Counted(pack), NoGap(pack, s, Len(s))
  PROVE  /\ Counted(Round(pack, files))
         /\ NoGap(Round(pack, files), s \o files, Len(s \o files))
<1> DEFINE t == s \o files
<1>1. /\ Len(s) \in Nat /\ Len(files) \in Nat /\ Len(t) = Len(s) + Len(files)
      /\ \A n \in 1..Len(files) : t[Len(s) + n] = files[n]
  OBVIOUS
<1>2. NoGap(pack, t, Len(s))
  BY NoGapLocal
<1> HIDE DEF t
<1>3. CASE pack.used >= MaxChars \/ pack.raised
  <2>1. Len(pack.chunks) \in Nat
    BY DEF Packs
  <2>2. NoGap(pack, t, Len(t))
    BY <1>1, <1>2, <1>3, <2>1 DEF NoGap
  <2>3. QED
    BY <1>3, <2>2 DEF Round, t
<1>4. CASE ~ (pack.used >= MaxChars \/ pack.raised)
  <2>1. /\ Counted(AddFiles(pack, files))
        /\ NoGap(AddFiles(pack, files), t, Len(s) + Len(files))
    BY <1>1, <1>2, AddFilesKeeps
  <2>2. QED
    BY <1>1, <1>4, <2>1 DEF Round, t
<1>5. QED
  BY <1>3, <1>4

(* So both hold of the pack of a repository.                                *)
LEMMA ContextKeeps ==
  ASSUME NEW workspace \in Workspaces
  PROVE  /\ Counted(repository_context(workspace))
         /\ NoGap(repository_context(workspace), Offered(workspace),
                  Len(Offered(workspace)))
<1> DEFINE roots == Roots(workspace)
           N == Len(roots)
<1>1. N \in Nat
  BY RootsCount
<1>2. PICK f : Outer(f, workspace)
  BY OuterRuns
<1>3. PICK g : Offers(g, workspace)
  BY OffersRun
<1> DEFINE P == {n \in 0..N : Counted(f[n]) /\ NoGap(f[n], g[n], Len(g[n]))}
<1>4. 0 \in P
  <2>1. NoPack.chunks = << >> /\ NoPack.used = 0 /\ NoPack.stopped = FALSE
    BY DEF NoPack
  <2>2. Counted(NoPack)
    BY <2>1, TotalOfNone, BudgetAssumption DEF Counted
  <2>3. NoGap(NoPack, << >>, Len(<< >>))
    BY <2>1 DEF NoGap
  <2>4. QED
    BY <1>1, <1>2, <1>3, <2>2, <2>3 DEF Outer, Offers
<1>5. ASSUME NEW n \in 1..N, n - 1 \in P PROVE n \in P
  <2> DEFINE files == Listing(workspace, roots[n])
  <2>1. n - 1 \in 0..N
    BY <1>1
  <2>2. files \in Seq(Files)
    BY ListingType
  <2>3. /\ f[n - 1] \in Packs /\ g[n - 1] \in Seq(Files)
        /\ f[n] = Round(f[n - 1], files) /\ g[n] = g[n - 1] \o files
    BY <1>2, <1>3, <2>1 DEF Outer, Offers
  <2> HIDE DEF files
  <2>4. Counted(f[n]) /\ NoGap(f[n], g[n], Len(g[n]))
    BY <1>5, <2>2, <2>3, RoundKeeps
  <2>5. QED
    BY <2>4
<1>6. N \in P
  <2> HIDE DEF P, N
  <2>1. QED
    BY <1>1, <1>4, <1>5, UpTo
<1>7. QED
  BY <1>2, <1>3, <1>6 DEF Outer, Offers

(* The pack of a repository fits the budget.                                *)
LEMMA PackFits ==
  ASSUME NEW workspace \in Workspaces
  PROVE  FitsBudget(repository_context(workspace).chunks)
<1> DEFINE chunks == repository_context(workspace).chunks
<1>1. chunks \in Seq(Chunks)
  BY ContextType DEF Packs
<1>2. Counted(repository_context(workspace))
  BY ContextKeeps
<1>3. TotalLength(chunks) = repository_context(workspace).used
  BY <1>2 DEF Counted
<1>4. DOMAIN chunks = 1..Len(chunks)
  BY <1>1
<1>5. QED
  BY <1>2, <1>3, <1>4 DEF Counted, FitsBudget

(* And has no gap, if every file that was opened could be read.             *)
LEMMA PackHasNoGap ==
  ASSUME NEW workspace \in Workspaces, ~ repository_context(workspace).raised
  PROVE  HasNoGap(workspace, repository_context(workspace).chunks)
<1> DEFINE chunks == repository_context(workspace).chunks
<1>1. chunks \in Seq(Chunks)
  BY ContextType DEF Packs
<1>2. /\ Counted(repository_context(workspace))
      /\ NoGap(repository_context(workspace), Offered(workspace),
               Len(Offered(workspace)))
  BY ContextKeeps
<1>3. TotalLength(chunks) = repository_context(workspace).used
  BY <1>2 DEF Counted
<1>4. DOMAIN chunks = 1..Len(chunks)
  BY <1>1
<1>5. QED
  BY <1>2, <1>3, <1>4 DEF NoGap, HasNoGap

-----------------------------------------------------------------------------
(* The conversation.                                                        *)

(* The pipeline asks four times (pipeline.py:47-108).                       *)
LEMMA FourCalls == Len(Calls) = 4
BY DEF Calls

(* What is packed for a call is a pack that fits the budget.                *)
LEMMA PackedType ==
  ASSUME NEW n, source \in Sources
  PROVE  /\ Packed(n) \in Packs
         /\ FitsBudget(Packed(n).chunks)
<1>1. source \in Workspaces
  BY RouteAssumption
<1>2. CASE Calls[n] = "replan"
  <2>1. Packed(n) = NoPack /\ NoPack.chunks = << >>
    BY <1>2 DEF Packed, NoPack
  <2>2. NoPack \in Packs
    BY DEF NoPack, Packs
  <2>3. FitsBudget(<< >>)
    BY TotalOfNone, BudgetAssumption DEF FitsBudget
  <2>4. QED
    BY <2>1, <2>2, <2>3
<1>3. CASE Calls[n] # "replan"
  BY <1>1, <1>3, ContextType, PackFits DEF Packed
<1>4. QED
  BY <1>2, <1>3

Messages == [role    : {"system", "user", "assistant"},
             about   : {Calls[n] : n \in DOMAIN Calls},
             context : Seq(Chunks)]

(* A prompt and a correction are messages.                                  *)
LEMMA PromptType ==
  ASSUME NEW n \in DOMAIN Calls, source \in Sources
  PROVE  Prompt(n) \in Seq(Messages) /\ Correction(n) \in Seq(Messages)
<1>1. Packed(n).chunks \in Seq(Chunks) /\ << >> \in Seq(Chunks)
  BY PackedType DEF Packs
<1>2. ASSUME NEW role \in {"system", "user", "assistant"}, NEW chunks \in Seq(Chunks)
      PROVE  Message(role, n, chunks) \in Messages
  BY DEF Message, Messages
<1>3. \A a, b \in Messages : <<a, b>> \in Seq(Messages)
  OBVIOUS
<1>4. QED
  BY <1>1, <1>2, <1>3 DEF Prompt, Correction

Places == {"pipeline", "post", "post_plain", "decode", "validate", "published", "raised"}

UnderWay == {"post", "post_plain", "decode", "validate"}

(* What the counters tell of each point of the conversation: every answer   *)
(* and every correction had a call, every call and every fallback a request.*)
CountInv ==
  /\ route \in Routes /\ format \in Formats /\ source \in Sources /\ at \in Places
  /\ answers \in 0..4 /\ attempt \in 0..1
  /\ calls \in Nat /\ retries \in Nat /\ fallbacks \in Nat /\ requests \in Nat
  /\ at \in UnderWay => answers < 4 /\ retries <= answers + attempt
  /\ at \in {"pipeline", "published"} => retries <= answers
  /\ at \in {"pipeline", "published", "post", "post_plain", "decode"} =>
       calls = answers + retries
  /\ at = "validate" => calls = answers + retries + 1
  /\ at \in {"pipeline", "published", "post", "post_plain", "validate"} =>
       requests = calls + fallbacks
  /\ at = "decode" => requests = calls + fallbacks + 1
  /\ at \in {"pipeline", "published", "post", "validate"} => fallbacks <= calls
  /\ at \in {"post_plain", "decode"} => fallbacks <= calls + 1
  /\ at = "raised" => requests <= 4 * (answers + 1)
  /\ ~ CanFallBack => fallbacks = 0
  /\ route = "anthropic" => retries = 0
  /\ at = "published" =>
       published = [llm_calls |-> calls, retries |-> retries, fallbacks |-> fallbacks]

(* What has gone out is the prompt of the call under way, and its           *)
(* correction.                                                              *)
OwnInv ==
  at \in UnderWay =>
    messages = Prompt(answers + 1)
                 \o (IF attempt = 1 THEN Correction(answers + 1) ELSE << >>)

(* Nothing is counted at first.                                             *)
LEMMA CountStarts == Init => CountInv
BY DEF Init, CountInv, Places, UnderWay

(* Every step keeps the books (openai_compat.py:70-133, anthropic.py).      *)
LEMMA CountHolds == CountInv /\ [Next]_vars => CountInv'
<1> SUFFICES ASSUME CountInv, [Next]_vars PROVE CountInv'
  OBVIOUS
<1> USE DEF CountInv, Places, UnderWay, CanFallBack, configVars, counters
<1>1. CASE Ask
  BY <1>1, FourCalls DEF Ask
<1>2. CASE PackingRaises
  BY <1>2, FourCalls DEF PackingRaises, Raises
<1>3. CASE Post
  BY <1>3 DEF Post
<1>4. CASE PostPlain
  BY <1>4 DEF PostPlain
<1>5. CASE PostFails
  BY <1>5 DEF PostFails, Raises
<1>6. CASE Decode
  BY <1>6 DEF Decode
<1>7. CASE DecodeFails
  BY <1>7 DEF DecodeFails, Raises
<1>8. CASE Accept
  BY <1>8 DEF Accept
<1>9. CASE Correct
  BY <1>9 DEF Correct
<1>10. CASE GiveUp
  BY <1>10 DEF GiveUp, Raises
<1>11. CASE Publish
  BY <1>11 DEF Publish
<1>12. CASE UNCHANGED vars
  BY <1>12 DEF vars
<1>13. QED
  BY <1>1, <1>2, <1>3, <1>4, <1>5, <1>6, <1>7, <1>8, <1>9, <1>10, <1>11, <1>12 DEF Next

(* Hence they are kept in every state.                                      *)
LEMMA CountsAreKept == Spec => []CountInv
BY CountStarts, CountHolds, PTL DEF Spec

(* The published counters reconcile with the answers and the requests sent  *)
(* (openai_compat.py:41-51 and 97-121).                                     *)
THEOREM MetricsAdd == Spec => []MetricsReconcile
<1>1. CountInv => MetricsReconcile
  BY DEF CountInv, MetricsReconcile, UnderWay
<1>2. QED
  BY <1>1, CountsAreKept, PTL

(* Four requests for each call at most, whatever the server does            *)
(* (openai_compat.py:70 and 97-104).                                        *)
THEOREM FourRequestsACall == Spec => []RequestsAreBounded
<1>1. CountInv => RequestsAreBounded
  BY DEF CountInv, RequestsAreBounded, UnderWay, Places
<1>2. QED
  BY <1>1, CountsAreKept, PTL

(* What goes out stays the prompt of the call under way.                    *)
LEMMA OwnIsKept == Spec => []OwnInv
<1>1. Init => OwnInv
  BY DEF Init, OwnInv, UnderWay
<1>2. CountInv /\ OwnInv /\ [Next]_vars => OwnInv'
  <2> SUFFICES ASSUME CountInv, OwnInv, [Next]_vars, at' \in UnderWay
               PROVE  (messages = Prompt(answers + 1)
                         \o (IF attempt = 1 THEN Correction(answers + 1) ELSE << >>))'
    BY DEF OwnInv
  <2>1. \A n : Prompt(n) \o << >> = Prompt(n)
    BY DEF Prompt
  <2>2. CASE Ask
    BY <2>1, <2>2 DEF Ask, Prompt, Packed, configVars
  <2>3. CASE Correct
    <3>1. messages = Prompt(answers + 1)
      BY <2>1, <2>3 DEF Correct, OwnInv, UnderWay
    <3>2. QED
      BY <2>3, <3>1 DEF Correct, Prompt, Packed, configVars
  <2>4. CASE UNCHANGED vars
    BY <2>4 DEF vars, configVars, OwnInv, Prompt, Packed
  <2>5. CASE Post \/ PostPlain \/ Decode
    BY <2>5 DEF Post, PostPlain, Decode, configVars, OwnInv, UnderWay, Prompt, Packed
  <2>6. ~ (PackingRaises \/ PostFails \/ DecodeFails \/ Accept \/ GiveUp \/ Publish)
    BY DEF PackingRaises, PostFails, DecodeFails, Accept, GiveUp, Publish, Raises, UnderWay
  <2>7. QED
    BY <2>2, <2>3, <2>4, <2>5, <2>6 DEF Next
<1>3. QED
  BY <1>1, <1>2, CountsAreKept, PTL DEF Spec

(* The conversation is the one of the call under way                        *)
(* (openai_compat.py:55-68 and 122-133).                                    *)
THEOREM NothingOfAnEarlierCall == Spec => []ConversationIsOwn
<1>1. OwnInv => ConversationIsOwn
  BY DEF OwnInv, ConversationIsOwn, UnderWay
<1>2. QED
  BY <1>1, OwnIsKept, PTL

(* Everything keeps its type (openai_compat.py, anthropic.py, context.py).  *)
THEOREM Types == Spec => []TypeOK
<1> DEFINE Typed == messages \in Seq(Messages)
                    /\ published \in [llm_calls : Nat, retries : Nat, fallbacks : Nat]
<1>1. Init => Typed
  BY DEF Init, Unpublished
<1>2. CountInv /\ Typed /\ [Next]_vars => Typed'
  <2> SUFFICES ASSUME CountInv, Typed, [Next]_vars PROVE Typed'
    OBVIOUS
  <2>1. source \in Sources /\ answers \in Nat /\ calls \in Nat /\ retries \in Nat
        /\ fallbacks \in Nat
    BY DEF CountInv
  <2>2. CASE Ask
    <3>1. answers + 1 \in DOMAIN Calls
      BY <2>1, <2>2 DEF Ask, Calls
    <3>2. Prompt(answers + 1) \in Seq(Messages)
      BY <2>1, <3>1, PromptType
    <3>3. QED
      BY <2>2, <3>2 DEF Ask
  <2>3. CASE Correct
    <3>1. answers + 1 \in DOMAIN Calls
      BY <2>1, <2>3 DEF Correct, Calls, CountInv, UnderWay
    <3>2. Correction(answers + 1) \in Seq(Messages)
      BY <2>1, <3>1, PromptType
    <3>3. QED
      BY <2>3, <3>2 DEF Correct
  <2>4. CASE Publish
    BY <2>1, <2>4 DEF Publish
  <2>5. CASE UNCHANGED <<messages, published>>
    BY <2>5
  <2>6. QED
    BY <2>2, <2>3, <2>4, <2>5
    DEF Next, vars, PackingRaises, Post, PostPlain, PostFails, Decode, DecodeFails,
        Accept, GiveUp, Raises
<1>3. CountInv /\ Typed => TypeOK
  BY FourCalls DEF CountInv, TypeOK, Places, Messages, Chunks
<1>4. QED
  BY <1>1, <1>2, <1>3, CountsAreKept, PTL DEF Spec

(* What is under way was packed from files that could be read.              *)
ReadInv == at \in UnderWay => ~ Packed(answers + 1).raised

(* The prompt is the second message, corrected or not.                      *)
LEMMA SentContext ==
  ASSUME OwnInv, at \in UnderWay
  PROVE  messages[2].context = Packed(answers + 1).chunks
<1> DEFINE n == answers + 1
           chunks == Packed(n).chunks
<1>1. messages = Prompt(n) \o (IF attempt = 1 THEN Correction(n) ELSE << >>)
  BY DEF OwnInv
<1> HIDE DEF n
<1>2. messages[2] = Message("user", n, chunks)
  <2> DEFINE a == Message("system", n, << >>)
             b == Message("user", n, chunks)
             c == Message("assistant", n, << >>)
             d == Message("user", n, << >>)
  <2>1. Prompt(n) = <<a, b>> /\ Correction(n) = <<c, d>>
    BY DEF Prompt, Correction
  <2> HIDE DEF a, b, c, d
  <2>2. (<<a, b>> \o <<c, d>>)[2] = b /\ (<<a, b>> \o << >>)[2] = b
    OBVIOUS
  <2>3. QED
    BY <1>1, <2>1, <2>2 DEF b
<1>3. QED
  BY <1>2 DEF Message, n

(* What a model is sent of the repository fits the budget, for every        *)
(* workspace, every budget and files of any length (context.py:65-75).      *)
THEOREM ContextFits == Spec => []ContextFitsBudget
<1>1. CountInv /\ OwnInv => ContextFitsBudget
  <2> SUFFICES ASSUME CountInv, OwnInv, at \in {"post", "post_plain"}
               PROVE  FitsBudget(messages[2].context)
    BY DEF ContextFitsBudget
  <2>1. FitsBudget(Packed(answers + 1).chunks)
    BY PackedType DEF CountInv
  <2>2. QED
    BY <2>1, SentContext DEF UnderWay
<1>2. QED
  BY <1>1, CountsAreKept, OwnIsKept, PTL

(* And it is all there is to see, or a beginning that uses the budget up:   *)
(* no file is skipped for a later one (context.py:52-75).                   *)
THEOREM ContextIsABeginning == Spec => []ContextHasNoGap
<1>1. Init => ReadInv
  BY DEF Init, ReadInv, UnderWay
<1>2. ReadInv /\ [Next]_vars => ReadInv'
  <2> SUFFICES ASSUME ReadInv, [Next]_vars, at' \in UnderWay
               PROVE  (~ Packed(answers + 1).raised)'
    BY DEF ReadInv
  <2>1. CASE Ask
    BY <2>1 DEF Ask, Packed, configVars
  <2>2. CASE Correct \/ Post \/ PostPlain \/ Decode \/ UNCHANGED vars
    BY <2>2 DEF Correct, Post, PostPlain, Decode, vars, configVars, ReadInv, UnderWay, Packed
  <2>3. ~ (PackingRaises \/ PostFails \/ DecodeFails \/ Accept \/ GiveUp \/ Publish)
    BY DEF PackingRaises, PostFails, DecodeFails, Accept, GiveUp, Publish, Raises, UnderWay
  <2>4. QED
    BY <2>1, <2>2, <2>3 DEF Next
<1>3. CountInv /\ OwnInv /\ ReadInv => ContextHasNoGap
  <2> SUFFICES ASSUME CountInv, OwnInv, ReadInv, at \in {"post", "post_plain"},
                      Calls[answers + 1] # "replan"
               PROVE  HasNoGap(source, messages[2].context)
    BY DEF ContextHasNoGap
  <2>1. Packed(answers + 1) = repository_context(source)
    BY DEF Packed
  <2>2. source \in Workspaces
    BY RouteAssumption DEF CountInv
  <2>3. ~ repository_context(source).raised
    BY <2>1 DEF ReadInv, UnderWay
  <2>4. HasNoGap(source, repository_context(source).chunks)
    BY <2>2, <2>3, PackHasNoGap
  <2>5. QED
    BY <2>1, <2>4, SentContext DEF UnderWay
<1>4. QED
  BY <1>1, <1>2, <1>3, CountsAreKept, OwnIsKept, PTL DEF Spec
=============================================================================
