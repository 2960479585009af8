---------------------------- MODULE AtomicStore -----------------------------
(***************************************************************************)
(* What the pipeline and the web service take the run store for: a table    *)
(* whose rows are inserted once, never deleted, and amended one update at a *)
(* time, each update working on the row as the previous one left it.        *)
(***************************************************************************)
EXTENDS StoreRows

VARIABLES rows,     \* the row of each id, or None
          rowids    \* the ids in the order of insertion

storeVars == <<rows, rowids>>

Init ==
  /\ rows = [i \in Ids |-> None]
  /\ rowids = << >>

Insert(i) ==
  /\ rows[i] = None
  /\ rows' = [rows EXCEPT ![i] = NewRow]
  /\ rowids' = Append(rowids, i)

Amend(i) ==
  /\ rows[i] # None
  /\ \E ch \in Change : rows' = [rows EXCEPT ![i] = Merge(@, ch)]
  /\ UNCHANGED rowids

Next == \E i \in Ids : Insert(i) \/ Amend(i)

Spec == Init /\ [][Next]_storeVars
=============================================================================
