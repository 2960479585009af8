----------------------------- MODULE StoreRows ------------------------------
(***************************************************************************)
(* One row of the run store and what create and update make of it           *)
(* (planprobe/store.py), shared by the atomic store and its implementation. *)
(***************************************************************************)
EXTENDS Naturals, Sequences

CONSTANTS Ids,          \* run ids
          StageNames,   \* stages an update may write
          Events,       \* events an update may append
          Packets,      \* packets an update may write
          None          \* an argument left out, a null column, no row

Row == [stage  : StageNames \cup {"queued"},
        events : Seq(Events),
        packet : Packets \cup {None}]

ASSUME RowAssumption ==
  /\ None \notin StageNames \cup Events \cup Packets
  /\ None \notin Row

(* The keyword arguments of update.                                        *)
Change == [stage  : StageNames \cup {None},
           event  : Events \cup {None},
           packet : Packets \cup {None}]

NewRow == [stage |-> "queued", events |-> << >>, packet |-> None]

(* Variant: the events column is replaced.                                 *)
MergeReplacing(row, ch) ==
  [stage  |-> IF ch.stage = None THEN row.stage ELSE ch.stage,
   events |-> IF ch.event = None THEN row.events ELSE <<ch.event>>,
   packet |-> IF ch.packet = None THEN row.packet ELSE ch.packet]

(* Variant: None means "write a null packet".                              *)
MergeNulling(row, ch) ==
  [stage  |-> ch.stage,
   events |-> IF ch.event = None THEN row.events
              ELSE Append(row.events, ch.event),
   packet |-> ch.packet]

(* What is left out keeps its column; an event goes to the end.            *)
Merge(row, ch) ==
  [stage  |-> IF ch.stage = None THEN row.stage ELSE ch.stage,
   events |-> IF ch.event = None THEN row.events
              ELSE Append(row.events, ch.event),
   packet |-> IF ch.packet = None THEN row.packet ELSE ch.packet]
=============================================================================
