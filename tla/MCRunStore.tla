----------------------------- MODULE MCRunStore -----------------------------
(***************************************************************************)
(* Instances of RunStore for TLC.                                            *)
(***************************************************************************)
EXTENDS RunStore, TLC

CONSTANTS pk

MCEvents == Clients \X (1..MaxCalls)

(* A stage with its event, the last update with the packet, and an update    *)
(* of nothing.                                                               *)
MCChanges ==
  {NoChange}
    \cup [stage : {"planning"}, event : MCEvents, packet : {None}]
    \cup [stage : {"complete"}, event : MCEvents, packet : {pk}]
=============================================================================
