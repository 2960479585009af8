------------------------------- MODULE MCDemo -------------------------------
(***************************************************************************)
(* One run of the demo, then claims with two keys around the hours at which  *)
(* the event opens and closes, in one region, in regions half a day apart,   *)
(* with a region twice, and with one that has no time zone.                  *)
(***************************************************************************)
EXTENDS Demo

MCInitialPlans == {DemoPlan}
MCProbeLists == {ProbeList}
MCPatches == {DemoPatch}
MCPaths == {"models.py", "rewards.py"}

MCRequests ==
  {[player_id |-> player, regions |-> regions, idempotency_key |-> key,
    streak_days |-> days, now_utc |-> [hour |-> hour, dst |-> dst]] :
     player \in {"player-7"}, key \in {"claim-1", "claim-2"},
     regions \in {<<"KR">>, <<"US", "JP", "US">>, <<"JP", "XX">>},
     days \in {0, 7, 30}, hour \in {5, 6, 13, 14, 16}, dst \in BOOLEAN}
    \cup
  {[player_id |-> "player-8", regions |-> <<"US">>, idempotency_key |-> "claim-1",
    streak_days |-> 6, now_utc |-> [hour |-> 23, dst |-> FALSE]]}
=============================================================================
