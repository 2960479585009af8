------------------------------ MODULE Rewards -------------------------------
(***************************************************************************)
(* The program PlanProbe's demo edits (synthetic_app/liveops_service): one  *)
(* function that pays a claim once per idempotency key, if the event is     *)
(* open, by local time, in a region of the claim.  The demo provider's      *)
(* patch adds a bonus for a streak of days.  Here the program runs side by  *)
(* side before and after that patch, and both get the same claims.          *)
(***************************************************************************)
EXTENDS Integers, Sequences

CONSTANT Requests   \* claims that callers make

Regions == {"KR", "JP", "US"}

(* The instant astimezone makes of now_utc: its hour, UTC, of a day with or *)
(* without daylight saving in the US.  A time that comes without a zone,    *)
(* which models.py:13 lets pass, is read in the server's own, so that the   *)
(* instant need not be the caller's; what the caller meant is left out.     *)
Instants == [hour : 0..23, dst : BOOLEAN]

(* RewardRequest as pydantic lets it pass: a region is any string.         *)
ASSUME RequestAssumption ==
  \A request \in Requests :
    /\ request.regions \in Seq(STRING) /\ request.regions # << >>
    /\ request.streak_days \in 0..30
    /\ request.now_utc \in Instants

VARIABLES original, patched,   \* [receipts, ledger] of the two programs
          asked                \* history: the requests they were written for

rewardVars == <<original, patched, asked>>

-----------------------------------------------------------------------------
EventStart == 9
EventEnd == 23

(* What zoneinfo adds to UTC: nine hours in Asia/Seoul and Asia/Tokyo,      *)
(* minus eight or minus seven in America/Los_Angeles.                       *)
LocalHour(region, now) ==
  (now.hour + CASE region \in {"KR", "JP"} -> 9
                [] region = "US" -> IF now.dst THEN 17 ELSE 16) % 24

(* Variant: the last hour is taken to belong to the event.                 *)
OpenToTheEnd(region, now) == LocalHour(region, now) \in EventStart..EventEnd

is_event_open(region, now) ==
  LocalHour(region, now) \in EventStart..(EventEnd - 1)

(* The regions of the claim whose event is open, in their order.           *)
Eligible(request) ==
  LET regions == request.regions
      eligible[n \in 0..Len(regions)] ==
        IF n = 0 THEN << >>
        ELSE IF is_event_open(regions[n], request.now_utc)
             THEN Append(eligible[n - 1], regions[n]) ELSE eligible[n - 1]
  IN eligible[Len(regions)]

BaseCoins(request) == IF Eligible(request) # << >> THEN 100 ELSE 0

(* Variant: the bonus is paid whether or not the event is open.            *)
BonusAnyway(request) ==
  10 * (IF request.streak_days < 7 THEN request.streak_days ELSE 7)

StreakBonus(request) ==
  IF Eligible(request) # << >>
  THEN 10 * (IF request.streak_days < 7 THEN request.streak_days ELSE 7)
  ELSE 0

(* What receipt and ledger tell of the money.  "breakdown" is base_coins,   *)
(* streak_bonus and total_coins, fields the original receipt lacks.         *)
OriginalReceipt(request, id) ==
  [claim_id |-> id, coins |-> BaseCoins(request), breakdown |-> << >>,
   eligible_regions |-> Eligible(request)]

PatchedReceipt(request, id) ==
  LET total == BaseCoins(request) + StreakBonus(request) IN
  [claim_id |-> id, coins |-> total,
   breakdown |-> <<BaseCoins(request), StreakBonus(request), total>>,
   eligible_regions |-> Eligible(request)]

-----------------------------------------------------------------------------
(* claim_reward.                                                           *)

Empty == [receipts |-> << >>, ledger |-> << >>]

(* Variant: the receipt of another player's claim does not count.          *)
AnsweredToPlayer(state, request) ==
  /\ request.idempotency_key \in DOMAIN state.receipts
  /\ \E i \in DOMAIN state.ledger : state.ledger[i].player_id = request.player_id

Answered(state, request) == request.idempotency_key \in DOMAIN state.receipts

(* REGION_TIMEZONES[region] raises for a region without a zone.            *)
Raises(request) == \E i \in DOMAIN request.regions : request.regions[i] \notin Regions

(* A key that has a receipt changes nothing, nor does a claim that raises;  *)
(* otherwise receipt and ledger row are stored together.                    *)
Pay(state, request, receipt) ==
  IF Answered(state, request) \/ Raises(request) THEN state
  ELSE [receipts |-> [key \in DOMAIN state.receipts \cup {request.idempotency_key} |->
                        IF key = request.idempotency_key THEN receipt
                        ELSE state.receipts[key]],
        ledger   |-> Append(state.ledger,
                       [player_id |-> request.player_id, claim_id |-> receipt.claim_id,
                        coins |-> receipt.coins, regions |-> receipt.eligible_regions])]

-----------------------------------------------------------------------------
RewardInit ==
  /\ original = Empty
  /\ patched = Empty
  /\ asked = << >>

(* A claim reaches both programs; the id, a fresh UUID in each, is the next *)
(* number.                                                                  *)
Claim(request) ==
  LET id == Len(asked) + 1 IN
  /\ original' = Pay(original, request, OriginalReceipt(request, id))
  /\ patched' = Pay(patched, request, PatchedReceipt(request, id))
  /\ asked' = IF Answered(original, request) \/ Raises(request) THEN asked
              ELSE Append(asked, request)

RewardNext == \E request \in Requests : Claim(request)

RewardSpec == RewardInit /\ [][RewardNext]_rewardVars

-----------------------------------------------------------------------------
Key(request) == request.idempotency_key

(* One receipt per key, and a ledger that tells what the receipts tell.    *)
Matches(program, requests) ==
  /\ DOMAIN program.receipts = {Key(requests[i]) : i \in DOMAIN requests}
  /\ program.ledger =
       [i \in DOMAIN requests |->
          LET receipt == program.receipts[Key(requests[i])] IN
          [player_id |-> requests[i].player_id, claim_id |-> receipt.claim_id,
           coins |-> receipt.coins, regions |-> receipt.eligible_regions]]

PaidOnce(requests) ==
  \A i, j \in DOMAIN requests : Key(requests[i]) = Key(requests[j]) => i = j

(* Each key is paid once, whatever is claimed again, by whom and with which *)
(* regions: one row per receipt, and row and receipt still tell what the    *)
(* first claim of the key was given (rewards.py:25-27 and 37-45).           *)
LedgerMatchesReceipts ==
  /\ PaidOnce(asked)
  /\ Matches(original, asked)
  /\ Matches(patched, asked)

(* The hours, UTC, in which the event is open in a region.                 *)
OpenHours(region, dst) ==
  CASE region \in {"KR", "JP"} -> 0..13
    [] region = "US" /\ dst    -> 16..23 \cup 0..5
    [] OTHER                   -> 17..23 \cup 0..6

(* Nobody is paid for a region whose event is closed where the player is,   *)
(* and no open region of a claim is left out, across midnight and daylight  *)
(* saving (rewards.py:19-21 and 29).                                        *)
PaidRegionsAreOpen ==
  \A i \in DOMAIN asked :
    LET eligible == original.receipts[Key(asked[i])].eligible_regions IN
    {eligible[k] : k \in DOMAIN eligible} =
      {region \in {asked[i].regions[k] : k \in DOMAIN asked[i].regions} :
         asked[i].now_utc.hour \in OpenHours(region, asked[i].now_utc.dst)}

(* The patch adds a bonus and changes nothing else: every claim is answered *)
(* as before, for the same regions, and pays what it paid and at most 70    *)
(* coins more; who was paid nothing is paid nothing, and a longer streak is *)
(* never paid less (deterministic.py:121-149 and 158).                      *)
PatchKeepsContract ==
  \A i \in DOMAIN asked :
    LET old == original.receipts[Key(asked[i])]
        new == patched.receipts[Key(asked[i])]
        bonus == new.coins - old.coins
    IN /\ new.eligible_regions = old.eligible_regions
       /\ new.breakdown = <<old.coins, bonus, new.coins>>
       /\ bonus \in 0..70
       /\ old.coins = 0 \/ asked[i].streak_days = 0 => bonus = 0
       /\ \A j \in DOMAIN asked :
            original.receipts[Key(asked[j])].coins = old.coins
              /\ asked[j].streak_days <= asked[i].streak_days
            => patched.receipts[Key(asked[j])].coins <= new.coins
=============================================================================
