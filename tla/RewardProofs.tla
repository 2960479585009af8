---------------------------- MODULE RewardProofs ----------------------------
(***************************************************************************)
(* For every set of claims, in every order and however often repeated: the  *)
(* reward service pays each key once, before and after the demo's patch,    *)
(* the patch keeps what the service promised, and who is paid is open.      *)
(* For every number of demos, whatever fails in them: what the probes find  *)
(* in the service, where the gate stops, and what the patch leaves true.    *)
(***************************************************************************)
EXTENDS Demo, PipelineProofs

(* The requests paid after one more claim to a program.                     *)
PaidAfter(program, requests, request) ==
  IF Answered(program, request) \/ Raises(request) THEN requests
  ELSE Append(requests, request)

(* Paying keeps receipts and ledger together and every earlier receipt      *)
(* (rewards.py:24-46).                                                      *)
LEMMA PayKeepsMatch ==
  ASSUME NEW requests \in Seq(Requests), PaidOnce(requests),
         NEW program, Matches(program, requests),
         NEW request \in Requests, NEW receipt
  PROVE  /\ Matches(Pay(program, request, receipt), PaidAfter(program, requests, request))
         /\ PaidOnce(PaidAfter(program, requests, request))
<1> DEFINE key == Key(request)
           more == Append(requests, request)
           after == Pay(program, request, receipt)
           row(p, r) == [player_id |-> r.player_id,
                         claim_id |-> p.receipts[Key(r)].claim_id,
                         coins |-> p.receipts[Key(r)].coins,
                         regions |-> p.receipts[Key(r)].eligible_regions]
<1>1. CASE Answered(program, request) \/ Raises(request)
  BY <1>1 DEF PaidAfter, Pay
<1>2. CASE ~ (Answered(program, request) \/ Raises(request))
  <2>1. PaidAfter(program, requests, request) = more
    BY <1>2 DEF PaidAfter
  <2>2. key \notin DOMAIN program.receipts
    BY <1>2 DEF Answered, Key
  <2>3. \A i \in DOMAIN requests : Key(requests[i]) # key
    BY <2>2 DEF Matches
  <2>4. /\ after.receipts = [k \in DOMAIN program.receipts \cup {key} |->
                               IF k = key THEN receipt ELSE program.receipts[k]]
        /\ after.ledger = Append(program.ledger,
             [player_id |-> request.player_id, claim_id |-> receipt.claim_id,
              coins |-> receipt.coins, regions |-> receipt.eligible_regions])
    BY <1>2 DEF Pay, Key
  <2>5. /\ DOMAIN requests = 1..Len(requests) /\ DOMAIN more = 1..(Len(requests) + 1)
        /\ \A i \in DOMAIN requests : more[i] = requests[i]
        /\ more[Len(requests) + 1] = request
    OBVIOUS
  <2>6. PaidOnce(more)
    BY <2>3, <2>5 DEF PaidOnce
  <2>7. DOMAIN after.receipts = {Key(more[i]) : i \in DOMAIN more}
    BY <2>4, <2>5 DEF Matches
  <2>8. after.ledger = [i \in DOMAIN more |-> row(after, more[i])]
    <3>1. program.ledger = [i \in DOMAIN requests |-> row(program, requests[i])]
      BY DEF Matches
    <3>2. after.receipts[key] = receipt
      BY <2>4
    <3>3. \A i \in DOMAIN requests :
            after.receipts[Key(requests[i])] = program.receipts[Key(requests[i])]
      BY <2>3, <2>4 DEF Matches
    <3>4. \A i \in DOMAIN requests : row(after, more[i]) = row(program, requests[i])
      BY <2>5, <3>3
    <3>5. after.ledger = Append(program.ledger, row(after, request))
      BY <2>4, <3>2
    <3> HIDE DEF row, after, more
    <3>6. program.ledger \in Seq({row(program, requests[i]) : i \in DOMAIN requests})
            /\ Len(program.ledger) = Len(requests)
      BY <2>5, <3>1
    <3>7. \A i \in DOMAIN more : after.ledger[i] = row(after, more[i])
      BY <2>5, <3>1, <3>4, <3>5, <3>6
    <3>8. after.ledger = [i \in 1..(Len(requests) + 1) |-> after.ledger[i]]
      BY <3>5, <3>6
    <3>9. QED
      BY <2>5, <3>7, <3>8
  <2>9. Matches(after, more)
    BY <2>7, <2>8 DEF Matches
  <2>10. QED
    BY <2>1, <2>6, <2>9
<1>3. QED
  BY <1>1, <1>2

-----------------------------------------------------------------------------
(* Receipts and ledgers of both programs, for the claims that were paid.    *)
LedgerInv == asked \in Seq(Requests) /\ LedgerMatchesReceipts

(* Both programs pay for the same claims.                                   *)
LEMMA BothPay ==
  ASSUME LedgerInv, NEW request \in Requests, Claim(request)
  PROVE  /\ asked' = PaidAfter(original, asked, request)
         /\ asked' = PaidAfter(patched, asked, request)
         /\ asked' \in Seq(Requests)
<1>1. Answered(original, request) <=> Answered(patched, request)
  BY DEF LedgerInv, LedgerMatchesReceipts, Matches, Answered
<1>2. QED
  BY <1>1 DEF Claim, PaidAfter, LedgerInv

(* At first nothing is paid.                                                *)
LEMMA LedgerStarts == RewardInit => LedgerInv
<1> SUFFICES ASSUME RewardInit PROVE LedgerInv
  OBVIOUS
<1>1. asked = << >> /\ DOMAIN asked = {}
  BY DEF RewardInit
<1>2. Matches(original, asked) /\ Matches(patched, asked)
  <2>1. ASSUME NEW f, f = [i \in {} |-> f[i]] PROVE f = << >>
    BY <2>1
  <2>2. QED
    BY <1>1 DEF RewardInit, Empty, Matches
<1>3. QED
  BY <1>1, <1>2 DEF LedgerInv, LedgerMatchesReceipts, PaidOnce

(* Every claim keeps one receipt and one ledger row per key                 *)
(* (rewards.py:24-46).                                                      *)
LEMMA LedgerHolds == LedgerInv /\ [RewardNext]_rewardVars => LedgerInv'
<1> SUFFICES ASSUME LedgerInv, [RewardNext]_rewardVars PROVE LedgerInv'
  OBVIOUS
<1>1. CASE UNCHANGED rewardVars
  BY <1>1 DEF rewardVars, LedgerInv, LedgerMatchesReceipts, Matches, PaidOnce
<1>2. ASSUME NEW request \in Requests, Claim(request) PROVE LedgerInv'
  <2> DEFINE id == Len(asked) + 1
  <2>1. /\ asked' = PaidAfter(original, asked, request)
        /\ asked' = PaidAfter(patched, asked, request)
        /\ asked' \in Seq(Requests)
    BY <1>2, BothPay
  <2>2. /\ original' = Pay(original, request, OriginalReceipt(request, id))
        /\ patched' = Pay(patched, request, PatchedReceipt(request, id))
    BY <1>2 DEF Claim
  <2>3. /\ asked \in Seq(Requests) /\ PaidOnce(asked)
        /\ Matches(original, asked) /\ Matches(patched, asked)
    BY DEF LedgerInv, LedgerMatchesReceipts
  <2>4. Matches(original', asked') /\ PaidOnce(asked')
    BY <2>1, <2>2, <2>3, PayKeepsMatch
  <2>5. Matches(patched', asked')
    BY <2>1, <2>2, <2>3, PayKeepsMatch
  <2>6. QED
    BY <2>1, <2>4, <2>5 DEF LedgerInv, LedgerMatchesReceipts, Matches, PaidOnce
<1>3. QED
  BY <1>1, <1>2 DEF RewardNext

(* Each key is paid once and the ledger tells what the receipts tell, for   *)
(* both programs (rewards.py:24-46).                                        *)
THEOREM EachKeyIsPaidOnce == RewardSpec => []LedgerMatchesReceipts
<1>1. LedgerInv => LedgerMatchesReceipts
  BY DEF LedgerInv
<1>2. QED
  BY <1>1, LedgerStarts, LedgerHolds, PTL DEF RewardSpec

-----------------------------------------------------------------------------
(* The receipts of a paid claim are the ones computed for it.               *)
ReceiptInv ==
  \A i \in DOMAIN asked :
    \E id \in Nat :
      /\ original.receipts[Key(asked[i])] = OriginalReceipt(asked[i], id)
      /\ patched.receipts[Key(asked[i])] = PatchedReceipt(asked[i], id)

(* What paying does to the receipts (rewards.py:37-45).                     *)
LEMMA PayStores ==
  ASSUME NEW program, NEW request, NEW receipt,
         ~ Answered(program, request), ~ Raises(request)
  PROVE  LET after == Pay(program, request, receipt) IN
         /\ after.receipts[Key(request)] = receipt
         /\ \A key \in DOMAIN program.receipts :
              after.receipts[key] = program.receipts[key]
BY DEF Pay, Key, Answered

(* Every claim keeps the amounts of the receipts to the contract            *)
(* (rewards.py:24-46).                                                      *)
LEMMA ReceiptsHold ==
  LedgerInv /\ ReceiptInv /\ [RewardNext]_rewardVars => ReceiptInv'
<1> SUFFICES ASSUME LedgerInv, ReceiptInv, [RewardNext]_rewardVars PROVE ReceiptInv'
  OBVIOUS
<1>1. CASE UNCHANGED rewardVars
  BY <1>1 DEF rewardVars, ReceiptInv
<1>2. ASSUME NEW request \in Requests, Claim(request) PROVE ReceiptInv'
  <2> DEFINE id == Len(asked) + 1
             old == OriginalReceipt(request, id)
             new == PatchedReceipt(request, id)
  <2>1. /\ asked' = PaidAfter(original, asked, request)
        /\ asked' = PaidAfter(patched, asked, request)
    BY <1>2, BothPay
  <2>2. /\ original' = Pay(original, request, old)
        /\ patched' = Pay(patched, request, new)
    BY <1>2 DEF Claim
  <2>3. Answered(original, request) <=> Answered(patched, request)
    BY DEF LedgerInv, LedgerMatchesReceipts, Matches, Answered
  <2>4. CASE Answered(original, request) \/ Raises(request)
    BY <2>1, <2>2, <2>3, <2>4 DEF PaidAfter, Pay, ReceiptInv
  <2>5. CASE ~ (Answered(original, request) \/ Raises(request))
    <3>1. asked' = Append(asked, request) /\ asked \in Seq(Requests) /\ id \in Nat
      BY <2>1, <2>5 DEF PaidAfter, LedgerInv
    <3>2. /\ DOMAIN asked' = DOMAIN asked \cup {id}
          /\ asked'[id] = request
          /\ \A i \in DOMAIN asked : asked'[i] = asked[i]
      BY <3>1
    <3> HIDE DEF id, old, new
    <3>3. /\ original'.receipts[Key(request)] = old
          /\ patched'.receipts[Key(request)] = new
          /\ \A key \in DOMAIN original.receipts :
               original'.receipts[key] = original.receipts[key]
          /\ \A key \in DOMAIN patched.receipts :
               patched'.receipts[key] = patched.receipts[key]
      BY <2>2, <2>3, <2>5, PayStores
    <3>4. \A i \in DOMAIN asked : /\ Key(asked[i]) \in DOMAIN original.receipts
                                  /\ Key(asked[i]) \in DOMAIN patched.receipts
      BY DEF LedgerInv, LedgerMatchesReceipts, Matches
    <3>5. ASSUME NEW i \in DOMAIN asked'
          PROVE  \E n \in Nat :
                   /\ original'.receipts[Key(asked'[i])] = OriginalReceipt(asked'[i], n)
                   /\ patched'.receipts[Key(asked'[i])] = PatchedReceipt(asked'[i], n)
      <4>1. CASE i = id
        BY <3>1, <3>2, <3>3, <4>1 DEF old, new
      <4>2. CASE i \in DOMAIN asked
        <5>1. PICK n \in Nat :
                /\ original.receipts[Key(asked[i])] = OriginalReceipt(asked[i], n)
                /\ patched.receipts[Key(asked[i])] = PatchedReceipt(asked[i], n)
          BY <4>2 DEF ReceiptInv
        <5>2. /\ original'.receipts[Key(asked'[i])] = OriginalReceipt(asked'[i], n)
              /\ patched'.receipts[Key(asked'[i])] = PatchedReceipt(asked'[i], n)
          BY <3>2, <3>3, <3>4, <4>2, <5>1
        <5>3. QED
          BY <5>2
      <4>3. QED
        BY <3>2, <4>1, <4>2
    <3>6. QED
      BY <3>5 DEF ReceiptInv
  <2>6. QED
    BY <2>4, <2>5
<1>3. QED
  BY <1>1, <1>2 DEF RewardNext

(* The bonus is at most 70 coins, nothing without an open region or without *)
(* a streak, and grows with the streak (deterministic.py:158).              *)
LEMMA BonusIsBounded ==
  ASSUME NEW request \in Requests
  PROVE  /\ BaseCoins(request) \in {0, 100}
         /\ StreakBonus(request) \in 0..70
         /\ BaseCoins(request) = 0 \/ request.streak_days = 0 => StreakBonus(request) = 0
         /\ \A other \in Requests :
              BaseCoins(other) = BaseCoins(request)
                /\ other.streak_days <= request.streak_days
              => StreakBonus(other) <= StreakBonus(request)
<1>1. \A r \in Requests : r.streak_days \in 0..30
  BY RequestAssumption
<1> DEFINE bonus(days) == 10 * (IF days < 7 THEN days ELSE 7)
<1>2. /\ \A days \in 0..30 : bonus(days) \in 0..70 /\ (days = 0 => bonus(days) = 0)
      /\ \A m, n \in 0..30 : m <= n => bonus(m) <= bonus(n)
  OBVIOUS
<1>3. \A r \in Requests :
        \/ BaseCoins(r) = 100 /\ StreakBonus(r) = bonus(r.streak_days)
        \/ BaseCoins(r) = 0 /\ StreakBonus(r) = 0
  BY DEF BaseCoins, StreakBonus
<1> HIDE DEF bonus
<1>4. ASSUME NEW r \in Requests PROVE StreakBonus(r) \in 0..70
  <2>1. bonus(r.streak_days) \in 0..70 /\ 0 \in 0..70
    BY <1>1, <1>2
  <2>2. QED
    BY <1>3, <2>1
<1>5. ASSUME NEW other \in Requests, BaseCoins(other) = BaseCoins(request),
             other.streak_days <= request.streak_days
      PROVE  StreakBonus(other) <= StreakBonus(request)
  <2>1. bonus(other.streak_days) <= bonus(request.streak_days)
    BY <1>1, <1>2, <1>5
  <2>2. 0 <= 0 /\ 100 # 0
    OBVIOUS
  <2>3. QED
    BY <1>3, <1>5, <2>1, <2>2
<1>6. /\ BaseCoins(request) \in {0, 100}
      /\ BaseCoins(request) = 0 \/ request.streak_days = 0 => StreakBonus(request) = 0
  <2>1. request.streak_days = 0 => bonus(request.streak_days) = 0
    BY <1>1, <1>2
  <2>2. 100 # 0
    OBVIOUS
  <2>3. QED
    BY <1>3, <2>1, <2>2
<1>7. QED
  BY <1>4, <1>5, <1>6

(* Receipts of those amounts keep the contract.                             *)
LEMMA ReceiptsKeepContract == LedgerInv /\ ReceiptInv => PatchKeepsContract
<1> SUFFICES ASSUME LedgerInv, ReceiptInv, NEW i \in DOMAIN asked
             PROVE  LET old == original.receipts[Key(asked[i])]
                        new == patched.receipts[Key(asked[i])]
                        bonus == new.coins - old.coins
                    IN /\ new.eligible_regions = old.eligible_regions
                       /\ new.breakdown = <<old.coins, bonus, new.coins>>
                       /\ bonus \in 0..70
                       /\ old.coins = 0 \/ asked[i].streak_days = 0 => bonus = 0
                       /\ \A j \in DOMAIN asked :
                            original.receipts[Key(asked[j])].coins = old.coins
                              /\ asked[j].streak_days <= asked[i].streak_days
                            => patched.receipts[Key(asked[j])].coins <= new.coins
  BY DEF PatchKeepsContract
<1>1. \A j \in DOMAIN asked :
        /\ asked[j] \in Requests
        /\ original.receipts[Key(asked[j])].coins = BaseCoins(asked[j])
        /\ patched.receipts[Key(asked[j])].coins = BaseCoins(asked[j]) + StreakBonus(asked[j])
  <2>1. \A j \in DOMAIN asked : asked[j] \in Requests
    BY DEF LedgerInv
  <2>2. \A r, id : /\ OriginalReceipt(r, id).coins = BaseCoins(r)
                   /\ PatchedReceipt(r, id).coins = BaseCoins(r) + StreakBonus(r)
    BY DEF OriginalReceipt, PatchedReceipt
  <2>3. QED
    BY <2>1, <2>2 DEF ReceiptInv
<1>2. PICK id \in Nat :
        /\ original.receipts[Key(asked[i])] = OriginalReceipt(asked[i], id)
        /\ patched.receipts[Key(asked[i])] = PatchedReceipt(asked[i], id)
  BY DEF ReceiptInv
<1> DEFINE base(j) == BaseCoins(asked[j])
           bonus(j) == StreakBonus(asked[j])
<1>3. \A j \in DOMAIN asked : base(j) \in {0, 100} /\ bonus(j) \in 0..70
  BY <1>1, BonusIsBounded
<1>4. /\ base(i) = 0 \/ asked[i].streak_days = 0 => bonus(i) = 0
      /\ \A j \in DOMAIN asked :
           base(j) = base(i) /\ asked[j].streak_days <= asked[i].streak_days
           => bonus(j) <= bonus(i)
  BY <1>1, BonusIsBounded
<1>5. /\ patched.receipts[Key(asked[i])].eligible_regions
           = original.receipts[Key(asked[i])].eligible_regions
      /\ patched.receipts[Key(asked[i])].breakdown = <<base(i), bonus(i), base(i) + bonus(i)>>
  BY <1>2 DEF OriginalReceipt, PatchedReceipt
<1>6. /\ original.receipts[Key(asked[i])].coins = base(i)
      /\ patched.receipts[Key(asked[i])].coins = base(i) + bonus(i)
      /\ \A j \in DOMAIN asked :
           /\ original.receipts[Key(asked[j])].coins = base(j)
           /\ patched.receipts[Key(asked[j])].coins = base(j) + bonus(j)
  BY <1>1
<1> HIDE DEF base, bonus
<1>7. (base(i) + bonus(i)) - base(i) = bonus(i)
  BY <1>3
<1>8. \A j \in DOMAIN asked :
        base(j) = base(i) /\ bonus(j) <= bonus(i)
        => base(j) + bonus(j) <= base(i) + bonus(i)
  BY <1>3
<1>9. QED
  BY <1>3, <1>4, <1>5, <1>6, <1>7, <1>8

(* The demo's patch adds a bonus and changes nothing else of what the       *)
(* service answers (deterministic.py:121-149 and 158).                      *)
THEOREM PatchAddsABonus == RewardSpec => []PatchKeepsContract
<1>1. RewardInit => ReceiptInv
  BY DEF RewardInit, ReceiptInv
<1>2. QED
  BY <1>1, LedgerStarts, LedgerHolds, ReceiptsHold, ReceiptsKeepContract, PTL DEF RewardSpec

-----------------------------------------------------------------------------
(* The regions that are paid for.                                           *)

(* What the sequence holds.                                                 *)
Elements(s) == {s[k] : k \in DOMAIN s}

(* One more element.                                                        *)
LEMMA ElementsOfAppend ==
  ASSUME NEW A, NEW s \in Seq(A), NEW e \in A
  PROVE  Elements(Append(s, e)) = Elements(s) \cup {e}
<1> DEFINE t == Append(s, e)
<1>1. /\ DOMAIN t = DOMAIN s \cup {Len(s) + 1}
      /\ t[Len(s) + 1] = e
      /\ \A k \in DOMAIN s : t[k] = s[k]
  OBVIOUS
<1> HIDE DEF t
<1>2. {t[k] : k \in DOMAIN t} = {s[k] : k \in DOMAIN s} \cup {e}
  BY <1>1
<1>3. QED
  BY <1>2 DEF Elements, t

(* The regions kept are the open ones, whatever their order and however     *)
(* often one is named (rewards.py:29).                                      *)
LEMMA EligibleAreOpen ==
  ASSUME NEW A, NEW request, request.regions \in Seq(A)
  PROVE  Elements(Eligible(request)) =
           {region \in Elements(request.regions) : is_event_open(region, request.now_utc)}
<1> DEFINE regions == request.regions
           N == Len(regions)
           S == Seq(A)
           Open(n) == is_event_open(regions[n], request.now_utc)
           Step(x, n) == IF Open(n) THEN Append(x, regions[n]) ELSE x
           Loops(f) == f = [n \in 0..N |-> IF n = 0 THEN << >> ELSE Step(f[n - 1], n)]
<1>1. regions \in S
  OBVIOUS
<1> HIDE DEF regions
<1>2. /\ N \in Nat /\ << >> \in S /\ DOMAIN regions = 1..N
      /\ \A n \in 1..N : regions[n] \in A
      /\ \A n \in 1..N, x \in S : Step(x, n) \in S
  <2>1. \A n \in 1..N : regions[n] \in A
    BY <1>1
  <2>2. QED
    BY <1>1, <2>1
<1> HIDE DEF S, Step, Open
<1>3. \E f : Loops(f)
  <2> DEFINE F == [p \in (1..N) \X S |-> Step(p[2], p[1])]
  <2>1. F \in [(1..N) \X S -> S]
    BY <1>2
  <2>2. PICK f : IsLoop(f, N, S, << >>, F)
    <3> HIDE DEF F, N
    <3>1. QED
      BY <1>2, <2>1, LoopExists
  <2>3. ASSUME NEW n \in 1..N PROVE f[n] = Step(f[n - 1], n)
    <3>1. n - 1 \in 0..N /\ f[n - 1] \in S
      <4> HIDE DEF F, N
      <4>1. QED
        BY <1>2, <2>2 DEF IsLoop
    <3>2. F[<<n, f[n - 1]>>] = Step(f[n - 1], n)
      BY <3>1
    <3>3. QED
      BY <2>2, <3>2 DEF IsLoop
  <2>4. \A n \in 0..N : f[n] = IF n = 0 THEN << >> ELSE Step(f[n - 1], n)
    BY <1>2, <2>2, <2>3 DEF IsLoop
  <2>5. Loops(f)
    BY <2>2, <2>4 DEF IsLoop
  <2>6. QED
    BY <2>5
<1> DEFINE g == CHOOSE f : Loops(f)
<1>4. Eligible(request) = g[N]
  BY DEF Eligible, Step, Open, regions
<1>5. Loops(g)
  BY <1>3
<1> HIDE DEF g
<1>6. g[0] = << >> /\ \A n \in 1..N : g[n] = Step(g[n - 1], n)
  BY <1>2, <1>5
<1> DEFINE P == {n \in 0..N : /\ g[n] \in S
                              /\ Elements(g[n]) = {regions[k] : k \in {m \in 1..n : Open(m)}}}
<1>7. \A n \in 0..N : n \in P
  <2>1. 0 \in P
    <3>1. Elements(<< >>) = {} /\ 1..0 = {}
      BY DEF Elements
    <3>2. {regions[k] : k \in {m \in 1..0 : Open(m)}} = {}
      BY <3>1
    <3>3. QED
      BY <1>2, <1>6, <3>1, <3>2
  <2>2. ASSUME NEW n \in 1..N, n - 1 \in P PROVE n \in P
    <3> DEFINE x == g[n - 1]
               before == {m \in 1..(n - 1) : Open(m)}
               upto == {m \in 1..n : Open(m)}
    <3>1. /\ x \in S /\ Elements(x) = {regions[k] : k \in before}
          /\ g[n] = Step(x, n) /\ regions[n] \in A /\ n \in 0..N
      BY <1>2, <1>6, <2>2
    <3>2. upto = IF Open(n) THEN before \cup {n} ELSE before
      BY <1>2
    <3> HIDE DEF x, before, upto
    <3>3. Elements(Step(x, n)) = {regions[k] : k \in upto}
      <4>1. CASE Open(n)
        <5>1. Elements(Append(x, regions[n])) = Elements(x) \cup {regions[n]}
          BY <3>1, ElementsOfAppend DEF S
        <5>2. QED
          BY <3>1, <3>2, <4>1, <5>1 DEF Step
      <4>2. CASE ~ Open(n)
        BY <3>1, <3>2, <4>2 DEF Step
      <4>3. QED
        BY <4>1, <4>2
    <3>4. Step(x, n) \in S
      BY <1>2, <3>1
    <3>5. QED
      BY <3>1, <3>3, <3>4 DEF upto
  <2> HIDE DEF P, N
  <2>3. QED
    BY <1>2, <2>1, <2>2, UpTo
<1>8. N \in P
  <2> HIDE DEF P
  <2>1. N \in 0..N
    BY <1>2
  <2>2. QED
    BY <1>7, <2>1
<1>9. Elements(Eligible(request)) = {regions[k] : k \in {m \in 1..N : Open(m)}}
  BY <1>4, <1>8
<1> HIDE DEF N
<1>10. QED
  BY <1>2, <1>9 DEF Elements, Open, regions

(* The event is open at the hours, UTC, that the time zones give            *)
(* (rewards.py:19-21).                                                      *)
LEMMA OpenAtOpenHours ==
  ASSUME NEW region \in Regions, NEW now \in Instants
  PROVE  is_event_open(region, now) <=> now.hour \in OpenHours(region, now.dst)
<1>1. now.hour \in 0..23 /\ now.dst \in BOOLEAN
  BY DEF Instants
<1>2. /\ \A h \in 0..23 : (h + 9) % 24 \in 9..22 <=> h \in 0..13
      /\ \A h \in 0..23 : (h + 17) % 24 \in 9..22 <=> h \in 16..23 \cup 0..5
      /\ \A h \in 0..23 : (h + 16) % 24 \in 9..22 <=> h \in 17..23 \cup 0..6
  OBVIOUS
<1>3. is_event_open(region, now) <=> LocalHour(region, now) \in 9..22
  BY DEF is_event_open, EventStart, EventEnd
<1>4. CASE region \in {"KR", "JP"}
  BY <1>1, <1>2, <1>3, <1>4 DEF LocalHour, OpenHours
<1>5. CASE region = "US" /\ now.dst
  BY <1>1, <1>2, <1>3, <1>5 DEF LocalHour, OpenHours
<1>6. CASE region = "US" /\ ~ now.dst
  BY <1>1, <1>2, <1>3, <1>6 DEF LocalHour, OpenHours
<1>7. QED
  BY <1>4, <1>5, <1>6 DEF Regions

-----------------------------------------------------------------------------
(* A claim that raises is not paid.                                         *)
NoneRaises == \A i \in DOMAIN asked : ~ Raises(asked[i])

(* It stays so (rewards.py:19-20 raises before anything is stored).         *)
LEMMA NoneRaisesHolds ==
  LedgerInv /\ NoneRaises /\ [RewardNext]_rewardVars => NoneRaises'
<1> SUFFICES ASSUME LedgerInv, NoneRaises, [RewardNext]_rewardVars PROVE NoneRaises'
  OBVIOUS
<1>1. CASE UNCHANGED rewardVars
  BY <1>1 DEF rewardVars, NoneRaises
<1>2. ASSUME NEW request \in Requests, Claim(request) PROVE NoneRaises'
  <2>1. CASE asked' = asked
    BY <2>1 DEF NoneRaises
  <2>2. CASE ~ Raises(request) /\ asked' = Append(asked, request)
    <3>1. asked \in Seq(Requests)
      BY DEF LedgerInv
    <3>2. \A i \in DOMAIN asked' : \/ i \in DOMAIN asked /\ asked'[i] = asked[i]
                                  \/ asked'[i] = request
      BY <2>2, <3>1
    <3>3. QED
      BY <2>2, <3>2 DEF NoneRaises
  <2>3. QED
    BY <1>2, <2>1, <2>2 DEF Claim
<1>3. QED
  BY <1>1, <1>2 DEF RewardNext

(* Receipts name the open regions of their claims.                          *)
LEMMA ReceiptsNameOpenRegions ==
  LedgerInv /\ ReceiptInv /\ NoneRaises => PaidRegionsAreOpen
<1> SUFFICES ASSUME LedgerInv, ReceiptInv, NoneRaises, NEW i \in DOMAIN asked
             PROVE  LET eligible == original.receipts[Key(asked[i])].eligible_regions IN
                    {eligible[k] : k \in DOMAIN eligible} =
                      {region \in {asked[i].regions[k] : k \in DOMAIN asked[i].regions} :
                         asked[i].now_utc.hour \in OpenHours(region, asked[i].now_utc.dst)}
  BY DEF PaidRegionsAreOpen
<1> DEFINE request == asked[i]
           now == request.now_utc
<1>1. request \in Requests /\ ~ Raises(request)
  BY DEF LedgerInv, NoneRaises
<1>2. original.receipts[Key(request)].eligible_regions = Eligible(request)
  <2>1. PICK id \in Nat :
          original.receipts[Key(asked[i])] = OriginalReceipt(asked[i], id)
    BY DEF ReceiptInv
  <2>2. OriginalReceipt(asked[i], id).eligible_regions = Eligible(asked[i])
    BY DEF OriginalReceipt
  <2>3. QED
    BY <2>1, <2>2
<1>3. now \in Instants
  BY <1>1, RequestAssumption
<1>4. Elements(request.regions) \subseteq Regions
  BY <1>1 DEF Elements, Raises
<1> HIDE DEF request
<1>5. \A region \in Elements(request.regions) :
        is_event_open(region, now) <=> now.hour \in OpenHours(region, now.dst)
  BY <1>3, <1>4, OpenAtOpenHours
<1>6. Elements(Eligible(request)) =
        {region \in Elements(request.regions) : is_event_open(region, now)}
  BY <1>1, EligibleAreOpen, RequestAssumption
<1>7. QED
  BY <1>2, <1>5, <1>6 DEF Elements, request

(* Nobody is paid for a closed region and no open one is left out           *)
(* (rewards.py:19-21 and 29).                                               *)
THEOREM OnlyOpenRegionsPay == RewardSpec => []PaidRegionsAreOpen
<1>1. RewardInit => ReceiptInv /\ NoneRaises
  BY DEF RewardInit, ReceiptInv, NoneRaises
<1>2. QED
  BY <1>1, LedgerStarts, LedgerHolds, ReceiptsHold, NoneRaisesHolds,
     ReceiptsNameOpenRegions, PTL DEF RewardSpec

-----------------------------------------------------------------------------
(* The demo: what it runs is the pipeline and the service, so all that is   *)
(* proved of the two holds of it (deterministic.py, service.py:105-139).    *)
THEOREM DemoRuns == DemoSpec => Spec /\ RewardSpec
<1>1. DemoInit => Init /\ RewardInit
  BY DEF DemoInit
<1>2. [DemoNext]_demoVars => [Next]_vars
  <2>1. ASSUME NEW r \in Runs, DemoStep(r) PROVE Next
    BY <2>1 DEF DemoStep, Next
  <2>2. QED
    BY <2>1 DEF DemoNext, Use, demoVars
<1>3. [DemoNext]_demoVars => [RewardNext]_rewardVars
  BY DEF DemoNext, Use, DemoStep, demoVars
<1>4. QED
  BY <1>1, <1>2, <1>3, PTL DEF DemoSpec, Spec, RewardSpec

(* In the demo, too, every claim is paid once, for open regions, and the    *)
(* patch only adds its bonus.                                               *)
THEOREM DemoPaysAsPromised ==
  DemoSpec => [](LedgerMatchesReceipts /\ PaidRegionsAreOpen /\ PatchKeepsContract)
BY DemoRuns, EachKeyIsPaidOnce, OnlyOpenRegionsPay, PatchAddsABonus, PTL

-----------------------------------------------------------------------------
(* The demo. Where the probes have run, and where coding goes on.           *)
Probed == {"check_unknown", "replan", "generate_patch", "apply_patch",
           "run_checks", "write_packet", "copy_workspace", "publish",
           "write_blocked", "publish_blocked"}

Coded == {"generate_patch", "apply_patch", "run_checks", "write_packet",
          "copy_workspace", "publish"}

(* What the provider has answered is what the demo provider answers.        *)
AnswerInv(r) ==
  /\ pc[r] # "absent" => provider[r] = DemoProvider
  /\ pc[r] \in Probed \cup {"compile_probes", "run_probes"} => initialPlan[r] = DemoPlan
  /\ pc[r] \in Probed \cup {"run_probes"} => probes[r] = ProbeList
  /\ pc[r] \in Coded \ {"generate_patch"} => patch[r] = DemoPatch
  /\ pc[r] \in Coded => revised[r] = DeterministicReplan(results[r])

(* Results are what the probes observe in the untouched workspace.          *)
Seen(observed) == \E slow \in BOOLEAN : observed = Observed(<< >>, slow)

(* The gate was decided on what was observed, and where the thread goes     *)
(* from there follows from it.                                              *)
ObservedInv(r) ==
  /\ pc[r] \in Probed =>
       Seen(results[r]) /\ gate[r] = DecideGate(DemoPlan, results[r])
  /\ pc[r] \in Coded \cup {"replan"} => UnknownLoadBearing(DemoPlan, results[r]) = {}
  /\ pc[r] \in {"write_blocked", "publish_blocked"} =>
       UnknownLoadBearing(DemoPlan, results[r]) # {}

(* Checks are those of the whole patch.                                     *)
CheckInv(r) ==
  /\ pc[r] \in {"absent", "queued"} \cup (Guarded \ {"write_packet", "copy_workspace", "publish"}) =>
       checks[r] = << >>
  /\ pc[r] \in {"write_packet", "copy_workspace", "publish"} =>
       checks[r] = Verified(DemoPatch)

(* The workspaces a run goes through.                                       *)
Workspaces == {<< >>, <<"models.py">>, DemoPatch}

(* What a demo ends with, if it ends with a packet.                         *)
EndsWith(shown, edits) ==
  /\ Seen(shown.probe_results)
  /\ shown.first_gate = DecideGate(DemoPlan, shown.probe_results)
  /\ \/ /\ shown.verdict = "blocked" /\ edits = << >>
        /\ UnknownLoadBearing(DemoPlan, shown.probe_results) # {}
     \/ /\ shown.verdict = VerdictOf(Verified(DemoPatch)) /\ edits = DemoPatch
        /\ shown.revised_plan = DeterministicReplan(shown.probe_results)
        /\ UnknownLoadBearing(DemoPlan, shown.probe_results) = {}

EndInv(r) == packet[r] # None => EndsWith(packet[r], workspace[r])

DemoInv ==
  \A r \in Runs : /\ AnswerInv(r) /\ ObservedInv(r) /\ CheckInv(r)
                  /\ workspace[r] \in Workspaces /\ EndInv(r)

(* The provider's answers are used as they are (deterministic.py).          *)
LEMMA AnswerStep ==
  ASSUME TypeOK, StageInv, NEW r \in Runs, AnswerInv(r), DemoStep(r)
  PROVE  AnswerInv(r)'
<1> USE DEF TypeOK, At, Goto, Save, Announce, recordVars, premiseVars, codingVars,
            localVars, diskVars, Guarded, Probed, Coded, AnswerInv
<1>1. CASE Start(r)
  BY <1>1, DemoAssumption DEF Start
<1>2. CASE Begin(r)
  BY <1>2 DEF Begin
<1>3. CASE BeginRaises(r)
  BY <1>3 DEF BeginRaises
<1>4. CASE CreateWorkspace(r)
  BY <1>4 DEF CreateWorkspace
<1>5. CASE Plan(r)
  BY <1>5, DemoAssumption DEF Plan
<1>6. CASE CompileProbes(r)
  BY <1>6, DemoAssumption DEF CompileProbes
<1>7. CASE RunProbes(r)
  BY <1>7 DEF RunProbes
<1>8. CASE StopOnUnknown(r)
  BY <1>8 DEF StopOnUnknown
<1>9. CASE GoOnToReplan(r)
  BY <1>9 DEF GoOnToReplan
<1>10. CASE ReplanRejected(r)
  BY <1>10 DEF ReplanRejected
<1>11. CASE ReplanAccepted(r)
  BY <1>11 DEF ReplanAccepted, Replies
<1>12. CASE GeneratePatch(r)
  BY <1>12, DemoAssumption DEF GeneratePatch
<1>13. CASE ApplyEdit(r)
  BY <1>13 DEF ApplyEdit
<1>14. CASE RefuseEdit(r)
  BY <1>14 DEF RefuseEdit
<1>15. CASE PatchApplied(r)
  BY <1>15 DEF PatchApplied
<1>16. CASE RunChecks(r)
  BY <1>16 DEF RunChecks
<1>17. CASE WritePacket(r)
  BY <1>17 DEF WritePacket
<1>18. CASE CopyWorkspace(r)
  BY <1>18 DEF CopyWorkspace
<1>19. CASE CopyFails(r)
  BY <1>19 DEF CopyFails
<1>20. CASE Publish(r)
  BY <1>20 DEF Publish, StorePacket
<1>21. CASE WriteBlockedPacket(r)
  BY <1>21 DEF WriteBlockedPacket
<1>22. CASE PublishBlocked(r)
  BY <1>22 DEF PublishBlocked, StorePacket
<1>23. CASE Raise(r)
  BY <1>23 DEF Raise
<1>24. CASE RecordFailure(r)
  BY <1>24 DEF RecordFailure
<1>25. CASE RecordFailureFails(r)
  BY <1>25 DEF RecordFailureFails
<1>26. QED
  BY <1>1, <1>2, <1>3, <1>4, <1>5, <1>6, <1>7, <1>8, <1>9, <1>10,
     <1>11, <1>12, <1>13, <1>14, <1>15, <1>16, <1>17, <1>18, <1>19,
     <1>20, <1>21, <1>22, <1>23, <1>24, <1>25
  DEF DemoStep, Execute, Continue

(* Workspaces grow along the patch (patching.py:9-39).                      *)
LEMMA WorkspaceStep ==
  ASSUME TypeOK, NEW r \in Runs, AnswerInv(r), EditInv(r), workspace[r] \in Workspaces, DemoStep(r)
  PROVE  (workspace[r] \in Workspaces)'
<1> USE DEF TypeOK, Goto, Save, Announce, recordVars, premiseVars, codingVars,
            localVars, diskVars, Workspaces
<1>1. CASE Start(r)
  BY <1>1 DEF Start
<1>2. CASE Begin(r)
  BY <1>2 DEF Begin
<1>3. CASE BeginRaises(r)
  BY <1>3 DEF BeginRaises
<1>4. CASE CreateWorkspace(r)
  BY <1>4 DEF CreateWorkspace
<1>5. CASE Plan(r)
  BY <1>5 DEF Plan
<1>6. CASE CompileProbes(r)
  BY <1>6 DEF CompileProbes
<1>7. CASE RunProbes(r)
  BY <1>7 DEF RunProbes
<1>8. CASE StopOnUnknown(r)
  BY <1>8 DEF StopOnUnknown
<1>9. CASE GoOnToReplan(r)
  BY <1>9 DEF GoOnToReplan
<1>10. CASE ReplanRejected(r)
  BY <1>10 DEF ReplanRejected
<1>11. CASE ReplanAccepted(r)
  BY <1>11 DEF ReplanAccepted
<1>12. CASE GeneratePatch(r)
  BY <1>12 DEF GeneratePatch
<1>13. CASE ApplyEdit(r)
  <2>1. /\ patch[r] = DemoPatch /\ Len(workspace[r]) < Len(patch[r])
        /\ workspace'[r] = Append(workspace[r], patch[r][Len(workspace[r]) + 1])
    BY <1>13 DEF ApplyEdit, At, AnswerInv, Coded, EditsRemain, NextEdit
  <2>2. /\ Len(DemoPatch) = 2 /\ DemoPatch[1] = "models.py" /\ DemoPatch[2] = "rewards.py"
        /\ DemoPatch = Append(<<"models.py">>, "rewards.py")
        /\ <<"models.py">> = Append(<< >>, "models.py")
    BY DEF DemoPatch
  <2>3. CASE workspace[r] = << >>
    BY <2>1, <2>2, <2>3
  <2>4. CASE workspace[r] = <<"models.py">>
    BY <2>1, <2>2, <2>4
  <2>5. ~ (workspace[r] = DemoPatch)
    BY <2>1, <2>2
  <2>6. QED
    BY <2>3, <2>4, <2>5
<1>14. CASE RefuseEdit(r)
  BY <1>14 DEF RefuseEdit
<1>15. CASE PatchApplied(r)
  BY <1>15 DEF PatchApplied
<1>16. CASE RunChecks(r)
  BY <1>16 DEF RunChecks
<1>17. CASE WritePacket(r)
  BY <1>17 DEF WritePacket
<1>18. CASE CopyWorkspace(r)
  BY <1>18 DEF CopyWorkspace
<1>19. CASE CopyFails(r)
  BY <1>19 DEF CopyFails
<1>20. CASE Publish(r)
  BY <1>20 DEF Publish, StorePacket
<1>21. CASE WriteBlockedPacket(r)
  BY <1>21 DEF WriteBlockedPacket
<1>22. CASE PublishBlocked(r)
  BY <1>22 DEF PublishBlocked, StorePacket
<1>23. CASE Raise(r)
  BY <1>23 DEF Raise
<1>24. CASE RecordFailure(r)
  BY <1>24 DEF RecordFailure
<1>25. CASE RecordFailureFails(r)
  BY <1>25 DEF RecordFailureFails
<1>26. QED
  BY <1>1, <1>2, <1>3, <1>4, <1>5, <1>6, <1>7, <1>8, <1>9, <1>10,
     <1>11, <1>12, <1>13, <1>14, <1>15, <1>16, <1>17, <1>18, <1>19,
     <1>20, <1>21, <1>22, <1>23, <1>24, <1>25
  DEF DemoStep, Execute, Continue

(* Two facts about lengths: four probes, two suites.                        *)
LEMMA DemoLengths ==
  /\ DOMAIN ProbeList = 1..4
  /\ \A outcome \in ProbeOutcomes(ProbeList) : outcome # << >>
  /\ \A edits : Verified(edits) # << >>
<1>1. DOMAIN ProbeList = 1..4
  BY DEF ProbeList, DemoProbes, DemoProbesExpecting
<1>2. \A outcome \in ProbeOutcomes(ProbeList) : DOMAIN outcome = 1..4
  BY <1>1 DEF ProbeOutcomes
<1>3. DOMAIN << >> = {} /\ 1 \in 1..4
  OBVIOUS
<1>4. QED
  BY <1>1, <1>2, <1>3 DEF Verified

(* The probes observe the untouched workspace, the gate decides on what     *)
(* they observed, and an unknown is what stops the run (pipeline.py:55-77). *)
LEMMA ObservedStep ==
  ASSUME TypeOK, StageInv, NEW r \in Runs, AnswerInv(r), UntestedInv(r), UntouchedInv(r),
         ObservedInv(r), DemoStep(r)
  PROVE  ObservedInv(r)'
<1> USE DEF TypeOK, At, Goto, Save, Announce, recordVars, premiseVars, codingVars,
            localVars, diskVars, Guarded, Probed, Coded, ObservedInv
<1>1. CASE Start(r)
  BY <1>1 DEF Start
<1>2. CASE Begin(r)
  BY <1>2 DEF Begin
<1>3. CASE BeginRaises(r)
  BY <1>3 DEF BeginRaises
<1>4. CASE CreateWorkspace(r)
  BY <1>4 DEF CreateWorkspace
<1>5. CASE Plan(r)
  BY <1>5 DEF Plan
<1>6. CASE CompileProbes(r)
  BY <1>6 DEF CompileProbes
<1>7. CASE RunProbes(r)
  <2>1. /\ pc[r] = "run_probes" /\ initialPlan[r] = DemoPlan /\ probes[r] = ProbeList
        /\ results[r] = << >>
    BY <1>7 DEF RunProbes, AnswerInv, UntestedInv
  <2>2. workspace[r] = << >>
    BY <2>1 DEF UntouchedInv, StageInv, BeforeCoding
  <2>3. PICK outcome \in ProbeOutcomes(ProbeList) :
          /\ results' = [results EXCEPT ![r] = outcome]
          /\ gate' = [gate EXCEPT ![r] = DecideGate(DemoPlan, outcome)]
    BY <1>7, <2>1 DEF RunProbes
  <2>4. results'[r] = outcome /\ gate'[r] = DecideGate(DemoPlan, outcome)
        /\ pc'[r] = "check_unknown"
    BY <1>7, <2>3 DEF RunProbes
  <2>5. results' # results
    BY <2>1, <2>4, DemoLengths
  <2>6. PICK slow \in BOOLEAN :
          results' = [results EXCEPT ![r] = Observed(workspace[r], slow)]
    BY <2>5 DEF DemoStep
  <2>7. results'[r] = Observed(<< >>, slow)
    BY <2>2, <2>6
  <2>8. QED
    BY <2>4, <2>7 DEF Seen
<1>8. CASE StopOnUnknown(r)
  BY <1>8 DEF StopOnUnknown, AnswerInv
<1>9. CASE GoOnToReplan(r)
  BY <1>9 DEF GoOnToReplan, AnswerInv
<1>10. CASE ReplanRejected(r)
  <2>1. Replies(r) = {DeterministicReplan(results[r])}
    BY <1>10 DEF ReplanRejected, Replies, AnswerInv
  <2>2. QED
    BY <1>10, <2>1, DemoReplanValidates DEF ReplanRejected, ReplanError
<1>11. CASE ReplanAccepted(r)
  BY <1>11 DEF ReplanAccepted
<1>12. CASE GeneratePatch(r)
  BY <1>12 DEF GeneratePatch
<1>13. CASE ApplyEdit(r)
  BY <1>13 DEF ApplyEdit
<1>14. CASE RefuseEdit(r)
  BY <1>14 DEF RefuseEdit
<1>15. CASE PatchApplied(r)
  BY <1>15 DEF PatchApplied
<1>16. CASE RunChecks(r)
  BY <1>16 DEF RunChecks
<1>17. CASE WritePacket(r)
  BY <1>17 DEF WritePacket
<1>18. CASE CopyWorkspace(r)
  BY <1>18 DEF CopyWorkspace
<1>19. CASE CopyFails(r)
  BY <1>19 DEF CopyFails
<1>20. CASE Publish(r)
  BY <1>20 DEF Publish, StorePacket
<1>21. CASE WriteBlockedPacket(r)
  BY <1>21 DEF WriteBlockedPacket
<1>22. CASE PublishBlocked(r)
  BY <1>22 DEF PublishBlocked, StorePacket
<1>23. CASE Raise(r)
  BY <1>23 DEF Raise
<1>24. CASE RecordFailure(r)
  BY <1>24 DEF RecordFailure
<1>25. CASE RecordFailureFails(r)
  BY <1>25 DEF RecordFailureFails
<1>26. QED
  BY <1>1, <1>2, <1>3, <1>4, <1>5, <1>6, <1>7, <1>8, <1>9, <1>10,
     <1>11, <1>12, <1>13, <1>14, <1>15, <1>16, <1>17, <1>18, <1>19,
     <1>20, <1>21, <1>22, <1>23, <1>24, <1>25
  DEF DemoStep, Execute, Continue

(* The checks are run on the whole patch (pipeline.py:125-131).             *)
LEMMA CheckStep ==
  ASSUME TypeOK, NEW r \in Runs, AnswerInv(r), EditInv(r), CheckInv(r), DemoStep(r)
  PROVE  CheckInv(r)'
<1> USE DEF TypeOK, At, Goto, Save, Announce, recordVars, premiseVars, codingVars,
            localVars, diskVars, Guarded, CheckInv
<1>1. CASE Start(r)
  BY <1>1 DEF Start
<1>2. CASE Begin(r)
  BY <1>2 DEF Begin
<1>3. CASE BeginRaises(r)
  BY <1>3 DEF BeginRaises
<1>4. CASE CreateWorkspace(r)
  BY <1>4 DEF CreateWorkspace
<1>5. CASE Plan(r)
  BY <1>5 DEF Plan
<1>6. CASE CompileProbes(r)
  BY <1>6 DEF CompileProbes
<1>7. CASE RunProbes(r)
  BY <1>7 DEF RunProbes
<1>8. CASE StopOnUnknown(r)
  BY <1>8 DEF StopOnUnknown
<1>9. CASE GoOnToReplan(r)
  BY <1>9 DEF GoOnToReplan
<1>10. CASE ReplanRejected(r)
  BY <1>10 DEF ReplanRejected
<1>11. CASE ReplanAccepted(r)
  BY <1>11 DEF ReplanAccepted
<1>12. CASE GeneratePatch(r)
  BY <1>12 DEF GeneratePatch
<1>13. CASE ApplyEdit(r)
  BY <1>13 DEF ApplyEdit
<1>14. CASE RefuseEdit(r)
  BY <1>14 DEF RefuseEdit
<1>15. CASE PatchApplied(r)
  BY <1>15 DEF PatchApplied
<1>16. CASE RunChecks(r)
  <2>1. checks[r] = << >> /\ workspace[r] = DemoPatch
    BY <1>16 DEF RunChecks, EditInv, AnswerInv, Coded
  <2>2. PICK existing, acceptance \in {"pass", "fail"} :
          checks' = [checks EXCEPT ![r] = <<existing, acceptance>>]
    BY <1>16 DEF RunChecks
  <2>3. checks'[r] # << >>
    BY <2>2
  <2>4. checks' = [checks EXCEPT ![r] = Verified(workspace[r])]
    BY <2>1, <2>3 DEF DemoStep
  <2>5. checks'[r] = Verified(DemoPatch)
    BY <2>1, <2>4
  <2>6. pc'[r] = "write_packet"
    BY <1>16 DEF RunChecks
  <2>7. QED
    BY <2>5, <2>6
<1>17. CASE WritePacket(r)
  BY <1>17 DEF WritePacket
<1>18. CASE CopyWorkspace(r)
  BY <1>18 DEF CopyWorkspace
<1>19. CASE CopyFails(r)
  BY <1>19 DEF CopyFails
<1>20. CASE Publish(r)
  BY <1>20 DEF Publish, StorePacket
<1>21. CASE WriteBlockedPacket(r)
  BY <1>21 DEF WriteBlockedPacket
<1>22. CASE PublishBlocked(r)
  BY <1>22 DEF PublishBlocked, StorePacket
<1>23. CASE Raise(r)
  BY <1>23 DEF Raise
<1>24. CASE RecordFailure(r)
  BY <1>24 DEF RecordFailure
<1>25. CASE RecordFailureFails(r)
  BY <1>25 DEF RecordFailureFails
<1>26. QED
  BY <1>1, <1>2, <1>3, <1>4, <1>5, <1>6, <1>7, <1>8, <1>9, <1>10,
     <1>11, <1>12, <1>13, <1>14, <1>15, <1>16, <1>17, <1>18, <1>19,
     <1>20, <1>21, <1>22, <1>23, <1>24, <1>25
  DEF DemoStep, Execute, Continue

(* What is published is what was observed and checked (pipeline.py:132-154  *)
(* and 226-259).                                                            *)
LEMMA EndStep ==
  ASSUME TypeOK, StageInv, NEW r \in Runs, AnswerInv(r), EditInv(r), UntouchedInv(r),
         WrittenInv(r), ObservedInv(r), CheckInv(r), EndInv(r), DemoStep(r)
  PROVE  EndInv(r)'
<1> USE DEF TypeOK, At, Goto, Save, Announce, recordVars, premiseVars, codingVars,
            localVars, diskVars, EndInv
<1>1. packet[r] # None => pc[r] \notin Guarded \cup {"absent", "queued", "except"}
  BY DEF WrittenInv, StageInv, BeforeCoding, Terminal, Guarded
<1>2. CASE Start(r)
  BY <1>2 DEF Start
<1>3. CASE Begin(r)
  BY <1>3 DEF Begin
<1>4. CASE BeginRaises(r)
  BY <1>4 DEF BeginRaises
<1>5. CASE CreateWorkspace(r)
  BY <1>1, <1>5 DEF CreateWorkspace, Guarded
<1>6. CASE Plan(r)
  BY <1>6 DEF Plan
<1>7. CASE CompileProbes(r)
  BY <1>7 DEF CompileProbes
<1>8. CASE RunProbes(r)
  BY <1>8 DEF RunProbes
<1>9. CASE StopOnUnknown(r)
  BY <1>9 DEF StopOnUnknown
<1>10. CASE GoOnToReplan(r)
  BY <1>10 DEF GoOnToReplan
<1>11. CASE ReplanRejected(r)
  BY <1>11 DEF ReplanRejected
<1>12. CASE ReplanAccepted(r)
  BY <1>12 DEF ReplanAccepted
<1>13. CASE GeneratePatch(r)
  BY <1>13 DEF GeneratePatch
<1>14. CASE ApplyEdit(r)
  BY <1>1, <1>14 DEF ApplyEdit, Guarded
<1>15. CASE RefuseEdit(r)
  BY <1>15 DEF RefuseEdit
<1>16. CASE PatchApplied(r)
  BY <1>16 DEF PatchApplied
<1>17. CASE RunChecks(r)
  BY <1>17 DEF RunChecks
<1>18. CASE WritePacket(r)
  BY <1>18 DEF WritePacket
<1>19. CASE CopyWorkspace(r)
  BY <1>19 DEF CopyWorkspace
<1>20. CASE CopyFails(r)
  BY <1>20 DEF CopyFails
<1>21. CASE Publish(r)
  <2>1. packet'[r] = CodedPacket(r) /\ workspace' = workspace
    BY <1>21 DEF Publish, StorePacket
  <2>2. EndsWith(CodedPacket(r), workspace[r])
    BY <1>21 DEF Publish, CodedPacket, PacketWith, EndsWith, EditInv, AnswerInv,
                 ObservedInv, CheckInv, Coded, Probed
  <2>3. QED
    BY <2>1, <2>2
<1>22. CASE WriteBlockedPacket(r)
  BY <1>22 DEF WriteBlockedPacket
<1>23. CASE PublishBlocked(r)
  <2>1. packet'[r] = BlockedPacket(r) /\ workspace' = workspace
    BY <1>23 DEF PublishBlocked, StorePacket
  <2>2. workspace[r] = << >>
    BY <1>23 DEF PublishBlocked, UntouchedInv, StageInv, BeforeCoding
  <2>3. EndsWith(BlockedPacket(r), workspace[r])
    BY <1>23, <2>2 DEF PublishBlocked, BlockedPacket, PacketWith, EndsWith, ObservedInv, Probed
  <2>4. QED
    BY <2>1, <2>3
<1>24. CASE Raise(r)
  BY <1>24 DEF Raise
<1>25. CASE RecordFailure(r)
  BY <1>25 DEF RecordFailure
<1>26. CASE RecordFailureFails(r)
  BY <1>26 DEF RecordFailureFails
<1>27. QED
  BY <1>2, <1>3, <1>4, <1>5, <1>6, <1>7, <1>8, <1>9, <1>10, <1>11,
     <1>12, <1>13, <1>14, <1>15, <1>16, <1>17, <1>18, <1>19, <1>20,
     <1>21, <1>22, <1>23, <1>24, <1>25, <1>26
  DEF DemoStep, Execute, Continue

(* At first nothing is asked, observed, checked or published.               *)
LEMMA DemoStarts == Init => DemoInv
BY DEF Init, DemoInv, AnswerInv, ObservedInv, CheckInv, Workspaces, EndInv, Probed,
       Coded, Guarded

(* A run left alone keeps its part.                                         *)
LEMMA SameKeepsDemo ==
  ASSUME NEW r \in Runs, Same(r), AnswerInv(r), ObservedInv(r), CheckInv(r),
         workspace[r] \in Workspaces, EndInv(r)
  PROVE  (/\ AnswerInv(r) /\ ObservedInv(r) /\ CheckInv(r)
          /\ workspace[r] \in Workspaces /\ EndInv(r))'
BY DEF Same, AnswerInv, ObservedInv, CheckInv, Workspaces, EndInv

(* Every step of the demo keeps it, whatever fails.                         *)
LEMMA DemoHolds ==
  Inv /\ PublicationInv /\ DemoInv /\ [DemoNext]_demoVars => DemoInv'
<1> SUFFICES ASSUME Inv, PublicationInv, DemoInv, [DemoNext]_demoVars, NEW s \in Runs
             PROVE  (/\ AnswerInv(s) /\ ObservedInv(s) /\ CheckInv(s)
                     /\ workspace[s] \in Workspaces /\ EndInv(s))'
  BY DEF DemoInv
<1>1. /\ TypeOK /\ StageInv /\ UntestedInv(s) /\ EditInv(s) /\ UntouchedInv(s)
      /\ WrittenInv(s) /\ AnswerInv(s) /\ ObservedInv(s) /\ CheckInv(s)
      /\ workspace[s] \in Workspaces /\ EndInv(s)
  BY DEF Inv, PublicationInv, DemoInv
<1>2. CASE UNCHANGED vars
  <2>1. Same(s)
    BY <1>2 DEF vars, Same, recordVars, localVars, premiseVars, codingVars, diskVars
  <2>2. QED
    BY <1>1, <2>1, SameKeepsDemo
<1>3. ASSUME NEW r \in Runs, DemoStep(r), r # s PROVE Same(s)
  BY <1>1, <1>3, OthersStay DEF DemoStep
<1>4. CASE DemoStep(s)
  BY <1>1, <1>4, AnswerStep, ObservedStep, CheckStep, WorkspaceStep, EndStep
<1>5. QED
  BY <1>1, <1>2, <1>3, <1>4, SameKeepsDemo DEF DemoNext, Use, demoVars

-----------------------------------------------------------------------------
(* The first of one position is that position.                              *)
LEMMA FirstOfOne ==
  ASSUME NEW i \in Nat
  PROVE  Exec!FirstOf({i}) = i /\ Exec!LastOf({i}) = i
BY DEF Exec!FirstOf, Exec!LastOf

(* What the demo's probes report: two premises do not hold, and one is not  *)
(* known when the test does not end in time.                                *)
DemoResults(slow) ==
  <<[probe_id |-> "PR-UTC", assumption_id |-> "A-UTC", verdict |-> "contradicted",
     evidence |-> {[probe |-> "PR-UTC", part |-> ""]}],
    [probe_id |-> "PR-REGION", assumption_id |-> "A-REGION", verdict |-> "contradicted",
     evidence |-> {[probe |-> "PR-REGION", part |-> ""]}],
    [probe_id |-> "PR-IDEMPOTENCY", assumption_id |-> "A-IDEMPOTENCY",
     verdict |-> IF slow THEN "unknown" ELSE "verified",
     evidence |-> IF slow THEN {} ELSE {[probe |-> "PR-IDEMPOTENCY", part |-> ""]}],
    [probe_id |-> "PR-ORDER", assumption_id |-> "A-ORDER", verdict |-> "verified",
     evidence |-> {[probe |-> "PR-ORDER", part |-> "A"],
                   [probe |-> "PR-ORDER", part |-> "B"]}]>>

(* The zones are not all UTC (config.py:3-7).                               *)
LEMMA UtcIsContradicted ==
  ASSUME NEW edits, NEW slow
  PROVE  Exec!RunProbe(SourceFile("config.py", edits, slow), DemoProbes[1])
           = [verdict |-> "contradicted", evidence |-> {[part |-> "", line |-> <<1, 0>>]}]
<1> DEFINE zones == <<Exec!Quoted("Asia/Seoul"), Exec!Quoted("Asia/Tokyo"),
                      Exec!Quoted("America/Los_Angeles")>>
           body == <<[kind |-> "mapping", name |-> "REGION_TIMEZONES", values |-> zones,
                      text |-> HeaderOf("REGION_TIMEZONES")]>>
           spec == DemoProbes[1]
<1>1. spec = [id |-> "PR-UTC", assumption_id |-> "A-UTC", kind |-> "mapping_all_equal",
     target |-> "config.py", symbol |-> "REGION_TIMEZONES", expected_value |-> "UTC"]
  BY DEF DemoProbes, DemoProbesExpecting
<1>2. SourceFile("config.py", edits, slow) = [readable |-> TRUE, body |-> body]
  BY DEF SourceFile
<1>3. Exec!RequiredParams(spec.kind) \subseteq DOMAIN spec
  BY <1>1 DEF Exec!RequiredParams
<1>4. Exec!RunProbe([readable |-> TRUE, body |-> body], spec) = Exec!MappingAllEqual(body, spec)
  BY <1>1, <1>3 DEF Exec!RunProbe, Exec!Execute
<1>5. Exec!Defining(body, "mapping", spec.symbol) = {1} /\ body[1].values = zones
  BY <1>1 DEF Exec!Defining
<1>6. /\ DOMAIN zones = 1..3 /\ zones # << >>
      /\ \A k \in DOMAIN zones : zones[k].kind # "computed"
      /\ zones[1].str # "UTC"
  BY DEF Exec!Quoted
<1>7. Exec!MappingAllEqual(body, spec)
        = [verdict |-> "contradicted", evidence |-> {[part |-> "", line |-> <<1, 0>>]}]
  <2> HIDE DEF zones, body, spec
  <2>1. spec.expected_value = "UTC"
    BY <1>1
  <2>2. Exec!FirstOf({1}) = 1
    BY FirstOfOne
  <2>3. Exec!MappingAllEqual(body, spec)
          = Exec!Decided(/\ zones # << >>
                         /\ \A k \in DOMAIN zones : zones[k].str = spec.expected_value,
                         {Exec!At("", <<1, 0>>)})
    BY <1>5, <1>6, <2>2 DEF Exec!MappingAllEqual
  <2>4. ~ (\A k \in DOMAIN zones : zones[k].str = spec.expected_value)
    BY <1>6, <2>1
  <2>5. QED
    BY <2>3, <2>4 DEF Exec!Decided, Exec!At
<1>8. QED
  BY <1>2, <1>4, <1>7


(* The request has a list of regions (models.py:8-13).                      *)
LEMMA RegionIsContradicted ==
  ASSUME NEW edits, NEW slow
  PROVE  Exec!RunProbe(SourceFile("models.py", edits, slow), DemoProbes[2])
           = [verdict |-> "contradicted", evidence |-> {[part |-> "", line |-> <<1, 2>>]}]
<1> DEFINE fields == <<Field("player_id", "plain"), Field("regions", "list_of"),
                       Field("idempotency_key", "plain"),
                       Field("streak_days", "plain"), Field("now_utc", "plain")>>
           body == <<[kind |-> "class", name |-> "RewardRequest", fields |-> fields,
                      text |-> HeaderOf("RewardRequest")]>>
           spec == DemoProbes[2]
<1>1. spec = [id |-> "PR-REGION", assumption_id |-> "A-REGION", kind |-> "field_shape",
              target |-> "models.py", class |-> "RewardRequest", field |-> "regions",
              expected_shape |-> "scalar"]
  BY DEF DemoProbes, DemoProbesExpecting
<1>2. SourceFile("models.py", edits, slow) = [readable |-> TRUE, body |-> body]
  BY DEF SourceFile
<1>3. Exec!RequiredParams(spec.kind) \subseteq DOMAIN spec
  BY <1>1 DEF Exec!RequiredParams
<1>4. Exec!RunProbe([readable |-> TRUE, body |-> body], spec) = Exec!FieldShape(body, spec)
  BY <1>1, <1>3 DEF Exec!RunProbe, Exec!Execute
<1>5. Exec!Defining(body, "class", spec.class) = {1} /\ body[1].fields = fields
  BY <1>1 DEF Exec!Defining
<1>6. DOMAIN fields = 1..5 /\ fields[2].annotation = "list_of"
      /\ {j \in 1..5 : fields[j].name = "regions"} = {2}
  <2>1. /\ DOMAIN fields = 1..5
        /\ fields[1] = Field("player_id", "plain") /\ fields[2] = Field("regions", "list_of")
        /\ fields[3] = Field("idempotency_key", "plain")
        /\ fields[4] = Field("streak_days", "plain") /\ fields[5] = Field("now_utc", "plain")
    OBVIOUS
  <2> HIDE DEF fields
  <2>2. QED
    BY <2>1 DEF Field
<1>7. Exec!FieldShape(body, spec)
        = [verdict |-> "contradicted", evidence |-> {[part |-> "", line |-> <<1, 2>>]}]
  <2> HIDE DEF fields, body, spec
  <2>1. spec.field = "regions" /\ spec.expected_shape = "scalar"
    BY <1>1
  <2>2. Exec!FirstOf({1}) = 1 /\ Exec!FirstOf({2}) = 2
    BY FirstOfOne
  <2>3. Exec!FieldsNamed(body[1], spec.field) = {2}
    BY <1>5, <1>6, <2>1 DEF Exec!FieldsNamed
  <2>4. {i \in Exec!Defining(body, "class", spec.class) :
            Exec!FieldsNamed(body[i], spec.field) # {}} = {1}
    BY <1>5, <2>3
  <2>5. Exec!FieldShape(body, spec) = Exec!Decided("list" = "scalar", {Exec!At("", <<1, 2>>)})
    BY <1>5, <1>6, <2>1, <2>2, <2>3, <2>4 DEF Exec!FieldShape
  <2>6. QED
    BY <2>5 DEF Exec!Decided, Exec!At
<1>8. QED
  BY <1>2, <1>4, <1>7

(* The duplicate test passes on the service as it is tested, unless it      *)
(* takes too long (probes.py:108-136).                                      *)
LEMMA DuplicateIsTested ==
  ASSUME NEW edits, NEW slow \in BOOLEAN, ContractTestsPass(edits)
  PROVE  Exec!RunProbe(SourceFile("tests/test_rewards.py", edits, slow), DemoProbes[3])
           = IF slow THEN [verdict |-> "unknown", evidence |-> {}]
             ELSE [verdict |-> "verified", evidence |-> {[part |-> "", line |-> <<1, 0>>]}]
<1> DEFINE outcome == IF slow THEN "hangs"
                      ELSE IF ContractTestsPass(edits) THEN "passes" ELSE "fails"
           body == <<[kind |-> "function", name |-> DuplicateTest, async |-> FALSE,
                      params |-> << >>, calls |-> <<{"claim_reward"}, {"claim_reward"}, {}>>,
                      outcome |-> outcome, text |-> HeaderOf(DuplicateTest)]>>
           spec == DemoProbes[3]
<1>1. spec = [id |-> "PR-IDEMPOTENCY", assumption_id |-> "A-IDEMPOTENCY",
              kind |-> "pytest_node", target |-> "tests/test_rewards.py",
              node |-> DuplicateTest]
  BY DEF DemoProbes, DemoProbesExpecting
<1>2. SourceFile("tests/test_rewards.py", edits, slow) = [readable |-> TRUE, body |-> body]
  BY DEF SourceFile
<1>3. Exec!RequiredParams(spec.kind) \subseteq DOMAIN spec
  BY <1>1 DEF Exec!RequiredParams
<1>4. Exec!RunProbe([readable |-> TRUE, body |-> body], spec) = Exec!PytestNode(body, spec)
  BY <1>1, <1>3 DEF Exec!RunProbe, Exec!Execute
<1>5. /\ Exec!Defining(body, "function", spec.node) = {1} /\ DOMAIN body = {1}
      /\ body[1].name = DuplicateTest /\ body[1].kind = "function" /\ body[1].outcome = outcome
      /\ body[1].text = HeaderOf(DuplicateTest)
  BY <1>1 DEF Exec!Defining
<1>6. outcome = IF slow THEN "hangs" ELSE "passes"
  OBVIOUS
<1>7. Exec!PytestNode(body, spec)
        = IF slow THEN [verdict |-> "unknown", evidence |-> {}]
          ELSE [verdict |-> "verified", evidence |-> {[part |-> "", line |-> <<1, 0>>]}]
  <2> HIDE DEF outcome, body, spec
  <2>1. Exec!FirstOf({1}) = 1 /\ Exec!LastOf({1}) = 1 /\ Exec!FirstOf({0}) = 0
    BY FirstOfOne
  <2>2. /\ {i \in DOMAIN body : body[i].name = spec.node} = {1}
        /\ Exec!LinesWith(body[1], spec.node) = {0}
        /\ {i \in DOMAIN body : Exec!LinesWith(body[i], spec.node) # {}} = {1}
    <3>1. spec.node = DuplicateTest
      BY <1>1
    <3>2. Exec!LinesWith(body[1], spec.node) = {0}
      <4>1. {e \in body[1].text : e[2] = DuplicateTest} = {<<0, DuplicateTest>>}
        BY <1>5 DEF HeaderOf
      <4>2. Exec!LinesWith(body[1], DuplicateTest) = {e[1] : e \in {<<0, DuplicateTest>>}}
        BY <4>1, Zenon DEF Exec!LinesWith
      <4>3. {e[1] : e \in {<<0, DuplicateTest>>}} = {0}
        OBVIOUS
      <4>4. QED
        BY <3>1, <4>2, <4>3
    <3>3. QED
      BY <1>5, <3>1, <3>2
  <2>3. CASE slow
    BY <1>5, <1>6, <2>1, <2>2, <2>3 DEF Exec!PytestNode, Exec!Unknown
  <2>4. CASE ~ slow
    <3>1. Exec!PytestNode(body, spec) = Exec!Decided(TRUE, {Exec!At("", <<1, 0>>)})
      BY <1>5, <1>6, <2>1, <2>2, <2>4 DEF Exec!PytestNode
    <3>2. QED
      BY <2>4, <3>1 DEF Exec!Decided, Exec!At
  <2>5. QED
    BY <2>3, <2>4
<1>8. QED
  BY <1>2, <1>4, <1>7

(* The lines on which a name is called.                                     *)
Calling(name, lines) == {k \in DOMAIN lines : name \in lines[k]}

(* Lines put behind others are counted on.                                  *)
LEMMA CallingBehind ==
  ASSUME NEW S, NEW s \in Seq(S), NEW t \in Seq(S), NEW name
  PROVE  Calling(name, s \o t) =
           Calling(name, s) \cup {Len(s) + k : k \in Calling(name, t)}
<1> DEFINE u == s \o t
<1>1. /\ DOMAIN s = 1..Len(s) /\ DOMAIN t = 1..Len(t) /\ DOMAIN u = 1..(Len(s) + Len(t))
      /\ Len(s) \in Nat /\ Len(t) \in Nat
      /\ \A k \in 1..Len(s) : u[k] = s[k]
      /\ \A k \in 1..Len(t) : u[Len(s) + k] = t[k]
  OBVIOUS
<1> HIDE DEF u
<1>2. ASSUME NEW k \in DOMAIN u
      PROVE  \/ k \in 1..Len(s)
             \/ k - Len(s) \in 1..Len(t) /\ k = Len(s) + (k - Len(s))
  BY <1>1
<1>3. ASSUME NEW k \in Calling(name, u)
      PROVE  k \in Calling(name, s) \cup {Len(s) + m : m \in Calling(name, t)}
  <2>1. CASE k \in 1..Len(s)
    BY <1>1, <1>3, <2>1 DEF Calling
  <2>2. CASE k - Len(s) \in 1..Len(t) /\ k = Len(s) + (k - Len(s))
    <3>1. u[k] = t[k - Len(s)]
      BY <1>1, <2>2
    <3>2. k - Len(s) \in Calling(name, t)
      BY <1>1, <1>3, <2>2, <3>1 DEF Calling
    <3>3. QED
      BY <2>2, <3>2
  <2>3. QED
    BY <1>2, <1>3, <2>1, <2>2 DEF Calling
<1>4. Calling(name, s) \subseteq Calling(name, u)
  BY <1>1 DEF Calling
<1>5. ASSUME NEW m \in Calling(name, t) PROVE Len(s) + m \in Calling(name, u)
  <2>1. m \in 1..Len(t) /\ name \in t[m]
    BY <1>1, <1>5 DEF Calling
  <2>2. u[Len(s) + m] = t[m] /\ Len(s) + m \in 1..(Len(s) + Len(t))
    BY <1>1, <2>1
  <2>3. QED
    BY <1>1, <2>1, <2>2 DEF Calling
<1>6. QED
  BY <1>3, <1>4, <1>5 DEF u

(* The receipt is made on the sixth line below the header and the ledger    *)
(* written on the ninth, two lines later in the patched service             *)
(* (rewards.py:24-46).                                                      *)
LEMMA CallsAreInOrder ==
  ASSUME NEW edits
  PROVE  LET n == IF Has(edits, "rewards.py") THEN 8 ELSE 6 IN
         /\ Calling("RewardReceipt", ClaimRewardCalls(edits)) = {n}
         /\ Calling("append", ClaimRewardCalls(edits)) = {n + 3}
<1> DEFINE S == {{}, {"get"}, {"is_event_open"}, {"min"}, {"RewardReceipt"},
                 {"str", "uuid4"}, {"append"}, {"list"}}
           s == <<{"get"}, {}, {}, {"is_event_open"}, {}>>
           m == IF Has(edits, "rewards.py") THEN <<{"min"}, {}>> ELSE << >>
           t == <<{"RewardReceipt"}, {"str", "uuid4"}, {}, {"append"}, {"list"}>>
           n == IF Has(edits, "rewards.py") THEN 8 ELSE 6
<1>1. ClaimRewardCalls(edits) = (s \o m) \o t
  BY DEF ClaimRewardCalls
<1>2. s \in Seq(S) /\ m \in Seq(S) /\ t \in Seq(S) /\ s \o m \in Seq(S)
      /\ Len(s) = 5 /\ Len(s \o m) = n - 1
  <2>1. /\ {"get"} \in S /\ {} \in S /\ {"is_event_open"} \in S /\ {"min"} \in S
        /\ {"RewardReceipt"} \in S /\ {"str", "uuid4"} \in S /\ {"append"} \in S
        /\ {"list"} \in S
    OBVIOUS
  <2> HIDE DEF S
  <2>2. s \in Seq(S) /\ Len(s) = 5
    BY <2>1
  <2>3. t \in Seq(S)
    BY <2>1
  <2>4. m \in Seq(S) /\ Len(m) = n - 6
    BY <2>1
  <2>5. n \in Nat
    OBVIOUS
  <2> HIDE DEF s, m, t, n
  <2>6. s \o m \in Seq(S) /\ Len(s \o m) = Len(s) + Len(m)
    <3>1. s \in Seq(S) /\ m \in Seq(S)
      BY <2>2, <2>4
    <3>2. QED
      BY <3>1
  <2>7. 5 + (n - 6) = n - 1
    BY <2>5
  <2>8. QED
    BY <2>2, <2>3, <2>4, <2>6, <2>7
<1>3. /\ Calling("RewardReceipt", s) = {} /\ Calling("append", s) = {}
      /\ Calling("RewardReceipt", m) = {} /\ Calling("append", m) = {}
      /\ Calling("RewardReceipt", t) = {1} /\ Calling("append", t) = {4}
  <2>1. /\ DOMAIN s = {1, 2, 3, 4, 5} /\ DOMAIN t = {1, 2, 3, 4, 5}
        /\ s[1] = {"get"} /\ s[2] = {} /\ s[3] = {} /\ s[4] = {"is_event_open"} /\ s[5] = {}
        /\ t[1] = {"RewardReceipt"} /\ t[2] = {"str", "uuid4"} /\ t[3] = {}
        /\ t[4] = {"append"} /\ t[5] = {"list"}
        /\ DOMAIN m \subseteq {1, 2} /\ (1 \in DOMAIN m => m[1] = {"min"})
        /\ (2 \in DOMAIN m => m[2] = {})
    OBVIOUS
  <2> HIDE DEF s, m, t
  <2>2. QED
    BY <2>1 DEF Calling
<1>4. n \in Nat
  OBVIOUS
<1> HIDE DEF s, m, t, S, n
<1>5. ASSUME NEW name
      PROVE  Calling(name, (s \o m) \o t) =
               (Calling(name, s) \cup {5 + k : k \in Calling(name, m)})
                 \cup {(n - 1) + k : k \in Calling(name, t)}
  <2>1. Calling(name, s \o m) = Calling(name, s) \cup {Len(s) + k : k \in Calling(name, m)}
    BY <1>2, CallingBehind
  <2>2. Calling(name, (s \o m) \o t)
          = Calling(name, s \o m) \cup {Len(s \o m) + k : k \in Calling(name, t)}
    BY <1>2, CallingBehind
  <2>3. QED
    BY <1>2, <2>1, <2>2
<1>6. {(n - 1) + k : k \in {1}} = {n} /\ {(n - 1) + k : k \in {4}} = {n + 3}
  BY <1>4
<1>7. {5 + k : k \in {}} = {}
  OBVIOUS
<1>8. /\ Calling("RewardReceipt", (s \o m) \o t) = {n}
      /\ Calling("append", (s \o m) \o t) = {n + 3}
  BY <1>3, <1>5, <1>6, <1>7
<1>9. QED
  BY <1>1, <1>8 DEF n

(* The receipt is made before the ledger is written, in the service and in  *)
(* the patched one (rewards.py:31-45).                                      *)
LEMMA OrderIsVerified ==
  ASSUME NEW edits, NEW slow
  PROVE  LET n == IF Has(edits, "rewards.py") THEN 8 ELSE 6 IN
         Exec!RunProbe(SourceFile("rewards.py", edits, slow), DemoProbes[4])
           = [verdict  |-> "verified",
              evidence |-> {[part |-> "A", line |-> <<1, n>>],
                            [part |-> "B", line |-> <<1, n + 3>>]}]
<1> DEFINE n == IF Has(edits, "rewards.py") THEN 8 ELSE 6
           calls == ClaimRewardCalls(edits)
           body == <<[kind |-> "function", name |-> "claim_reward", async |-> FALSE,
                      params |-> <<"request">>, calls |-> calls, outcome |-> "passes",
                      text |-> HeaderOf("claim_reward")]>>
           spec == DemoProbes[4]
<1>1. spec = [id |-> "PR-ORDER", assumption_id |-> "A-ORDER", kind |-> "ast_order",
              target |-> "rewards.py", function |-> "claim_reward",
              before |-> "RewardReceipt", after |-> "append"]
  BY DEF DemoProbes, DemoProbesExpecting
<1>2. SourceFile("rewards.py", edits, slow) = [readable |-> TRUE, body |-> body]
  BY DEF SourceFile
<1>3. Exec!RequiredParams(spec.kind) \subseteq DOMAIN spec
  BY <1>1 DEF Exec!RequiredParams
<1>4. Exec!RunProbe([readable |-> TRUE, body |-> body], spec) = Exec!AstOrder(body, spec)
  BY <1>1, <1>3 DEF Exec!RunProbe, Exec!Execute
<1>5. /\ Exec!Defining(body, "function", spec.function) = {1}
      /\ body[1].calls = calls /\ ~ body[1].async
  BY <1>1 DEF Exec!Defining
<1>6. /\ {k \in DOMAIN calls : "RewardReceipt" \in calls[k]} = {n}
      /\ {k \in DOMAIN calls : "append" \in calls[k]} = {n + 3}
  BY CallsAreInOrder DEF Calling
<1>7. Exec!AstOrder(body, spec)
        = [verdict  |-> "verified",
           evidence |-> {[part |-> "A", line |-> <<1, n>>],
                         [part |-> "B", line |-> <<1, n + 3>>]}]
  <2>1. n \in Nat
    OBVIOUS
  <2> HIDE DEF n, calls, body, spec
  <2>2. spec.before = "RewardReceipt" /\ spec.after = "append"
    BY <1>1
  <2>3. Exec!FirstOf({1}) = 1 /\ Exec!FirstOf({n}) = n /\ Exec!FirstOf({n + 3}) = n + 3
    BY <2>1, FirstOfOne
  <2>4. /\ Exec!CallLines(body[1], spec.before) = {n}
        /\ Exec!CallLines(body[1], spec.after) = {n + 3}
    BY <1>5, <1>6, <2>2 DEF Exec!CallLines
  <2>5. {i \in Exec!Defining(body, "function", spec.function) :
           /\ ~ body[i].async
           /\ Exec!CallLines(body[i], spec.before) # {}
           /\ Exec!CallLines(body[i], spec.after) # {}} = {1}
    BY <1>5, <2>4
  <2>6. Exec!AstOrder(body, spec)
          = Exec!Decided(n < n + 3, {Exec!At("A", <<1, n>>), Exec!At("B", <<1, n + 3>>)})
    BY <2>3, <2>4, <2>5 DEF Exec!AstOrder
  <2>7. n < n + 3
    BY <2>1
  <2>8. QED
    BY <2>6, <2>7 DEF Exec!Decided, Exec!At
<1>8. QED
  BY <1>2, <1>4, <1>7

(* A claim of the tests is paid in the regions of the claim where the event *)
(* is open at two o'clock UTC (test_rewards.py:18-25).                      *)
LEMMA TestIsPaid ==
  ASSUME NEW regions \in Seq(Regions), "KR" \in Elements(regions), NEW days
  PROVE  LET request == TestRequest(regions, days) IN
         /\ BaseCoins(request) = 100
         /\ StreakBonus(request) = 10 * (IF days < 7 THEN days ELSE 7)
         /\ ~ Raises(request)
         /\ Elements(Eligible(request)) \subseteq Regions
<1> DEFINE request == TestRequest(regions, days)
           now == [hour |-> 2, dst |-> TRUE]
<1>1. /\ request.regions = regions /\ request.now_utc = now
      /\ request.streak_days = days
  BY DEF TestRequest
<1> HIDE DEF request
<1>2. Elements(Eligible(request)) = {region \in Elements(regions) : is_event_open(region, now)}
  BY <1>1, EligibleAreOpen
<1>3. is_event_open("KR", now)
  <2>1. LocalHour("KR", now) = 11
    BY DEF LocalHour
  <2>2. QED
    BY <2>1 DEF is_event_open, EventStart, EventEnd
<1>4. Elements(regions) \subseteq Regions
  BY DEF Elements
<1>5. Eligible(request) # << >>
  <2>1. Elements(<< >>) = {}
    BY DEF Elements
  <2>2. QED
    BY <1>2, <1>3, <2>1
<1>6. ~ Raises(request)
  BY <1>1 DEF Raises
<1>7. QED
  BY <1>1, <1>2, <1>4, <1>5, <1>6 DEF BaseCoins, StreakBonus, request

(* The second claim of a test gets the receipt of the first and adds no     *)
(* row.                                                                     *)
LEMMA TestPaysOnce ==
  ASSUME NEW edits, NEW regions \in Seq(Regions), "KR" \in Elements(regions), NEW days
  PROVE  SamePaidOnce(edits, TestRequest(regions, days))
<1> DEFINE request == TestRequest(regions, days)
           receipt == ReceiptFrom(edits, request)
           once == Pay(Empty, request, receipt)
<1>1. ~ Raises(request) /\ request.idempotency_key = "claim"
  BY TestIsPaid DEF TestRequest
<1> HIDE DEF request, receipt
<1>2. Empty.receipts = << >> /\ Empty.ledger = << >> /\ DOMAIN << >> = {}
  BY DEF Empty
<1>3. "claim" \in DOMAIN once.receipts /\ once.receipts["claim"] = receipt /\ Len(once.ledger) = 1
  <2>1. ~ Answered(Empty, request)
    BY <1>2 DEF Answered
  <2>2. /\ once.receipts = [key \in {} \cup {"claim"} |->
                               IF key = "claim" THEN receipt ELSE Empty.receipts[key]]
        /\ once.ledger = Append(<< >>,
                            [player_id |-> request.player_id, claim_id |-> receipt.claim_id,
                             coins |-> receipt.coins, regions |-> receipt.eligible_regions])
    BY <1>1, <1>2, <2>1 DEF Pay
  <2>3. \A x : Len(Append(<< >>, x)) = 1
    OBVIOUS
  <2>4. QED
    BY <2>2, <2>3
<1> HIDE DEF once
<1>4. \A other : Pay(once, request, other) = once
  BY <1>1, <1>3 DEF Pay, Answered
<1>5. ClaimedTwice(edits, request) = once
  BY <1>4 DEF ClaimedTwice, receipt, once
<1>6. QED
  BY <1>3, <1>5 DEF SamePaidOnce, receipt, request

(* The tests of the service pass before the patch and after it, and not     *)
(* between its two edits; the acceptance tests pass after it only           *)
(* (deterministic.py:135-165, verification.py:12-51).                       *)
LEMMA TestsByEdits ==
  /\ ContractTestsPass(<< >>) /\ ~ AcceptanceTestsPass(<< >>)
  /\ ~ ContractTestsPass(<<"models.py">>) /\ ~ AcceptanceTestsPass(<<"models.py">>)
  /\ ContractTestsPass(DemoPatch) /\ AcceptanceTestsPass(DemoPatch)
<1> DEFINE two == <<"KR", "JP">>
           three == <<"KR", "JP", "US">>
           one == <<"KR">>
<1>1. /\ two \in Seq(Regions) /\ three \in Seq(Regions) /\ one \in Seq(Regions)
      /\ "KR" \in Elements(two) /\ "KR" \in Elements(three) /\ "KR" \in Elements(one)
  BY DEF Elements, Regions
<1>2. /\ ~ Has(<< >>, "models.py") /\ ~ Has(<< >>, "rewards.py")
      /\ Has(<<"models.py">>, "models.py") /\ ~ Has(<<"models.py">>, "rewards.py")
      /\ Has(DemoPatch, "models.py") /\ Has(DemoPatch, "rewards.py")
  BY DEF Has, DemoPatch
<1> HIDE DEF one, two, three
<1>3. ASSUME NEW edits PROVE ContractTestsPass(edits) <=> ~ HalfPatched(edits)
  <2> DEFINE request == TestRequest(three, 3)
             receipt == ReceiptFrom(edits, request)
  <2>1. SamePaidOnce(edits, TestRequest(two, 3))
    BY <1>1, TestPaysOnce
  <2>2. receipt.eligible_regions = Eligible(request)
    BY DEF ReceiptFrom, PatchedReceipt, OriginalReceipt
  <2>3. Elements(Eligible(request)) \subseteq {"KR", "JP", "US"}
    BY <1>1, TestIsPaid DEF Regions
  <2>4. \A i \in DOMAIN receipt.eligible_regions : receipt.eligible_regions[i] \in {"KR", "JP", "US"}
    BY <2>2, <2>3 DEF Elements
  <2>5. QED
    BY <2>1, <2>4 DEF ContractTestsPass, two, three
<1>4. ~ AcceptanceTestsPass(<< >>)
  <2>1. ReceiptFrom(<< >>, TestRequest(three, 5)).breakdown = << >>
    BY <1>2 DEF ReceiptFrom, OriginalReceipt
  <2>2. << >> # <<100, 50, 150>>
    OBVIOUS
  <2>3. QED
    BY <2>1, <2>2 DEF AcceptanceTestsPass, three
<1>5. AcceptanceTestsPass(DemoPatch)
  <2> DEFINE five == TestRequest(three, 5)
             thirty == TestRequest(one, 30)
  <2>1. SamePaidOnce(DemoPatch, five)
    BY <1>1, TestPaysOnce
  <2>2. /\ BaseCoins(five) = 100 /\ StreakBonus(five) = 50
        /\ BaseCoins(thirty) = 100 /\ StreakBonus(thirty) = 70
    BY <1>1, TestIsPaid
  <2>3. \A request : /\ ReceiptFrom(DemoPatch, request).breakdown
                          = <<BaseCoins(request), StreakBonus(request),
                              BaseCoins(request) + StreakBonus(request)>>
                     /\ ReceiptFrom(DemoPatch, request).coins
                          = BaseCoins(request) + StreakBonus(request)
    BY <1>2 DEF ReceiptFrom, PatchedReceipt
  <2> HIDE DEF five, thirty
  <2>4. /\ ReceiptFrom(DemoPatch, five).breakdown = <<100, 50, 150>>
        /\ ReceiptFrom(DemoPatch, five).coins = 150
        /\ ReceiptFrom(DemoPatch, thirty).breakdown[2] = 70
    BY <2>2, <2>3
  <2>5. ~ HalfPatched(DemoPatch)
    BY <1>2 DEF HalfPatched
  <2>6. QED
    BY <2>1, <2>4, <2>5 DEF AcceptanceTestsPass, five, thirty, three, one
<1>6. QED
  BY <1>2, <1>3, <1>4, <1>5 DEF HalfPatched, AcceptanceTestsPass

(* What is reported of an answer: the ids of its evidence, without the      *)
(* lines (probes.py:15-36).                                                 *)
LEMMA ReportOf ==
  ASSUME NEW spec, NEW answer
  PROVE  /\ answer.evidence = {} =>
              Exec!Report(spec, answer)
                = [probe_id |-> spec.id, assumption_id |-> spec.assumption_id,
                   verdict |-> answer.verdict, evidence |-> {}]
         /\ \A x : answer.evidence = {x} =>
              Exec!Report(spec, answer)
                = [probe_id |-> spec.id, assumption_id |-> spec.assumption_id,
                   verdict |-> answer.verdict,
                   evidence |-> {[probe |-> spec.id, part |-> x.part]}]
         /\ \A x, y : answer.evidence = {x, y} =>
              Exec!Report(spec, answer)
                = [probe_id |-> spec.id, assumption_id |-> spec.assumption_id,
                   verdict |-> answer.verdict,
                   evidence |-> {[probe |-> spec.id, part |-> x.part],
                                 [probe |-> spec.id, part |-> y.part]}]
<1> DEFINE id(e) == [probe |-> spec.id, part |-> e.part]
<1>1. Exec!Report(spec, answer)
        = [probe_id |-> spec.id, assumption_id |-> spec.assumption_id,
           verdict |-> answer.verdict, evidence |-> {id(e) : e \in answer.evidence}]
  BY DEF Exec!Report
<1> HIDE DEF id
<1>2. /\ {id(e) : e \in {}} = {}
      /\ \A x : {id(e) : e \in {x}} = {id(x)}
      /\ \A x, y : {id(e) : e \in {x, y}} = {id(x), id(y)}
  OBVIOUS
<1>3. /\ answer.evidence = {} => {id(e) : e \in answer.evidence} = {}
      /\ \A x : answer.evidence = {x} => {id(e) : e \in answer.evidence} = {id(x)}
      /\ \A x, y : answer.evidence = {x, y} => {id(e) : e \in answer.evidence} = {id(x), id(y)}
  BY <1>2
<1>4. QED
  BY <1>1, <1>3 DEF id

(* The parts of an executor's answer.                                      *)
LEMMA AnswerParts ==
  ASSUME NEW a, NEW v, NEW e, a = [verdict |-> v, evidence |-> e]
  PROVE  a.verdict = v /\ a.evidence = e
OBVIOUS

(* What the probes observe, before the patch and after it.                  *)
LEMMA ObservedIs ==
  ASSUME NEW edits \in {<< >>, DemoPatch}, NEW slow \in BOOLEAN
  PROVE  Observed(edits, slow) = DemoResults(slow)
<1> DEFINE answer(i) == Exec!RunProbe(SourceFile(DemoProbes[i].target, edits, slow), DemoProbes[i])
<1>1. /\ DOMAIN DemoProbes = 1..4
      /\ DemoProbes[1].target = "config.py" /\ DemoProbes[2].target = "models.py"
      /\ DemoProbes[3].target = "tests/test_rewards.py" /\ DemoProbes[4].target = "rewards.py"
      /\ DemoProbes[1].id = "PR-UTC" /\ DemoProbes[1].assumption_id = "A-UTC"
      /\ DemoProbes[2].id = "PR-REGION" /\ DemoProbes[2].assumption_id = "A-REGION"
      /\ DemoProbes[3].id = "PR-IDEMPOTENCY" /\ DemoProbes[3].assumption_id = "A-IDEMPOTENCY"
      /\ DemoProbes[4].id = "PR-ORDER" /\ DemoProbes[4].assumption_id = "A-ORDER"
  BY DEF DemoProbes, DemoProbesExpecting
<1>2. ContractTestsPass(edits)
  BY TestsByEdits
<1>3. answer(1) = [verdict |-> "contradicted", evidence |-> {[part |-> "", line |-> <<1, 0>>]}]
  <2>1. answer(1) = Exec!RunProbe(SourceFile("config.py", edits, slow), DemoProbes[1])
    BY <1>1
  <2> HIDE DEF answer
  <2>2. QED
    BY <2>1, UtcIsContradicted
<1>4. answer(2) = [verdict |-> "contradicted", evidence |-> {[part |-> "", line |-> <<1, 2>>]}]
  <2>1. answer(2) = Exec!RunProbe(SourceFile("models.py", edits, slow), DemoProbes[2])
    BY <1>1
  <2> HIDE DEF answer
  <2>2. QED
    BY <2>1, RegionIsContradicted
<1>5. answer(3) = IF slow THEN [verdict |-> "unknown", evidence |-> {}]
                   ELSE [verdict |-> "verified", evidence |-> {[part |-> "", line |-> <<1, 0>>]}]
  <2>1. answer(3) = Exec!RunProbe(SourceFile("tests/test_rewards.py", edits, slow), DemoProbes[3])
    BY <1>1
  <2> HIDE DEF answer
  <2>2. QED
    BY <1>2, <2>1, DuplicateIsTested
<1>6. PICK n : answer(4) = [verdict  |-> "verified",
                            evidence |-> {[part |-> "A", line |-> <<1, n>>],
                                          [part |-> "B", line |-> <<1, n + 3>>]}]
  <2>1. answer(4) = Exec!RunProbe(SourceFile("rewards.py", edits, slow), DemoProbes[4])
    BY <1>1
  <2> HIDE DEF answer
  <2>2. QED
    BY <2>1, OrderIsVerified
<1>7. Observed(edits, slow) = [i \in 1..4 |-> Exec!Report(DemoProbes[i], answer(i))]
  BY <1>1 DEF Observed
<1> HIDE DEF answer
<1>8. /\ Exec!Report(DemoProbes[1], answer(1)) = DemoResults(slow)[1]
      /\ Exec!Report(DemoProbes[2], answer(2)) = DemoResults(slow)[2]
  <2>1. Exec!Report(DemoProbes[1], answer(1))
          = [probe_id |-> "PR-UTC", assumption_id |-> "A-UTC",
             verdict |-> "contradicted", evidence |-> {[probe |-> "PR-UTC", part |-> ""]}]
    <3> DEFINE x == [part |-> "", line |-> <<1, 0>>]
    <3>1. answer(1) = [verdict |-> "contradicted", evidence |-> {x}]
      BY <1>3
    <3>2. x.part = ""
      OBVIOUS
    <3> HIDE DEF x
    <3>3. answer(1).verdict = "contradicted" /\ answer(1).evidence = {x}
      BY ONLY <3>1, AnswerParts
    <3>4. Exec!Report(DemoProbes[1], answer(1))
            = [probe_id |-> DemoProbes[1].id, assumption_id |-> DemoProbes[1].assumption_id,
               verdict |-> answer(1).verdict,
               evidence |-> {[probe |-> DemoProbes[1].id, part |-> x.part]}]
      BY ONLY <3>3, ReportOf
    <3>5. QED
      BY <1>1, <3>2, <3>3, <3>4
  <2>2. Exec!Report(DemoProbes[2], answer(2))
          = [probe_id |-> "PR-REGION", assumption_id |-> "A-REGION",
             verdict |-> "contradicted", evidence |-> {[probe |-> "PR-REGION", part |-> ""]}]
    <3> DEFINE x == [part |-> "", line |-> <<1, 2>>]
    <3>1. answer(2) = [verdict |-> "contradicted", evidence |-> {x}]
      BY <1>4
    <3>2. x.part = ""
      OBVIOUS
    <3> HIDE DEF x
    <3>3. answer(2).verdict = "contradicted" /\ answer(2).evidence = {x}
      BY ONLY <3>1, AnswerParts
    <3>4. Exec!Report(DemoProbes[2], answer(2))
            = [probe_id |-> DemoProbes[2].id, assumption_id |-> DemoProbes[2].assumption_id,
               verdict |-> answer(2).verdict,
               evidence |-> {[probe |-> DemoProbes[2].id, part |-> x.part]}]
      BY ONLY <3>3, ReportOf
    <3>5. QED
      BY <1>1, <3>2, <3>3, <3>4
  <2>3. QED
    BY <2>1, <2>2 DEF DemoResults
<1>9. Exec!Report(DemoProbes[3], answer(3)) = DemoResults(slow)[3]
  <2>1. CASE slow
    <3>1. answer(3).verdict = "unknown" /\ answer(3).evidence = {}
      BY <1>5, <2>1
    <3>2. Exec!Report(DemoProbes[3], answer(3))
            = [probe_id |-> "PR-IDEMPOTENCY", assumption_id |-> "A-IDEMPOTENCY",
               verdict |-> "unknown", evidence |-> {}]
      BY <1>1, <3>1, ReportOf
    <3>3. QED
      BY <2>1, <3>2 DEF DemoResults
  <2>2. CASE ~ slow
    <3> DEFINE x == [part |-> "", line |-> <<1, 0>>]
    <3>1. answer(3) = [verdict |-> "verified", evidence |-> {x}]
      BY <1>5, <2>2
    <3>2. x.part = ""
      OBVIOUS
    <3> HIDE DEF x
    <3>3. answer(3).verdict = "verified" /\ answer(3).evidence = {x}
      BY ONLY <3>1, AnswerParts
    <3>4. Exec!Report(DemoProbes[3], answer(3))
            = [probe_id |-> "PR-IDEMPOTENCY", assumption_id |-> "A-IDEMPOTENCY",
               verdict |-> "verified", evidence |-> {[probe |-> "PR-IDEMPOTENCY", part |-> ""]}]
      BY <1>1, <3>3, <3>2, ReportOf
    <3>5. QED
      BY <2>2, <3>4 DEF DemoResults
  <2>3. QED
    BY <2>1, <2>2
<1>10. Exec!Report(DemoProbes[4], answer(4)) = DemoResults(slow)[4]
  <2> DEFINE x == [part |-> "A", line |-> <<1, n>>]
             y == [part |-> "B", line |-> <<1, n + 3>>]
  <2>1. /\ answer(4).verdict = "verified" /\ answer(4).evidence = {x, y}
        /\ x.part = "A" /\ y.part = "B"
    BY <1>6
  <2> HIDE DEF x, y
  <2>2. Exec!Report(DemoProbes[4], answer(4))
          = [probe_id |-> "PR-ORDER", assumption_id |-> "A-ORDER", verdict |-> "verified",
             evidence |-> {[probe |-> "PR-ORDER", part |-> "A"],
                           [probe |-> "PR-ORDER", part |-> "B"]}]
    BY <1>1, <2>1, ReportOf
  <2>3. QED
    BY <2>2 DEF DemoResults
<1>11. DemoResults(slow) = [i \in 1..4 |-> DemoResults(slow)[i]]
  BY DEF DemoResults
<1>12. QED
  BY <1>7, <1>8, <1>9, <1>10, <1>11

(* When one result is about an assumption, its verdict is the latest.      *)
LEMMA OnlyVerdict ==
  ASSUME NEW observed, DOMAIN observed \subseteq Nat, NEW n \in DOMAIN observed, NEW a,
         \A i \in DOMAIN observed : observed[i].assumption_id = a <=> i = n
  PROVE  LatestVerdict(observed, a) = {observed[n].verdict}
<1>1. n \in Nat /\ n <= n
  OBVIOUS
<1>2. {k \in DOMAIN observed :
         /\ observed[k].assumption_id = a
         /\ \A j \in DOMAIN observed : observed[j].assumption_id = a => j <= k} = {n}
  BY <1>1
<1>3. QED
  BY <1>2 DEF LatestVerdict

(* What the gate makes of it (gate.py:4-13, pipeline.py:198-206).           *)
LEMMA DemoIsGated ==
  ASSUME NEW slow \in BOOLEAN
  PROVE  /\ BlockedAssumptions(DemoPlan, DemoResults(slow))
              = {"A-UTC", "A-REGION"} \cup (IF slow THEN {"A-IDEMPOTENCY"} ELSE {})
         /\ UnknownLoadBearing(DemoPlan, DemoResults(slow))
              = (IF slow THEN {"A-IDEMPOTENCY"} ELSE {})
         /\ {[probe |-> p, part |-> ""] : p \in {"PR-UTC", "PR-REGION"}}
              \subseteq ActualEvidence(DemoResults(slow))
<1> DEFINE seen == DemoResults(slow)
<1>1. /\ DOMAIN seen = 1..4
      /\ seen[1].assumption_id = "A-UTC" /\ seen[2].assumption_id = "A-REGION"
      /\ seen[3].assumption_id = "A-IDEMPOTENCY" /\ seen[4].assumption_id = "A-ORDER"
  <2>1. DOMAIN seen = 1..4
    BY DEF DemoResults
  <2>2. seen[1].assumption_id = "A-UTC" /\ seen[2].assumption_id = "A-REGION"
    BY DEF DemoResults
  <2>3. seen[3].assumption_id = "A-IDEMPOTENCY"
    BY DEF DemoResults
  <2>4. seen[4].assumption_id = "A-ORDER"
    BY DEF DemoResults
  <2>5. QED
    BY <2>1, <2>2, <2>3, <2>4
<1>2. /\ seen[1].verdict = "contradicted" /\ seen[2].verdict = "contradicted"
      /\ seen[4].verdict = "verified"
  BY DEF DemoResults
<1>3. seen[3].verdict = (IF slow THEN "unknown" ELSE "verified")
  BY DEF DemoResults
<1>4. /\ seen[1].evidence = {[probe |-> "PR-UTC", part |-> ""]}
      /\ seen[2].evidence = {[probe |-> "PR-REGION", part |-> ""]}
  BY DEF DemoResults
<1> HIDE DEF seen
<1>5. /\ LatestVerdict(seen, "A-UTC") = {"contradicted"}
      /\ LatestVerdict(seen, "A-REGION") = {"contradicted"}
      /\ LatestVerdict(seen, "A-IDEMPOTENCY") = {IF slow THEN "unknown" ELSE "verified"}
      /\ LatestVerdict(seen, "A-ORDER") = {"verified"}
  <2>1. /\ DOMAIN seen \subseteq Nat
        /\ 1 \in DOMAIN seen /\ 2 \in DOMAIN seen /\ 3 \in DOMAIN seen /\ 4 \in DOMAIN seen
        /\ \A i \in DOMAIN seen : i = 1 \/ i = 2 \/ i = 3 \/ i = 4
    BY <1>1
  <2>2. /\ \A i \in DOMAIN seen : seen[i].assumption_id = "A-UTC" <=> i = 1
        /\ \A i \in DOMAIN seen : seen[i].assumption_id = "A-REGION" <=> i = 2
        /\ \A i \in DOMAIN seen : seen[i].assumption_id = "A-IDEMPOTENCY" <=> i = 3
        /\ \A i \in DOMAIN seen : seen[i].assumption_id = "A-ORDER" <=> i = 4
    BY <1>1, <2>1
  <2>3. LatestVerdict(seen, "A-UTC") = {seen[1].verdict}
    BY <2>1, <2>2, OnlyVerdict
  <2>4. LatestVerdict(seen, "A-REGION") = {seen[2].verdict}
    BY <2>1, <2>2, OnlyVerdict
  <2>5. LatestVerdict(seen, "A-IDEMPOTENCY") = {seen[3].verdict}
    BY <2>1, <2>2, OnlyVerdict
  <2>6. LatestVerdict(seen, "A-ORDER") = {seen[4].verdict}
    BY <2>1, <2>2, OnlyVerdict
  <2>7. QED
    BY <1>2, <1>3, <2>3, <2>4, <2>5, <2>6
<1>6. LoadBearing(DemoPlan) = {"A-UTC", "A-REGION", "A-IDEMPOTENCY", "A-ORDER"}
  <2> DEFINE ids == {"A-UTC", "A-REGION", "A-IDEMPOTENCY", "A-ORDER"}
  <2>1. DemoPlan.assumptions = {[id |-> a, load_bearing |-> TRUE] : a \in ids}
    BY DEF DemoPlan
  <2> HIDE DEF ids
  <2>2. {x \in DemoPlan.assumptions : x.load_bearing} = DemoPlan.assumptions
    BY <2>1
  <2>3. {x.id : x \in DemoPlan.assumptions} = ids
    <3>1. \A a \in ids : /\ [id |-> a, load_bearing |-> TRUE] \in DemoPlan.assumptions
                          /\ [id |-> a, load_bearing |-> TRUE].id = a
      BY <2>1
    <3>2. \A x \in DemoPlan.assumptions : x.id \in ids
      BY <2>1
    <3>3. QED
      BY <3>1, <3>2
  <2>4. QED
    BY <2>2, <2>3 DEF LoadBearing, ids
<1>7. BlockedAssumptions(DemoPlan, seen)
        = {"A-UTC", "A-REGION"} \cup (IF slow THEN {"A-IDEMPOTENCY"} ELSE {})
  BY <1>5, <1>6 DEF BlockedAssumptions
<1>8. UnknownLoadBearing(DemoPlan, seen) = (IF slow THEN {"A-IDEMPOTENCY"} ELSE {})
  BY <1>5, <1>6 DEF UnknownLoadBearing
<1>9. {[probe |-> p, part |-> ""] : p \in {"PR-UTC", "PR-REGION"}} \subseteq ActualEvidence(seen)
  <2>1. /\ [probe |-> "PR-UTC", part |-> ""] \in ActualEvidence(seen)
        /\ [probe |-> "PR-REGION", part |-> ""] \in ActualEvidence(seen)
    <3>1. 1 \in DOMAIN seen /\ 2 \in DOMAIN seen
      BY <1>1
    <3>2. /\ seen[1].evidence \subseteq ActualEvidence(seen)
          /\ seen[2].evidence \subseteq ActualEvidence(seen)
      BY <3>1 DEF ActualEvidence
    <3>3. QED
      BY <1>4, <3>2
  <2>2. QED
    BY <2>1
<1>10. QED
  BY <1>7, <1>8, <1>9 DEF seen

(* What the test suites say of each workspace.                              *)
LEMMA VerifiedByEdits ==
  /\ Verified(<< >>) = <<"pass", "fail">>
  /\ Verified(<<"models.py">>) = <<"fail", "fail">>
  /\ Verified(DemoPatch) = <<"pass", "pass">>
BY TestsByEdits DEF Verified, Outcome

(* Once published, a demo has shown what it is there to show.               *)
LEMMA EndShows ==
  ASSUME NEW shown, NEW edits, EndsWith(shown, edits)
  PROVE  /\ shown.first_gate.blocked_assumptions
              \in {{"A-UTC", "A-REGION"}, {"A-UTC", "A-REGION"} \cup {"A-IDEMPOTENCY"}}
         /\ shown.verdict = "ready_with_evidence"
              <=> shown.first_gate.blocked_assumptions = {"A-UTC", "A-REGION"}
         /\ shown.verdict = "blocked" => edits = << >>
         /\ shown.verdict = "ready_with_evidence" =>
              {[probe |-> p, part |-> ""] : p \in {"PR-UTC", "PR-REGION"}}
                \subseteq shown.revised_plan.evidence_ids
         /\ \E slow \in BOOLEAN : shown.probe_results = Observed(edits, slow)
<1> DEFINE seen == shown.probe_results
           blocked == shown.first_gate.blocked_assumptions
<1>1. PICK slow \in BOOLEAN : seen = Observed(<< >>, slow)
  BY DEF EndsWith, Seen
<1>2. seen = DemoResults(slow) /\ edits \in {<< >>, DemoPatch}
  BY <1>1, ObservedIs DEF EndsWith
<1>3. seen = Observed(edits, slow)
  BY <1>2, ObservedIs
<1>4. blocked = BlockedAssumptions(DemoPlan, seen)
  <2>1. shown.first_gate = DecideGate(DemoPlan, seen)
    BY DEF EndsWith
  <2>2. QED
    BY <2>1 DEF DecideGate
<1>5. VerdictOf(Verified(DemoPatch)) = "ready_with_evidence"
  BY VerifiedByEdits DEF VerdictOf
<1>6. /\ blocked = {"A-UTC", "A-REGION"} \cup (IF slow THEN {"A-IDEMPOTENCY"} ELSE {})
      /\ UnknownLoadBearing(DemoPlan, seen) = (IF slow THEN {"A-IDEMPOTENCY"} ELSE {})
      /\ {[probe |-> p, part |-> ""] : p \in {"PR-UTC", "PR-REGION"}} \subseteq ActualEvidence(seen)
  BY <1>2, <1>4, DemoIsGated
<1>7. \/ shown.verdict = "blocked" /\ edits = << >> /\ slow
      \/ /\ shown.verdict = "ready_with_evidence" /\ ~ slow
         /\ shown.revised_plan = DeterministicReplan(seen)
  BY <1>5, <1>6 DEF EndsWith
<1>8. shown.verdict = "ready_with_evidence" =>
        shown.revised_plan.evidence_ids = ActualEvidence(seen)
  BY <1>7 DEF DeterministicReplan
<1> HIDE DEF seen, blocked
<1>9. /\ blocked \in {{"A-UTC", "A-REGION"}, {"A-UTC", "A-REGION"} \cup {"A-IDEMPOTENCY"}}
      /\ slow <=> blocked # {"A-UTC", "A-REGION"}
  <2>1. CASE slow
    BY <1>6, <2>1
  <2>2. CASE ~ slow
    BY <1>6, <2>2
  <2>3. QED
    BY <2>1, <2>2
<1>10. /\ shown.verdict = "ready_with_evidence" <=> blocked = {"A-UTC", "A-REGION"}
       /\ shown.verdict = "blocked" => edits = << >>
  BY <1>7, <1>9
<1>11. QED
  BY <1>3, <1>6, <1>8, <1>9, <1>10 DEF seen, blocked

(* What holds of every demo.                                                *)
LEMMA DemoGoesOn == DemoSpec => [](Inv /\ DemoInv)
<1>1. DemoSpec => [](Inv /\ PublicationInv)
  BY DemoRuns, Published, PTL
<1>2. DemoInit => DemoInv
  BY DemoStarts DEF DemoInit
<1>3. QED
  BY <1>1, <1>2, DemoHolds, PTL DEF DemoSpec

(* However many demos run, and whatever call of theirs fails, with a source *)
(* that can be read: one that ends with a packet shows the two false        *)
(* premises blocked before any code, and the replan citing them             *)
(* (test_pipeline.py:18-29, smoke_live.py:74-77).                           *)
THEOREM DemoShowsIt == DemoSpec => []DemoIsAsShown
<1>1. DemoInv => DemoIsAsShown
  BY EndShows DEF DemoInv, EndInv, DemoIsAsShown
<1>2. QED
  BY <1>1, DemoGoesOn, PTL

(* However many demos run: what the probes found in the repository they     *)
(* find in the patched one, and the suites tell the whole patch from its    *)
(* half (deterministic.py:135-150, verification.py:12-51).                  *)
THEOREM PremisesHold == DemoSpec => []PremisesSurvivePatch
<1>1. DemoInv => PremisesSurvivePatch
  <2> SUFFICES ASSUME DemoInv, NEW r \in Runs
               PROVE  /\ packet[r] # None =>
                           \E slow \in BOOLEAN :
                             packet[r].probe_results = Observed(workspace[r], slow)
                      /\ Verified(workspace[r]) =
                           CASE workspace[r] = << >>     -> <<"pass", "fail">>
                             [] workspace[r] = DemoPatch -> <<"pass", "pass">>
                             [] OTHER                    -> <<"fail", "fail">>
    BY DEF PremisesSurvivePatch
  <2>1. packet[r] # None => EndsWith(packet[r], workspace[r])
    BY DEF DemoInv, EndInv
  <2>2. << >> # DemoPatch /\ <<"models.py">> # DemoPatch /\ <<"models.py">> # << >>
    BY DEF DemoPatch
  <2>3. workspace[r] \in {<< >>, <<"models.py">>, DemoPatch}
    BY DEF DemoInv, Workspaces
  <2>4. QED
    BY <2>1, <2>2, <2>3, EndShows, VerifiedByEdits
<1>2. QED
  BY <1>1, DemoGoesOn, PTL
=============================================================================
