------------------------------ MODULE RoundDraw ------------------------------
(***************************************************************************)
(* From the commits of a round to what is bought: the draw (vrf_engine.py),*)
(* the request to the buyer made of it (purchases_payload.py), the text    *)
(* that is pinned on chain before it (weights_commitment.py), and what the *)
(* verification page makes of that text afterwards.                        *)
(*                                                                         *)
(* A coin is a number, which is its address's place in the order of text.  *)
(* What is behind a coin is counted in lamports; the database's double     *)
(* holds every sum of a round exactly.  The hash is any of its values: a   *)
(* draw is the sequence of them for one salt after another.  A text pinned *)
(* stands for its sha256.                                                  *)
(***************************************************************************)
EXTENDS Integers, Sequences, FiniteSets, FiniteSetsExt, Functions, SequencesExt

CONSTANTS
  KMax, Numerator, Denominator,   \* K_MAX, K_SQRT_NUMERATOR, K_SQRT_DENOMINATOR
  LamportsPerSol,
  Hashes,          \* how many values keccak_u64 has
  Grid             \* lamports in the last decimal of a SOL figure (eight decimals)

NoText == <<>>
Whole == 10000
-----------------------------------------------------------------------------
(* The draw.                                                               *)

Backed(weights) == {m \in DOMAIN weights : weights[m] > 0}
Pool(weights) == SumFunction(weights)

Isqrt(n) == CHOOSE r \in 0..n : r * r <= n /\ (r + 1) * (r + 1) > n

ComputeK(weights) ==
  IF Backed(weights) = {} THEN 0
  ELSE LET scaled == (Pool(weights) * Numerator * Numerator)
                       \div (Denominator * Denominator * LamportsPerSol)
       IN Min({KMax, Max({Cardinality(Backed(weights)), Isqrt(scaled)})})

\* The largest multiple of the pool there is room for: a hash above it is not used.
Limit(total) == (Hashes \div total) * total

\* weighted_sampler_u: the first hash that is used.
SampledU(hashes, total) == SelectSeq(hashes, LAMBDA x : x < Limit(total))[1] % total

\* build_prefix
Mints(weights) == SetToSortSeq(Backed(weights), <)
Prefix(weights) ==
  LET mints == Mints(weights)
  IN [j \in DOMAIN mints |-> MapThenSumSet(LAMBDA i : weights[mints[i]], 1..j)]

\* pick_mint: bisect_left.
PickMint(u, prefix, mints) == mints[Min({j \in DOMAIN prefix : prefix[j] >= u + 1})]

DrawMintWins(draws, weights, k) ==
  LET picked == [i \in 1..k |-> PickMint(SampledU(draws[i], Pool(weights)),
                                         Prefix(weights), Mints(weights))]
  IN [m \in Backed(weights) |-> Cardinality({i \in 1..k : picked[i] = m})]

ComputeTargets(wins, budget, k) == [m \in DOMAIN wins |-> (budget \div k) * wins[m]]

Budget(pool, feeBps) == pool - (pool * feeBps) \div Whole

\* run_with_seed
RunWithSeed(weights, draws, feeBps) ==
  IF Pool(weights) = 0 THEN [k |-> 0, wins |-> <<>>, targets |-> <<>>]
  ELSE LET k == ComputeK(weights)
           wins == DrawMintWins(draws, weights, k)
       IN [k |-> k, wins |-> wins,
           targets |-> ComputeTargets(wins, Budget(Pool(weights), feeBps), k)]

\* build_run_purchases_payload: a SOL figure of eight decimals; half of the last one
\* goes either way, as the double has it.
TotalSol(target) == {n \in 0..(target \div Grid) + 1 : 2 * n * Grid \in 2 * target - Grid..2 * target + Grid}
MayBeAsked(run) ==
  {asked \in [{m \in DOMAIN run.wins : run.wins[m] > 0} -> UNION {TotalSol(t) : t \in Range(run.targets)}] :
     \A m \in DOMAIN asked : asked[m] \in TotalSol(run.targets[m])}
-----------------------------------------------------------------------------
(* The text that is pinned.                                                *)

\* By descending amount, and by address when equal.
Sorted(amounts) ==
  SetToSortSeq(Backed(amounts),
               LAMBDA m, n : amounts[m] > amounts[n] \/ (amounts[m] = amounts[n] /\ m < n))

Text(amounts, spelled) ==
  LET order == Sorted(amounts) IN [i \in DOMAIN order |-> <<order[i], spelled[order[i]]>>]

\* An integer has one spelling: json.
Plain(n) == [whole |-> n, decimals |-> 0, e |-> FALSE]

\* build_number_string: SOL of so many last decimals, the zeros at its end gone, as
\* JavaScript prints it; below a millionth it is written with an exponent.
NumberString(n) ==
  LET one == LamportsPerSol \div Grid
  IN [whole |-> n \div one, decimals |-> n % one, e |-> n % one # 0 /\ n * 1000000 < one]

\* build_lamports_payload: rule 2.
LamportsPayload(weights) == Text(weights, [m \in DOMAIN weights |-> Plain(weights[m])])

\* build_weights_payload: rule 1, ROUND_HALF_UP to eight decimals of SOL.
WeightsPayload(weights) ==
  LET sol == [m \in DOMAIN weights |-> (2 * weights[m] + Grid) \div (2 * Grid)]
  IN Text(sol, [m \in DOMAIN sol |-> NumberString(sol[m])])

\* Who pins: the worker (_build_weights_hash) by rule 2, and an admin's signature
\* (phase2-accounts) by rule 1 to this day.
PinnedBy(who, weights) ==
  IF who = "worker" THEN LamportsPayload(weights) ELSE WeightsPayload(weights)

\* get_lottery_verification: the text that matches what the chain holds is published.
Published(weights, onchain) ==
  IF onchain # NoText /\ LamportsPayload(weights) # onchain /\ WeightsPayload(weights) = onchain
  THEN WeightsPayload(weights) ELSE LamportsPayload(weights)

WeightsMatch(weights, onchain) ==
  IF onchain = NoText \/ Published(weights, onchain) = NoText THEN "unknown"
  ELSE IF Published(weights, onchain) = onchain THEN "yes" ELSE "no"

\* _build_lottery_winner_results: the fee is the default's, not the round's.
DefaultFeeBps == 300
WinnerResults(weights, draws) ==
  LET run == RunWithSeed(weights, draws, DefaultFeeBps)
  IN {[mint |-> m, wins |-> run.wins[m], target |-> run.targets[m]] :
        m \in {n \in DOMAIN run.wins : run.wins[n] > 0}}
-----------------------------------------------------------------------------
(* Promises, checked over small rounds.                                    *)

(* A coin is drawn in proportion to what is behind it: every lamport of    *)
(* the pool is one coin's ticket, and none of them counts twice.           *)
DrawIsByWeight(weights) ==
  \A m \in Backed(weights) :
    Cardinality({u \in 0..Pool(weights) - 1 : PickMint(u, Prefix(weights), Mints(weights)) = m})
      = weights[m]

(* No ticket is likelier than another: every one has as many hashes that   *)
(* name it, whatever the size of the pool, and there is one.               *)
SamplerIsEven(total) ==
  LET used(u) == Cardinality({x \in 0..Limit(total) - 1 : SampledU(<<x>>, total) = u})
  IN \A u \in 0..total - 1 : used(u) = used(0) /\ used(u) > 0

(* A hash that is not used is drawn again and leaves no trace.             *)
SaltLeavesNoTrace(hashes, total) ==
  \A refused \in Limit(total)..Hashes - 1 :
    SampledU(<<refused>> \o hashes, total) = SampledU(hashes, total)

(* More money never means fewer draws.  There are as many draws as coins   *)
(* at the least, as far as the ceiling allows: the test of compute_k says  *)
(* "never below the number of coins", which more coins than K_MAX refute,  *)
(* and "otherwise some coins would get no purchase", which a coin that is  *)
(* not drawn does not get anyway.                                          *)
KGrows(weights) ==
  /\ ComputeK(weights) <= KMax
  /\ ComputeK(weights) >= Min({KMax, Cardinality(Backed(weights))})
  /\ \A m \in DOMAIN weights : ComputeK([weights EXCEPT ![m] = @ + 1]) >= ComputeK(weights)

(* What the round paid out is what is spent, to less than a lamport for    *)
(* each draw, and every draw is worth the same; the rounding of the        *)
(* request adds at most half of a last decimal for each coin.              *)
BudgetIsSpent(weights, draws, feeBps) ==
  LET run    == RunWithSeed(weights, draws, feeBps)
      budget == Budget(Pool(weights), feeBps)
  IN Pool(weights) > 0 =>
       /\ SumFunction(run.wins) = run.k
       /\ SumFunction(run.targets) \in budget - run.k + 1..budget
       /\ \A m, n \in DOMAIN run.wins : run.targets[m] * run.wins[n] = run.targets[n] * run.wins[m]
       /\ \A asked \in MayBeAsked(run) :
            2 * Grid * SumFunction(asked) <= 2 * budget + Grid * Cardinality(DOMAIN asked)

(* The text pinned by rule 2 is exactly what the draw weighs by: two       *)
(* rounds with one text have one outcome, and two texts are two rounds.    *)
PinnedIsDrawn(one, other, draws, feeBps) ==
  /\ LamportsPayload(one) = LamportsPayload(other)
       => RunWithSeed(one, draws, feeBps) = RunWithSeed(other, draws, feeBps)
  /\ (\E m \in DOMAIN one : one[m] # other[m]) => LamportsPayload(one) # LamportsPayload(other)

(* Rule 1 hides less than a last decimal behind each coin, and no more.    *)
(* "Rule 2, used by every round from 2026-09-24 on", says the module; a    *)
(* round whose draw an admin signs is still pinned by rule 1.              *)
OldRuleHidesLess(one, other) ==
  WeightsPayload(one) = WeightsPayload(other) =>
    \A m \in DOMAIN one : one[m] - other[m] \in -Grid + 1..Grid - 1

(* The page says that a round matches when its commits are the ones that   *)
(* were pinned, under whichever rule, and that it does not when a coin has *)
(* a last decimal more or less behind it.                                  *)
PageTellsTheTruth(who, pinned, now) ==
  LET match == WeightsMatch(now, PinnedBy(who, pinned)) IN
  /\ now = pinned /\ Backed(now) # {} => match = "yes"
  /\ (\E m \in DOMAIN now : now[m] - pinned[m] \notin -Grid + 1..Grid - 1) => match # "yes"
  /\ who = "worker" /\ now # pinned => match # "yes"

(* The wins the page publishes are the round's; its targets are the        *)
(* buyer's only while the round's fee is the default one.                  *)
PageShowsTheDraw(weights, draws, feeBps) ==
  LET run == RunWithSeed(weights, draws, feeBps) IN
  \A result \in WinnerResults(weights, draws) :
    /\ result.wins = run.wins[result.mint]
    /\ feeBps = DefaultFeeBps => result.target = run.targets[result.mint]
=============================================================================
