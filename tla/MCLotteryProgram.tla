-------------------------- MODULE MCLotteryProgram --------------------------
(***************************************************************************)
(* Small instance: a round with the default minimum and no per-deposit cap *)
(* that both runs out of time and fills up, and one set of arguments       *)
(* initialize refuses.                                                     *)
(*                                                                         *)
(* Before it, what the program's seed and commitment are for: the draw     *)
(* over up to three coins, with a hash of 32 values and pools on both      *)
(* sides of its multiples, the number of draws up to its ceiling at 111    *)
(* SOL in tenths of one, and texts of amounts around the last decimal.     *)
(***************************************************************************)
EXTENDS LotteryProgram

CONSTANTS w1, s1

RoundArgs ==
  [start |-> 1, end |-> 3, feeBps |-> 500, minAmount |-> None,
   maxAmount |-> None, maxTotal |-> 200]

MCParams == {RoundArgs, [RoundArgs EXCEPT !.maxAmount = 201]}

MCAmounts == {39, 40, 100}

MCWeightsArgs == {Zero, w1}

MCSeedArgs == {Zero, s1}

Draw == INSTANCE RoundDraw WITH
  KMax <- 3, Numerator <- 67, Denominator <- 10, LamportsPerSol <- 100, Hashes <- 32, Grid <- 10
Count == INSTANCE RoundDraw WITH
  KMax <- 70, Numerator <- 67, Denominator <- 10, LamportsPerSol <- 10, Hashes <- 4096, Grid <- 1

Coins == 1..3
SmallWeights == [Coins -> {0, 1, 3, 4, 7}]
Draws == [1..3 -> {<<0>>, <<31, 5>>, <<11>>, <<30, 29, 28, 23, 2>>}]

ASSUME EveryLamportIsATicket == \A weights \in SmallWeights : Draw!DrawIsByWeight(weights)
ASSUME NoTicketIsLikelier ==
  \A total \in 1..32 : Draw!SamplerIsEven(total) /\ Draw!SaltLeavesNoTrace(<<0>>, total)
ASSUME MoreMoneyMoreDraws ==
  /\ \A weights \in SmallWeights : Draw!KGrows(weights)
  /\ \A pool \in {0, 1, 10, 300, 500, 800, 1091, 1092, 1110, 2220} :
       Count!KGrows([m \in Coins |-> IF m = 1 THEN pool ELSE 0])
  /\ \A n \in {12, 69, 70, 71} : Count!KGrows([m \in 1..n |-> 1])
ASSUME NothingIsLeftOver ==
  \A weights \in [Coins -> {0, 3, 9}], draws \in Draws, feeBps \in {0, 300, 500} :
    /\ Draw!BudgetIsSpent(weights, draws, feeBps)
    /\ Draw!PageShowsTheDraw(weights, draws, feeBps)
ASSUME PageIsRight ==
  \A pool \in {310, 970}, feeBps \in {250, 300} :
    LET weights == [m \in Coins |-> IF m = 3 THEN 0 ELSE m * pool]
        draws   == [i \in 1..70 |-> <<4095, 41 * i>>]
    IN Count!PageShowsTheDraw(weights, draws, feeBps) /\ Count!BudgetIsSpent(weights, draws, feeBps)
\* The program pays the keeper what the engine spends.
ASSUME PayoutIsTheBudget ==
  \A pool \in 0..1110, feeBps \in {0, 1, 299, 300, 500} :
    Draw!Budget(pool, feeBps) = pool - FeeOf(pool, feeBps)
ASSUME CommitmentIsTheDraw ==
  \A one, other \in [1..2 -> {0, 4, 5, 14}], draws \in Draws : Draw!PinnedIsDrawn(one, other, draws, 300)

\* No coin has less behind it than a commit must be.
Committed == [1..2 -> {0, 44, 45, 54, 55, 100, 104, 105}]
ASSUME VerificationIsTrue ==
  \A pinned, now \in Committed :
    /\ Draw!OldRuleHidesLess(pinned, now)
    /\ \A who \in {"worker", "admin"} : Draw!PageTellsTheTruth(who, pinned, now)
=============================================================================
