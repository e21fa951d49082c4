----------------------------- MODULE MCBatchBuy -----------------------------
(***************************************************************************)
(* A coin with nothing to spend, with less than its fees, with 0.09 SOL,   *)
(* which is one purchase of up to three transactions (a first one and both *)
(* re-signings, or the whole ladder), or with 0.15 SOL,                    *)
(* which is two purchases; and one death of the process.  The keeper holds *)
(* too little for any purchase, nine tenths of the larger one, or enough.  *)
(***************************************************************************)
EXTENDS BatchBuy

MCBudgets == {0, 2000, 90000, 150000}
MCMaxTxs == [b \in MCBudgets |-> IF b > 100000 THEN 2 ELSE 3]
MCWeights == {100}
MCBalances == {1000, 80000}

-----------------------------------------------------------------------------
(* The terms of a purchase over small inputs.                              *)

MCEstimates == {0, 1, 9, 10, 11, 476, 477, 714, 715, 10000}
MCGlobals ==
  {[feeRecipient |-> "f", feeRecipients |-> {"f1"}, reservedFeeRecipient |-> "r",
    reservedFeeRecipients |-> {"r1"}, buybackFeeRecipients |-> buyback]
     : buyback \in {{}, {"b"}}}
MCCurves == [tokens : {1, 700, 1073}, sol : {1, 30, 85}, mayhem : BOOLEAN]
MCConfigs == [account : {"whole"}, flat : {0, 95}, tiers : {<<>>, <<125>>, <<30, 2000>>}]
MCCalls == {calls \in [1..5 -> 0..7] : \A i \in 1..4 : calls[i] <= calls[i + 1]}

ASSUME ErrorsAreRead == SlippageIsRecognised /\ LackOfMoneyIsSilent

ASSUME PriorityIsCovered ==
  \A path \in FeePaths, count \in {0, 1, 8, 20}, estimate \in MCEstimates,
     amount \in {0, 1, 1000, 9999, 10000, 500000} :
    PriorityWithinReserve(path, count, estimate, amount)

ASSUME OffersAreAccepted ==
  \A global \in MCGlobals, curve \in MCCurves, lamports \in 1..20,
     slippageBps \in {0, 300, 1300, 20000}, config \in MCConfigs :
    OfferIsAccepted(global, curve, lamports, slippageBps, config)

ASSUME LadderIsClimbed ==
  \A start \in {100, 300, 400, 500, 1300, 2000}, max \in {100, 500, 1000, 1300, 3000} :
    LadderClimbs(start, max)

ASSUME ScheduleKeepsApart ==
  \A n \in 1..6, size \in 2..6, gap \in {0, 2} : PurchasesApart(n, n * size, gap)

ASSUME LimiterSpaces ==
  \A interval \in {1, 2}, burst \in 1..3 : \A calls \in MCCalls :
    CallsSpaced(interval, burst, calls)

\* The estimate is a price somebody paid, or one between two that were.
ASSUME EstimateIsMedian ==
  \A samples \in [1..3 -> 0..3] : \A price \in {0, 5} :
    LET estimate == BuyPriceEstimate(samples, [inTime |-> TRUE, price |-> price])
        paid     == {fee \in ToSet(samples) : fee > 0}
    IN IF price > 0 THEN estimate = price
       ELSE IF paid = {} THEN estimate = 0
       ELSE estimate \in Min(paid)..Max(paid)
=============================================================================
