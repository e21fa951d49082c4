------------------------------ MODULE BuyTerms ------------------------------
(***************************************************************************)
(* The terms of one purchase: what it asks of the pump.fun curve, what it  *)
(* offers for a place in a block, which mint is bought at all, when, and   *)
(* how the calls to the outside are spaced.                                *)
(*                                                                         *)
(* Prices are in thousands of microlamports per compute unit and compute   *)
(* in hundreds of units, so that price * units / 10 is lamports; the code  *)
(* divides at a finer grain.  0 stands for an estimate nobody gave.        *)
(***************************************************************************)
EXTENDS Integers, Sequences, FiniteSetsExt, SequencesExt

-----------------------------------------------------------------------------
(* A place in the block.                                                   *)

BuyPaths == {"pumpfun", "pumpswap", "dex"}
FeePaths == BuyPaths \cup {"delivery", "refund"}

MaxPriorityLamports(path) == IF path \in BuyPaths THEN 100000 ELSE 5000
PriceFloor(path) == IF path \in BuyPaths THEN 10 ELSE 1

ComputeUnits == [pumpfun |-> 1400, pumpswap |-> 2000, dex |-> 2100]
DeliveryComputeUnits(recipients) == Min({2000, 150 + 300 * Max({1, recipients})})
RefundComputeUnits(transfers) == Min({200, 10 + 4 * Max({1, transfers})})

\* estimatePrice: the median of what others paid, 0 when nobody did or the node
\* did not answer.
EstimatePrice(samples) ==
  LET fees   == SortSeq(SelectSeq(samples, LAMBDA fee : fee > 0), <)
      middle == Len(fees) \div 2
  IN CASE fees = <<>>         -> 0
       [] Len(fees) % 2 = 1   -> fees[middle + 1]
       [] OTHER               -> (fees[middle] + fees[middle + 1] + 1) \div 2

\* recommendedPrice: an answer in time that is a price, or nothing.
RecommendedPrice(answer) == IF answer.inTime /\ answer.price > 0 THEN answer.price ELSE 0

BuyPriceEstimate(samples, answer) ==
  Max({EstimatePrice(samples), RecommendedPrice(answer)})

\* One per cent of the purchase at most; `amount` is in thousands of lamports.
CapLamports(path, amount) ==
  IF amount <= 0 THEN MaxPriorityLamports(path)
  ELSE Min({MaxPriorityLamports(path), amount * 10})

PriceFor(path, units, estimate, amount) ==
  LET ceiling == (CapLamports(path, amount) * 10) \div units
      base    == Max({PriceFloor(path), estimate})
  IN Max({PriceFloor(path), Min({base, ceiling})})

PriorityLamports(units, price) == (units * price + 9) \div 10

JupiterPriorityLamports(estimate) ==
  Max({5000, PriorityLamports(ComputeUnits.dex,
                              PriceFor("dex", ComputeUnits.dex, estimate, 0))})

\* What a transaction pays besides its base fee: two budget instructions of
\* ours, or what we tell Jupiter.
Priority(path, count, estimate, amount) ==
  LET Pays(units) == PriorityLamports(units, PriceFor(path, units, estimate, amount))
  IN CASE path = "delivery" -> Pays(DeliveryComputeUnits(count))
       [] path = "refund"   -> Pays(RefundComputeUnits(count))
       [] path = "dex"      -> JupiterPriorityLamports(estimate)
       [] OTHER             -> Pays(ComputeUnits[path])

\* TX_FEE_SOL and BUY_TX_FEE_SOL less the base fee, in lamports.
PriorityReserve(path) == IF path \in BuyPaths THEN 100000 ELSE 5000

-----------------------------------------------------------------------------
(* The curve of pump.fun.                                                  *)

FallbackMaxFeeBps == 125

\* parseMaxFeeBps of the account, when it is there and whole; the rates are
\* totals of the three shares.
MaxFeeBps(config) ==
  IF config.account = "whole" THEN Max({config.flat} \cup ToSet(config.tiers))
  ELSE FallbackMaxFeeBps

\* allowedFeeRecipients: by the coin's own flag.
AllowedFeeRecipients(global, mayhem) ==
  IF mayhem THEN {global.reservedFeeRecipient} \cup global.reservedFeeRecipients
  ELSE {global.feeRecipient} \cup global.feeRecipients

BuybackFeeRecipients(global) ==
  IF global.buybackFeeRecipients # {} THEN global.buybackFeeRecipients
  ELSE {"PUMP_BUYBACK_FEE_RECIPIENTS"}

CurveOutput(curve, lamports) ==
  (curve.tokens * lamports) \div (curve.sol + lamports)

AfterFee(lamports, feeBps) == (lamports * 10000) \div (10000 + feeBps)

\* calculateBuyParams.
MinTokensOut(curve, lamports, slippageBps, maxFeeBps) ==
  (CurveOutput(curve, AfterFee(lamports, maxFeeBps))
     * (10000 - Min({slippageBps, 10000}))) \div 10000

\* buildBuyIx: the instructions it may build.
BuyIx(global, curve, lamports, slippageBps, config) ==
  [spendable : {lamports},
   minTokensOut : {MinTokensOut(curve, lamports, slippageBps, MaxFeeBps(config))},
   feeRecipient : AllowedFeeRecipients(global, curve.mayhem),
   buyback : BuybackFeeRecipients(global)]

\* The program's side of the bargain (external): what it takes, and when it
\* refuses.
Accepts(global, curve, ix, feeBps) ==
  /\ ix.feeRecipient \in (IF curve.mayhem
                          THEN {global.reservedFeeRecipient} \cup global.reservedFeeRecipients
                          ELSE {global.feeRecipient} \cup global.feeRecipients)
  /\ CurveOutput(curve, AfterFee(ix.spendable, feeBps)) >= ix.minTokensOut

-----------------------------------------------------------------------------
(* The slippage ladder, in basis points; the first attempt counts as 1.    *)

SlippageSchedule == <<300, 500, 900, 1300>>

\* getSlippageForAttempt.
SlippageForAttempt(attempt, start, max) ==
  LET steps == SelectSeq(SlippageSchedule, LAMBDA step : step > start)
  IN Min({max, IF attempt <= 1 \/ steps = <<>> THEN start
               ELSE steps[Min({attempt - 1, Len(steps)})]})

-----------------------------------------------------------------------------
(* The mint: what stands in the way of handing a bought coin on.           *)

HarmlessExtensions == {"MintCloseAuthority", "ImmutableOwner", "InterestBearingConfig",
                       "Metadata", "Group", "ScaledUiAmount"}
KnownExtensions ==
  HarmlessExtensions \cup {"NonTransferable", "DefaultAccountState",
    "TransferFeeConfig", "TransferHook", "PermanentDelegate", "Pausable"}

\* inspectMint of a mint that was found.
InspectMint(mint) ==
  LET has(extension) == mint.token2022 /\ extension \in mint.extensions IN
  [blocked |-> \/ has("NonTransferable")
               \/ has("DefaultAccountState") /\ mint.frozen,
   hook |-> has("TransferHook") /\ mint.hookProgram,
   fee |-> has("TransferFeeConfig"),
   unknown |-> mint.token2022 /\ ~(mint.extensions \subseteq KnownExtensions)]

Mints == [token2022 : BOOLEAN, frozen : BOOLEAN, hookProgram : BOOLEAN,
          extensions : SUBSET {"NonTransferable", "DefaultAccountState",
                               "TransferHook", "TransferFeeConfig", "new"}]

-----------------------------------------------------------------------------
(* When: the schedule of the purchases, and the spacing of calls.  Both in *)
(* milliseconds divided by the smallest step of the check.                 *)

\* generateScheduleOffsets: the moments the i-th of n purchases may get; a
\* window of slots no shorter than the gap.
Slot(i, n, window, gap) ==
  LET size == window \div n IN
  IF n = 1 THEN 0..(window \div 2)
  ELSE (IF i = 0 THEN 0 ELSE i * size + gap \div 2)
       ..(IF i = n - 1 THEN (i + 1) * size ELSE (i + 1) * size - gap \div 2)

\* RateLimiter.acquire: the slot is reserved at the call, idle time is credit
\* for at most `burst` slots.  The moments `calls` are sent at.
Grants(interval, burst, calls) ==
  LET slot[i \in DOMAIN calls] ==
        Max({calls[i] - (burst - 1) * interval,
             IF i = 1 THEN 0 ELSE slot[i - 1] + interval})
  IN [i \in DOMAIN calls |-> Max({calls[i], slot[i]})]
-----------------------------------------------------------------------------
(* What the terms promise.                                                 *)

\* Whatever the network asks and however small the purchase, a transaction pays
\* for its place no more than the fees set aside for it: "the reserve must cover
\* what we actually pay".
PriorityWithinReserve(path, count, estimate, amount) ==
  Priority(path, count, estimate, amount) <= PriorityReserve(path)

\* The ladder never goes down, never leaves what is between its start and the
\* limit, and climbs at each attempt until it meets the limit or its top; at
\* the usual start the two attempts of the moment itself stop at the third step
\* and leave the top to the last retry.
LadderClimbs(start, max) ==
  LET at == [attempt \in 1..Len(SlippageSchedule) |-> SlippageForAttempt(attempt, start, max)]
      top == Min({max, Max(ToSet(SlippageSchedule) \cup {start})})
  IN /\ \A i, j \in DOMAIN at : i < j => at[i] < at[j] \/ at[j] = top
     /\ \A i \in DOMAIN at : at[i] \in Min({start, max})..top
     /\ start = 300 /\ max >= 1300 => at[3] = 900 /\ at[4] = 1300

\* A purchase offered on a curve that has not moved is accepted at every rate
\* the fee config knows, with any choice of recipients and any tolerance.
OfferIsAccepted(global, curve, lamports, slippageBps, config) ==
  \A ix \in BuyIx(global, curve, lamports, slippageBps, config),
     feeBps \in {config.flat} \cup ToSet(config.tiers) :
    Accepts(global, curve, ix, feeBps)

\* Two purchases of a batch are at least the gap apart, and all are within the
\* window.
PurchasesApart(n, window, gap) ==
  \A i \in 0..(n - 1) : \A t \in Slot(i, n, window, gap) :
    /\ t \in 0..window
    /\ i < n - 1 => \A u \in Slot(i + 1, n, window, gap) : u - t >= gap

\* Of `burst` + 1 calls in a row the last goes out at least one interval after
\* the first, and none before it was made.
CallsSpaced(interval, burst, calls) ==
  LET sent == Grants(interval, burst, calls) IN
  \A i \in DOMAIN calls :
    /\ sent[i] >= calls[i]
    /\ i + burst \in DOMAIN calls => sent[i + burst] - sent[i] >= interval
=============================================================================
