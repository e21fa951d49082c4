---------------------------- MODULE PurchasePlan ----------------------------
(***************************************************************************)
(* The arithmetic of buying one coin: into how many purchases a budget is  *)
(* cut and what each spends, what a purchase may spend of a short balance, *)
(* which venue an attempt falls back to, what an attempt may throw before  *)
(* anything is sent, and what the scheduler's classification makes of it.  *)
(*                                                                         *)
(* Amounts are in thousands of lamports (1 SOL is 1000000), slippage in    *)
(* basis points.  Divisions round down, where the code's floating point    *)
(* may fall one short on an exact multiple of a tenth of a SOL.            *)
(*                                                                         *)
(* An error is what the classifier looks for in it: the patterns its       *)
(* message contains, the program's Custom code in it (0 for none) and the  *)
(* label of the venue it came from.                                        *)
(***************************************************************************)
EXTENDS Integers, FiniteSets, Sequences, FiniteSetsExt

AtaFee == 2040           \* ATA_FEE_SOL
BuyTxFee == 105          \* BUY_TX_FEE_SOL
MinPurchase == 1000      \* MIN_PURCHASE_SOL
MinResume == 10000       \* MIN_RESUME_SOL

CalculateN(total) ==
  CASE total <= 0        -> 0
    [] total \in 1..100000 -> 1
    [] total \in 100001..1000000 -> Max({2, total \div 100000})
    [] total \in 1000001..5000000 -> (15000000 + total * 5) \div 2000000
    [] total \in 5000001..50000000 -> (100000000 + total * 16) \div 9000000
    [] OTHER             -> 100

\* calculateFees: what is left of a budget for the purchases themselves.
NetAmount(total, n, hasAta) ==
  Max({0, total - (IF hasAta THEN 0 ELSE AtaFee) - 2 * n * BuyTxFee})

\* splitAmount: `weight` holds the random multipliers; the last purchase takes
\* what rounding leaves.
SplitAmount(net, weight) ==
  LET n     == Len(weight)
      total == MapThenSumSet(LAMBDA i : weight[i], 1..n)
      Part(i) == (net * weight[i]) \div total
  IN IF net <= 0 THEN <<>>
     ELSE [i \in 1..n |-> IF i < n THEN Part(i)
                          ELSE net - MapThenSumSet(Part, 1..(n - 1))]

\* resolveSpendableAmount, with the balance read: 0 for "nothing left to spend".
KeeperFloor(needsAta) == (IF needsAta THEN AtaFee ELSE 0) + 2 * BuyTxFee

Spendable(balance, scheduled, needsAta) ==
  LET left == balance - KeeperFloor(needsAta) IN
  IF left >= scheduled THEN scheduled
  ELSE IF left < MinPurchase THEN 0 ELSE left

Ladder == <<300, 500, 900, 1300>>
MaxRetries == Len(Ladder) - 1
CanRetry(tries) == tries <= MaxRetries

\* The ends of a wait without an answer: a blockhash that ran out, or any other.
WaitErrors == {"expired", "lost"}

NonRetryable(kind) == kind \in {"insufficient", "nonRetryable"}

(***************************************************************************)
(* The venue an attempt goes on to after `kind` came up before anything    *)
(* was sent: the pump.fun curve gives way to Jupiter for anything but      *)
(* slippage, Jupiter to the PumpSwap pool when it has no route.            *)
(***************************************************************************)
FallbackVenue(venue, kind) ==
  CASE venue = "pumpfun" /\ kind # "slippage" -> "dex"
    [] venue = "dex" /\ kind = "noRoute"      -> "pumpswap"
    [] OTHER                                  -> "none"
-----------------------------------------------------------------------------
(* Errors, venue by venue.                                                 *)

Venues == {"pumpfun", "dex", "pumpswap"}

InsufficientPatterns == {"insufficient funds", "insufficient lamports"}
NonRetryablePatterns ==
  InsufficientPatterns \cup
  {"mint not found", "no global", "short global", "no route", "quote 400",
   "swap 400", "cannot be distributed"}
SlippagePatterns == {"slippage", "TooMuchSolRequired"}
RetryablePatterns ==
  {"network", "429", "503", "timeout", "block height exceeded", "slippage"}

SlippageCodes == [pumpfun |-> {6002, 6003, 6042}, dex |-> {6001},
                  pumpswap |-> {6004, 6040}]

Error(venue, says, code) == [venue |-> venue, says |-> says, code |-> code]

IsSlippage(e) ==
  \/ e.says \cap SlippagePatterns # {}
  \/ e.venue \in Venues /\ e.code \in SlippageCodes[e.venue]

ClassifyError(e) ==
  CASE e.says \cap NonRetryablePatterns # {} -> "non-retryable"
    [] /\ e.says \cap NonRetryablePatterns = {}
       /\ e.says \cap RetryablePatterns # {} \/ IsSlippage(e) -> "retryable"
    [] OTHER -> "unknown"

\* What the main loop makes of an error, in the order it asks.
Kind(e) ==
  CASE e.says \cap InsufficientPatterns # {} -> "insufficient"
    [] IsSlippage(e)                         -> "slippage"
    [] ClassifyError(e) = "non-retryable"    -> "nonRetryable"
    [] OTHER                                 -> "other"

-----------------------------------------------------------------------------
(* Simulation and chain.  1 is the System program's "not enough lamports", *)
(* 1002 a code none of the tables know.                                    *)

ProgramCodes == {1, 1002, 6001, 6002, 6003, 6004, 6040, 6042, 6063}

\* PUMP_ERROR_NAMES: only two names hold a pattern, and only a simulation on
\* pump.fun spells the name out.
PumpErrorName(code) ==
  CASE code = 6042 -> {"slippage"}             \* BuySlippageBelowMinTokensOut
    [] code = 6002 -> {"TooMuchSolRequired"}
    [] OTHER       -> {}

SimulationErrors(venue) ==
  {Error(venue, IF venue = "pumpfun" THEN PumpErrorName(code) ELSE {}, code)
     : code \in ProgramCodes}

OnChainErrors(venue) == {Error(venue, {}, code) : code \in ProgramCodes}

\* A call to the node that fails, or is refused by its rate limit.
NodeErrors(venue) == {Error(venue, {says}, 0) : says \in {"network", "429"}}

-----------------------------------------------------------------------------
(* pump.fun: what is read of the chain, and the first check that fails.    *)

PumpReads ==
  [mint : {"missing", "token", "token2022"}, curve : {"missing", "short", "full"},
   quote : {"SOL", "other"}, complete : BOOLEAN, mayhem : BOOLEAN,
   global : {"missing", "short", "full"}]

\* A curve account without the field is of the time before Custom Pairs.
ReadQuoteMint(read) == IF read.curve = "short" THEN "SOL" ELSE read.quote

\* fetchBondingCurveInfo.  Neither message is one of the patterns' capital A.
CurveRefusals(read) ==
  CASE read.mint = "missing"  -> {Error("pumpfun", {"mint not found"}, 0)}
    [] read.mint # "missing" /\ read.curve = "missing" -> {Error("pumpfun", {}, 0)}
    [] OTHER -> {}

GlobalRefusals(read) ==
  CASE read.global = "missing" -> {Error("pumpfun", {"no global"}, 0)}
    [] read.global = "short"   -> {Error("pumpfun", {"short global"}, 0)}
    [] OTHER -> {}

\* The fee ceiling is no reason to refuse: it has a fallback.
PumpfunRefusals(read) ==
  IF CurveRefusals(read) # {} THEN CurveRefusals(read)
  ELSE IF ReadQuoteMint(read) # "SOL" \/ read.complete
       THEN {Error("pumpfun", {}, 0)}
       ELSE GlobalRefusals(read)

PumpfunRaises ==
  UNION {PumpfunRefusals(read) : read \in PumpReads}
    \cup NodeErrors("pumpfun") \cup SimulationErrors("pumpfun")

-----------------------------------------------------------------------------
(* Jupiter: what its two calls answer, the text of a refusal being its own.*)

JupiterAnswers ==
  [status : {200, 400, 404, 429, 503},
   body : SUBSET {"no route code", "insufficient funds", "slippage"},
   routes : BOOLEAN, transaction : BOOLEAN]

NoRouteBody(answer) == "no route code" \in answer.body

StatusPatterns(call, status) ==
  CASE status = 400 -> {IF call = "quote" THEN "quote 400" ELSE "swap 400"}
    [] status = 429 -> {"429"}
    [] status = 503 -> {"503"}
    [] OTHER        -> {}

Refused(call, answer) ==
  Error("dex", StatusPatterns(call, answer.status)
                 \cup (answer.body \ {"no route code"}), 0)

\* getQuote: a route that does not exist has a class of its own.
NoRoute(answer) ==
  IF answer.status # 200 THEN NoRouteBody(answer) ELSE ~answer.routes

QuoteRaises(answer) ==
  IF answer.status # 200 /\ ~NoRouteBody(answer)
  THEN {Refused("quote", answer)} ELSE {}

SwapRaises(answer) ==
  CASE answer.status # 200 -> {Refused("swap", answer)}
    [] answer.status = 200 /\ ~answer.transaction -> {Error("dex", {}, 0)}
    [] OTHER -> {}

\* fetchWithTimeout makes an abort a "Request timeout".
DexRaises ==
  {Error("dex", {"timeout"}, 0)}
    \cup UNION {QuoteRaises(answer) \cup SwapRaises(answer) : answer \in JupiterAnswers}
    \cup NodeErrors("dex") \cup SimulationErrors("dex")

\* The pool's SDK throws what it likes about a pool it cannot read.
PumpswapRaises ==
  {Error("pumpswap", {}, 0)} \cup NodeErrors("pumpswap") \cup SimulationErrors("pumpswap")

-----------------------------------------------------------------------------
(* By what the scheduler makes of them.  "noRoute" never reaches it.       *)

Kinds(errors) == {Kind(e) : e \in errors}

PreSendErrors(venue) ==
  CASE venue = "pumpfun" -> Kinds(PumpfunRaises)
    [] venue = "dex"     -> Kinds(DexRaises)
         \cup (IF \E answer \in JupiterAnswers : NoRoute(answer) THEN {"noRoute"} ELSE {})
    [] OTHER             -> Kinds(PumpswapRaises)

ChainErrors == Kinds(UNION {OnChainErrors(venue) : venue \in Venues})

\* Whatever a simulation says of a purchase the keeper cannot pay for, its
\* message holds the program's code and none of the words isInsufficientFunds
\* looks for.
LackOfMoneyIsSilent ==
  \A venue \in Venues : \A e \in SimulationErrors(venue) \cup OnChainErrors(venue) :
    e.code = 1 => Kind(e) = "other"

\* A purchase the price moved away from is slippage however it is told, so that
\* the ladder starts: by pump.fun's simulation, by name, and by the chain, by
\* code alone; and no venue's code is read as another's.
SlippageIsRecognised ==
  \A venue \in Venues : \A e \in SimulationErrors(venue) \cup OnChainErrors(venue) :
    IsSlippage(e) <=> e.code \in SlippageCodes[venue]
=============================================================================
