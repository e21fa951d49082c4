----------------------------- MODULE CommitTerms -----------------------------
(***************************************************************************)
(* The terms of a commit as the dialog has them: the amount typed, the     *)
(* price of a place in the block, the burn as it is told, and the words    *)
(* for an error.                                                           *)
(*                                                                         *)
(* SOL is counted in its smallest unit; `places` is the number of decimals *)
(* of that unit, nine in the code.  A typed amount is its digits before    *)
(* and after the point, or junk.  Prices are in thousands of microlamports *)
(* per compute unit and compute in thousands of units, so that a fee is in *)
(* lamports.  None stands for null.                                        *)
(***************************************************************************)
EXTENDS Integers, Sequences, FiniteSetsExt, SequencesExt

None == -1
-----------------------------------------------------------------------------
(* The amount.                                                             *)

Scale(places) == 10 ^ places
Number(digits) == FoldLeft(LAMBDA number, digit : 10 * number + digit, 0, digits)
Zeros(n) == [i \in 1..n |-> 0]

NoAmount == [whole |-> <<>>, fraction |-> <<>>]

\* parseSolToLamports.
ParseSolToLamports(text, places) ==
  LET lamports == Number(text.whole) * Scale(places)
                    + Number(text.fraction \o Zeros(places - Len(text.fraction)))
  IN IF text = NoAmount \/ Len(text.fraction) > places \/ lamports = 0 THEN None
     ELSE lamports

\* The `count` last digits of a number.
Digits(number, count) == [i \in 1..count |-> (number \div (10 ^ (count - i))) % 10]

TrimZeros(digits) ==
  SubSeq(digits, 1, Max({0} \cup {i \in DOMAIN digits : digits[i] # 0}))

\* formatLamports; the whole part has as many digits as it needs.
FormatLamports(lamports, places) ==
  LET whole == lamports \div Scale(places)
      size  == Min({n \in 1..9 : whole < 10 ^ n})
  IN [whole |-> Digits(whole, size),
      fraction |-> TrimZeros(Digits(lamports % Scale(places), places))]

Fraction(numerator, places) == (numerator * Scale(places)) \div 100
MinLamports(places) == Fraction(5, places)
DefaultLamports(places) == Fraction(50, places)

\* A pool that takes SOL: buildPoolSnapshot closes it when less than the least
\* commit is left.
TakesSol(pool, places) == ~(pool.total > pool.cap - MinLamports(places))
Remaining(pool) == Max({0, pool.cap - pool.total})

AmountError(text, pool, places) ==
  LET lamports == ParseSolToLamports(text, places) IN
  CASE lamports = None                 -> "an amount like 0.5"
    [] lamports \in 0..(MinLamports(places) - 1) -> "the minimum"
    [] lamports > Remaining(pool)      -> "only so much room"
    [] OTHER                           -> ""

\* What the dialog sets by itself: what fits, when the default does not.
AmountSet(pool, places) ==
  IF Remaining(pool) > 0 /\ Remaining(pool) < DefaultLamports(places)
  THEN FormatLamports(Remaining(pool), places)
  ELSE FormatLamports(DefaultLamports(places), places)

\* deposit_sol's own bounds (lib.rs), as LotteryProgram has them.
ProgramTakes(pool, lamports, places) ==
  lamports >= MinLamports(places) /\ pool.total + lamports <= pool.cap

\* expectedBuyText: the coin's share of the buying budget with the commit in the
\* pool, in ten-thousandths.
BuyBudget(total) == total * (10000 - 300)
ExpectedBuy(pool, added) == ((pool.coin + added) * BuyBudget(pool.total + added))
                              \div (pool.total + added)
-----------------------------------------------------------------------------
(* The place in the block.                                                 *)

PriorityLevels == {"normal", "fast", "turbo"}
DepositComputeUnits == 60
MinPrice == 10
MaxEstimatePrice == 200
MaxPrice == 2000
Multipliers == [normal |-> 1, fast |-> 3, turbo |-> 10]

\* estimateFromSamples: the median of what was paid at all, rounded up at a half.
EstimateFromSamples(samples) ==
  LET fees   == SetToSortSeq({i \in DOMAIN samples : samples[i] > 0},
                             LAMBDA i, j : samples[i] < samples[j]
                                            \/ (samples[i] = samples[j] /\ i < j))
      middle == Len(fees) \div 2
  IN CASE fees = <<>> -> None
       [] Len(fees) % 2 = 1 -> samples[fees[middle + 1]]
       [] OTHER -> (samples[fees[middle]] + samples[fees[middle + 1]] + 1) \div 2

Clamp(value, low, high) == Min({high, Max({low, value})})

PriceFor(level, estimate) ==
  LET base == Clamp(IF estimate > 0 THEN estimate ELSE MinPrice, MinPrice, MaxEstimatePrice)
  IN Clamp(base * Multipliers[level], MinPrice, MaxPrice)

FeeLamports(price) == DepositComputeUnits * price

\* priorityEstimate: what was learnt less than a minute ago, whatever accounts
\* it was asked for; `asked` is what the network answers about those accounts.
NoEstimate == [at |-> None, value |-> None]
PriorityEstimate(cached, now, asked) ==
  IF cached.at # None /\ now - cached.at < 60 THEN cached
  ELSE [at |-> now, value |-> asked]

\* ngOnInit asks before it has a snapshot, so about no account; the commit asks
\* about the pool's.
EstimateAtOpening(network) == network.anywhere
EstimateOfCommit(network, opened, sent) ==
  PriorityEstimate(PriorityEstimate(NoEstimate, opened, EstimateAtOpening(network)),
                   sent, network.vault).value

\* restorePriority: what the browser remembers, if it is a level.
RestoredPriority(saved) == IF saved \in PriorityLevels THEN saved ELSE "normal"
-----------------------------------------------------------------------------
(* The burn.                                                               *)

\* burnChipPercent; bps may be null.
BurnChipPercent(bps) ==
  IF bps <= 0 THEN None ELSE Clamp((bps + 50) \div 100, 1, 100)

\* burnCard: which of its two sentences it has.
BurnCard(bps) ==
  CASE BurnChipPercent(bps) = None -> "none"
    [] BurnChipPercent(bps) = 100  -> "all"
    [] OTHER                       -> "some"
-----------------------------------------------------------------------------
(* transactionError: an error is the phrases its text contains.            *)

PhraseTable == <<
  [words |-> "no longer takes SOL", of |-> {"NotOpen", "not open", "Ended", "ended", "WrongPhase",
                                           "Paused", "paused"}],
  [words |-> "over its cap",        of |-> {"TotalLimitExceeded", "Total limit exceeded"}],
  [words |-> "not opened yet",      of |-> {"NotStarted"}],
  [words |-> "below the minimum",   of |-> {"InvalidAmount", "Invalid amount"}],
  [words |-> "not memecoins",       of |-> {"BlockedBetMint"}],
  [words |-> "a little less",       of |-> {"InsufficientFundsForRent", "insufficient funds for rent"}],
  [words |-> "not enough SOL",      of |-> {"insufficient funds", "insufficient lamports",
                                           "InsufficientFundsForFee", "AccountNotFound",
                                           "Attempt to debit"}],
  [words |-> "network moved on",    of |-> {"blockhash not found"}]>>

TransactionError(says) ==
  LET rows == {i \in DOMAIN PhraseTable : PhraseTable[i].of \cap says # {}}
  IN IF rows # {} THEN PhraseTable[Min(rows)].words
     ELSE IF "Error Message" \in says THEN "rejected: its message"
     ELSE "try again"

\* What deposit_sol says when it refuses, with Anchor's name and message of the
\* error, and what the System program and the runtime say (external).
Anchor(phrases) == phrases \cup {"Error Message"}
DepositErrors ==
  [Paused |-> Anchor({"Paused", "paused"}),
   NotOpen |-> Anchor({"NotOpen", "not open"}),
   NotStarted |-> Anchor({"NotStarted"}),
   Ended |-> Anchor({"Ended", "ended"}),
   InvalidAmount |-> Anchor({"InvalidAmount", "Invalid amount"}),
   TotalLimitExceeded |-> Anchor({"TotalLimitExceeded", "Total limit exceeded"}),
   BlockedBetMint |-> Anchor({"BlockedBetMint"}),
   Overflow |-> Anchor({}),
   Rent |-> {"InsufficientFundsForRent", "insufficient funds for rent"},
   Transfer |-> {"insufficient lamports"},
   Fee |-> {"InsufficientFundsForFee"},
   NoAccount |-> {"AccountNotFound"},
   NoProgram |-> {},
   Blockhash |-> {"blockhash not found"}]

ToldAs ==
  [Paused |-> "no longer takes SOL", NotOpen |-> "no longer takes SOL",
   NotStarted |-> "not opened yet", Ended |-> "no longer takes SOL",
   InvalidAmount |-> "below the minimum", TotalLimitExceeded |-> "over its cap",
   BlockedBetMint |-> "not memecoins", Overflow |-> "rejected: its message",
   Rent |-> "a little less", Transfer |-> "not enough SOL", Fee |-> "not enough SOL",
   NoAccount |-> "not enough SOL", NoProgram |-> "try again",
   Blockhash |-> "network moved on"]
-----------------------------------------------------------------------------
(* Promises.                                                               *)

(* What is written out is read back to the lamport: floating point "lost a *)
(* lamport on some amounts" (lamports.ts).                                 *)
AmountsReadBack(lamports, places) ==
  ParseSolToLamports(FormatLamports(lamports, places), places)
    = IF lamports = 0 THEN None ELSE lamports

(* An amount the dialog finds nothing wrong with is one the program takes, *)
(* and in a pool that takes SOL both the amount the dialog sets and the    *)
(* one of its Max button are such.                                         *)
NothingWrongIsTaken(text, pool, places) ==
  AmountError(text, pool, places) = "" =>
    ProgramTakes(pool, ParseSolToLamports(text, places), places)

OfferedIsTaken(pool, places) ==
  TakesSol(pool, places) =>
    /\ AmountError(AmountSet(pool, places), pool, places) = ""
    /\ AmountError(FormatLamports(Remaining(pool), places), pool, places) = ""

(* The buying the dialog expects for a coin is what stands behind the coin *)
(* then, less the pool fee of 3%, whatever else is in the pool.            *)
ExpectedIsLessTheFee(pool, added) ==
  ExpectedBuy(pool, added) = (pool.coin + added) * 9700

(* A faster level costs no less, and none costs more than 120,000          *)
(* lamports, whatever the network says.                                    *)
LevelsAreInOrder(estimate) ==
  /\ PriceFor("normal", estimate) <= PriceFor("fast", estimate)
  /\ PriceFor("fast", estimate) <= PriceFor("turbo", estimate)
  /\ \A level \in PriorityLevels : FeeLamports(PriceFor(level, estimate)) \in 600..120000

(* The estimate is meant to be asked for "over this pool's accounts"       *)
(* (commit-dialog.component.ts:166), since over all accounts it is almost  *)
(* always nothing.  The dialog asks before it has the accounts, and what   *)
(* it got then is kept: a commit sent within the minute pays by it.        *)
PaysByTheFirstAnswer(network, opened, sent) ==
  EstimateOfCommit(network, opened, sent)
    = IF sent - opened < 60 THEN network.anywhere ELSE network.vault

(* A burn never reads as none.  A coin whose backers burn a little less    *)
(* than everything, however, reads as one that "every backer chose to      *)
(* burn" whole (burn.ts:147): the percentage is rounded up to all.         *)
BurnIsTold(bps) ==
  /\ bps > 0 => BurnCard(bps) # "none" /\ BurnChipPercent(bps) \in 1..100
  /\ BurnCard(bps) = "all" <=> bps >= 9950

(* Every reason a commit is refused for is told as itself.                 *)
ErrorsAreToldAsThemselves ==
  \A error \in DOMAIN DepositErrors : TransactionError(DepositErrors[error]) = ToldAs[error]
=============================================================================
