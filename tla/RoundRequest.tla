---------------------------- MODULE RoundRequest ----------------------------
(***************************************************************************)
(* The way of a burn choice: from the memo of a commit, through the        *)
(* backend's request for the purchases, the buyer's validator and the      *)
(* round's record, to the share the buyer destroys and the share it        *)
(* delivers, and to the chip the site shows for it.                        *)
(*                                                                         *)
(* A commit is counted in lamports; the SOL figure beside it, rounded to   *)
(* eight decimals, in units of ten.  A burn is counted in parts of Whole,  *)
(* the basis points; the figure for display in hundredths of them.  Text   *)
(* that is no number, no key or no list is a field of its own, `garbled`.  *)
(***************************************************************************)
EXTENDS Integers, Sequences, FiniteSets, FiniteSetsExt, SequencesExt

CONSTANTS
  Whole,           \* FULL_BPS
  Tolerance,       \* AMOUNT_TOLERANCE_LAMPORTS
  MaxTokens        \* MAX_TOKENS

ASSUME RequestAssumption ==
  Whole \in Nat \ {0} /\ Tolerance \in Nat \ 0..4 /\ MaxTokens \in Nat \ {0}

\* A field that is not there; no figure is below zero.
Absent == -1
\* Math.round of n / d.
Rounded(n, d) == (2 * n + d) \div (2 * d)
-----------------------------------------------------------------------------
(* The choice, and what the backend asks the buyer for.                    *)

\* The cards of the commit dialog.
BurnChoices == {0, Whole \div 4, Whole \div 2, Whole}

\* burnMemoText: the memo the wallet signs with the deposit, none for no burn.
MemoFor(choice) == IF choice > 0 THEN <<choice>> ELSE <<>>

\* burn_bps_from_logs: exactly one burn memo counts.
BurnOf(memos) == IF Len(memos) = 1 THEN memos[1] ELSE 0

\* recipients_for: one entry per wallet from its commits, those of nothing left
\* out.
Recipients(bets) ==
  LET of(w)     == {i \in DOMAIN bets : bets[i].wallet = w /\ bets[i].lamports > 0}
      all(w)    == MapThenSumSet(LAMBDA i : bets[i].lamports, of(w))
      weight(w) == MapThenSumSet(LAMBDA i : bets[i].lamports * BurnOf(bets[i].memos), of(w))
  IN SetToSeq({[wallet |-> w, amount |-> Rounded(all(w), 10), lamports |-> all(w),
                bps |-> Rounded(100 * weight(w), all(w)), weight |-> weight(w),
                garbled |-> FALSE] : w \in {bets[i].wallet : i \in
                  {j \in DOMAIN bets : bets[j].lamports > 0}}})
-----------------------------------------------------------------------------
(* The buyer's validator.                                                  *)

\* stakeLamportsOf: the exact figure when there is one.
StakeOf(r) == IF r.lamports # Absent THEN r.lamports ELSE 10 * r.amount

Apart(x, y) == IF x > y THEN x - y ELSE y - x

\* validateBurnFields: what is there makes sense together.
BurnFieldsMakeSense(r) ==
  /\ r.lamports # Absent => r.lamports > 0 /\ Apart(r.lamports, 10 * r.amount) <= Tolerance
  /\ r.bps # Absent => r.bps \in 0..100 * Whole
  /\ r.weight # Absent =>
       /\ r.weight \in 0..StakeOf(r) * Whole
       /\ r.bps # Absent /\ StakeOf(r) > 0 => Apart((r.weight * 100) \div StakeOf(r), r.bps) <= 100

RecipientIsValid(r) == ~r.garbled /\ r.amount > 0 /\ BurnFieldsMakeSense(r)

\* validateAndConvert: one error anywhere refuses the whole request.
Accepted(request) ==
  /\ ~request.garbled
  /\ Len(request.tokens) \in 1..MaxTokens
  /\ \A i \in DOMAIN request.tokens :
       LET token == request.tokens[i] IN
       /\ ~token.garbled /\ token.totalSol > 0
       /\ \A j \in 1..i - 1 : request.tokens[j].mint # token.mint
       /\ token.recipients # <<>>
       /\ \A k \in DOMAIN token.recipients : RecipientIsValid(token.recipients[k])
-----------------------------------------------------------------------------
(* The round's record, and the shares read from it.                        *)

\* burnWeightOf: the exact weight, else the commit times its basis points; the
\* whole commit at the most.
BurnWeightOf(stake, weight, bps) ==
  Min({stake * Whole,
       IF weight # Absent THEN weight
       ELSE IF bps # Absent THEN stake * Max({0, Min({Whole, Rounded(bps, 100)})})
       ELSE 0})

\* executeLottery: the recipients of a coin as the round remembers them.
Recorded(r) ==
  [wallet |-> r.wallet, stake |-> StakeOf(r),
   burn |-> BurnWeightOf(StakeOf(r), r.weight, r.bps)]

\* Who is left without a delivery, a token account and a reserve for them.
BurnsEverything(r) == Recorded(r).stake > 0 /\ Recorded(r).burn = Recorded(r).stake * Whole

\* sharesOf: a wallet listed twice is one wallet.
SharesOf(recorded) ==
  LET of(w) == {i \in DOMAIN recorded : recorded[i].wallet = w /\ recorded[i].stake > 0}
  IN [w \in {recorded[i].wallet : i \in {j \in DOMAIN recorded : recorded[j].stake > 0}} |->
        [stake |-> MapThenSumSet(LAMBDA i : recorded[i].stake, of(w)),
         burn |-> MapThenSumSet(LAMBDA i : recorded[i].burn, of(w))]]

\* sharesOf for a round from before the burn: the commits are those of the
\* deliveries, counted once per wallet, and nobody burns.
SharesOfSends(sends) ==
  [w \in {sends[i].wallet : i \in {j \in DOMAIN sends : sends[j].bet > 0}} |->
     [stake |-> sends[Min({i \in DOMAIN sends : sends[i].wallet = w})].bet, burn |-> 0]]

Share(shares) ==
  INSTANCE SendAmounts WITH Wallets <- DOMAIN shares,
                            Bet <- [w \in DOMAIN shares |-> shares[w].stake],
                            Full <- Whole

Burns(shares) == [w \in DOMAIN shares |-> shares[w].burn]
Delivered(bought, shares, w) == Share(shares)!DeliveryOwed(bought, w, Burns(shares))
Destroyed(bought, shares) == Share(shares)!BurnOwed(bought, Burns(shares))

\* averageBurnBps, in hundredths of a basis point.
AverageBurn(shares) ==
  (MapThenSumSet(LAMBDA w : shares[w].burn, DOMAIN shares) * 100)
    \div MapThenSumSet(LAMBDA w : shares[w].stake, DOMAIN shares)

\* burnChipPercent: the whole percent on a coin's row, none without a burn.
ChipPercent(average) ==
  IF average <= 0 THEN Absent
  ELSE Min({100, Max({1, Rounded(average, Whole)})})
-----------------------------------------------------------------------------
(* Promises, checked over small rounds.                                    *)

SharesFrom(bets) ==
  LET asked == Recipients(bets) IN SharesOf([i \in DOMAIN asked |-> Recorded(asked[i])])

Single(recipients) ==
  [garbled |-> FALSE,
   tokens |-> <<[mint |-> "coin", garbled |-> FALSE, totalSol |-> 1, recipients |-> recipients]>>]

(* What the backend asks for is not refused by the buyer: the two forms of *)
(* a commit and the two of its burn agree within the validator's bounds,   *)
(* however the roundings fall.                                             *)
BackendIsHeard(bets) ==
  (\A i \in DOMAIN bets : bets[i].lamports >= 5) /\ bets # <<>>
    => Accepted(Single(Recipients(bets)))

(* A choice is served exactly as it was signed: the shares come from the   *)
(* memos and the lamports alone, and no figure for display enters them.    *)
ServedAsSigned(bets) ==
  LET shares == SharesFrom(bets) IN
  \A w \in DOMAIN shares :
    LET own == {i \in DOMAIN bets : bets[i].wallet = w} IN
    /\ shares[w].stake = MapThenSumSet(LAMBDA i : bets[i].lamports, own)
    /\ shares[w].burn = MapThenSumSet(LAMBDA i : bets[i].lamports * BurnOf(bets[i].memos), own)

(* "Nobody else's choice changes what you get" (burn.ts:13).               *)
ChoiceIsOnesOwn(bought, bets) ==
  \A i \in DOMAIN bets, choice \in BurnChoices :
    LET other == [bets EXCEPT ![i].memos = MemoFor(choice)] IN
    \A w \in DOMAIN SharesFrom(bets) \ {bets[i].wallet} :
      Delivered(bought, SharesFrom(bets), w) = Delivered(bought, SharesFrom(other), w)

(* The fire and the wallets together take what was bought, to less than a  *)
(* unit each, and never more.                                              *)
NothingIsOversold(bought, bets) ==
  LET shares == SharesFrom(bets)
      given  == Destroyed(bought, shares)
                  + MapThenSumSet(LAMBDA w : Delivered(bought, shares, w), DOMAIN shares)
  IN shares # <<>> => given <= bought /\ given > bought - (Cardinality(DOMAIN shares) + 1)

(* Who has everything burned gets no delivery, and nobody else is left out. *)
LeftOutGetsNothing(bets) ==
  LET asked  == Recipients(bets)
      shares == SharesFrom(bets)
      enough == Share(shares)!TotalBet * Whole
  IN \A i \in DOMAIN asked :
       BurnsEverything(asked[i]) <=> Delivered(enough, shares, asked[i].wallet) = 0

(* A burn never reads as none on the chip, nor none as a burn; and only a  *)
(* burn of everything, or next to it, reads as 100.                        *)
ChipTellsTheBurn(bets) ==
  LET shares == SharesFrom(bets)
      weight == MapThenSumSet(LAMBDA w : shares[w].burn, DOMAIN shares)
      stake  == MapThenSumSet(LAMBDA w : shares[w].stake, DOMAIN shares)
      chip   == ChipPercent(AverageBurn(shares))
  IN shares # <<>> =>
       /\ IF weight = 0 THEN chip = Absent ELSE chip \in 1..100
       /\ chip = 100 => weight >= stake * (Whole - Whole \div 200)

(* A round from before the burn, of which only the deliveries are left, has *)
(* the shares it had, to the rounding of the SOL figure, and burns nothing. *)
OldRoundKeepsItsShares(bets) ==
  LET asked == Recipients(bets)
      sends == FlattenSeq([i \in DOMAIN asked |->
                 [n \in 1..2 |-> [wallet |-> asked[i].wallet, bet |-> 10 * asked[i].amount]]])
      old   == SharesOfSends(sends)
      new   == SharesFrom(bets)
  IN \A w \in DOMAIN new :
       (\E i \in DOMAIN asked : asked[i].wallet = w /\ asked[i].amount > 0)
         => old[w].burn = 0 /\ Apart(old[w].stake, new[w].stake) <= 5

(* Whatever form the fields of an accepted recipient take, its burn is a   *)
(* part of its commit, and within a basis point of the figure beside it.   *)
BurnIsAPart(r) ==
  RecipientIsValid(r) =>
    /\ Recorded(r).burn \in 0..Recorded(r).stake * Whole
    /\ r.bps # Absent =>
         Apart(100 * Recorded(r).burn, r.bps * Recorded(r).stake) <= 101 * Recorded(r).stake
=============================================================================
