----------------------------- MODULE SendAmounts -----------------------------
(***************************************************************************)
(* The arithmetic of deliveries: how many parcels a commit is cut into and *)
(* in which rounds they go, what a wallet is owed of the coin's tokens,    *)
(* and how a round's tokens are shared out by deficit.                     *)
(*                                                                         *)
(* A commit is counted in tenths of a SOL, the grain of the thresholds.    *)
(***************************************************************************)
EXTENDS Integers, Sequences, FiniteSets, FiniteSetsExt, Functions

CONSTANTS
  Wallets,         \* the backers of one coin
  Bet,             \* what each committed
  Full             \* the whole of a commit, as a burn weight per unit of it

ASSUME SendAssumption ==
  /\ IsFiniteSet(Wallets)
  /\ Bet \in [Wallets -> Nat \ {0}]
  /\ Full \in Nat \ {0}

TotalBet == SumFunctionOnSet(Bet, Wallets)

\* calculateSendN, for a positive commit: floor(3 + (sol - 5) * 7 / 15) between
\* one and ten parcels.
SendN(bet) ==
  IF bet < 10 THEN 1
  ELSE IF bet >= 200 THEN 10
  ELSE Max({1, (100 + 7 * bet) \div 150})

\* assignRounds: an even step, anchored to the last round.
AssignRounds(n, rounds) ==
  IF n >= rounds THEN [i \in 1..rounds |-> i]
  ELSE [i \in 1..n |-> (i * rounds + n - 1) \div n]

\* burnOwed and deliveryOwed, of `bought` tokens under the burn weights `burn`.
BurnOwed(bought, burn) ==
  (bought * SumFunctionOnSet(burn, Wallets)) \div (TotalBet * Full)

DeliveryOwed(bought, w, burn) ==
  (bought * (Bet[w] * Full - burn[w])) \div (TotalBet * Full)

\* What each of the active sends carries: a wallet's deficit against `target`,
\* scaled down when the balance does not cover all of them, split evenly among
\* its sends.  The last wallet, and each wallet's last send, take what is left
\* of the rounding.  Zero stands for a send the map leaves out.
DeficitAmounts(sends, active, balance, sent, target) ==
  LET wallets  == {sends[i].wallet : i \in active}
      Of(w)    == {i \in active : sends[i].wallet = w}
      last     == CHOOSE w \in wallets : \A v \in wallets : Min(Of(v)) <= Min(Of(w))
      short    == [w \in wallets |-> Max({0, target[w] - sent[w]})]
      total    == SumFunction(short)
      part     == [w \in wallets |-> IF total <= balance THEN short[w]
                                     ELSE (balance * short[w]) \div total]
      Share(w) == IF w = last
                  THEN Min({total, balance}) - SumFunctionOnSet(part, wallets \ {w})
                  ELSE part[w]
      Each(w)  == Share(w) \div Cardinality(Of(w))
  IN [i \in active |->
        LET w == sends[i].wallet IN
        IF i = Max(Of(w)) THEN Share(w) - (Cardinality(Of(w)) - 1) * Each(w)
        ELSE Each(w)]
=============================================================================
