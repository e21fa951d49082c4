------------------------------- MODULE BurnView -------------------------------
(***************************************************************************)
(* The burn section of a round's verification window (burn-view.ts), with  *)
(* the token amounts of the site (token-amount.ts).  "What it must never   *)
(* do is claim more than the numbers show."                                *)
(*                                                                         *)
(* A burn is what the backend sends: burned, owed, supplyStart and         *)
(* supplyEnd in raw units, with Null for null, whether it was blocked and  *)
(* whether the round is final.  A world is what happened to the coin's     *)
(* supply: what the buyer has on record, what it burned without a record   *)
(* (a completed burn lost with the process, BurnLedger), what others       *)
(* burned, and what was minted.                                            *)
(***************************************************************************)
EXTENDS Integers, FiniteSetsExt

Null == -1
-----------------------------------------------------------------------------
(* Amounts.                                                                *)

\* exactTokens: whole tokens, fractions dropped.
ExactTokens(raw, decimals) ==
  IF raw = Null \/ decimals \notin 0..18 THEN Null ELSE raw \div (10 ^ decimals)

\* compactTokens from one token up: the unit, and the digits before it as an
\* integer with one decimal, two from a billion.
Rounded(value, step) == (value + step \div 2) \div step
CompactTokens(value) ==
  CASE value >= 1000000000 -> [unit |-> "B", digits |-> Rounded(value, 10000000), places |-> 2]
    [] value >= 1000000 /\ value < 1000000000 ->
         [unit |-> "M", digits |-> Rounded(value, 100000), places |-> 1]
    [] value >= 1000 /\ value < 1000000 -> [unit |-> "K", digits |-> Rounded(value, 100), places |-> 1]
    [] value < 1000 -> [unit |-> "", digits |-> value, places |-> 0]

Units == [B |-> 1000000000, M |-> 1000000, K |-> 1000]
-----------------------------------------------------------------------------
(* The section.                                                            *)

BurnedOf(burn) == IF burn.burned = Null THEN 0 ELSE burn.burned

\* Progress in hundredths of a percent, Null with nothing to measure against.
Progress(burn) ==
  CASE burn.owed = Null -> Null
    [] burn.owed = 0    -> 0
    [] burn.owed > 0    -> Min({10000, (BurnedOf(burn) * 10000) \div burn.owed})

Complete(burn) == burn.owed > 0 /\ BurnedOf(burn) >= burn.owed

Caption(burn) ==
  CASE burn.blocked    -> "burning stopped"
    [] ~burn.blocked /\ ~burn.final -> "the buying is still running"
    [] ~burn.blocked /\ burn.final  ->
         IF Complete(burn) THEN "everything that was asked for" ELSE "destroyed on chain"

\* supplyDrop.
DropKnown(burn) == burn.supplyStart # Null /\ burn.supplyEnd # Null
SupplyDrop(burn) == burn.supplyStart - burn.supplyEnd

Says(verdict, text) == [verdict |-> verdict, text |-> text]

FinalVerdict(burn) ==
  LET drop == SupplyDrop(burn)  burned == BurnedOf(burn) IN
  CASE ~DropKnown(burn) -> Says(IF Complete(burn) THEN "ok" ELSE "neutral", "on chain")
    [] DropKnown(burn) /\ drop = burned /\ Complete(burn) -> Says("ok", "exactly this much")
    [] DropKnown(burn) /\ drop > burned /\ Complete(burn) -> Says("ok", "others burned too")
    [] DropKnown(burn) /\ drop < burned -> Says("neutral", "minted during the round")
    [] DropKnown(burn) /\ drop >= burned /\ ~Complete(burn) -> Says("neutral", "on chain")

Verdict(burn) ==
  CASE burn.blocked                 -> Says("bad", "stopped")
    [] ~burn.blocked /\ ~burn.final -> Says("ok", "burning as the buying goes")
    [] ~burn.blocked /\ burn.final  -> FinalVerdict(burn)
-----------------------------------------------------------------------------
(* Promises.                                                               *)

\* What the section gets of a world, over a supply of `start`.
BurnOf(world, start, owed) ==
  [burned |-> world.recorded, owed |-> owed, supplyStart |-> start,
   supplyEnd |-> start - world.recorded - world.lost - world.others + world.minted,
   blocked |-> FALSE, final |-> TRUE]

(* Nobody is told of for nothing: others burned the coin, or it was        *)
(* minted, when the section says so, and what it calls exact is.  A burn   *)
(* of the buyer's own that was lost with a process, however, is taken for  *)
(* somebody else's.                                                        *)
NobodyIsBlamed(world, start, owed) ==
  LET says == Verdict(BurnOf(world, start, owed)).text IN
  /\ says = "others burned too" => world.others > 0 \/ world.lost > 0
  /\ says = "minted during the round" => world.minted > 0
  /\ says = "exactly this much" => world.lost + world.others = world.minted
  /\ says = "others burned too" /\ world.others = 0 => world.lost > world.minted

(* "The supply went down by exactly this much" is said of a round nothing  *)
(* else happened in, once the share is burned whole.                       *)
QuietRoundIsExact(world, start, owed) ==
  world.lost = 0 /\ world.others = 0 /\ world.minted = 0 =>
    (Verdict(BurnOf(world, start, owed)).text = "exactly this much"
       <=> owed > 0 /\ world.recorded >= owed)

(* A final round is well only when everything asked for is burned, and the *)
(* fuse is at its end exactly then.                                        *)
WellMeansWhole(burn) ==
  /\ burn.final /\ Verdict(burn).verdict = "ok" => Complete(burn)
  /\ Caption(burn) = "everything that was asked for" => Complete(burn)
  /\ Progress(burn) = 10000 <=> Complete(burn)

(* The fuse only burns on.                                                 *)
FuseBurnsOn(burn, more) ==
  Progress(burn) <= Progress([burn EXCEPT !.burned = BurnedOf(burn) + more])

(* A compact amount is within half of its last digit of the amount, and    *)
(* has at most three digits before the point, but for the amounts just     *)
(* below a unit, which read as a thousand of the smaller one.              *)
CompactIsClose(value) ==
  LET compact == CompactTokens(value) IN
  compact.unit # "" =>
    LET unit == Units[compact.unit]
        step == unit \div (10 ^ compact.places)
        shown == compact.digits * step
    IN /\ 2 * (IF shown > value THEN shown - value ELSE value - shown) <= step
       /\ compact.unit # "B" =>
            (compact.digits >= 10000 <=> value >= unit * 1000 - step \div 2)

(* An exact amount is never more than there is.                            *)
ExactIsNoMore(raw, decimals) ==
  LET whole == ExactTokens(raw, decimals) IN
  whole # Null => whole * 10 ^ decimals <= raw /\ raw < (whole + 1) * 10 ^ decimals
=============================================================================
