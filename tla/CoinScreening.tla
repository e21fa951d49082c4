---------------------------- MODULE CoinScreening ----------------------------
(***************************************************************************)
(* The red-flag check on a coin: the levels read of its holders, what is   *)
(* decided of them (backend, shared/coin_screening.py), and the card the   *)
(* site makes of the answer (coin-screening.ts).                           *)
(*                                                                         *)
(* Shares are whole percents of the supply, None when a source has none.   *)
(* A range of the card is the pair of its bounds, taken in.                *)
(***************************************************************************)
EXTENDS Integers, Sequences, SequencesExt, FiniteSets

None == -1

HolderRules == {"dev", "bundle", "bundled_launch", "top10", "insiders"}
Cuts == [dev |-> <<5, 20>>, bundle |-> <<5, 20>>, bundled_launch |-> <<20, 50>>,
         top10 |-> <<20, 40>>, insiders |-> <<5, 15>>]
Levels == {"low", "medium", "high", "unknown"}

\* What the mint lets its issuer do.
Powers == {"freeze_authority", "mint_authority", "permanent_delegate", "non_transferable",
           "frozen_by_default", "pausable"}
Reasons == {"creator_over_20", "bundles_over_20", "bundled_launch", "insiders_over_15",
            "top10_over_40_on_curve", "liquidity_pulled"} \cup Powers
-----------------------------------------------------------------------------
(* The backend.                                                            *)

Level(rule, share) ==
  CASE share = None -> "unknown"
    [] share >= 0 /\ share < Cuts[rule][1] -> "low"
    [] share >= Cuts[rule][1] /\ share <= Cuts[rule][2] -> "medium"
    [] share > Cuts[rule][2] -> "high"

LevelsOf(shares) == [rule \in HolderRules |-> Level(rule, shares[rule])]

\* The holder half of decide; onCurve is "yes", "no" or "unknown".
HolderFlags(levels, rugged, onCurve) ==
  {reason \in Reasons :
     \/ reason = "creator_over_20" /\ levels["dev"] = "high"
     \/ reason = "bundles_over_20" /\ levels["bundle"] = "high"
     \/ /\ reason = "bundled_launch"
        /\ levels["bundled_launch"] = "high" /\ levels["bundle"] = "medium"
     \/ reason = "insiders_over_15" /\ levels["insiders"] = "high"
     \/ reason = "top10_over_40_on_curve" /\ onCurve = "yes" /\ levels["top10"] = "high"
     \/ reason = "liquidity_pulled" /\ onCurve = "no" /\ rugged}

\* A check: what the chain said of the mint, unless it could not be read, and
\* what a provider said of the holders, unless none did.
Flags(check) ==
  (IF check.held THEN HolderFlags(check.levels, check.rugged, check.onCurve) ELSE {})
    \cup (IF check.read THEN check.powers ELSE {})

\* decide.
Decide(check) ==
  CASE Flags(check) # {} -> "flagged"
    [] Flags(check) = {} /\ check.read /\ check.held /\ check.levels["dev"] # "unknown" -> "clean"
    [] OTHER -> "unavailable"

NoLevels == [rule \in {} |-> "unknown"]

\* What the API says of it; a check from before the levels were kept has none.
Answer(check, kept) ==
  [status |-> Decide(check), reasons |-> Flags(check),
   levels |-> IF check.held /\ kept THEN check.levels ELSE NoLevels]
-----------------------------------------------------------------------------
(* The site.                                                               *)

Whole == <<0, 100>>
HolderRows ==
  [dev |-> [reason |-> "creator_over_20", low |-> <<0, 4>>, medium |-> <<5, 20>>, high |-> <<21, 100>>],
   bundle |-> [reason |-> "bundles_over_20", low |-> <<0, 4>>, medium |-> <<5, 20>>, high |-> <<21, 100>>],
   bundled_launch |-> [reason |-> "bundled_launch", low |-> <<0, 19>>, medium |-> <<20, 50>>,
                       high |-> <<51, 100>>],
   top10 |-> [reason |-> "top10_over_40_on_curve", low |-> <<0, 19>>, medium |-> <<20, 40>>,
              high |-> <<41, 100>>],
   insiders |-> [reason |-> "insiders_over_15", low |-> <<0, 4>>, medium |-> <<5, 15>>,
                 high |-> <<16, 100>>]]
HolderReasons == {HolderRows[rule].reason : rule \in HolderRules}

\* REASON_ROW: the codes the site has a line for.
ReasonRow == HolderReasons \cup {"liquidity_pulled"} \cup Powers

\* levelsOf: a level the site does not know is left out.
LevelsKept(levels) ==
  [rule \in {r \in DOMAIN levels \cap HolderRules : levels[r] \in Levels} |-> levels[rule]]

\* toCoinScreening: whether there is anything to show.
Shows(answer) ==
  \/ answer.status = "clean"
  \/ answer.status = "flagged" /\ answer.reasons \cap ReasonRow # {}

HolderRow(rule, answer) ==
  LET levels  == LevelsKept(answer.levels)
      flagged == HolderRows[rule].reason \in answer.reasons
  IN CASE rule \notin DOMAIN levels ->
            IF flagged THEN {[row |-> rule, value |-> HolderRows[rule].high, flagged |-> TRUE]} ELSE {}
       [] rule \in DOMAIN levels /\ levels[rule] = "unknown" ->
            {[row |-> rule, value |-> Whole, flagged |-> flagged]}
       [] rule \in DOMAIN levels /\ levels[rule] # "unknown" ->
            {[row |-> rule, value |-> HolderRows[rule][levels[rule]], flagged |-> flagged]}

\* screeningRows, without their order.
ScreeningRows(answer) ==
  (UNION {HolderRow(rule, answer) : rule \in HolderRules})
    \cup {[row |-> code, value |-> Whole, flagged |-> TRUE] :
            code \in (answer.reasons \cap ReasonRow) \ HolderReasons}
    \cup (IF answer.status = "clean"
          THEN {[row |-> "mint and freeze revoked", value |-> Whole, flagged |-> FALSE]} ELSE {})

\* checkedAgo, of minutes.
CheckedAgo(minutes) ==
  LET past == IF minutes < 0 THEN 0 ELSE minutes IN
  CASE past < 1 -> <<"just now", 0>>
    [] past >= 1 /\ past < 60 -> <<"min", past>>
    [] past >= 60 /\ past < 24 * 60 -> <<"h", past \div 60>>
    [] past >= 24 * 60 -> <<"days", past \div (24 * 60)>>
-----------------------------------------------------------------------------
(* Promises.                                                               *)

(* Every code the backend can send has its line on the site.               *)
EveryReasonHasALine == Reasons \subseteq ReasonRow

Red(answer) == {r \in ScreeningRows(answer) : r.flagged}

(* The range on the card holds the share it was read from: the site's      *)
(* ranges are the backend's cuts.                                          *)
RangesHoldTheShare(shares, check, kept) ==
  check.held /\ check.levels = LevelsOf(shares) =>
    \A rule \in HolderRules : \A r \in HolderRow(rule, Answer(check, kept)) :
      shares[rule] # None => shares[rule] \in r.value[1]..r.value[2]

(* A coin that is flagged shows a red line for each of its flags, whether  *)
(* its levels were kept or not; a clean one shows none, and that its mint  *)
(* gives no power only when the mint was read; of the rest there is no     *)
(* mark at all.                                                            *)
CardTellsTheFlags(check, kept) ==
  LET answer == Answer(check, kept) IN
  /\ Shows(answer) <=> answer.status # "unavailable"
  /\ Shows(answer) => Cardinality(Red(answer)) = Cardinality(Flags(check))
  /\ answer.status = "clean" => Red(answer) = {} /\ check.read /\ check.powers = {}

(* A flag a newer backend may send and this page does not know never makes *)
(* an empty red card.                                                      *)
UnknownReasonIsNoCard(check) ==
  LET answer == [Answer(check, TRUE) EXCEPT !.reasons = @ \cup {"a newer reason"},
                                            !.status = "flagged"] IN
  Shows(answer) <=> Red(answer) # {}

(* More of a share never clears a coin: what is flagged at a share is      *)
(* flagged at a larger one of the creator, the bundlers or the insiders.   *)
MoreIsNoBetter(shares, rule, more, check) ==
  LET with(s) == [check EXCEPT !.held = TRUE, !.levels = LevelsOf(s)] IN
  shares[rule] # None /\ Decide(with(shares)) = "flagged" =>
    Decide(with([shares EXCEPT ![rule] = more])) = "flagged"

(* The card never says a check is newer than it is by more than its unit.  *)
AgeIsTold(minutes) ==
  LET ago == CheckedAgo(minutes)
      unit == CASE ago[1] = "min" -> 1 [] ago[1] = "h" -> 60 [] ago[1] = "days" -> 24 * 60 [] OTHER -> 1
  IN minutes >= 0 => ago[2] * unit <= minutes /\ minutes < (ago[2] + 1) * unit
=============================================================================
