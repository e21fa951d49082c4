----------------------------- MODULE MCRoundFeed -----------------------------
(***************************************************************************)
(* One coin, whose buying may take the buyer two lives, and a refund at    *)
(* the end; a page that subscribes twice.  Lists longer than the feed's    *)
(* cut are compared by themselves.  The check on a coin, shown beside its  *)
(* rows, is evaluated over every reading of the holders.                   *)
(***************************************************************************)
EXTENDS RoundFeed

CONSTANTS c1
-----------------------------------------------------------------------------
\* The check on a list's length and head tells a longer one, cut or not.
ASSUME GrowingListsAreTold ==
  \A m, n \in 0..5 : SameList(NewestOf(m), NewestOf(n)) => NewestOf(m) = NewestOf(n)

Card == INSTANCE CoinScreening

\* Shares on both sides of every cut.
Readings ==
  [dev : {Card!None, 4, 20, 21}, bundle : {4, 5, 21}, bundled_launch : {Card!None, 19, 50, 51},
   top10 : {20, 41}, insiders : {Card!None, 15, 16}]
PowerSets == {{}, {"mint_authority"}, {"freeze_authority", "pausable"}}
Checks ==
  [read : BOOLEAN, powers : PowerSets, held : BOOLEAN, rugged : BOOLEAN,
   onCurve : {"yes", "no", "unknown"},
   levels : {Card!LevelsOf(shares) : shares \in Readings}]
NoChecks == {[read |-> read, powers |-> powers, held |-> FALSE, rugged |-> FALSE,
              onCurve |-> onCurve, levels |-> Card!NoLevels] :
               read \in BOOLEAN, powers \in PowerSets, onCurve \in {"yes", "no", "unknown"}}

ASSUME ReasonsHaveLines == Card!EveryReasonHasALine

ASSUME RangesAreTheCuts ==
  \A shares \in Readings, kept \in BOOLEAN :
    Card!RangesHoldTheShare(shares,
      [read |-> TRUE, powers |-> {}, held |-> TRUE, rugged |-> FALSE, onCurve |-> "yes",
       levels |-> Card!LevelsOf(shares)], kept)

ASSUME CardsAreHonest ==
  \A check \in {c \in Checks : c.held} \cup NoChecks :
    /\ \A kept \in BOOLEAN : Card!CardTellsTheFlags(check, kept)
    /\ Card!UnknownReasonIsNoCard(check)

ASSUME SharesOnlyAddFlags ==
  \A shares \in Readings, check \in NoChecks, rule \in Card!HolderRules :
    \A more \in {m \in {5, 16, 21, 41, 51} : m >= shares[rule]} :
      Card!MoreIsNoBetter(shares, rule, more, check)

ASSUME AgesAreTold ==
  \A minutes \in {-5, 0, 1, 59, 60, 119, 1439, 1440, 2879, 2880} : Card!AgeIsTold(minutes)
=============================================================================
