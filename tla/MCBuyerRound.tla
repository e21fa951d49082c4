---------------------------- MODULE MCBuyerRound ----------------------------
(***************************************************************************)
(* Two rounds: r1 buys in one lot for two backers, one of whose accounts   *)
(* was not looked up; r2 is a round whose delivery reserve took all of its *)
(* budget, so that it only starts, ends and is resumed.  The record the    *)
(* buyer keeps of a round is evaluated over every three changes to it.     *)
(***************************************************************************)
EXTENDS BuyerRound

Files == <<"r1", "r2">>
MCRounds == {"r1", "r2"}
OneLot == [r1 |-> 1, r2 |-> 0]
Stakes == [r1 |-> [a |-> 1, b |-> 3], r2 |-> [a |-> 1]]
Snapshot == [r1 |-> [a |-> "none", b |-> "unread"], r2 |-> [a |-> "had"]]
-----------------------------------------------------------------------------
Record == INSTANCE RoundRecord WITH Mints <- {"m1", "m2"}, Signatures <- {"s1"}

ASSUME SummariesAreCurrent == \A r \in Record!Reached[3] : Record!SummaryIsCurrent(r)

ASSUME RecordsForgetNothing ==
  \A r \in Record!Reached[2] : \A changed \in Record!Changes(r) :
    Record!NothingIsForgotten(r, changed)
=============================================================================
