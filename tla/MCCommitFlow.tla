---------------------------- MODULE MCCommitFlow ----------------------------
(***************************************************************************)
(* Two coins, one of them burnable and already in the pool, three edits by *)
(* the person, and two presses of the button: enough for an answer to come *)
(* after the next question, and for one attempt to replace another at any  *)
(* of its steps.  Every kind of wallet is among the initial states.        *)
(***************************************************************************)
EXTENDS CommitFlow

-----------------------------------------------------------------------------
(* The terms of a commit, over amounts of three decimals.                  *)

Terms == INSTANCE CommitTerms

Places == 3
Typed3 == [whole : {<<>>, <<0>>, <<1>>, <<0, 2>>},
           fraction : {<<>>, <<0>>, <<5>>, <<0, 5>>, <<0, 4, 9>>, <<0, 5, 1>>, <<1, 0, 0, 0>>}]
PoolsAt == [cap : {0, 50, 1000, 2000}, total : {0, 1, 499, 500, 501, 949, 950, 951, 1000, 1950},
            coin : {0}]

ASSUME AmountsAreExact == \A lamports \in 0..2100 : Terms!AmountsReadBack(lamports, Places)

ASSUME AmountsAreTaken ==
  \A pool \in PoolsAt :
    /\ Terms!OfferedIsTaken(pool, Places)
    /\ \A text \in Typed3 : Terms!NothingWrongIsTaken(text, pool, Places)

ASSUME ExpectedIsOfTheBudget ==
  \A total \in 1..20, added \in {1, 5} : \A backing \in 0..total :
    Terms!ExpectedIsLessTheFee([cap |-> 100, total |-> total, coin |-> backing], added)

ASSUME PriorityIsBounded ==
  /\ \A estimate \in {Terms!None, 0, 1, 9, 10, 11, 66, 199, 200, 201, 5000} :
       Terms!LevelsAreInOrder(estimate)
  /\ \A samples \in [1..3 -> 0..3] :
       LET paid == {samples[i] : i \in 1..3} \ {0} IN
       Terms!EstimateFromSamples(samples)
         \in (IF paid = {} THEN {Terms!None}
             ELSE {n \in 1..3 : \E low, high \in paid : low <= n /\ n <= high})
  /\ \A saved \in {"turbo", "warp"} : Terms!RestoredPriority(saved) \in Terms!PriorityLevels

ASSUME EstimateIsOfTheOpening ==
  \A when \in {5, 59, 60, 600} :
    Terms!PaysByTheFirstAnswer([anywhere |-> Terms!None, vault |-> 150], 0, when)

ASSUME BurnsAreTold == \A bps \in {Terms!None} \cup 0..10000 : Terms!BurnIsTold(bps)

ASSUME RefusalsAreTold == Terms!ErrorsAreToldAsThemselves
=============================================================================
