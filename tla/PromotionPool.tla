---------------------------- MODULE PromotionPool ----------------------------
(***************************************************************************)
(* What a promotion round promises, without saying how: money is collected *)
(* while the round is open, the collected pot and the commitment to it are *)
(* frozen before the draw, there is one draw, the pot is paid out once and *)
(* as a whole, and a round may be forgotten only when no pot is left in it.*)
(* LotteryProgram implements this specification.                           *)
(***************************************************************************)
EXTENDS Naturals

CONSTANTS
  None          \* no commitment, no draw yet

VARIABLES
  stage,        \* where the round stands
  pot,          \* lamports collected and not paid out
  commitment,   \* what the round published about who put how much where
  draw          \* the value the round was drawn with

poolVars == <<stage, pot, commitment, draw>>

Stages == {"none", "collecting", "committed", "drawn", "paid"}

PoolInit ==
  /\ stage = "none"
  /\ pot = 0
  /\ commitment = None
  /\ draw = None

\* A new round starts empty and uncommitted.
Start ==
  /\ stage = "none"
  /\ stage' = "collecting"
  /\ pot' = 0
  /\ commitment' = None
  /\ draw' = None

\* Only an open round takes money.
Collect ==
  /\ stage = "collecting"
  /\ pot' \in Nat
  /\ pot' > pot
  /\ UNCHANGED <<stage, commitment, draw>>

\* The commitment is published once, and freezes the pot.
Commit ==
  /\ stage = "collecting"
  /\ stage' = "committed"
  /\ commitment' # None
  /\ UNCHANGED <<pot, draw>>

\* One draw per round, after the commitment.
Draw ==
  /\ stage = "committed"
  /\ stage' = "drawn"
  /\ draw' # None
  /\ UNCHANGED <<pot, commitment>>

\* The whole pot leaves in one step.
PayOut ==
  /\ stage = "drawn"
  /\ stage' = "paid"
  /\ pot' = 0
  /\ UNCHANGED <<commitment, draw>>

\* A round with money in it cannot be forgotten.
Forget ==
  /\ stage # "none"
  /\ pot = 0
  /\ stage' = "none"
  /\ UNCHANGED pot
  /\ commitment' = None
  /\ draw' = None

PoolNext == Start \/ Collect \/ Commit \/ Draw \/ PayOut \/ Forget

PoolSpec == PoolInit /\ [][PoolNext]_poolVars
=============================================================================
