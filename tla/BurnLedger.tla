----------------------------- MODULE BurnLedger -----------------------------
(***************************************************************************)
(* Burning one coin's share: burnDueFor and settlePending of the buyer,    *)
(* the round's state file they keep their ledger in, and the chain the     *)
(* burns land on.  The process may die at any point; what it remembers is  *)
(* then only the state file.                                               *)
(*                                                                         *)
(* A burn is named by its place in the state file, and stands for its one  *)
(* signature.  Every save of the state file is a step of its own, but for  *)
(* the two of a refused burn, which say nothing about tokens.              *)
(***************************************************************************)
EXTENDS Integers, Sequences

CONSTANTS
  Lot,             \* raw tokens one purchase brings
  BurnWeight,      \* numerator of the coin's burn share
  TotalWeight,     \* its denominator
  None,            \* an unreadable balance
  Balances,        \* what a balance read may return
  MaxPurchases,    \* bound: purchases of the coin
  MaxBurns         \* bound: burns signed

ASSUME BurnAssumption ==
  /\ Lot \in Nat \ {0}
  /\ TotalWeight \in Nat \ {0}
  /\ BurnWeight \in 0..TotalWeight
  /\ None \notin Nat
  /\ Balances \subseteq Nat \cup {None}
  /\ MaxPurchases \in Nat
  /\ MaxBurns \in Nat

VARIABLES
  purchases,       \* purchases confirmed on chain
  read,            \* those of them recorded in purchaseTokens
  burns,           \* the state file's burn records, in the order they were added
  burnedRaw,       \* the state file's total of confirmed burns
  blocked,         \* burnBlocked
  fate,            \* what became of each burn's transaction
  pc,              \* where the process is in burnDueFor
  cur,             \* the burn it works on
  final,           \* whether this is the settlement's call
  landedRaw,       \* history: tokens destroyed on chain
  lostRaw          \* history: burns saved as completed by a process that died
                   \* before it added them to burnedRaw

fileVars == <<read, burns, burnedRaw, blocked>>
procVars == <<pc, cur, final>>
vars == <<purchases, read, burns, burnedRaw, blocked, fate, pc, cur, final,
          landedRaw, lostRaw>>

\* Codes the token program refuses a burn with: burning not allowed or only
\* with a permission; the account frozen or the mint paused; and others, such as
\* too few tokens.
Structural == {"0x41", "0xc"}
Liftable == {"0x11", "0x43"}
OtherCodes == {"0x1"}

\* burnOwed: the share of what is known to be bought, rounded down.
BurnOwed(n) == (n * Lot * BurnWeight) \div TotalWeight

Due == BurnOwed(read) - burnedRaw

\* The burn is limited to a readable balance.
Capped(due, balance) ==
  IF balance # None /\ balance < due THEN balance ELSE due

Open == {i \in DOMAIN burns : burns[i].status = "in_progress"}

\* mutant: a signature the node does not have counts as gone at once
VerdictsNoMargin(f) ==
  CASE f = "landed" -> {"landed", "unknown"}
    [] f = "failed" -> {"failed", "unknown"}
    [] OTHER -> {"absent", "unknown"}

\* signatureOutcome: never wrong, because a missing signature counts as absent
\* only past its last block; it may always fail to tell.
Verdicts(f) ==
  CASE f = "landed"  -> {"landed", "unknown"}
    [] f = "failed"  -> {"failed", "unknown"}
    [] f = "gone" -> {"absent", "unknown"}
    [] OTHER         -> {"unknown"}

Init ==
  /\ purchases = 0
  /\ read = 0
  /\ burns = <<>>
  /\ burnedRaw = 0
  /\ blocked = FALSE
  /\ fate = <<>>
  /\ pc = "idle"
  /\ cur = 0
  /\ final = FALSE
  /\ landedRaw = 0
  /\ lostRaw = 0
-----------------------------------------------------------------------------
(* The rest of the buyer, and the chain.                                   *)

Buy ==
  /\ purchases < MaxPurchases
  /\ purchases' = purchases + 1
  /\ UNCHANGED <<fileVars, fate, procVars, landedRaw, lostRaw>>

\* refreshPurchaseTokens, before a visit: a node may lag, so any part of the
\* unread purchases is read.
RefreshPurchaseTokens ==
  /\ pc = "idle"
  /\ \E n \in read + 1..purchases : read' = n
  /\ UNCHANGED <<purchases, burns, burnedRaw, blocked, fate, procVars, landedRaw, lostRaw>>

\* A transaction in the network lands, fails in execution, or runs out of
\* blocks; one that is signed and not sent can only run out of them.
Land(i) ==
  /\ fate[i] = "flying"
  /\ fate' = [fate EXCEPT ![i] = "landed"]
  /\ landedRaw' = landedRaw + burns[i].amount
  /\ UNCHANGED <<purchases, fileVars, procVars, lostRaw>>

FailOnChain(i) ==
  /\ fate[i] = "flying"
  /\ fate' = [fate EXCEPT ![i] = "failed"]
  /\ UNCHANGED <<purchases, fileVars, procVars, landedRaw, lostRaw>>

Expire(i) ==
  /\ fate[i] \in {"signed", "flying"}
  /\ ~(i = cur /\ pc = "sending")     \* still about to be handed to a node
  /\ fate' = [fate EXCEPT ![i] = "gone"]
  /\ UNCHANGED <<purchases, fileVars, procVars, landedRaw, lostRaw>>
-----------------------------------------------------------------------------
(* burnDueFor.                                                             *)

\* A delivery round or the settlement comes to the coin.
Visit(isFinal) ==
  /\ pc = "idle"
  /\ ~blocked
  /\ pc' = "settling"
  /\ final' = isFinal
  /\ UNCHANGED <<purchases, fileVars, fate, cur, landedRaw, lostRaw>>

\* settlePending asks about the oldest open burn.
SettleOne(i, verdict) ==
  /\ pc = "settling"
  /\ i \in Open
  /\ \A j \in Open : i <= j
  /\ verdict \in Verdicts(fate[i])
  /\ \/ /\ verdict = "landed"
        /\ burns' = [burns EXCEPT ![i].status = "completed"]
        /\ pc' = "counting_settled"
        /\ cur' = i
     \/ /\ verdict \in {"absent", "failed"}
        /\ burns' = [burns EXCEPT ![i].status = "failed"]
        /\ UNCHANGED <<pc, cur>>
     \/ /\ verdict = "unknown"
        /\ pc' = "idle"
        /\ UNCHANGED <<burns, cur>>
  /\ UNCHANGED <<purchases, read, burnedRaw, blocked, fate, final, landedRaw, lostRaw>>

\* mutant: a burn found to have landed is completed and not counted
AddBurnedOnlyWhenSent ==
  /\ pc \in {"counting_settled", "counting_sent"}
  /\ burnedRaw' = IF pc = "counting_sent" THEN burnedRaw + burns[cur].amount ELSE burnedRaw
  /\ pc' = IF pc = "counting_settled" THEN "settling" ELSE "idle"
  /\ UNCHANGED <<purchases, read, burns, blocked, fate, cur, final, landedRaw, lostRaw>>

\* addBurned, the save after the one that completed the record.
AddBurned ==
  /\ pc \in {"counting_settled", "counting_sent"}
  /\ burnedRaw' = burnedRaw + burns[cur].amount
  /\ pc' = IF pc = "counting_settled" THEN "settling" ELSE "idle"
  /\ UNCHANGED <<purchases, read, burns, blocked, fate, cur, final, landedRaw, lostRaw>>

\* Nothing due, or the mint, or the signing, fails: the visit ends.
GiveUpVisit ==
  /\ pc = "settling"
  /\ Open = {}
  /\ pc' = "idle"
  /\ UNCHANGED <<purchases, fileVars, fate, cur, final, landedRaw, lostRaw>>

\* What this visit burns before the balance is looked at.
VisitDue == Due

\* The burn is signed and its record, signature included, saved before it goes.
SignBurn(balance) ==
  LET due == Capped(VisitDue, balance) IN
  /\ pc = "settling"
  /\ Open = {}
  /\ Len(burns) < MaxBurns
  /\ due > 0
  /\ burns' = Append(burns, [amount |-> due, status |-> "in_progress"])
  /\ fate' = Append(fate, "signed")
  /\ cur' = Len(burns) + 1
  /\ pc' = "sending"
  /\ UNCHANGED <<purchases, read, burnedRaw, blocked, final, landedRaw, lostRaw>>

\* sendRawTransaction: the node takes it, and says so or its answer is lost; or
\* it never gets it; or it refuses it in preflight and passes it to nobody.
SendRaw ==
  /\ pc = "sending"
  /\ \/ fate' = [fate EXCEPT ![cur] = "flying"] /\ pc' \in {"confirming", "idle"}
     \/ UNCHANGED fate /\ pc' = "idle"
     \/ fate' = [fate EXCEPT ![cur] = "gone"] /\ pc' = "refused"
  /\ UNCHANGED <<purchases, fileVars, cur, final, landedRaw, lostRaw>>

\* confirmTransaction says it landed.
Confirmed ==
  /\ pc = "confirming"
  /\ fate[cur] = "landed"
  /\ burns' = [burns EXCEPT ![cur].status = "completed"]
  /\ pc' = "counting_sent"
  /\ UNCHANGED <<purchases, read, burnedRaw, blocked, fate, cur, final, landedRaw, lostRaw>>

\* mutant: a burn that was not confirmed is taken for one that did not happen
NotConfirmedFails ==
  /\ pc = "confirming"
  /\ burns' = [burns EXCEPT ![cur].status = "failed"]
  /\ pc' = "idle"
  /\ UNCHANGED <<purchases, read, burnedRaw, blocked, fate, cur, final, landedRaw, lostRaw>>

\* It gives up, whatever became of the transaction, or finds that it failed:
\* the record keeps its signature either way.
NotConfirmed ==
  /\ pc = "confirming"
  /\ pc' = "idle"
  /\ UNCHANGED <<purchases, fileVars, fate, cur, final, landedRaw, lostRaw>>

\* The token program refused the burn: for good, or for as long as the mint's
\* authority wants it, which only the settlement takes for good.
Refused(code) ==
  /\ pc = "refused"
  /\ code \in Structural \cup Liftable
  /\ burns' = [burns EXCEPT ![cur].status = "failed"]
  /\ blocked' = (code \in Structural \/ final)
  /\ pc' = "idle"
  /\ UNCHANGED <<purchases, read, burnedRaw, fate, cur, final, landedRaw, lostRaw>>

\* Any other refusal is taken for a burn that may yet land: it keeps its
\* signature.
RefusedOtherwise(code) ==
  /\ pc = "refused"
  /\ code \notin Structural \cup Liftable
  /\ pc' = "idle"
  /\ UNCHANGED <<purchases, fileVars, fate, cur, final, landedRaw, lostRaw>>

\* The process dies and recovery starts from the state file.
Crash ==
  /\ pc # "idle"
  /\ pc' = "idle"
  /\ lostRaw' = IF pc \in {"counting_settled", "counting_sent"}
                THEN lostRaw + burns[cur].amount ELSE lostRaw
  /\ UNCHANGED <<purchases, fileVars, fate, cur, final, landedRaw>>
-----------------------------------------------------------------------------
Chain == \E i \in DOMAIN fate : Land(i) \/ FailOnChain(i) \/ Expire(i)

BurnDueFor ==
  \/ \E isFinal \in BOOLEAN : Visit(isFinal)
  \/ \E i \in DOMAIN burns, v \in {"landed", "failed", "absent", "unknown"} : SettleOne(i, v)
  \/ AddBurned
  \/ GiveUpVisit
  \/ \E b \in Balances : SignBurn(b)
  \/ SendRaw
  \/ Confirmed
  \/ NotConfirmed
  \/ \E code \in Structural \cup Liftable : Refused(code)
  \/ \E code \in OtherCodes : RefusedOtherwise(code)

Next == Buy \/ RefreshPurchaseTokens \/ Chain \/ BurnDueFor \/ Crash

Spec == Init /\ [][Next]_vars
-----------------------------------------------------------------------------
(* Properties.                                                             *)

Fates == {"signed", "flying", "landed", "failed", "gone"}
Places == {"idle", "settling", "counting_settled", "counting_sent", "sending",
           "confirming", "refused"}

\* Types.
TypeOK ==
  /\ purchases \in Nat
  /\ read \in 0..purchases
  /\ burns \in Seq([amount : Nat \ {0}, status : {"in_progress", "completed", "failed"}])
  /\ burnedRaw \in Nat
  /\ blocked \in BOOLEAN
  /\ fate \in Seq(Fates)
  /\ Len(fate) = Len(burns)
  /\ pc \in Places
  /\ cur \in 0..Len(burns)
  /\ final \in BOOLEAN
  /\ landedRaw \in Nat
  /\ lostRaw \in Nat

\* No burn is signed while another may still land: at most one transaction is
\* undecided, through timeouts, unreadable statuses and restarts (burns.ts:22,
\* "before anything is burned again it is looked up on chain").
OneUndecidedBurn ==
  \A i, j \in DOMAIN fate :
    fate[i] \in {"signed", "flying"} /\ fate[j] \in {"signed", "flying"} => i = j

\* A record is closed only in agreement with the chain: nothing is called
\* completed that did not land, and nothing failed that landed or still may.
RecordsMatchChain ==
  \A i \in DOMAIN burns :
    /\ burns[i].status = "completed" => fate[i] = "landed"
    /\ burns[i].status = "failed" => fate[i] \in {"failed", "gone"}

\* Every token destroyed is in the total, or in the burn that is being looked
\* at, or was lost by a process dying between the two saves that complete a
\* burn; nothing is counted twice and nothing is counted that did not land.
\* More than the coin's burn share is destroyed only by as much as such deaths
\* lost, whatever the balance reads say.
DestroyedIsAccounted ==
  /\ landedRaw = burnedRaw + lostRaw
       + (IF pc \in {"counting_settled", "counting_sent"} THEN burns[cur].amount ELSE 0)
       + (IF \E i \in Open : fate[i] = "landed"
          THEN burns[CHOOSE i \in Open : fate[i] = "landed"].amount ELSE 0)
  /\ landedRaw <= BurnOwed(purchases) + lostRaw

\* "Twice is the thing that must never happen" (burns.ts:17): no more is ever
\* destroyed than the backers asked for.
NeverBurnedTwice == landedRaw <= BurnOwed(purchases)
=============================================================================
