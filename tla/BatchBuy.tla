------------------------------ MODULE BatchBuy ------------------------------
(***************************************************************************)
(* Buying one coin: buyLoop of the orchestrator, batchBuy of the           *)
(* scheduler with its retry phase, the venues it sends through, and the    *)
(* resume of a round whose process died.  Every transaction is written     *)
(* down before it goes out; the chain decides about it when it likes, and  *)
(* the node that is asked about it may know nothing.                       *)
(*                                                                         *)
(* The batch files survive the process.  A purchase's pendingSignature is  *)
(* the last of its sentAttempts, as the code writes them together.  The    *)
(* venues' calls before the send change nothing and are one step.          *)
(***************************************************************************)
EXTENDS PurchasePlan, BuyTerms

CONSTANTS
  Budgets,         \* what a coin may be given (adjustedSolAmount)
  Weights,         \* the multipliers of splitAmount
  Balances,        \* what a read of the shared keeper's balance may return
  MaxTxs,          \* bound: transactions signed, by budget
  MaxCrashes       \* bound: deaths of the process

ASSUME BatchAssumption ==
  /\ Budgets \subseteq Nat /\ Weights \subseteq Nat \ {0}
  /\ Balances \subseteq Nat
  /\ MaxTxs \in [Budgets -> Nat] /\ MaxCrashes \in Nat

VARIABLES
  coin,            \* the round's TokenBuyRecord
  files,           \* its batch files, each a sequence of purchase records
  txs,             \* every transaction signed, and what became of it
  run,             \* the process: where it is and what it holds in memory
  crashes

vars == <<coin, files, txs, run, crashes>>

MaxExpiryResigns == 2
Stages == {"first", "resign", "shrunk", "ladder", "retry"}
Nothing == [kind |-> "none", tx |-> 0]

TokenBuyRecord == [status : {"pending", "in_progress", "completed", "failed"},
                   budget : Budgets, spent : Nat]

PurchaseRecord == [status : {"pending", "in_progress", "completed", "failed",
                             "abandoned"},
                   amount : Nat, sent : Seq(Nat \ {0})]

Fresh(pc, plan) ==
  [pc |-> pc, plan |-> plan, hasAta |-> FALSE, cur |-> 0, stage |-> "first",
   venue |-> "none", failure |-> Nothing, resigns |-> 0, rung |-> 1,
   drained |-> FALSE, queue |-> <<>>, tries |-> 0]

Init ==
  \E budget \in Budgets :
    /\ coin = [status |-> "pending", budget |-> budget, spent |-> 0]
    /\ files = <<>>
    /\ txs = <<>>
    /\ run = Fresh("start", budget)
    /\ crashes = 0

-----------------------------------------------------------------------------
(* What the steps are made of.                                             *)

File == Last(files)
Purchase == File[run.cur]
LastTx(p) == IF p.sent = <<>> THEN 0 ELSE Last(p.sent)
WithStatus(file, status) == SelectSeq([i \in DOMAIN file |-> i],
                                      LAMBDA i : file[i].status = status)
Amounts(file, S) == MapThenSumSet(LAMBDA i : file[i].amount, S)

Update(status, amount) ==
  files' = [files EXCEPT ![Len(files)][run.cur].status = status,
                         ![Len(files)][run.cur].amount = amount]
Mark(status) == Update(status, Purchase.amount)

\* The next purchase of the phase the process is in.
Onward ==
  LET clean == [Fresh("main", 0) EXCEPT !.hasAta = run.hasAta, !.drained = run.drained]
  IN IF run.stage = "retry"
     THEN [clean EXCEPT !.pc = "retry", !.stage = "retry", !.queue = Tail(run.queue)]
     ELSE [clean EXCEPT !.cur = run.cur + 1]

Close(status) == Mark(status) /\ run' = Onward

\* markInProgress, then buy() at whatever venue the coin trades on: whether the
\* curve is active is read anew for every attempt, and a failed read says no.
Buying(amount, memory) ==
  /\ Update("in_progress", amount)
  /\ \E venue \in {"pumpfun", "dex"} :
       run' = [memory EXCEPT !.pc = "build", !.venue = venue, !.failure = Nothing]

\* Mutant of Verdicts: a confirmed transaction whose error is not looked at.
VerdictsErrLanded(tx) ==
  IF txs[tx].fate = "expired" THEN {"clear"}
  ELSE IF txs[tx].fate = "flying" THEN {"in_flight"} ELSE {"landed"}

\* signatureOutcome through signatureVerdict: a node may keep silent about any
\* transaction, "clear" takes proof.
Verdicts(tx) ==
  {"in_flight"} \cup
  CASE txs[tx].fate = "landed"               -> {"landed"}
    [] txs[tx].fate \in {"failed", "expired"} -> {"clear"}
    [] OTHER                                  -> {}

-----------------------------------------------------------------------------
(* buyLoop and the start of a batch.                                       *)

\* The batch file's name is fixed in the round's state before anything else.
StartTokenBuy ==
  /\ run.pc = "start"
  /\ IF run.plan <= 0
     THEN /\ coin' = [coin EXCEPT !.status = "failed"]
          /\ run' = Fresh("done", 0)
          /\ UNCHANGED files
     ELSE /\ coin' = [coin EXCEPT !.status = "in_progress"]
          /\ files' = Append(files, <<>>)
          /\ run' = [run EXCEPT !.pc = "create"]
  /\ UNCHANGED <<txs, crashes>>

\* A mint that cannot be handed on to the winners, or read, is refused before
\* any spend.
RefuseMint ==
  /\ run.pc = "create"
  /\ \E mint \in Mints : InspectMint(mint).blocked
  /\ coin' = [coin EXCEPT !.status = "failed"]
  /\ run' = Fresh("done", 0)
  /\ UNCHANGED <<files, txs, crashes>>

CreateBatch ==
  /\ run.pc = "create"
  /\ LET n == CalculateN(run.plan) IN
     \E hasAta \in BOOLEAN, weight \in [1..n -> Weights] :
       LET amounts == SplitAmount(NetAmount(run.plan, n, hasAta), weight) IN
       /\ files' = [files EXCEPT ![Len(files)] =
                      [i \in DOMAIN amounts |->
                         [status |-> "pending", amount |-> amounts[i], sent |-> <<>>]]]
       /\ run' = [run EXCEPT !.pc = "main", !.plan = 0, !.cur = 1, !.hasAta = hasAta]
  /\ UNCHANGED <<coin, txs, crashes>>

-----------------------------------------------------------------------------
(* The main loop: a purchase at its time.                                  *)

StartPurchase ==
  /\ run.pc = "main" /\ run.cur <= Len(File)
  /\ IF run.drained
     THEN Close("abandoned")
     ELSE Buying(Purchase.amount, run)
  /\ UNCHANGED <<coin, txs, crashes>>

\* The retry phase takes the purchases that have failed by now.
StartRetryPhase ==
  /\ run.pc = "main" /\ run.cur > Len(File)
  /\ run' = [run EXCEPT !.pc = "retry", !.stage = "retry", !.cur = 0,
                        !.queue = WithStatus(File, "failed")]
  /\ UNCHANGED <<coin, files, txs, crashes>>

-----------------------------------------------------------------------------
(* buy(): one attempt.                                                     *)

\* Quote, build, sign, simulate: an error here leaves nothing on the wire.
BuildFails ==
  /\ run.pc = "build"
  /\ \E kind \in PreSendErrors(run.venue) :
       LET next == FallbackVenue(run.venue, kind) IN
       run' = IF next # "none" THEN [run EXCEPT !.venue = next]
              ELSE [run EXCEPT !.pc = "handle", !.venue = "none",
                               !.failure = [kind |-> kind, tx |-> 0]]
  /\ UNCHANGED <<coin, files, txs, crashes>>

\* onSigned, and the first send.  Rebroadcasts carry the same signature.
RecordSentAttempt(tx) ==
  files' = [files EXCEPT ![Len(files)][run.cur].sent = Append(@, tx)]

SignAndSend ==
  /\ run.pc = "build" /\ Len(txs) < MaxTxs[coin.budget]
  /\ txs' = Append(txs, [file |-> Len(files), purchase |-> run.cur,
                         amount |-> Purchase.amount, fate |-> "flying"])
  /\ RecordSentAttempt(Len(txs) + 1)
  /\ run' = [run EXCEPT !.pc = "confirm", !.venue = "none"]
  /\ UNCHANGED <<coin, crashes>>

Decide(tx) ==
  /\ txs[tx].fate = "flying"
  /\ \E fate \in {"landed", "failed", "expired"} :
       txs' = [txs EXCEPT ![tx].fate = fate]
  /\ UNCHANGED <<coin, files, run, crashes>>

Confirmed ==
  /\ run.pc = "confirm" /\ txs[LastTx(Purchase)].fate = "landed"
  /\ Close("completed")
  /\ UNCHANGED <<coin, txs, crashes>>

\* A PostSendError: the chain refused the transaction, or the wait ended
\* without an answer, whatever became of it.
PostSendErrors(tx) ==
  IF txs[tx].fate = "failed" THEN ChainErrors \cup {"lost"} ELSE WaitErrors

ConfirmFails ==
  /\ run.pc = "confirm"
  /\ \E kind \in PostSendErrors(LastTx(Purchase)) :
       run' = [run EXCEPT !.pc = "handle",
                          !.failure = [kind |-> kind, tx |-> LastTx(Purchase)]]
  /\ UNCHANGED <<coin, files, txs, crashes>>

-----------------------------------------------------------------------------
(* The main loop's handling of a failed attempt.                           *)

Failing(stages) == run.pc = "handle" /\ run.stage \in stages
MainStages == Stages \ {"retry"}

\* From one step of the slippage ladder to the next nothing is asked.
Climbs == run.failure.kind = "slippage" /\ run.rung < 3
Resigns == run.failure.kind = "expired" /\ run.stage \in {"first", "resign"}
           /\ run.resigns < MaxExpiryResigns
Rereads == run.failure.kind = "insufficient" /\ run.stage \in {"first", "resign"}

TryConfirmPending ==
  /\ Failing(MainStages) /\ run.failure.tx # 0
  /\ "landed" \in Verdicts(run.failure.tx)
  /\ Close("completed")
  /\ UNCHANGED <<coin, txs, crashes>>

\* recordPurchaseFailure: the only place where the main loop gives one up.
FailureStatus(kind) == IF NonRetryable(kind) THEN "abandoned" ELSE "failed"

RecordFailure ==
  /\ Failing(MainStages) /\ ~Climbs /\ ~Resigns /\ ~Rereads
  /\ Close(FailureStatus(run.failure.kind))
  /\ UNCHANGED <<coin, txs, crashes>>

\* The expired transaction is waited out before a new one is signed.
ResignAfterExpiry ==
  /\ Failing(MainStages) /\ Resigns
  /\ \E verdict \in Verdicts(run.failure.tx) :
       CASE verdict = "landed"    -> Close("completed")
         [] verdict = "in_flight" -> Close(FailureStatus(run.failure.kind))
         [] verdict = "clear"     ->
              Buying(Purchase.amount,
                     [run EXCEPT !.stage = "resign", !.resigns = run.resigns + 1])
  /\ UNCHANGED <<coin, txs, crashes>>

\* Out of money: the balance is read once, and the purchase shrunk to it.  A
\* read that fails, or shows enough, leaves the purchase to its error.
ShrinkToFit ==
  /\ Failing(MainStages) /\ Rereads
  /\ \E balance \in Balances \cup {Purchase.amount + KeeperFloor(TRUE)} :
       LET amount == Spendable(balance, Purchase.amount, ~run.hasAta) IN
       CASE amount = 0 ->
              Mark("abandoned") /\ run' = [Onward EXCEPT !.drained = TRUE]
         [] amount \in 1..(Purchase.amount - 1) ->
              Buying(amount, [run EXCEPT !.stage = "shrunk"])
         [] OTHER -> Close(FailureStatus(run.failure.kind))
  /\ UNCHANGED <<coin, txs, crashes>>

ClimbLadder ==
  /\ Failing(MainStages) /\ Climbs
  /\ Buying(Purchase.amount, [run EXCEPT !.stage = "ladder", !.rung = run.rung + 1])
  /\ UNCHANGED <<coin, txs, crashes>>

-----------------------------------------------------------------------------
(* The retry phase.                                                        *)

\* Before the first retry: what became of the transaction on record.
RetryNext ==
  /\ run.pc = "retry" /\ run.queue # <<>>
  /\ LET p == Head(run.queue)
         tx == LastTx(File[p])
         attempt == [run EXCEPT !.pc = "attempt", !.cur = p, !.tries = 0]
         closed(status) ==
           /\ files' = [files EXCEPT ![Len(files)][p].status = status]
           /\ run' = [run EXCEPT !.queue = Tail(run.queue)]
     IN IF tx = 0
        THEN run' = attempt /\ UNCHANGED files
        ELSE \E verdict \in Verdicts(tx) :
               CASE verdict = "landed"    -> closed("completed")
                 [] verdict = "in_flight" -> closed("abandoned")
                 [] verdict = "clear"     -> run' = attempt /\ UNCHANGED files
  /\ UNCHANGED <<coin, txs, crashes>>

\* Mutant: the attempts are not counted.
RetryUncounted ==
  /\ run.pc = "attempt"
  /\ \/ Close("abandoned")
     \/ Buying(Purchase.amount, run)
  /\ UNCHANGED <<coin, txs, crashes>>

\* The window may have run out, the balance is read up front.
RetryAttempt ==
  /\ run.pc = "attempt"
  /\ \/ Close("abandoned")
     \/ \E balance \in Balances \cup {Purchase.amount + KeeperFloor(TRUE)} :
          LET amount == Spendable(balance, Purchase.amount, ~run.hasAta) IN
          IF amount = 0 THEN Close("abandoned")
          ELSE Buying(amount, [run EXCEPT !.tries = run.tries + 1])
  /\ UNCHANGED <<coin, txs, crashes>>

\* A purchase that is still failed when its retries end is abandoned: one in
\* flight at once, one that failed for good at once, others after four tries.
GivesUp == NonRetryable(run.failure.kind) \/ ~CanRetry(run.tries)

AfterRetry(verdict) ==
  CASE verdict = "landed"                -> Close("completed")
    [] verdict = "in_flight"             -> Close("abandoned")
    [] verdict = "clear" /\ GivesUp      -> Close("abandoned")
    [] OTHER -> Mark("failed") /\ run' = [run EXCEPT !.pc = "attempt"]

RetryFails ==
  /\ Failing({"retry"})
  /\ IF run.failure.tx = 0 THEN AfterRetry("clear")
     ELSE \E verdict \in Verdicts(run.failure.tx) : AfterRetry(verdict)
  /\ UNCHANGED <<coin, txs, crashes>>

-----------------------------------------------------------------------------
(* The end of a batch, and a restart.                                      *)

\* finalize, addTokenBuySpent and the coin's status, without a wait between.
FinishBatch ==
  /\ run.pc = "retry" /\ run.queue = <<>>
  /\ LET bought == ToSet(WithStatus(File, "completed")) IN
     coin' = [coin EXCEPT !.spent = @ + Amounts(File, bought),
                          !.status = IF bought = {} THEN "failed" ELSE "completed"]
  /\ run' = Fresh("done", 0)
  /\ UNCHANGED <<files, txs, crashes>>

Crash ==
  /\ run.pc \notin {"done", "down"} /\ crashes < MaxCrashes
  /\ crashes' = crashes + 1
  /\ run' = Fresh("down", 0)
  /\ UNCHANGED <<coin, files, txs>>

\* Mutant: only what is known to have landed is spent.
MayHaveLandedForSure(tx) == {txs[tx].fate = "landed"}

\* purchasesThatMayHaveLanded asks about the last attempt of every purchase
\* that is not completed; silence counts as landed.
MayHaveLanded(tx) ==
  IF Verdicts(tx) = {"in_flight", "clear"} THEN BOOLEAN ELSE {TRUE}

SpentInBatch(file, landed) ==
  Amounts(file, {i \in DOMAIN file : \/ file[i].status = "completed"
                                     \/ LastTx(file[i]) \in landed})

\* planResume: what is left of the coin's budget is bought, unless too little is.
PlanResume(landed) ==
  LET spent == MapThenSumSet(LAMBDA f : SpentInBatch(files[f], landed), DOMAIN files)
      left  == coin.budget - spent
  IN /\ run' = IF left < MinResume THEN Fresh("done", 0) ELSE Fresh("start", left)
     /\ coin' = [coin EXCEPT !.spent = IF spent > 0 THEN spent ELSE @,
                             !.status = IF left >= MinResume THEN @
                                        ELSE IF spent > 0 THEN "completed" ELSE "failed"]

Resume ==
  /\ run.pc = "down"
  /\ \E landed \in SUBSET DOMAIN txs :
       /\ \A tx \in DOMAIN txs : (tx \in landed) \in MayHaveLanded(tx)
       /\ PlanResume(landed)
  /\ UNCHANGED <<files, txs, crashes>>

-----------------------------------------------------------------------------
Step ==
  \/ StartTokenBuy \/ RefuseMint \/ CreateBatch
  \/ StartPurchase \/ StartRetryPhase
  \/ BuildFails \/ SignAndSend \/ Confirmed \/ ConfirmFails
  \/ TryConfirmPending \/ ResignAfterExpiry \/ ShrinkToFit \/ ClimbLadder
  \/ RecordFailure
  \/ RetryNext \/ RetryAttempt \/ RetryFails
  \/ FinishBatch \/ Resume

Next ==
  \/ Step
  \/ \E tx \in DOMAIN txs : Decide(tx)
  \/ Crash

Spec == Init /\ [][Next]_vars

\* The process goes on while it lives, and is started again when it died.
FairSpec == Spec /\ WF_vars(Step)
-----------------------------------------------------------------------------
(* What the buying promises.                                               *)

TypeOK ==
  /\ coin \in TokenBuyRecord
  /\ files \in Seq(Seq(PurchaseRecord))
  /\ txs \in Seq([file : DOMAIN files, purchase : Nat \ {0}, amount : Nat \ {0},
                  fate : {"flying", "landed", "failed", "expired"}])
  /\ run.stage \in Stages /\ run.tries \in 0..(MaxRetries + 1)
  /\ crashes \in 0..MaxCrashes

\* What landed, or still may.
Live == {tx \in DOMAIN txs : txs[tx].fate \in {"flying", "landed"}}

\* Whatever died, expired or kept silent, what a coin's transactions spent or
\* may still spend stays within what the coin was given.
WithinBudget ==
  MapThenSumSet(LAMBDA tx : txs[tx].amount, Live) <= coin.budget

\* Of all the attempts of one purchase, over re-signing, ladder and retries,
\* only the last on record can have bought or may still: two are never alive,
\* and a restart, which asks about the last one only (lastAttempt), misses none.
\* A purchase counted as bought has that one landed, and spent what its record
\* says: totalSolSpent is no guess.
LastAttemptTells ==
  /\ \A tx \in Live : LastTx(files[txs[tx].file][txs[tx].purchase]) = tx
  /\ \A f \in DOMAIN files : \A i \in DOMAIN files[f] :
       files[f][i].status = "completed" =>
         LET tx == LastTx(files[f][i]) IN
         tx # 0 /\ txs[tx].fate = "landed" /\ txs[tx].amount = files[f][i].amount

\* Every coin's buying comes to an end, however silent the nodes are.
BuyingEnds == <>(run.pc = "done")

\* planResume: "If anything was bought this is a completed purchase; if not, it
\* is an honest failure".
FailedBoughtNothing ==
  coin.status = "failed" =>
    \A f \in DOMAIN files : WithStatus(files[f], "completed") = <<>>
=============================================================================
