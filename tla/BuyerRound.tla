----------------------------- MODULE BuyerRound -----------------------------
(***************************************************************************)
(* The buyer's process and the rounds it runs: the requests that start     *)
(* them, buying and delivering side by side, the refund of what was not    *)
(* spent, and the restart that takes up the rounds a dead process left     *)
(* open.                                                                   *)
(*                                                                         *)
(* A round has one coin, bought in lots of one size; what becomes of a     *)
(* lot's attempts is module BatchBuy.  Deliveries are one a backer, with   *)
(* the fee and the rent they cost; how they come about is module Delivery. *)
(***************************************************************************)
EXTENDS RefundLedger, SequencesExt

CONSTANTS
  Rounds, Order,   \* the rounds, and their state files in the order of names
  Lots,            \* how many lots each round's coin is bought in
  LotAmount,       \* what a lot spends
  Stake,           \* per round: each backer's stake in the coin
  Ata,             \* per round: what the snapshot found of each backer's account
  BatchSize,       \* recipients of one refund transaction (REFUND_BATCH_SIZE)
  MaxLives,        \* bound: how often the process is started
  MaxMisses        \* bound: answers of a ledger's reading that are not the debit

Backers(r) == DOMAIN Stake[r]
Allocated(r) == IF Lots[r] = 0 THEN 0 ELSE AtaFee + Lots[r] * (LotAmount + 2 * BuyTxFee)

ASSUME RoundAssumption ==
  /\ ToSet(Order) = Rounds /\ Lots \in [Rounds -> Nat]
  /\ LotAmount \in Nat /\ LotAmount >= MinResume
  /\ \A r \in Rounds : /\ IsFiniteSet(Backers(r))
                       /\ Stake[r] \in [Backers(r) -> Nat \ {0}]
                       /\ Ata[r] \in [Backers(r) -> {"had", "none", "unread"}]
  /\ BatchSize \in Nat \ {0} /\ MaxLives \in Nat \ {0} /\ MaxMisses \in Nat

VARIABLES
  process,         \* [state, life]: up, stopping or down, for the n-th time
  waiting,         \* the rounds a stop waits for
  queue,           \* the unfinished rounds a restart has yet to finish
  running,         \* the registry of running rounds
  file,            \* each round's state file: none, open or finished
  bought,          \* is its coin's record completed or failed?
  lots,            \* each lot: its record, its transaction and what it cost
  sends,           \* each backer's delivery
  refunds,         \* each backer's refund record, once the refunds are planned
  pass,            \* what the process is doing for the round
  payments,        \* every refund transaction, and what became of it
  basis            \* history: what the refunds were worked out from

vars == <<process, waiting, queue, running, file, bought, lots, sends, refunds,
          pass, payments, basis>>
procVars == <<process, waiting, queue>>
planVars == <<refunds, payments, basis>>

Idle == [phase |-> "none", buying |-> FALSE, todo |-> {}, chunk |-> {}]
Alive == process.state # "down"
NoBasis == [planned |-> FALSE, lots |-> {}, sends |-> {}, misread |-> {}, exact |-> FALSE]

LotsOf(r) == 1..Lots[r]
LotsAre(r, s) == {i \in LotsOf(r) : lots[r][i].status = s}
HasTokens(r) == \E i \in LotsOf(r) : lots[r][i].chain = "landed"

Init ==
  /\ process = [state |-> "up", life |-> 1]
  /\ waiting = {} /\ queue = <<>> /\ running = {}
  /\ file = [r \in Rounds |-> "none"]
  /\ bought = [r \in Rounds |-> FALSE]
  /\ lots = [r \in Rounds |->
               [i \in LotsOf(r) |-> [status |-> "planned", chain |-> "none", cost |-> 0]]]
  /\ sends = [r \in Rounds |-> [w \in Backers(r) |-> "pending"]]
  /\ refunds = [r \in Rounds |-> <<>>]
  /\ pass = [r \in Rounds |-> Idle]
  /\ payments = <<>>
  /\ basis = [r \in Rounds |-> NoBasis]

-----------------------------------------------------------------------------
(* Starting a round.                                                       *)

Enter(r, phase, buying) ==
  pass' = [pass EXCEPT ![r].phase = phase, ![r].buying = buying]

\* Mutant: only the registry is asked.
FreeToStartUnchecked(r) == r \notin running

FreeToStart(r) == r \notin running /\ file[r] = "none"

\* POST /execute
Execute(r) ==
  /\ process.state = "up" /\ FreeToStart(r)
  /\ running' = running \union {r}
  /\ Enter(r, "starting", pass[r].buying)
  /\ UNCHANGED <<procVars, file, bought, lots, sends, planVars>>

\* The snapshot of the recipients' accounts, or anything else before the state
\* is written, fails: the round leaves the registry and can be asked for again.
InitFails(r) ==
  /\ Alive /\ pass[r].phase = "starting"
  /\ running' = running \ {r}
  /\ Enter(r, "none", pass[r].buying)
  /\ UNCHANGED <<procVars, file, bought, lots, sends, planVars>>

\* The state is written and buying begins, unless the budget is nothing.
CreateState(r) ==
  /\ Alive /\ pass[r].phase = "starting"
  /\ file' = [file EXCEPT ![r] = "open"]
  /\ bought' = [bought EXCEPT ![r] = Lots[r] = 0]
  /\ Enter(r, "trading", Lots[r] > 0)
  /\ UNCHANGED <<procVars, running, lots, sends, planVars>>

-----------------------------------------------------------------------------
(* Buying and delivering.                                                  *)

SetLot(r, i, status, chain, cost) ==
  /\ lots' = [lots EXCEPT ![r][i] = [status |-> status, chain |-> chain, cost |-> cost]]
  /\ UNCHANGED <<procVars, running, file, bought, sends, pass, planVars>>

\* The attempt is written down, then sent.
BuyLot(r, i) ==
  /\ Alive /\ pass[r].buying /\ lots[r][i].status = "planned"
  /\ SetLot(r, i, "sent", "flying", 0)

\* The first purchase to land also makes the keeper's token account.
LotLands(r, i) ==
  /\ lots[r][i].chain = "flying"
  /\ SetLot(r, i, lots[r][i].status, "landed",
            LotAmount + BuyTxFee
              + (IF \A j \in LotsOf(r) : lots[r][j].chain # "landed" THEN AtaFee ELSE 0))

LotLost(r, i) ==
  /\ lots[r][i].chain = "flying"
  /\ SetLot(r, i, lots[r][i].status, "lost", 0)

LotConfirmed(r, i) ==
  /\ Alive /\ pass[r].buying
  /\ lots[r][i].status = "sent" /\ lots[r][i].chain = "landed"
  /\ SetLot(r, i, "completed", "landed", lots[r][i].cost)

\* The window is over: what was not bought is abandoned, and the coin's record
\* is closed, also by a buying loop whose round has ended without it.
BuyingEnds(r) ==
  /\ Alive /\ pass[r].buying
  /\ pass' = [pass EXCEPT ![r].buying = FALSE]
  /\ bought' = [bought EXCEPT ![r] = TRUE]
  /\ UNCHANGED <<procVars, running, file, lots, sends, planVars>>

Deliver(r, w) ==
  /\ Alive /\ pass[r].phase = "trading"
  /\ sends[r][w] # "delivered" /\ HasTokens(r)
  /\ sends' = [sends EXCEPT ![r][w] = "delivered"]
  /\ UNCHANGED <<procVars, running, file, bought, lots, pass, planVars>>

\* Both loops, the settlement and the sweep are over.  A delivery that was not
\* made is abandoned, or left pending for want of a balance.
TradingEnds(r) ==
  /\ Alive /\ pass[r].phase = "trading" /\ ~pass[r].buying
  /\ \E left \in IF HasTokens(r) THEN SUBSET Backers(r) ELSE {Backers(r)} :
       sends' = [sends EXCEPT ![r] = [w \in Backers(r) |->
                   IF sends[r][w] = "delivered" THEN "delivered"
                   ELSE IF w \in left THEN "pending" ELSE "abandoned"]]
  /\ Enter(r, "settled", FALSE)
  /\ UNCHANGED <<procVars, running, file, bought, lots, planVars>>

\* The deliveries throw: Promise.all does not wait for the buying, which goes on.
SendingBreaks(r) ==
  /\ Alive /\ pass[r].phase = "trading"
  /\ Enter(r, "settled", pass[r].buying)
  /\ UNCHANGED <<procVars, running, file, bought, lots, sends, planVars>>

-----------------------------------------------------------------------------
(* Giving back what was not spent.                                         *)

PendingRefunds(r) ==
  {w \in DOMAIN refunds[r] : refunds[r][w].status \in {"pending", "in_progress"}}

DeliveryCost(r, w) == TxFee + (IF Ata[r][w] = "had" THEN 0 ELSE AtaFee)
Sent(r) == {i \in LotsOf(r) : lots[r][i].chain # "none"}
Delivered(r) == {w \in Backers(r) : sends[r][w] = "delivered"}

\* What is not spent of the coin's allocation and of the delivery reserve; a
\* coin that was allocated nothing has no share of the reserve.
Unspent(r, lotDebit, sendDebit) ==
  LET spent == BuySpend(LotsAre(r, "completed"), LotsAre(r, "sent"), LotAmount, lotDebit)
      left  == Leftover(Ata[r], DeliverySpent(Delivered(r), Ata[r], sendDebit),
                        Held({w \in Backers(r) : sends[r][w] = "pending"}, Ata[r]))
  IN IF Allocated(r) = 0 THEN 0 ELSE Allocated(r) - spent + left

BasisOf(r, lotDebit, sendDebit) ==
  [planned |-> TRUE,
   lots    |-> LotsAre(r, "completed"),
   sends   |-> Delivered(r),
   misread |-> {w \in Delivered(r) : sendDebit[w] = 0},
   exact   |-> /\ \A i \in LotsAre(r, "completed") : CompletedRead(lotDebit[i])
               /\ \A i \in LotsAre(r, "sent") : lotDebit[i] # Unread
               /\ \A w \in Delivered(r) : sendDebit[w] # Unread]

(***************************************************************************)
(* refundUnspent: the plan is made once, and the records to pay are listed *)
(* before the first of them is paid.                                       *)
(***************************************************************************)
PlanRefunds(r) ==
  /\ Alive /\ pass[r].phase = "settled"
  /\ \E lotsMissed \in SUBSET Sent(r), sendsMissed \in SUBSET Delivered(r),
        miss \in {"failed", "unheard"} :
     LET lotDebit  == [i \in LotsOf(r) |->
                         ReadDebit(lots[r][i].cost, IF i \in lotsMissed THEN miss ELSE "none")]
         sendDebit == [w \in Backers(r) |->
                         ReadDebit(DeliveryCost(r, w), IF w \in sendsMissed THEN miss ELSE "none")]
     IN /\ Cardinality(lotsMissed) + Cardinality(sendsMissed) <= MaxMisses
        /\ IF refunds[r] = <<>>
           THEN /\ refunds' = [refunds EXCEPT ![r] =
                     RefundPlan(Unspent(r, lotDebit, sendDebit), Stake[r], BatchSize)]
                /\ basis' = [basis EXCEPT ![r] = BasisOf(r, lotDebit, sendDebit)]
           ELSE UNCHANGED <<refunds, basis>>
  /\ pass' = [pass EXCEPT ![r].phase = "refunding", ![r].todo = PendingRefunds(r)']
  /\ UNCHANGED <<procVars, running, file, bought, lots, sends, payments>>

\* checkSignature, asked without the limit of the blockhash: a payment still in
\* flight reads as absent.
Outcomes(p) == CASE payments[p].chain = "landed" -> {"landed", "unknown"}
                 [] payments[p].chain = "flying" -> {"absent", "unknown"}
                 [] OTHER                        -> {"absent", "unknown"}

\* Mutant: the records are listed anew before every transaction.
ToPayCurrent(r) == PendingRefunds(r)

ToPay(r) == pass[r].todo

Chunks(r) == {C \in SUBSET ToPay(r) : Cardinality(C) = Min({BatchSize, Cardinality(ToPay(r))})}

SetRefunds(r, W, status, pending) ==
  refunds' = [refunds EXCEPT ![r] = [w \in DOMAIN refunds[r] |->
                IF w \in W THEN [refunds[r][w] EXCEPT !.status = status, !.pending = pending]
                ELSE refunds[r][w]]]

(***************************************************************************)
(* sendChunk up to the answer.  Who has a signature is asked about first;  *)
(* the others, with those whose payment is not on chain, are paid in one   *)
(* transaction, which goes out or is refused before it does.               *)
(***************************************************************************)
SendChunk(r) ==
  /\ Alive /\ pass[r].phase = "refunding" /\ pass[r].chunk = {} /\ ToPay(r) # {}
  /\ \E C \in Chunks(r) :
     LET asked == {w \in C : refunds[r][w].pending # 0} IN
     \E answer \in [asked -> {"landed", "absent", "unknown"}] :
       LET arrived == {w \in asked : answer[w] = "landed"}
           ready   == {w \in C : w \in asked => answer[w] = "absent"}
           After(status, out) ==
             refunds' = [refunds EXCEPT ![r] = [w \in DOMAIN refunds[r] |->
               CASE w \in arrived -> [refunds[r][w] EXCEPT !.status = "completed", !.pending = 0]
                 [] w \in ready   -> [refunds[r][w] EXCEPT !.status = status,
                                        !.pending = IF out THEN @ ELSE 0]
                 [] OTHER         -> refunds[r][w]]]
       IN /\ \A w \in asked : answer[w] \in Outcomes(refunds[r][w].pending)
          /\ \/ /\ ready = {} /\ After("in_progress", TRUE) /\ UNCHANGED payments
                /\ pass' = [pass EXCEPT ![r].todo = @ \ C]
             \/ /\ ready # {} /\ After("failed", FALSE) /\ UNCHANGED payments
                /\ pass' = [pass EXCEPT ![r].todo = @ \ C]
             \/ /\ ready # {} /\ After("in_progress", TRUE)
                /\ payments' = Append(payments, [round |-> r, to |-> ready,
                                                 life |-> process.life, chain |-> "flying"])
                /\ pass' = [pass EXCEPT ![r].todo = @ \ C, ![r].chunk = ready]
  /\ UNCHANGED <<procVars, running, file, bought, lots, sends, basis>>

LastPayment(r) == Max({p \in DOMAIN payments : payments[p].round = r})

\* The status and the pending signature an answer that carries the signature
\* leaves: the payment was seen on chain, or the wait ended otherwise.
PaidStatus(p) == IF payments[p].chain = "landed" THEN "completed" ELSE "in_progress"

\* sendChunk after the answer: a signature in the error keeps the record open,
\* an error without one closes it, though the transaction may be out.
ChunkAnswered(r) ==
  /\ Alive /\ pass[r].chunk # {}
  /\ LET p == LastPayment(r) IN
     \/ IF PaidStatus(p) = "completed" THEN SetRefunds(r, pass[r].chunk, "completed", 0)
        ELSE SetRefunds(r, pass[r].chunk, "in_progress", p)
     \/ SetRefunds(r, pass[r].chunk, "in_progress", p)
     \/ SetRefunds(r, pass[r].chunk, "failed", 0)
  /\ pass' = [pass EXCEPT ![r].chunk = {}]
  /\ UNCHANGED <<procVars, running, file, bought, lots, sends, payments, basis>>

PaymentEnds(p) ==
  /\ payments[p].chain = "flying"
  /\ \E chain \in {"landed", "lost"} : payments' = [payments EXCEPT ![p].chain = chain]
  /\ UNCHANGED <<procVars, running, file, bought, lots, sends, refunds, pass, basis>>

\* The round is closed whatever became of the refunds, and leaves the registry.
Finalize(r) ==
  /\ Alive /\ pass[r].phase = "refunding" /\ ToPay(r) = {} /\ pass[r].chunk = {}
  /\ file' = [file EXCEPT ![r] = "finished"]
  /\ running' = running \ {r}
  /\ Enter(r, "none", pass[r].buying)
  /\ UNCHANGED <<procVars, bought, lots, sends, planVars>>

-----------------------------------------------------------------------------
(* The process.                                                            *)

Die == /\ running' = {} /\ queue' = <<>> /\ waiting' = {}
       /\ process' = [process EXCEPT !.state = "down"]
       /\ pass' = [r \in Rounds |-> Idle]
       /\ UNCHANGED <<file, bought, lots, sends, planVars>>

Crash == Alive /\ process.life < MaxLives /\ Die

\* SIGTERM: no more requests, and the rounds running now are waited for.
Stop ==
  /\ process.state = "up" /\ process.life < MaxLives
  /\ process' = [process EXCEPT !.state = "stopping"]
  /\ waiting' = running
  /\ UNCHANGED <<queue, running, file, bought, lots, sends, pass, planVars>>

Exit == process.state = "stopping" /\ waiting \intersect running = {} /\ Die

Start ==
  /\ process.state = "down"
  /\ process' = [state |-> "up", life |-> process.life + 1]
  /\ queue' = SelectSeq(Order, LAMBDA r : file[r] = "open")
  /\ UNCHANGED <<waiting, running, file, bought, lots, sends, pass, planVars>>

(***************************************************************************)
(* resumeLottery: the lots whose last transaction is gone are bought anew, *)
(* those that landed or may have are counted as bought.  With nothing left *)
(* to buy, or the coin's record closed, there is only the rest to do.      *)
(***************************************************************************)
Resume(r) ==
  \E again \in SUBSET {i \in LotsAre(r, "sent") : lots[r][i].chain = "lost"} :
    /\ lots' = IF bought[r] THEN lots
               ELSE [lots EXCEPT ![r] = [i \in LotsOf(r) |->
                       IF i \in again THEN [status |-> "planned", chain |-> "none", cost |-> 0]
                       ELSE lots[r][i]]]
    /\ LET buys == ~bought[r] /\ (LotsAre(r, "planned") \union again) # {} IN
       /\ Enter(r, "trading", buys)
       /\ bought' = [bought EXCEPT ![r] = ~buys]

ResumeNext ==
  /\ Alive /\ queue # <<>>
  /\ LET r == Head(queue) IN
     /\ r \notin running /\ file[r] = "open"
     /\ Resume(r) /\ running' = running \union {r}
  /\ UNCHANGED <<procVars, file, sends, planVars>>

\* Mutant: the round that has ended takes the others with it.
AfterDropAll == <<>>

AfterHead == Tail(queue)

ResumeEnds ==
  /\ Alive /\ queue # <<>> /\ Head(queue) \notin running /\ file[Head(queue)] # "open"
  /\ queue' = AfterHead
  /\ UNCHANGED <<process, waiting, running, file, bought, lots, sends, pass, planVars>>

-----------------------------------------------------------------------------
RoundStep(r) ==
  \/ InitFails(r) \/ CreateState(r)
  \/ \E i \in LotsOf(r) : BuyLot(r, i) \/ LotConfirmed(r, i)
  \/ BuyingEnds(r) \/ (\E w \in Backers(r) : Deliver(r, w))
  \/ TradingEnds(r) \/ SendingBreaks(r)
  \/ PlanRefunds(r) \/ SendChunk(r) \/ ChunkAnswered(r) \/ Finalize(r)

Chain == \/ \E r \in Rounds : \E i \in LotsOf(r) : LotLands(r, i) \/ LotLost(r, i)
         \/ \E p \in DOMAIN payments : PaymentEnds(p)

ProcessStep == Start \/ ResumeNext \/ ResumeEnds \/ Exit

Next == \/ \E r \in Rounds : Execute(r) \/ RoundStep(r)
        \/ Chain \/ Crash \/ Stop \/ ProcessStep

Spec == Init /\ [][Next]_vars

\* Every wait of a round has a limit, and the container is started again.
FairSpec == Spec /\ (\A r \in Rounds : WF_vars(RoundStep(r))) /\ WF_vars(ProcessStep)

-----------------------------------------------------------------------------
LotRecord == [status : {"planned", "sent", "completed"},
              chain  : {"none", "flying", "landed", "lost"}, cost : Nat]

TypeOK ==
  /\ process \in [state : {"up", "stopping", "down"}, life : 1..MaxLives]
  /\ waiting \subseteq Rounds /\ running \subseteq Rounds /\ ToSet(queue) \subseteq Rounds
  /\ file \in [Rounds -> {"none", "open", "finished"}]
  /\ bought \in [Rounds -> BOOLEAN]
  /\ \A r \in Rounds :
       /\ lots[r] \in [LotsOf(r) -> LotRecord]
       /\ sends[r] \in [Backers(r) -> {"pending", "delivered", "abandoned"}]
       /\ \A w \in DOMAIN refunds[r] :
            /\ refunds[r][w].status \in {"skipped", "pending", "in_progress", "completed", "failed"}
            /\ refunds[r][w].amount \in Nat /\ refunds[r][w].pending \in 0..Len(payments)
       /\ pass[r].phase \in {"none", "starting", "trading", "settled", "refunding"}
       /\ pass[r].chunk \subseteq Backers(r) /\ pass[r].todo \subseteq Backers(r)
  /\ \A r \in Rounds : pass[r].phase # "none" <=> r \in running

\* A round is not begun again, and not resumed, while the buying of an earlier
\* pass goes on by itself: two loops would spend one allocation.
NoSecondPass ==
  [][\A r \in Rounds : pass[r].phase = "none" /\ pass'[r].phase # "none"
                         => ~pass[r].buying]_vars

Landed(r, w) == {p \in DOMAIN payments : /\ payments[p].round = r /\ w \in payments[p].to
                                         /\ payments[p].chain = "landed"}

\* A backer is not paid twice by one life of the process: only a restart
\* between sending a refund and writing down its answer can do that.
\* A refund is only written down as made when a payment to its backer landed.
RefundedOnceALife ==
  \A r \in Rounds : \A w \in Backers(r) :
    /\ \A p, q \in Landed(r, w) : p # q => payments[p].life # payments[q].life
    /\ w \in DOMAIN refunds[r] /\ refunds[r][w].status = "completed" => Landed(r, w) # {}

(***************************************************************************)
(* When the ledger says that every figure came from the chain, what the    *)
(* purchases and deliveries completed by then cost and what is given back  *)
(* is within what the round had, except for a delivery a lagging node had  *)
(* not heard of: the keeper does not pay for a round.                      *)
(***************************************************************************)
KeeperCovered ==
  \A r \in Rounds : basis[r].planned /\ basis[r].exact =>
    SumFunction([i \in basis[r].lots |-> lots[r][i].cost])
    + SumFunction([w \in basis[r].sends \ basis[r].misread |-> DeliveryCost(r, w)])
    + SumFunction([w \in DOMAIN refunds[r] |-> refunds[r][w].amount])
      <= Allocated(r) + SendReserve(Ata[r])

\* A round whose state was written is finished, however often the process is
\* stopped or dies on the way.
OpenRoundFinishes == \A r \in Rounds : file[r] = "open" ~> file[r] = "finished"

\* refunds.ts says that a double send is ruled out, since a signature that is
\* not confirmed is looked up before any repeat.
RefundedOnce ==
  \A r \in Rounds : \A w \in Backers(r) : Cardinality(Landed(r, w)) <= 1

\* orchestrator.ts says of unsent refunds that they stay in the state and go out
\* on the next recovery pass: then a restart takes up the rounds that have some.
UnsentTakenUp ==
  [][process'.life > process.life =>
       \A r \in Rounds : PendingRefunds(r) # {} => r \in ToSet(queue')]_vars
=============================================================================
