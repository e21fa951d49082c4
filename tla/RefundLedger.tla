---------------------------- MODULE RefundLedger ----------------------------
(***************************************************************************)
(* The arithmetic of giving back what a round did not spend: what is held  *)
(* back for the deliveries, what buying and delivering cost as far as the  *)
(* chain could be read, and what each backer of a coin gets of the rest.   *)
(*                                                                         *)
(* Amounts are in thousands of lamports.  Divisions round down, where the  *)
(* code rounds to the nearest lamport.  A debit is an amount, zero for a   *)
(* transaction the node says it does not have, or Unread.  `ata` gives     *)
(* what the snapshot before the round found of each recipient's token      *)
(* account: "had", "none", or "unread" (a stake too large to be asked).    *)
(***************************************************************************)
EXTENDS PurchasePlan, Functions

TxFee == 10              \* TX_FEE_SOL
MinRefund == 2000        \* MIN_REFUND_SOL
MinUnspent == 1000       \* MIN_UNSPENT_SOL
Unread == -1

\* readKeeperDebits: a request that failed tells nothing, and a node that has not
\* heard of the transaction answers zero.
ReadDebit(cost, miss) == IF miss = "failed" THEN Unread ELSE IF miss = "unheard" THEN 0 ELSE cost

\* calculateSendReserve for one delivery each: any account not known to be
\* there is paid for.
SendReserve(ata) ==
  SumFunction([w \in DOMAIN ata |-> TxFee + (IF ata[w] = "had" THEN 0 ELSE AtaFee)])

\* Mutant: a zero is taken for the cost of a completed purchase.
CompletedReadZero(debit) == debit # Unread

\* buySpend: for a completed purchase a zero cannot be true.
CompletedRead(debit) == debit # Unread /\ debit # 0

(***************************************************************************)
(* buySpend over the lots of one batch.  The rent of the keeper's token    *)
(* account is added to the first completed purchase, if its debit is not   *)
(* known; an attempt that completed nothing costs a fee when not read.     *)
(***************************************************************************)
BuySpend(completed, attempted, amount, debit) ==
  LET Completed(i) == IF CompletedRead(debit[i]) THEN debit[i]
                      ELSE amount + BuyTxFee + (IF i = Min(completed) THEN AtaFee ELSE 0)
      Attempted(i) == IF debit[i] # Unread THEN debit[i] ELSE BuyTxFee
  IN SumFunction([i \in completed |-> Completed(i)])
     + SumFunction([i \in attempted |-> Attempted(i)])

\* settleDelivery: a debit that was read has the rent in it; the rent of an
\* account known to be missing is added for every recipient nothing was read of.
DeliverySpent(delivered, ata, debit) ==
  LET Fee(w)  == IF debit[w] # Unread THEN debit[w] ELSE TxFee
      RentDue == {w \in DOMAIN ata : ata[w] = "none"
                                     /\ ~(w \in delivered /\ debit[w] # Unread)}
  IN SumFunction([w \in delivered |-> Fee(w)]) + Cardinality(RentDue) * AtaFee

\* holdForUnfinishedSends
Held(unfinished, ata) ==
  Cardinality(unfinished) * TxFee + Cardinality({w \in unfinished : ata[w] = "none"}) * AtaFee

Leftover(ata, spent, held) == Max({0, SendReserve(ata) - spent - held})

\* The fee of whole transactions, shared by the recipients.
FeePerRecipient(n, batchSize) == (TxFee * ((n + batchSize - 1) \div batchSize)) \div n

Due(net) == IF net < MinRefund THEN [status |-> "skipped", amount |-> 0, pending |-> 0]
            ELSE [status |-> "pending", amount |-> net, pending |-> 0]

\* planRefunds for one coin.
RefundPlan(unspent, stake, batchSize) ==
  LET total  == SumFunction(stake)
      Net(w) == (unspent * stake[w]) \div total
                  - FeePerRecipient(Cardinality(DOMAIN stake), batchSize)
  IN IF unspent < MinUnspent THEN <<>> ELSE [w \in DOMAIN stake |-> Due(Net(w))]
=============================================================================
