---------------------------- MODULE DeliveryTerms ----------------------------
(***************************************************************************)
(* The terms of one delivery transaction: whom it serves, with which       *)
(* transfer instruction, what is withheld on the way, what is written down *)
(* as delivered and as taken from the keeper, and which errors halve it.   *)
(*                                                                         *)
(* A transfer fee is counted in hundredths; a fee config holds two rates,  *)
(* the newer of which applies from its epoch on.                           *)
(***************************************************************************)
EXTENDS Integers, Sequences, FiniteSetsExt

LOCAL Terms == INSTANCE BuyTerms
LOCAL Venue == INSTANCE PurchasePlan

MaxRecipients == 5
-----------------------------------------------------------------------------
(* The fee on a transfer, and what the token program makes of one          *)
(* (external).                                                             *)

\* calculateEpochFee of the library, as the program works it out too.
EpochFee(config, epoch, amount) ==
  LET rate == IF epoch >= config.newer.epoch THEN config.newer ELSE config.older
  IN Min({rate.max, (amount * rate.percent + 99) \div 100})

\* What the program withholds.
Withheld(mint, epoch, amount) ==
  IF mint.fee THEN EpochFee(mint.config, epoch, amount) ELSE 0

\* A transfer with a hook needs the hook's accounts; one that names its fee
\* needs that to be the fee.
Succeeds(mint, epoch, transfer) ==
  /\ mint.hook => "hook" \in transfer.with
  /\ "fee" \in transfer.with =>
       /\ mint.fee
       /\ transfer.fee = Withheld(mint, epoch, transfer.amount)
-----------------------------------------------------------------------------
(* buildBatchSendTransaction.                                              *)

\* currentEpoch: read once a minute, and only for a coin that has a fee.
EpochUsed(report, seen) == IF report.fee THEN seen ELSE 0

\* The instruction is chosen by the extensions of the mint.
TransferOf(report, epoch, amount) ==
  LET fee == IF report.fee THEN EpochFee(report.config, epoch, amount) ELSE 0
  IN [amount |-> amount, fee |-> fee,
      with |-> (IF report.hook THEN {"hook"} ELSE {})
                 \cup (IF report.fee THEN {"fee"} ELSE {})]

CanBeBuilt(report, amounts) == Len(amounts) \in 1..MaxRecipients /\ ~report.blocked

\* Each recipient gets an account, if there is none, and a transfer.
Built(report, amounts, seen) ==
  LET transfers == [i \in DOMAIN amounts |-> TransferOf(report, EpochUsed(report, seen), amounts[i])]
  IN [transfers |-> transfers,
      delivered |-> [i \in DOMAIN amounts |-> amounts[i] - transfers[i].fee],
      units |-> Terms!DeliveryComputeUnits(Len(amounts))]
-----------------------------------------------------------------------------
(* The record.                                                             *)

\* Completed by the answer to its own transaction, or found to have landed.
CompletedNow(amount, delivered) == [amount |-> delivered, grossAmount |-> amount]
CompletedLate(amount) == [amount |-> amount, grossAmount |-> amount]

\* A record from before the gross figure has the one amount.
OldRecord(amount) == [amount |-> amount, grossAmount |-> 0]

SentFromKeeper(send) == IF send.grossAmount # 0 THEN send.grossAmount ELSE send.amount
-----------------------------------------------------------------------------
(* Errors: what a message contains of the phrases that are looked for.     *)

\* isBatchTooLargeError.
IsTooLarge(says) ==
  says \cap {"ComputeBudget", "compute units exceeded", "exceeded CUs",
             "Transaction too large", "encoding overruns"} # {}

\* What the catch block of sendBatch makes of it.
ErrorOf(says) ==
  IF IsTooLarge(says) THEN "large"
  ELSE IF Venue!ClassifyError(Venue!Error("delivery", says, 0)) = "non-retryable" THEN "fatal"
  ELSE "other"

\* buildBatchSendTransaction throws, or the node does.
BuildErrors == {{"no recipients"}, {"too many recipients"}, {"429"}, {"network"}}
MintErrors == {{"cannot be distributed"}, {"mint not found"}}

\* The library serializes no more than 1232 bytes (external).
SerializeErrors == {{"Transaction too large"}, {"encoding overruns"}}

\* A transaction that ran and failed is told by the name the node has for the
\* error (external), without the program's log.
OnChainErrors == {{"failed on-chain", name} : name \in {"Custom", "ComputationalBudgetExceeded",
                                                      "InsufficientFundsForRent"}}
-----------------------------------------------------------------------------
(* Promises.                                                               *)

(* "We record what ARRIVED, not what was sent" (sendRounds.ts:770):        *)
(* whatever the epoch and the config that were cached, a transaction that  *)
(* runs delivers to each recipient what is written down, because one that  *)
(* would withhold another fee is refused.                                  *)
RecordedIsArrived(mint, report, seen, epoch, amounts) ==
  LET built == Built(report, amounts, seen) IN
  /\ CanBeBuilt(report, amounts)
  /\ \A i \in DOMAIN amounts : Succeeds(mint, epoch, built.transfers[i])
  /\ mint.fee = report.fee
  => \A i \in DOMAIN amounts :
       CompletedNow(amounts[i], built.delivered[i]).amount
         = amounts[i] - Withheld(mint, epoch, amounts[i])

(* A coin that is not blocked can be delivered to whoever is owed some of  *)
(* it: read afresh, every extension gets the instruction it needs.         *)
EveryCoinIsDelivered(mint, epoch, amounts) ==
  ~mint.blocked /\ Len(amounts) \in 1..MaxRecipients =>
    /\ CanBeBuilt(mint, amounts)
    /\ \A i \in DOMAIN amounts : Succeeds(mint, epoch, Built(mint, amounts, epoch).transfers[i])

(* However a delivery was completed, the figure of what left the keeper is *)
(* right; the figure of what arrived is too high by the fee when the       *)
(* delivery was found to have landed.                                      *)
KeeperIsDebited(mint, epoch, amount) ==
  LET now == CompletedNow(amount, amount - Withheld(mint, epoch, amount)) IN
  /\ \A send \in {now, CompletedLate(amount)} : SentFromKeeper(send) = amount
  /\ ~mint.fee => SentFromKeeper(OldRecord(amount)) = amount
  /\ CompletedLate(amount).amount - now.amount = Withheld(mint, epoch, amount)

(* A transaction that does not fit is halved, a coin that cannot be handed *)
(* on is given up, and nothing else is either.  So one that ran out of     *)
(* compute on chain is never halved, though "too big to run landed and     *)
(* failed ... so the halves may go now" (sendRounds.ts:802) expects it to  *)
(* be: its error has another name.                                         *)
ErrorsAreTold ==
  /\ \A says \in SerializeErrors : ErrorOf(says) = "large"
  /\ \A says \in MintErrors : ErrorOf(says) = "fatal"
  /\ \A says \in BuildErrors \cup OnChainErrors : ErrorOf(says) = "other"
=============================================================================
