----------------------------- MODULE RoundRecord -----------------------------
(***************************************************************************)
(* The round's record, the file the buyer lives by: every change           *)
(* OrchestratorStateManager makes to it, each saved whole by a rename.     *)
(*                                                                         *)
(* A record has its coins, its deliveries, its burns, its refund plan, the *)
(* tokens its purchases brought, and a summary.  SOL is counted in         *)
(* lamports, to which spentSol is rounded.  A change of something that is  *)
(* not on the record throws and changes nothing.                           *)
(***************************************************************************)
EXTENDS Naturals, Sequences, SequencesExt, FiniteSets

CONSTANTS Mints, Signatures

NoCoin == [status |-> "pending", files |-> <<>>, attempts |-> 0, spent |-> 0, burned |-> 0]
NoSummary == [bought |-> 0, failed |-> 0, sends |-> 0, completed |-> 0, satisfied |-> 0,
              abandoned |-> 0, mismatch |-> 0, finished |-> FALSE]
Fresh == [coins |-> [mint \in Mints |-> NoCoin], sends |-> <<>>, burns |-> <<>>, refunds |-> <<>>,
          tokens |-> [s \in {} |-> 0], summary |-> NoSummary]

CountOf(statuses, status) == Cardinality({i \in DOMAIN statuses : statuses[i] = status})

\* updateSummary.
WithSummary(record) ==
  [record EXCEPT !.summary =
    [bought    |-> CountOf([mint \in Mints |-> record.coins[mint].status], "completed"),
     failed    |-> CountOf([mint \in Mints |-> record.coins[mint].status], "failed"),
     sends     |-> Len(record.sends),
     completed |-> CountOf(record.sends, "completed"),
     satisfied |-> CountOf(record.sends, "satisfied"),
     abandoned |-> CountOf(record.sends, "abandoned"),
     mismatch  |-> CountOf(record.sends, "ata_mismatch"),
     finished  |-> record.summary.finished]]
-----------------------------------------------------------------------------
(* The changes.                                                            *)

\* updateTokenBuy.
UpdateTokenBuy(record, mint, coin) ==
  IF mint \notin Mints THEN record ELSE WithSummary([record EXCEPT !.coins[mint] = coin])

StartTokenBuy(record, mint, file) ==
  LET coin == record.coins[mint] IN
  UpdateTokenBuy(record, mint,
    [coin EXCEPT !.status = "in_progress", !.attempts = @ + 1,
                 !.files = IF file \in ToSet(@) THEN @ ELSE Append(@, file)])

AddTokenBuySpent(record, mint, lamports) ==
  UpdateTokenBuy(record, mint, [record.coins[mint] EXCEPT !.spent = @ + lamports])

MarkTokenBuy(record, mint, status) ==
  UpdateTokenBuy(record, mint, [record.coins[mint] EXCEPT !.status = status])

\* setRefunds: a plan that is there is not written over.
SetRefunds(record, plan) ==
  IF record.refunds # <<>> THEN record ELSE [record EXCEPT !.refunds = plan]

UpdateRefund(record, i, status) ==
  IF i \notin DOMAIN record.refunds THEN record ELSE [record EXCEPT !.refunds[i] = status]

\* recordPurchaseTokens: what is known stays.
RecordPurchaseTokens(record, found) ==
  [record EXCEPT !.tokens =
    [s \in DOMAIN @ \cup DOMAIN found |-> IF s \in DOMAIN @ THEN @[s] ELSE found[s]]]

AddBurn(record, raw) == [record EXCEPT !.burns = Append(@, [status |-> "pending", raw |-> raw])]
UpdateBurn(record, i, status) ==
  IF i \notin DOMAIN record.burns THEN record ELSE [record EXCEPT !.burns[i].status = status]

AddBurned(record, mint, raw) ==
  UpdateTokenBuy(record, mint, [record.coins[mint] EXCEPT !.burned = @ + raw])

AddSends(record, sends) ==
  IF sends = <<>> THEN record ELSE WithSummary([record EXCEPT !.sends = @ \o sends])

UpdateSend(record, i, status) ==
  IF i \notin DOMAIN record.sends THEN record ELSE WithSummary([record EXCEPT !.sends[i] = status])

Finalize(record) == [record EXCEPT !.summary.finished = TRUE]

\* One change of each kind, over the smallest of what it can be given.
Changes(record) ==
  LET statuses == {"completed", "failed"}
      sent     == {"completed", "satisfied", "abandoned", "ata_mismatch"}
  IN UNION {
       {StartTokenBuy(record, mint, file) : mint \in Mints, file \in {1, 2}},
       {AddTokenBuySpent(record, mint, 3) : mint \in Mints},
       {MarkTokenBuy(record, mint, status) : mint \in Mints, status \in statuses},
       {SetRefunds(record, plan) : plan \in {<<"pending">>, <<"pending", "pending">>}},
       {UpdateRefund(record, i, "completed") : i \in {1, 2}},
       {RecordPurchaseTokens(record, found) : found \in UNION {[part -> {1, 2}] : part \in SUBSET Signatures}},
       {AddBurn(record, 5)}, {UpdateBurn(record, i, "completed") : i \in {1, 2}},
       {AddBurned(record, mint, 5) : mint \in Mints},
       {AddSends(record, sends) : sends \in {<<>>, <<"pending">>, <<"pending", "pending">>}},
       {UpdateSend(record, i, status) : i \in {1, 2}, status \in sent},
       {Finalize(record)}}

\* What a record can become in some changes.
Reached[n \in Nat] ==
  IF n = 0 THEN {Fresh} ELSE Reached[n - 1] \cup UNION {Changes(record) : record \in Reached[n - 1]}
-----------------------------------------------------------------------------
(* Promises.                                                               *)

(* The summary is of the record, after every change: no change of a coin   *)
(* or of a delivery leaves it behind.                                      *)
SummaryIsCurrent(record) == WithSummary(record) = record

(* No change forgets: what a purchase brought, a planned refund, a batch   *)
(* file, SOL spent and tokens burned stay on the record, and so does the   *)
(* finish.                                                                 *)
NothingIsForgotten(record, changed) ==
  /\ \A s \in DOMAIN record.tokens : s \in DOMAIN changed.tokens /\ changed.tokens[s] = record.tokens[s]
  /\ record.refunds # <<>> => Len(changed.refunds) = Len(record.refunds)
  /\ Len(record.sends) <= Len(changed.sends) /\ Len(record.burns) <= Len(changed.burns)
  /\ record.summary.finished => changed.summary.finished
  /\ \A mint \in Mints :
       LET was == record.coins[mint]  is == changed.coins[mint] IN
       /\ IsPrefix(was.files, is.files)
       /\ was.spent <= is.spent /\ was.burned <= is.burned /\ was.attempts <= is.attempts
=============================================================================
