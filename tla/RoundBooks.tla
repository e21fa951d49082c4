----------------------------- MODULE RoundBooks -----------------------------
(***************************************************************************)
(* The books of one coin of a round: which signatures its files hold, what *)
(* each of them did to the keeper as a node tells it, how much the coin's  *)
(* purchases are known to have brought, and the audit that sets bought,    *)
(* delivered and burned against each other.                                *)
(*                                                                         *)
(* A node's answer about a signature is an effect, [found, delta], with    *)
(* the tokens the keeper gained; no answer, or one that cannot be read,    *)
(* leaves the signature out of `effects`.                                  *)
(***************************************************************************)
EXTENDS Integers, Sequences, FiniteSets, FiniteSetsExt, SequencesExt

CONSTANTS
  FinalAfter,      \* PENDING_FINAL_AFTER_MS
  Life,            \* for how long a signed transaction can land
  Lag              \* how far a node is behind, at the most

ASSUME BooksAssumption ==
  Life \in Nat /\ Lag \in Nat /\ FinalAfter \in Nat /\ Life + Lag <= FinalAfter

Unsigned == "no signature"
-----------------------------------------------------------------------------
(* A transaction as the chain tells it.                                    *)

\* tokenDeltasFor: the keeper's rows after, less those before; a row that is
\* missing is zero.
TokenDelta(tx, mint) ==
  LET held(rows) == MapThenSumSet(LAMBDA i : rows[i].amount,
                      {i \in DOMAIN rows : rows[i].owner = "keeper" /\ rows[i].mint = mint})
  IN held(tx.post) - held(tx.pre)

\* effectFrom: a transaction the node does not have brought nothing.
EffectOf(tx, mint) ==
  IF tx.missing THEN [found |-> FALSE, delta |-> 0]
  ELSE [found |-> TRUE, delta |-> TokenDelta(tx, mint)]
-----------------------------------------------------------------------------
(* The signatures in the files.                                            *)

\* completedPurchaseSignatures, across the batches the coin had.
CompletedPurchases(purchases) ==
  {p.signature : p \in {q \in ToSet(purchases) : q.status = "completed"}} \ {Unsigned}

\* The earlier attempts of a purchase, each with the time it was signed by.
EarlierOf(p) ==
  {[signature |-> a.signature, by |-> a.at] : a \in p.sentAttempts}
    \cup (IF p.pending \in {a.signature : a \in p.sentAttempts} THEN {}
          ELSE {[signature |-> p.pending, by |-> p.updatedAt]})

\* pendingPurchaseAttempts.
PendingAttempts(purchases) ==
  UNION {{a \in EarlierOf(p) : a.signature \notin {p.signature, Unsigned}} : p \in ToSet(purchases)}

Signatures(attempts) == {a.signature : a \in attempts}
-----------------------------------------------------------------------------
(* What the purchases brought.                                             *)

\* tokensBought: the signatures that are recorded, added up, and those that are
\* not.
TokensBought(purchases, recorded) ==
  LET completed == CompletedPurchases(purchases)
      earlier   == Signatures(PendingAttempts(purchases)) \ completed
  IN [known |-> MapThenSumSet(LAMBDA s : recorded[s],
                              (completed \cup earlier) \cap DOMAIN recorded),
      unread |-> completed \ DOMAIN recorded,
      unreadPending |-> earlier \ DOMAIN recorded]

\* Whether an attempt the node does not have can no longer land.
Expired(purchases, signature, now) ==
  \E a \in PendingAttempts(purchases) : a.signature = signature /\ now - a.by > FinalAfter

\* refreshPurchaseTokens: what is found, and the attempts that expired, are
\* recorded; the rest is asked about again.
Refreshed(purchases, recorded, effects, now) ==
  LET bought == TokensBought(purchases, recorded)
      final  == {s \in (bought.unread \cup bought.unreadPending) \cap DOMAIN effects :
                   \/ effects[s].found
                   \/ s \in bought.unreadPending /\ Expired(purchases, s, now)}
  IN [s \in DOMAIN recorded \cup final |->
        IF s \in DOMAIN recorded THEN recorded[s]
        ELSE IF effects[s].found THEN Max({0, effects[s].delta}) ELSE 0]
-----------------------------------------------------------------------------
(* The last word on the burns.                                             *)

\* FINISH_BURN_DELAYS_MS, in seconds: the pause before each visit.
FinishBurnDelays == <<0, 30, 60, 120>>

\* A visit answers with burnDueFor's result and whether a purchase is unread.
StillWaiting(answer) == answer.result = "waiting" \/ (answer.unread /\ answer.result # "blocked")

\* finishBurns: answers[n][mint] is what visit n would bring; what is still
\* waiting is visited again, and is named when the visits are over.
Unfinished(mints, answers) ==
  FoldLeft(LAMBDA waiting, answer : {mint \in waiting : StillWaiting(answer[mint])}, mints, answers)
-----------------------------------------------------------------------------
(* The audit.                                                              *)

\* coinSignatures: every signature the coin could have moved tokens with.
CoinSignatures(books) ==
  LET completed == CompletedPurchases(books.purchases) IN
  [completed |-> completed,
   earlier |-> Signatures(PendingAttempts(books.purchases)) \ completed,
   deliveries |-> UNION {{s.signature, s.pending} \cup s.failed : s \in books.sends} \ {Unsigned},
   burns |-> UNION {{b.signature, b.pending} : b \in books.burns} \ {Unsigned}]

\* reconcileRound.
Reconciled(books, effects) ==
  LET sigs  == CoinSignatures(books)
      delta(s)  == IF s \in DOMAIN effects THEN effects[s].delta ELSE 0
      gain(S)   == MapThenSumSet(LAMBDA s : Max({0, delta(s)}), S)
      out(S)    == MapThenSumSet(LAMBDA s : Max({0, -delta(s)}), S \cap DOMAIN effects)
      unread    == {s \in sigs.completed : s \notin DOMAIN effects \/ ~effects[s].found}
      bought    == MapThenSumSet(delta, sigs.completed \ unread) + gain(sigs.earlier)
  IN [bought |-> bought, delivered |-> out(sigs.deliveries), burned |-> out(sigs.burns),
      residual |-> bought - out(sigs.deliveries) - out(sigs.burns),
      unreadPurchases |-> Cardinality(unread),
      unreadTransfers |-> Cardinality((sigs.deliveries \cup sigs.burns) \ DOMAIN effects)]

\* isStranded: more is left than rounding leaves, and everything was read.
IsStranded(row, wallets) ==
  row.unreadPurchases = 0 /\ row.unreadTransfers = 0 /\ row.residual > wallets + 2
-----------------------------------------------------------------------------
(* Promises.  `chain` says of every signature that landed when it did and  *)
(* what it brought the keeper.                                             *)

\* What nodes may answer at `now`: a transaction is missed while the node is
\* behind, and nothing is made up.
Honest(effects, chain, now) ==
  \A s \in DOMAIN effects :
    IF effects[s].found THEN s \in DOMAIN chain /\ chain[s].at <= now /\ effects[s].delta = chain[s].delta
    ELSE effects[s].delta = 0 /\ (s \in DOMAIN chain => chain[s].at + Lag > now)

\* Nothing lands after its blockhash has run out: an attempt was signed when
\* its own record says, or else before the purchase last changed.
InTime(purchases, chain) ==
  \A p \in ToSet(purchases) :
    /\ \A a \in p.sentAttempts : a.signature \in DOMAIN chain => chain[a.signature].at <= a.at + Life
    /\ p.pending \in DOMAIN chain => chain[p.pending].at <= p.updatedAt + Life

Brought(chain, S) == MapThenSumSet(LAMBDA s : chain[s].delta, S \cap DOMAIN chain)

(* No purchase is written off that landed, or still may: what is recorded  *)
(* is what it brought, so the known is never more than was bought, and     *)
(* nothing is missing from it once nothing is unread.                      *)
NothingIsWrittenOff(purchases, chain, recorded, effects, now) ==
  LET after  == Refreshed(purchases, recorded, effects, now)
      bought == TokensBought(purchases, after)
      all    == CompletedPurchases(purchases) \cup Signatures(PendingAttempts(purchases))
  IN InTime(purchases, chain) /\ Honest(effects, chain, now) =>
       /\ \A s \in DOMAIN after \ DOMAIN recorded : after[s] = Brought(chain, {s})
       /\ recorded = <<>> =>
            /\ bought.known <= Brought(chain, all)
            /\ bought.unread \cup bought.unreadPending = {} => bought.known = Brought(chain, all)

(* No burn is left behind in silence: of a coin that finishBurns does not  *)
(* name, some visit found all purchases read and burned what the account   *)
(* held of the rest, or found the burn refused.  None is visited again.    *)
UnfinishedIsTold(mints, answers) ==
  LET settled(mint) == {n \in DOMAIN answers : ~StillWaiting(answers[n][mint])} IN
  /\ \A mint \in mints \ Unfinished(mints, answers) : \E n \in settled(mint) :
       \/ answers[n][mint].result = "blocked"
       \/ answers[n][mint].result \in {"burned", "nothing"} /\ ~answers[n][mint].unread
  /\ \A mint \in mints, n \in DOMAIN answers : settled(mint) \cap 1..n # {} =>
       mint \notin Unfinished(mints, SubSeq(answers, 1, n))

(* A burn sent as the settlement ended can no longer land at the last      *)
(* visit, which therefore can tell its fate; life is for how long a signed *)
(* transaction can land, in seconds.                                       *)
LastVisitKnows(life) == FoldLeft(+, 0, FinishBurnDelays) > life

(* The audit calls a coin stranded only when that much of it is left: what *)
(* could not be read is never taken for what did not happen, and no        *)
(* transfer of the coin that landed is missing from the signatures.        *)
StrandedIsLeft(books, chain, effects, now, wallets) ==
  /\ \A s \in DOMAIN chain : chain[s].at + Lag <= now
  /\ Honest(effects, chain, now)
  /\ IsStranded(Reconciled(books, effects), wallets)
  => Brought(chain, DOMAIN chain) > wallets + 2

(* The audit and the buyer count the same purchases: what landed is known  *)
(* to the buyer once it was read, and both say the same of what was        *)
(* bought.                                                                 *)
AuditAgreesWithBuyer(books, chain, now) ==
  LET sigs    == CoinSignatures(books)
      effects == [s \in sigs.completed \cup sigs.earlier |->
                    IF s \in DOMAIN chain THEN [found |-> TRUE, delta |-> chain[s].delta]
                    ELSE [found |-> FALSE, delta |-> 0]]
      bought  == TokensBought(books.purchases, Refreshed(books.purchases, <<>>, effects, now))
  IN /\ bought.unread = sigs.completed \ DOMAIN chain
     /\ bought.unreadPending \cap DOMAIN chain = {}
     /\ bought.unread = {} => Reconciled(books, effects).bought = bought.known
=============================================================================
