------------------------------ MODULE Delivery ------------------------------
(***************************************************************************)
(* Delivering one coin's tokens to its backers: the delivery rounds, the   *)
(* settlement after the buying and the sweep of the buyer's               *)
(* runBuyAndSend, the sends of the round's state file, and the chain the   *)
(* transfers land on.  The process may die at any point before the round   *)
(* is finalized; recovery starts over from the state file.                 *)
(*                                                                         *)
(* A coin is visited once in every round.  The burn that opens a visit is  *)
(* module BurnLedger; here it takes what is owed of what is known to be    *)
(* bought, or nothing.  Saves that no await separates are one step.        *)
(***************************************************************************)
EXTENDS SendAmounts, SequencesExt

CONSTANTS
  Backings,        \* how the round may start: the burn weight of each backer,
                   \* and the wallets that had a token account
  Lot,             \* raw tokens one purchase brings
  Rounds,          \* delivery rounds
  Sweeps,          \* passes of the sweep
  BatchSize,       \* recipients of one transaction
  MaxAttempts,     \* MAX_SEND_ATTEMPTS
  MinTopUp,        \* TOP_UP_MIN_SOL, in tokens
  MaxLots,         \* bound: purchases of the coin
  MaxTxs,          \* bound: transfers signed
  MaxCrashes,      \* bound: deaths of the process
  MaxEvents        \* bound: all of these together, a death counting for two

ASSUME DeliveryAssumption ==
  /\ Backings \subseteq [burn : [Wallets -> Nat], hadAta : SUBSET Wallets]
  /\ \A start \in Backings, w \in Wallets : start.burn[w] <= Bet[w] * Full
  /\ Lot \in Nat /\ MinTopUp \in Nat /\ MaxLots \in Nat
  /\ MaxTxs \in Nat /\ MaxCrashes \in Nat /\ MaxEvents \in Nat
  /\ Rounds \in Nat \ {0} /\ Sweeps \in Nat \ {0}
  /\ BatchSize \in Nat \ {0} /\ MaxAttempts \in Nat \ {0}

VARIABLES
  burn,            \* the burn weight of each backer
  hadAta,          \* wallets that had a token account when the round started
  lots,            \* purchases landed on the keeper
  read,            \* those of them recorded in purchaseTokens
  burned,          \* tokens destroyed
  keeper,          \* tokens on the keeper's account
  got,             \* tokens that arrived, per wallet
  sends,           \* the state file's sends, by number
  txs,             \* the transfers signed: [fate, pays]
  phase,           \* where runBuyAndSend is
  pass,            \* which delivery round, or which pass of the sweep
  pc,              \* where it is in the coin's visit
  due,             \* the sends of this visit
  skip,            \* those of them nobody can tell the fate of
  work,            \* the batches of its transfers
  crashes,         \* how often the process died
  broke,           \* history: an error broke the phase off
  ignored,         \* history: sends whose transfer had landed, or could, when
                   \* their wallet was given more without counting them
  settledPot,      \* history: the pot the settlement worked from
  leftQueued,      \* history: wallets it left to a queued send that held a
                   \* signature
  sharedShort      \* history: a pot that missed tokens was shared out since

startVars == <<burn, hadAta>>
chainVars == <<lots, burned, keeper, got, txs>>
passVars  == <<pc, due, skip, work>>
histVars  == <<broke, ignored, settledPot, leftQueued, sharedShort>>
vars == <<burn, hadAta, lots, read, burned, keeper, got, sends, txs, phase, pass, pc, due, skip,
          work, crashes, broke, ignored, settledPot, leftQueued, sharedShort>>

\* Whether somebody behind the coin asked for a burn.
Exact == \E w \in Wallets : burn[w] > 0

Events == lots + Len(txs) + 2 * crashes

Ids == DOMAIN sends
With(status) == {i \in Ids : sends[i].status = status}

\* The members of a set in an order that is given by what comes before each.
Ordered(before) ==
  [n \in 1..Cardinality(DOMAIN before) |->
     CHOOSE x \in DOMAIN before : Cardinality(before[x]) = n - 1]

InOrder(numbers) == Ordered([i \in numbers |-> {j \in numbers : j < i}])

\* What the records say arrived, in all and per wallet.
Sent == [w \in Wallets |->
           SumFunctionOnSet([i \in Ids |-> sends[i].amount],
                            {i \in With("completed") : sends[i].wallet = w})]
AllSent == SumFunction(Sent)

\* What the chain says a send brought.
LandedOf(i) ==
  SumFunction([k \in {n \in DOMAIN txs : txs[n].fate = "landed" /\ i \in DOMAIN txs[n].pays}
                 |-> txs[k].pays[i]])

\* The pot a visit shares out: read from the purchases where somebody burns,
\* else inferred from a balance.
Pot(balance) == IF Exact THEN read * Lot ELSE balance + AllSent

\* signatureOutcome, as in BurnLedger; a transfer that ran and failed and one
\* that can no longer get on chain have brought nothing alike.
Verdicts(fate) ==
  CASE fate = "landed" -> {"landed", "unknown"}
    [] fate = "void"   -> {"nothing", "unknown"}
    [] OTHER           -> {"unknown"}

\* snapshotRecipientAtas: who had a token account when the round started; one
\* that could not be read counts as none.
Snapshot(answers) == {w \in DOMAIN answers : answers[w] = "there"}

NewSend(w, r) ==
  [wallet |-> w, round |-> r, status |-> "pending", attempts |-> 0, amount |-> 0, tx |-> 0]

\* generateSendRecords: one record per wallet and round, wallet after wallet, none
\* for a wallet that burns everything.
FirstSends(weights) ==
  LET backer     == SetToSeq(Wallets)
      Parcels(n) == IF weights[backer[n]] = Bet[backer[n]] * Full THEN <<>>
                    ELSE AssignRounds(SendN(Bet[backer[n]]), Rounds)
      all        == {p \in (DOMAIN backer) \X (1..Rounds) : p[2] \in DOMAIN Parcels(p[1])}
      order      ==
        Ordered([p \in all |-> {q \in all : q[1] < p[1] \/ (q[1] = p[1] /\ q[2] < p[2])}])
  IN [m \in DOMAIN order |-> NewSend(backer[order[m][1]], Parcels(order[m][1])[order[m][2]])]

Init ==
  /\ \E start \in Backings : burn = start.burn /\ hadAta = start.hadAta
  /\ lots = 0 /\ read = 0 /\ burned = 0
  /\ keeper = 0 /\ got = [w \in Wallets |-> 0]
  /\ sends = FirstSends(burn)
  /\ txs = <<>>
  /\ phase = "rounds" /\ pass = 1 /\ pc = "waiting"
  /\ due = {} /\ skip = {} /\ work = <<>>
  /\ crashes = 0 /\ broke = FALSE /\ ignored = {}
  /\ settledPot = 0 /\ leftQueued = {} /\ sharedShort = FALSE
-----------------------------------------------------------------------------
(* The chain, and the buying beside.                                       *)

\* A purchase lands.  It is looked for where a visit reads the purchases or the
\* balance; while sends are under way it would be seen by nothing.
Buy ==
  /\ phase # "done"
  /\ pc \in {"waiting", "sharing", "settling"}
  /\ lots < MaxLots /\ Events + 1 <= MaxEvents
  /\ lots' = lots + 1
  /\ keeper' = keeper + Lot
  /\ UNCHANGED <<startVars, read, burned, got, sends, txs, phase, pass, passVars, crashes, histVars>>

\* Whether a batch is about to hand transfer k to a node.
BeingSent(k) == \E b \in DOMAIN work : work[b].at = "sending" /\ sends[work[b].ids[1]].tx = k

Pays(k) == SumFunction(txs[k].pays)

\* A transfer in the network lands, if the keeper has the tokens, or fails, or
\* runs out of blocks; one that never left can only run out of them.
Decide(k, fate) ==
  /\ \/ /\ fate = "landed" /\ txs[k].fate = "flying" /\ Pays(k) <= keeper
        /\ keeper' = keeper - Pays(k)
        /\ got' = [w \in Wallets |-> got[w] +
             SumFunctionOnSet(txs[k].pays, {i \in DOMAIN txs[k].pays : sends[i].wallet = w})]
     \/ /\ fate = "void" /\ txs[k].fate \in {"signed", "flying"} /\ ~BeingSent(k)
        /\ UNCHANGED <<keeper, got>>
  /\ txs' = [txs EXCEPT ![k].fate = fate]
  /\ UNCHANGED <<startVars, lots, read, burned, sends, phase, pass, passVars, crashes, histVars>>
-----------------------------------------------------------------------------
(* The frame of the visits: which one comes after which.                   *)

ClearPass == due' = {} /\ skip' = {} /\ work' = <<>>

\* The visit is over, with the sends as given: the next round; the settlement
\* after the last; the next pass of the sweep while something is queued.  The
\* sweep puts abandoned sends back that are short of attempts and were not
\* refused for good: retries stop for no other reason, so there are none.
Onward(after) ==
  LET queued == \E i \in DOMAIN after : after[i].status = "pending" IN
  /\ pc' = "waiting"
  /\ ClearPass
  /\ CASE phase = "rounds" /\ pass < Rounds            -> phase' = "rounds" /\ pass' = pass + 1
       [] phase = "rounds" /\ pass = Rounds            -> phase' = "settle" /\ pass' = 1
       [] phase = "settle" /\ queued                   -> phase' = "sweep" /\ pass' = 1
       [] phase = "sweep" /\ queued /\ pass < Sweeps   -> phase' = "sweep" /\ pass' = pass + 1
       [] OTHER                                        -> phase' = "done" /\ pass' = 1

\* refreshPurchaseTokens and burnDueFor: some of the purchases are read, and
\* the fire takes what it is owed of them, or is put off.
ReadAndBurn ==
  IF Exact
  THEN \E n \in read..lots :
         LET owed == Max({0, Min({BurnOwed(n * Lot, burn) - burned, keeper})}) IN
         /\ read' = n
         /\ \E b \in {0, owed} : burned' = burned + b /\ keeper' = keeper - b
  ELSE UNCHANGED <<read, burned, keeper>>

\* The sends a visit takes: those of its round and earlier ones; in the sweep
\* every one that waits.
DueNow == {i \in With("pending") : phase = "sweep" \/ sends[i].round <= pass}

StartVisit ==
  /\ phase \in {"rounds", "sweep"}
  /\ pc = "waiting"
  /\ ReadAndBurn
  /\ \/ /\ DueNow # {}
        /\ due' = DueNow
        /\ pc' = "checking"
        /\ UNCHANGED <<phase, pass, skip, work>>
     \/ Onward(sends)          \* nothing due, or the mint is unreadable
  /\ UNCHANGED <<startVars, lots, got, sends, txs, crashes, histVars>>
-----------------------------------------------------------------------------
(* The checks before the amounts.                                          *)

Close(s) == [s EXCEPT !.status = "completed", !.tx = 0]

Unasked == {i \in due \ skip : sends[i].tx # 0}

\* mutant: a signature the node cannot tell about counts as gone
CheckForgetsUnknown(i, verdict) ==
  /\ pc = "checking"
  /\ i \in Unasked
  /\ \A j \in Unasked : i <= j
  /\ verdict \in Verdicts(txs[sends[i].tx].fate)
  /\ sends' = [sends EXCEPT ![i] = IF verdict = "landed" THEN Close(@) ELSE [@ EXCEPT !.tx = 0]]
  /\ UNCHANGED <<startVars, read, chainVars, phase, pass, passVars, crashes, histVars>>

\* checkPendingSend, for the next send that holds a signature.
CheckPendingSend(i, verdict) ==
  /\ pc = "checking"
  /\ i \in Unasked
  /\ \A j \in Unasked : i <= j
  /\ verdict \in Verdicts(txs[sends[i].tx].fate)
  /\ CASE verdict = "landed"  -> sends' = [sends EXCEPT ![i] = Close(@)] /\ UNCHANGED skip
       [] verdict = "unknown" -> skip' = skip \cup {i} /\ UNCHANGED sends
       [] OTHER               -> sends' = [sends EXCEPT ![i].tx = 0] /\ UNCHANGED skip
  /\ UNCHANGED <<startVars, read, chainVars, phase, pass, pc, due, work, crashes, histVars>>

\* mutant: only the send in doubt is held back, not the wallet's other ones
UnsureSendOnly == {i \in due : i \notin skip}

\* The sends of wallets with no transfer in doubt.
Sure == {i \in due : \A j \in skip : sends[j].wallet # sends[i].wallet}

\* The token accounts that are looked at.
Looked == {sends[i].wallet : i \in Sure} \cap hadAta

\* The rules for a token account that has gone missing: a small commit is
\* blocked, a large one waits for the last round.  Every send of the visit is
\* marked, one just closed as delivered too.
CheckAtas(missing) ==
  LET gone     == {i \in Sure : sends[i].wallet \in missing}
      blocked  == {i \in gone : Bet[sends[i].wallet] < 5}
      deferred == {i \in gone : Bet[sends[i].wallet] >= 10 /\ phase = "rounds" /\ pass < Rounds}
  IN
  /\ pc = "checking"
  /\ Unasked = {}
  /\ missing \subseteq Looked
  /\ sends' = [i \in Ids |-> IF i \in blocked THEN [sends[i] EXCEPT !.status = "ata_mismatch"]
                             ELSE sends[i]]
  /\ due' = Sure \ (blocked \cup deferred)
  /\ pc' = "sharing"
  /\ UNCHANGED <<startVars, read, chainVars, phase, pass, skip, work, crashes, histVars>>

\* An account that cannot be read breaks the whole phase off: the round goes on
\* to the refunds and is finalized.
AtaUnreadable ==
  /\ pc = "checking"
  /\ Unasked = {}
  /\ Looked # {}
  /\ phase' = "done"
  /\ pass' = 1
  /\ pc' = "waiting"
  /\ ClearPass
  /\ broke' = TRUE
  /\ UNCHANGED <<startVars, read, chainVars, sends, crashes, ignored, settledPot, leftQueued, sharedShort>>
-----------------------------------------------------------------------------
(* The amounts, and the batches.                                           *)

\* A batch: the sends in hand, the halves that wait for them, how far it is.
Batch(ids) == [ids |-> ids, later |-> <<>>, at |-> "building"]

\* What a wallet is to have of the pot.
Target(pot, w) == DeliveryOwed(pot, w, burn)

\* The sends that carry, or may have carried, tokens the amounts do not count:
\* given up, blocked, or of a later round, as after a restart.
Overlooked ==
  {j \in Ids :
     /\ \/ sends[j].status \in {"abandoned", "ata_mismatch"}
        \/ sends[j].status = "pending" /\ j \notin DueNow
     /\ \E k \in DOMAIN txs : j \in DOMAIN txs[k].pays /\ txs[k].fate \in {"signed", "flying", "landed"}}

\* The balance is read (zero when it cannot be), the amounts are worked out,
\* sends with nothing to carry are satisfied, the others are marked with what
\* they carry and cut into batches.
ShareOut(balance) ==
  LET open   == {i \in due : sends[i].status = "pending"}
      pot    == Pot(balance)
      amount == DeficitAmounts(sends, open, balance, Sent,
                               [w \in Wallets |-> Target(pot, w)])
      filled == {i \in open : amount[i] = 0}
      order  == InOrder(open \ filled)
      after  == [i \in Ids |->
                   IF i \in filled THEN [sends[i] EXCEPT !.status = "satisfied"]
                   ELSE IF i \in open
                   THEN [sends[i] EXCEPT !.status = "in_progress", !.amount = amount[i]]
                   ELSE sends[i]]
  IN
  /\ pc = "sharing"
  /\ balance \in {0, keeper}
  /\ IF balance <= 0
     THEN Onward(sends) /\ UNCHANGED <<sends, ignored, sharedShort>>
     ELSE /\ sends' = after
          /\ ignored' = ignored \cup {j \in Overlooked :
                                      \E i \in open \ filled : sends[i].wallet = sends[j].wallet}
          /\ sharedShort' = (sharedShort \/ (~Exact /\ pot < lots * Lot))
          /\ IF open = filled THEN Onward(after)
             ELSE /\ pc' = "sending"
                  /\ work' = [b \in 1..((Len(order) + BatchSize - 1) \div BatchSize) |->
                               Batch(SubSeq(order, (b - 1) * BatchSize + 1,
                                            Min({b * BatchSize, Len(order)})))]
                  /\ due' = {} /\ skip' = {}
                  /\ UNCHANGED <<phase, pass>>
  /\ UNCHANGED <<startVars, read, chainVars, crashes, broke, settledPot, leftQueued>>
-----------------------------------------------------------------------------
(* sendBatch: the batches of a visit run side by side.                     *)

InHand(b) == ToSet(work[b].ids)

\* The sends in hand, changed.
Change(b, New(_)) == [i \in Ids |-> IF i \in InHand(b) THEN New(sends[i]) ELSE sends[i]]

\* The batch is done with the sends in hand and turns to the halves that wait.
Turn(b, later) ==
  work' = [work EXCEPT ![b] = IF later = <<>> THEN [@ EXCEPT !.at = "over"]
                              ELSE [ids |-> Head(later), later |-> Tail(later), at |-> "building"]]

Goto(b, at) == work' = [work EXCEPT ![b].at = at]

\* onSigned: every send in hand has the signature before the transfer leaves.
Sign(b) ==
  /\ work[b].at = "building"
  /\ Len(txs) < MaxTxs /\ Events + 1 <= MaxEvents
  /\ txs' = Append(txs, [fate |-> "signed", pays |-> [i \in InHand(b) |-> sends[i].amount]])
  /\ sends' = Change(b, LAMBDA s : [s EXCEPT !.tx = Len(txs) + 1])
  /\ Goto(b, "sending")
  /\ UNCHANGED <<startVars, lots, read, burned, keeper, got, phase, pass, pc, due, skip, crashes, histVars>>

Abandoned(s) == [s EXCEPT !.status = "abandoned", !.attempts = @ + 1]

\* mutant: the signature goes with the attempt
QueuedBare(s) == [s EXCEPT !.status = "pending", !.attempts = @ + 1, !.tx = 0]

QueuedAgain(s) == [s EXCEPT !.status = "pending", !.attempts = @ + 1]

LastAttempt(s) == s.attempts + 1 >= MaxAttempts

\* The catch block.  Too large is halved; refused for good is abandoned;
\* anything else is queued again until its attempts run out.  The signature
\* stays, except when halving.
Failed(b, error) ==
  LET n    == Len(work[b].ids)
      half == (n + 1) \div 2
  IN
  IF error = "large" /\ n > 1
  THEN /\ sends' = Change(b, LAMBDA s : [s EXCEPT !.tx = 0])
       /\ Turn(b, <<SubSeq(work[b].ids, 1, half), SubSeq(work[b].ids, half + 1, n)>> \o work[b].later)
  ELSE /\ sends' = Change(b, LAMBDA s : IF error = "fatal" \/ LastAttempt(s) THEN Abandoned(s)
                                        ELSE QueuedAgain(s))
       /\ Turn(b, work[b].later)

Errors == {"other", "fatal", "large"}

\* The transaction cannot be built or signed.
BuildFails(b, error) ==
  /\ work[b].at = "building"
  /\ error # "large"
  /\ Failed(b, error)
  /\ UNCHANGED <<startVars, read, chainVars, phase, pass, pc, due, skip, crashes, histVars>>

\* sendRawTransaction: the node takes it, and says so or its answer is lost, as
\* is that of a node that never got it; or it refuses it in preflight, and
\* passes it to nobody.
SendRaw(b) ==
  LET k == sends[work[b].ids[1]].tx
      Fate(f) == txs' = [txs EXCEPT ![k].fate = f]
  IN
  /\ work[b].at = "sending"
  /\ \/ Fate("flying") /\ Goto(b, "confirming") /\ UNCHANGED sends
     \/ Fate("flying") /\ Failed(b, "other")
     \/ Fate("void") /\ \E e \in Errors : Failed(b, e)
  /\ UNCHANGED <<startVars, lots, read, burned, keeper, got, phase, pass, pc, due, skip, crashes, histVars>>

Confirmed(b) ==
  /\ work[b].at = "confirming"
  /\ txs[sends[work[b].ids[1]].tx].fate = "landed"
  /\ sends' = Change(b, LAMBDA s : [Close(s) EXCEPT !.attempts = @ + 1])
  /\ Turn(b, work[b].later)
  /\ UNCHANGED <<startVars, read, chainVars, phase, pass, pc, due, skip, crashes, histVars>>

\* The wait ends without a confirmation, whatever became of the transfer; only
\* one that ran and failed is refused for good or found too large.
NotConfirmed(b, error) ==
  /\ work[b].at = "confirming"
  /\ error # "other" => txs[sends[work[b].ids[1]].tx].fate = "void"
  /\ Failed(b, error)
  /\ UNCHANGED <<startVars, read, chainVars, phase, pass, pc, due, skip, crashes, histVars>>

EndVisit ==
  /\ pc = "sending"
  /\ \A b \in DOMAIN work : work[b].at = "over"
  /\ Onward(sends)
  /\ UNCHANGED <<startVars, read, chainVars, sends, crashes, histVars>>
-----------------------------------------------------------------------------
(* settleAfterBuying.                                                      *)

SettleStart ==
  /\ phase = "settle"
  /\ pc = "waiting"
  /\ ReadAndBurn
  /\ due' = {i \in With("abandoned") : sends[i].tx # 0}
  /\ pc' = "settling"
  /\ UNCHANGED <<startVars, lots, got, sends, txs, phase, pass, skip, work, crashes, histVars>>

\* topUpsFor asks about the signatures of abandoned sends first.
SettleAbandoned(i, verdict) ==
  /\ pc = "settling"
  /\ i \in due
  /\ \A j \in due : i <= j
  /\ verdict \in Verdicts(txs[sends[i].tx].fate)
  /\ due' = due \ {i}
  /\ skip' = IF verdict = "unknown" THEN skip \cup {i} ELSE skip
  /\ sends' = IF verdict = "landed" THEN [sends EXCEPT ![i] = Close(@)] ELSE sends
  /\ UNCHANGED <<startVars, read, chainVars, phase, pass, pc, work, crashes, histVars>>

\* Wallets that are queued already, or have a transfer nobody can tell about.
Busy == {sends[i].wallet : i \in With("pending") \cup With("in_progress") \cup skip}

\* One more send for every other wallet short of its share.
TopUps(balance) ==
  LET pot   == Pot(balance)
      first == {i \in Ids : \A j \in Ids : j < i => sends[j].wallet # sends[i].wallet}
      short == {i \in first :
                  LET missing == Target(pot, sends[i].wallet) - Sent[sends[i].wallet] IN
                  sends[i].wallet \notin Busy /\ missing > 0 /\ missing >= MinTopUp}
      order == InOrder(short)
      after == sends \o [n \in DOMAIN order |-> NewSend(sends[order[n]].wallet, Rounds)]
  IN
  /\ pc = "settling"
  /\ due = {}
  /\ balance \in {0, keeper}
  /\ sends' = after
  /\ settledPot' = pot
  /\ leftQueued' = {sends[i].wallet : i \in {j \in With("pending") : sends[j].tx # 0}}
  /\ sharedShort' = FALSE
  /\ Onward(after)
  /\ UNCHANGED <<startVars, read, chainVars, crashes, broke, ignored>>
-----------------------------------------------------------------------------
\* mutant: recovery leaves a send that was under way as it was
ResumeForgetsInProgress(s) == s

\* planResume: a send that was under way is queued, its signature kept.
Resumed(s) == IF s.status = "in_progress" THEN [s EXCEPT !.status = "pending"] ELSE s

\* The process dies, and resumeLottery runs the round's file from the start.
Crash ==
  /\ phase # "done"
  /\ crashes < MaxCrashes /\ Events + 2 <= MaxEvents
  /\ crashes' = crashes + 1
  /\ sends' = [i \in Ids |-> Resumed(sends[i])]
  /\ phase' = "rounds"
  /\ pass' = 1
  /\ pc' = "waiting"
  /\ ClearPass
  /\ UNCHANGED <<startVars, read, chainVars, histVars>>

SendBatch(b) ==
  \/ Sign(b) \/ SendRaw(b) \/ Confirmed(b)
  \/ \E e \in Errors : BuildFails(b, e) \/ NotConfirmed(b, e)

Chain == \E k \in DOMAIN txs, f \in {"landed", "void"} : Decide(k, f)

AnyVerdict == {"landed", "nothing", "unknown"}

Visit ==
  \/ StartVisit
  \/ \E i \in Ids, v \in AnyVerdict : CheckPendingSend(i, v)
  \/ \E missing \in SUBSET hadAta : CheckAtas(missing)
  \/ AtaUnreadable
  \/ \E balance \in {0, keeper} : ShareOut(balance)
  \/ \E b \in DOMAIN work : SendBatch(b)
  \/ EndVisit

Settle ==
  \/ SettleStart
  \/ \E i \in Ids, v \in AnyVerdict : SettleAbandoned(i, v)
  \/ \E balance \in {0, keeper} : TopUps(balance)

Next == Buy \/ Chain \/ Visit \/ Settle \/ Crash

Spec == Init /\ [][Next]_vars
-----------------------------------------------------------------------------
(* Properties.                                                             *)

SendType ==
  [wallet : Wallets, round : 1..Rounds, attempts : 0..MaxAttempts, amount : Nat, tx : 0..Len(txs),
   status : {"pending", "in_progress", "completed", "abandoned", "satisfied", "ata_mismatch"}]

\* Types.
TypeOK ==
  /\ [burn |-> burn, hadAta |-> hadAta] \in Backings
  /\ lots \in Nat /\ read \in 0..lots /\ burned \in Nat /\ keeper \in Nat
  /\ got \in [Wallets -> Nat]
  /\ sends \in Seq(SendType)
  /\ \A k \in DOMAIN txs :
       /\ txs[k].fate \in {"signed", "flying", "landed", "void"}
       /\ DOMAIN txs[k].pays \subseteq Ids
       /\ \A i \in DOMAIN txs[k].pays : txs[k].pays[i] \in Nat \ {0}
  /\ phase \in {"rounds", "settle", "sweep", "done"}
  /\ pass \in 1..Max({Rounds, Sweeps})
  /\ pc \in {"waiting", "checking", "sharing", "sending", "settling"}
  /\ due \subseteq Ids /\ skip \subseteq Ids
  /\ \A b \in DOMAIN work : work[b].at \in {"building", "sending", "confirming", "over"}
  /\ crashes \in 0..MaxCrashes /\ broke \in BOOLEAN
  /\ ignored \subseteq Ids
  /\ settledPot \in Nat /\ leftQueued \subseteq Wallets /\ sharedShort \in BOOLEAN

\* No delivery is signed again while its last transfer has landed or still may:
\* a record is paid at most once, through lost answers, timeouts, halved
\* batches and restarts (sendRounds.ts:419, "Closes a delivery if its previous
\* transaction did arrive after all").
OnePaymentPerRecord ==
  \A i \in Ids :
    Cardinality({k \in DOMAIN txs : /\ i \in DOMAIN txs[k].pays
                                    /\ txs[k].fate \in {"signed", "flying", "landed"}}) <= 1

\* Every token that left the keeper is on record: a landed transfer is counted
\* at its amount, or its signature is still held, or the account rules have
\* overwritten the record; and nothing is counted that did not land.
EveryTransferOnRecord ==
  \A i \in Ids :
    /\ sends[i].status = "completed" => LandedOf(i) = sends[i].amount /\ LandedOf(i) > 0
    /\ \A k \in DOMAIN txs :
         txs[k].fate = "landed" /\ i \in DOMAIN txs[k].pays =>
           sends[i].status \in {"completed", "ata_mismatch"} \/ sends[i].tx = k

\* A wallet receives more than its share of what was bought, its own burn taken
\* off, only by what a transfer carried that was given up, overwritten or left
\* for a later round when the wallet was given more; so the fire's share is
\* delivered to nobody else either.
FairShare ==
  \A w \in Wallets :
    got[w] <= DeliveryOwed(lots * Lot, w, burn)
                 + SumFunction([i \in {j \in ignored : sends[j].wallet = w} |-> LandedOf(i)])

\* The wallet has its share of what the settlement knew of, or a send that says
\* it has not.
SettledOrOnRecord(w) ==
  \/ Target(settledPot, w) - Sent[w] < Max({1, MinTopUp})
  \/ \E i \in Ids : /\ sends[i].wallet = w
                    /\ sends[i].status \in {"pending", "abandoned", "ata_mismatch"}

\* The round has ended by the book: no error broke it off, nothing overlooked
\* was made up for, and no pot that missed tokens was shared out at the end.
EndedByTheBook == phase = "done" /\ ~broke /\ ~sharedShort /\ ignored = {}

\* When the round is closed, a wallet the settlement looked at is short of its
\* share only if one of its sends says so; a send that was called satisfied too
\* early has been made up for (settle.ts:20, "every wallet whose share of the
\* tokens is more than it has received gets a top-up delivery").
ShortfallIsOnRecord ==
  EndedByTheBook => \A w \in Wallets \ leftQueued : SettledOrOnRecord(w)

\* "Already queued: the sweep works its amount out from the same total"
\* (settle.ts:284): a wallet left to its queued send has its share in the end.
QueuedIsSettled ==
  EndedByTheBook => \A w \in leftQueued : SettledOrOnRecord(w)

\* "A wallet with a transfer whose fate is unknown gets nothing this round, from
\* any of its records" (sendRounds.ts:604): no wallet is ever sent more than its
\* share of what was bought.
NobodyPaidTwice ==
  \A w \in Wallets : got[w] <= DeliveryOwed(lots * Lot, w, burn)
=============================================================================
