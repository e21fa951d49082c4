# A verification development for pumpling

Pumpling sells a public promise: depositors put SOL behind coins, a verifiable draw
decides how the pool is split, the pool is spent on the coins in the open, and
the tokens reach the backers or the fire. A round passes through an on-chain
program, a backend that drives it, a buyer that spends and delivers, and pages on
which people commit and watch. This directory models the parts of that path which
are hard to test, checks them with TLC and proves what it can with TLAPS.

Source lines are cited by file name: `lib.rs` is the program, the `*.py` files are
under `src/workers/` and `src/webapp/backend/`, the `*.ts` files under `src/offchain/` or, for the
pages, under `src/webapp/ui/src/app/`.

## 1. The system

| Part | State | Operations | Interacts with |
|---|---|---|---|
| On-chain program `lottery_v_1_0` | one round account (phase, totals, commitment, VRF fields), its vault | initialize, deposit_sol, start_second_phase, fulfill / emergency_fulfill_randomness, start_purchases_phase, pause, close_lottery | ORAO's request accounts; whoever sends transactions |
| Phase worker | a row lock per visit; the `lotteries` row | one visit a second per round: compare and commit, fulfil, pay out, start the buyer, close | program (instructions, reads), database, buyer's HTTP API |
| Round autostart | the cycle switch, the next moment, drafts and rows | reconcile, open a cycle's round, backfill, release and clean up drafts | program (initialize), database, the admin's switch |
| Events and backfill workers | `smart_contract_events`, cursors; bets and rows | replay the program's events into the database | program's log, database |
| Bet finalizer | confirmation status of bets | finalize, or strike out, unconfirmed bets | node, database |
| Backend API | bets, held answers | `place_bet`, the browser's report; reads; chat | database, node, buyer |
| Buyer: orchestrator | one JSON state file per round | buy loop beside delivery rounds, settlement, sweep, last burns, refunds, finalize; recovery after a restart | node, batch files |
| Buyer: burns | `burns`, `burnedRaw`, `burnBlocked` of the state file | `burnDueFor`, lookup of undecided burns | node |
| Buyer: purchases | one JSON file per coin and attempt | purchases with re-signing, shrinking, slippage ladder, retry phase | venues, node |
| Buyer: refunds | `refunds` of the state file | ledger off the chain, plan, chunks, lookup | node |
| Buyer: API | the registry of running rounds | execute, resume, status, purchase feed | backend |
| Pool page | the last answer, one request, one timer, one notice | polling, refreshing, following a commit | backend, the tab's visibility |
| Commit dialog | the coin field, the running attempt and its timers | check a coin, sign, send, replace a stalled attempt, close | wallet, backend, node |
| Wallet and session | token and linked address in storage; the wallet's address | sign in, sign out, switch the wallet, the watchdog | wallet, backend |
| Chat panel | socket, messages without an acknowledgement, an upload | send, resend, reconnect, upload | backend |
| Round feed | the feed shown, a timer, listeners | poll, stop, show rows | backend, buyer's files |

What is hard, and for which part:

* **Program.** Any order of legal calls, strangers' transfers, a silent ORAO, an
  admin in a hurry, the reopening of an address.
  *Correct when* lamports are conserved and only go where they should, the draw is
  bound to what was committed, and no sequence of calls freezes a round.
* **Worker, events, finalizer.** Lost confirmations, missed, late and repeated
  events, stale reads, deaths between an instruction and its record.
  *Correct when* the row never runs ahead of the chain nor falls back, the
  commitment and the buyer's order miss no deposit, and every round ends; a round that
  opens is known, and the cycle goes on whatever a death leaves behind.
* **Burns and deliveries.** A transfer without an answer may still land; the
  process may die between any two saves; the purchases keep coming; the keeper's
  tokens are shared. *Correct when* nothing is burned or sent twice, nobody gets
  another's share, and whoever is short is on record.
* **Purchases and refunds.** Blockhashes run out, answers are lost, prices move, fifty
  batches share one balance, nodes lag behind what they are asked for. *Correct when* a
  purchase is bought at most once, spends stay within the budget, the refund is what the
  chain says was left, and buying and round come to an end.
* **Pages.** Answers cross each other and the person's typing; a wallet answers requests
  nobody waits for any more; the session changes hands; the tab sleeps.
  *Correct when* what is committed is what was in the field, one press is one commit
  and is told of, messages are stored once under their writer's name, and the page
  neither goes back nor stands still.

`PROJECT.json` has every component with its status, and the hazards at their lines
with the properties that would catch them.

## 2. Modules

| Module | Models | Of it |
|---|---|---|
| `PromotionPool` | what the program promises: collect, commit, draw, pay | abstract |
| `LotteryProgram` | `lib.rs`, one action per instruction | refines `PromotionPool` |
| `LotteryProgramProofs` | theorems about it | proofs |
| `RoundDraw` | `vrf_engine.py`, the request made of a draw, the text that is pinned (`weights_commitment.py`) and its verification | pure |
| `RoundCoordinator` | phase worker, event paths, finalizer, browser, one round | the program appears by the phase changes it admits |
| `RoundCoordinatorProofs` | theorems about it | proofs |
| `RoundEnds` | how a round ends while events go missing | extends `RoundCoordinator` |
| `RoundAutostart` | the autostart of `lottery_phase_worker.py`, the cycle switch, the drafts it leaves | |
| `RoundAutostartProofs` | theorems about it | proofs |
| `BurnLedger` | `burns.ts` for one coin, its saves and the chain | |
| `BurnLedgerProofs` | theorems about it | proofs |
| `RoundBooks` | what the purchases brought (`purchaseTokens.ts`), the last burns, the audit (`reconcileRounds.ts`) | pure |
| `RoundRequest` | a burn choice from memo to share: `burn.ts`, `burn_memo.py`, `purchases_payload.py`, `validation.ts`, `shares.ts` | pure |
| `BurnView` | `burn-view.ts`, `token-amount.ts`: what is said of a burn | pure |
| `PurchasePlan` | the cut of a budget, `Spendable`, the venue of an attempt, what venues throw and how it is classified | pure |
| `BuyTerms` | price, priority fee, spacing, refused mints | pure |
| `BatchBuy` | `batch.ts` and the buy loop for one coin, its file, a restart | uses `PurchasePlan`, `BuyTerms` |
| `RefundLedger` | the arithmetic of `refundLedger.ts` and `refunds.ts` | pure |
| `BuyerRound` | the process, its registry, requests and recovery; a round's buying beside its delivery; refunds | uses `RefundLedger` |
| `BuyerRoundProofs` | theorems about it | proofs |
| `RoundRecord` | every operation of `OrchestratorStateManager` | pure |
| `SendAmounts`, `DeliveryTerms` | `shares.ts` and the arithmetic of `sendRounds.ts`; one delivery transaction, with transfer fees | pure |
| `Delivery` | `sendRounds.ts`, `settle.ts`, `resume.ts` and the frame of `runBuyAndSend`, one coin | uses `SendAmounts`; the burn of a visit is one step |
| `DeliveryProofs` | theorems about it, and lemmas on the amounts of `SendAmounts` | proofs |
| `CoinField` | the dialog's coin field and the checks it starts | part of `CommitFlow` |
| `CommitFlow` | the attempts of a commit dialog, the wallet's requests, the network | composed with `CoinField` |
| `CommitFlowProofs` | theorems about field, attempts and chain | proofs |
| `CommitTerms` | amount, price and burn of a commit, the words for its errors | pure |
| `WalletSession` | session, linked address, wallet switches, watchdog | part of `ChatSession` |
| `ChatSession` | `chat.component.ts` with its socket, its upload and the server's storage | composed with `WalletSession` |
| `ChatSessionProofs` | theorems about session and chat | proofs |
| `MyCommits` | the history of whoever is signed in, over every short past | pure |
| `LivePool` | `pool.service.ts` and the page that follows commits | |
| `PoolView` | `pool-state.ts`, `pool-view.ts`, `feed-rows.ts` | pure |
| `RoundFeed` | the buyer's files, `purchaseFeed.ts`, the held answer, `purchases.service.ts` | composition of buyer, backend and page |
| `CoinScreening` | red flags of a coin, their card | pure |
| `MC...` | the instances TLC checks | |

A pure module states *promises*, predicates over its operators that compare what
the code computes with what is meant; the MC module of a component `ASSUME`s each of them
over small inputs on both sides of every boundary, and TLC evaluates that at the
start of the run.

How the models correspond to the code:

* **LotteryProgram.** The fields of `Lottery` are grouped: `terms` is what
  `initialize` fixes, `vrf` the fields of the draw. A `require!` is a conjunct and a
  refused instruction is no step. Signer and address constraints are taken as
  met, hashes are injective, unix time is counted in slots. `ledger` and
  `lastDepositSlot` are history variables that no guard reads.
* **RoundCoordinator.** A visit of the worker is `Look` (row locked, chain read),
  then the steps of that phase, each with the guards of `_process_phase1_candidate`,
  `_process_phase2_candidate` and `_process_post_vrf_candidate`. `Send` puts an
  instruction on the `wire`, where it may land, fail or expire whether or not
  anybody waits; `Mark...` is the write after a confirmation; `Leave` is every
  early return, error and death. A handler that finds the row locked queues its
  write and is served when the lock is given up. A deposit is one model value and
  sums and counts are compared as the sets behind them.
* **RoundAutostart.** A visit locks the cycle's row, reads the switch, writes a draft, sends
  `initialize`, waits, and makes the draft a round; each is a step, and a death may fall between
  any two of them. The admin's switch changes the same row between a read and a write. The
  backfill makes a round of an `initialize` it finds in the log; the release of stuck drafts and the
  cleanup of abandoned ones work by a draft's age. Event workers are taken one event at a
  time, and drafts an admin makes by hand are left out.
* **BurnLedger.** Every save of the state file that an await separates is a step of
  its own, so `Crash` falls between `updateBurn` and `addBurned` as it can in
  `burns.ts:280-286`. `signatureOutcome` answers `absent` only for what can no
  longer land, and may always answer `unknown`.
* **BatchBuy.** A purchase's attempt is built, signed and written down, sent, and waited
  for; each transaction flies, lands, fails or expires on its own. The venue's possible
  errors and their classes come from `PurchasePlan`. A death leaves the batch file
  and whatever flies; `planResume` makes of it what the code does. Amounts are
  millionths of SOL. Times of the schedule and metrics are left out.
* **BuyerRound.** A round is `starting`, `trading`, `settled`, `refunding`; buying and delivery
  run side by side and the first may go on when the second has thrown. A lot is a coin's
  buying as one transaction of one cost; its detail is `BatchBuy`. Reads of the chain may
  miss what landed (`MaxMisses`). Stops, deaths and the queue of recovery are the process's.
* **Delivery.** A visit of the coin is `StartVisit` (purchases read, burn), the
  lookups, the account rules, `ShareOut`, then the batches of the visit side by
  side, each building, signing (the signature is saved first), sending,
  confirming, failing, or halving. Transfers that ran and failed, were refused in
  preflight or expired are `void`: nothing arrived. A node that took a transfer
  and whose answer was lost, and one that never got it, are both `flying`: what never
  got there can only run out of blocks. `Crash` makes of the sends what `planResume` does and starts over at the
  first round. Token amounts are whole numbers and transfer fees are left out.
* **CommitFlow, CoinField.** The field, the pause of 350 ms, and the checks under way are `CoinField`;
  an attempt is asked of the wallet, signed, broadcast by the site or by the wallet
  itself, and confirmed, in any order with its replacement, with closing and with
  leaving the page. Each kind of wallet is an initial state.
* **ChatSession, WalletSession.** A socket carries the name under which it was opened for its
  whole life; a frame in flight belongs to its socket. The server keeps one message per
  name and client id. What changes the session is `WalletSession`'s, and the chat hears
  of it only when the store's flag flips, as in the code; `unnoticed` marks a session
  that changed hands without that.
* **RoundEnds.** RoundCoordinator's actions with a record of the events no path has brought, which
  the liveness properties need to say what a loss may cost.
* **LivePool.** One request at a time is shared by whoever asks; the answer is made when
  the server answers, not when it arrives. The local clock is a step of its own. The server's
  row may be a draft that is abandoned, which the answer passes over for the pool before it
  (`lottery_router.py:1775`), and that an event or the cleanup takes up again.
* **RoundFeed.** Every file the buyer writes is a step, since the feed reads them one by one, and each
  list is cut to its newest `MaxRows`. The backend looks into its cache, asks the buyer and stores
  the answer in three steps, since it asks outside of the lock, so that an older answer may
  replace a newer one; a page has one timer per pool and listeners of
  `visibilitychange` that outlive a subscription, as in the code.

## 3. What the runs check

| Run | States | What it shows |
|---|---|---|
| `LotteryProgram` | 147,256 | conservation, an answer of ORAO's that no emergency seed replaces, no dead end (liveness), refinement of `PromotionPool`; the draw, its budget and its commitment |
| `BurnLedger` | 24,724 | one undecided burn, records agree with the chain, every destroyed token is accounted for; the books and the words about a burn |
| `BatchBuy` | 1,827,935 | of a purchase's attempts only the last on record can have bought, spends stay within the budget, the buying ends (liveness); the terms of a purchase |
| `BuyerRound` | 574,566 | a backer is refunded once a life, the keeper pays for no round, no second buying beside an old one, every round is finished (liveness); the round's record |
| `Delivery` | 4,632,182 | no record paid twice, every landed transfer on record, fair shares, shortfalls on record; the terms of a delivery |
| `RoundCoordinator` | 5,715,297 | the row against the chain, the commitment and the buyer's order against the deposits |
| `RoundEnds` | 66,111 | liveness while events go missing: entry leads to payout or close, a started window is closed, and what alone may hold them |
| `CommitFlow` | 8,274,702 | what can be pressed for is what the field says, a transaction that went out is told of; the terms of a commit |
| `ChatSession` | 1,378,634 | a message is kept once and under its writer's name, the session follows the wallet, no message waits for ever (liveness); the history of commits |
| `LivePool` | 487,100 | the page goes back for an abandoned draft only, it catches up, a commit's notice does not stay at "sending" (liveness); what the page says |
| `RoundFeed` | 1,913,462 | finished is final, the page's requests do not multiply, the feed catches up (liveness); the card of a coin |
| `RoundAutostart` | 911,858 | no round stays open on the chain unwatched, a stop costs at most one round or is overruled in one known way, the cycle goes on unless the event of a close is lost (liveness) |

Bounds, and why they are enough:

* `LotteryProgram`: two rounds at one address, seven slots, three deposit sizes
  (too small, minimal, half the cap), one refused set of arguments. The entry
  period runs out and the cap fills; ORAO answers at any slot or never; the
  emergency delay passes, an `initialize` follows a `close_lottery`.
* `BurnLedger`: two purchases of five tokens of which three fifths burn, three
  burns. Enough for a burn, its repetition, and one after a partial burn.
* `BatchBuy`: budgets of nothing, of less than the fees, of one and of two purchases; a
  keeper with too little, with nine tenths, or with enough; three transactions of one
  purchase (a first one and both re-signings, or the ladder), two of each where there
  are two purchases; one death.
* `BuyerRound`: one round with a lot and two backers, one without, since recovery
  takes rounds in the order of their files; two lives of the process, one read that misses.
* `Delivery`: two backers, one with two parcels and one under the strictest
  account rule, with and without a burn; two purchases, three transfers, one
  crash, five of these events in all (`MaxEvents`; a crash counts for two). Batches
  of two, so that a visit has two batches and a batch can be halved; two rounds, one pass of the
  sweep (the code's three differ in nothing but their pauses), two attempts for the code's three.
* `RoundCoordinator`: two deposits, so that one is early and one late, one known and
  one missing; two event paths, each of which may lose anything.
* `RoundEnds`: one deposit, which may never be made (an empty round), and one path that may
  lose any event, which is the other one losing everything.
* `RoundAutostart`: two drafts, one death, one stop of the switch: a draft left by a death, its
  successor, and the event of the first coming late.
* `CommitFlow`: two coins, one burnable and already in the pool, three edits, two attempts,
  three kinds of wallet: an answer after the next question, and one attempt replacing
  another at each of its steps.
* `ChatSession`: two wallets and an account with an email, two events of session or wallet,
  one message sent twice before it fails and retried once (the code's limit is three): copies on
  two sockets under two names.
* `LivePool`: two pools, either of which may be an abandoned draft, after an older one; two
  commits that together fill one, one visit elsewhere.
* `RoundFeed`: one coin, a refund, two lives of the buyer, one silence, two subscriptions. The
  cut of two hundred rows is two here, which no list of this run passes; that
  the comparison of a list's length and head tells a cut list from its successor is evaluated over
  longer ones (`GrowingListsAreTold`).

Every property of a run has a mutant in `PROJECT.json`, a plausible slip in
a mapped definition, under which TLC finds the property violated. The mutated
forms stand before their originals in the modules and are marked as such. `TypeOK` of a
module types its variables; it is proved for `LotteryProgram`, `BurnLedger`, `RoundCoordinator`,
`RoundAutostart`, `Delivery`, `CommitFlow` and `ChatSession`, and a run checks any other when it is added to the cfg.

Fairness:

* `LotteryProgram`: time passes, and the phase worker keeps asking, drawing, paying
  out and closing, which is its one-second loop. Depositors, the pause, strangers
  and ORAO owe nothing.
* `RoundCoordinator` (used by `RoundEnds`): clocks run, a queued write gets its row, visits
  end, and a path comes to every event, *to hand it over or to miss it*: no delivery is assumed,
  since the backfill moves its cursor past a signature whose transaction the node did not have
  (`backfill_worker.py:115-117`, `151-153`) and an error of the database is swallowed
  (`events_worker.py:496`). Strong fairness for sending, for landing and for each
  part of a visit: an error may break any number of visits off, not all of them for
  ever. At the ceiling the buyer's word no longer counts, so closing is fair there
  and only there.
* `RoundAutostart`: visits end, time passes; strong for beginning a visit, for writing a draft and
  for ending a round that is being driven (which `RoundEnds` is about), which the switch, a row
  lock or an error may put off any number of times. No event is owed.
* `BatchBuy`: the buying takes its next step; which answer it gets is free, so that a
  node may be silent for ever.
* `BuyerRound`: each round's loop and the process go on; a stopped process is started again.
* `ChatSession`: timers fire, uploads answer; a socket that keeps being opened opens in the
  end (strong: it may fail any number of times before).
* `LivePool`: requests end, one way or the other, timers fire, a commit settles; of
  infinitely many requests one is answered (strong).
* `RoundFeed`: the buyer goes on while it is up, requests end, timers fire, the held answer expires.

Deadlock is not checked where the system may stop: a closed round, a finished
delivery, a coin with nothing left to burn, a page that was closed.

## 4. What is proved

Every theorem is about the specification a run checks, for every value of its constants under the
assumption its module names, and those say no more than what the constants are: sets
and numbers of the right kind, and an empty value (`None`) that is none of the others. Each
component has one inductive invariant `IInv`, of named parts, which TLC checked
on the component's run before it was proved; one lemma per action or group of actions shows
that a step keeps it, and the theorems follow from it, those about sums of money with a second invariant beside it. `Invariance` of each module is `Spec => []IInv`.

| Module | Theorem | What it says |
|---|---|---|
| `LotteryProgramProofs` | `VaultAlwaysCovers`, `SweepIsNotDeposits`, `PayoutWhole`, `SeedBound` | the money and the draw of the program |
| | `AnswerAlwaysWins`, `CommittedIsFrozen` | action properties: an answer of ORAO's is the seed, a committed round takes nothing more |
| | `ImplementsPool` | the program implements `PromotionPool` |
| `BurnLedgerProofs` | `NoTwoUndecided`, `RecordsAreTrue`, `EveryTokenAccounted` | no burn is signed beside an undecided one; records and total against the chain |
| `RoundCoordinatorProofs` | `DatabaseFollows` | the row never shows a phase the round has not reached |
| | `CommitmentIsWhole`, `BuyerIsWhole` | whom the commitment and the buyer's order miss |
| | `OnlyTheLateCommitGoesBack` | action property: the row falls back in one known step only |
| `RoundAutostartProofs` | `NoRoundIsForgotten`, `OneRoundAfterAStop` | no open round is out of sight; a stop costs one round, unless a reconcile that had read a launch as due writes over it |
| `BuyerRoundProofs` | `OneRefundALife` | nobody is refunded twice in one life of the process |
| | `NoTwoPasses` | action property: no pass begins beside one that still buys |
| | `KeeperIsCovered` | purchases, rents and refunds of a round stay within what it was given |
| `DeliveryProofs` | `OnePayment` | a delivery record is paid at most once |
| | `EveryTransfer` | what landed is counted at its amount or still held, and nothing is counted that did not land |
| | `BooksBalance` | everything bought is on the keeper, burned or delivered, each wallet's part by what landed for its records |
| | `FairShares` | of a coin somebody burns nobody gets more than its share, unless a landed transfer is overlooked |
| | `ShortfallsAreOnRecord` | under the same conditions, who is short of its share at the end, and was not left to a queued send, has a record that says so |
| `CommitFlowProofs` | `OfferFollowsField`, `BurnFollowsCoin`, `PageIsTold` | what can be pressed for, the burn with it, and what the page hears |
| `ChatSessionProofs` | `OneCopyForASender`, `WritersKeepTheirNames`, `WatchdogFollows` | the server's copies, their names, session and wallet |

`TypeCorrect` is proved beside them, except for `BuyerRound`: its queue comes out of `SelectSeq`, which the
prover does not expand and no library states a fact about. The types its theorems need are parts of the invariants.

The arguments, and why the properties need more than themselves:

* **LotteryProgram** (`ProgramAssumption`: a positive rent and default minimum). `DepositsNeverSwept` needs to
  know that the vault holds nothing of the depositors when `close_lottery` is admitted, which depends on
  what the totals mean in each phase, and `PayoutIsWhole` needs the fee to be bounded, which
  depends on terms fixed long before. So `TermsChecked` keeps what `initialize` verified, `MoneyByPhase`
  says what totals, count and history are in each phase, `VaultByLedger` balances the vault, and
  `VrfByPhase` ties the seed to commitment, slot and time. `FeeBounds` isolates the only nonlinear arithmetic.
* **BurnLedger** (`BurnAssumption`). That only the last record can be open (`OnlyLastOpen`) and what the
  place in the code says of it (`PlaceOfBurn`) makes the next signature safe. For the
  account, what was destroyed splits into the total, what a death lost, what is
  completed and not yet added (`Uncounted`) and what has landed unnoticed (`Unnoticed`); `WithinShare` adds what may
  still land and keeps it all within what is owed. `BurnOwedGrows` is the arithmetic.
* **RoundCoordinator** (`CoordinatorAssumption`, `NoneAssumption`). The row is compared with the phase through everything
  that may still write either: instructions on the wire (`WireFits`), events in
  the log (`LogFits`), queued writes (`QueueFits`), what the worker saw (`SightFits`) and the place of its visit (`VisitFits`,
  `WaitFits`). Each of them lies behind the phase, since a
  phase only grows. The commitment is fitted to the deposits from the moment it is computed
  in a visit until it lands.
* **RoundAutostart** (`AutostartAssumption`). A row and its account are tied status by status (`RowFits`); the worker's place
  says which of them nobody else can have touched (`WorkerFits`), an event is about a round that landed
  (`HandlerFits`), and after a stop that nothing overruled the worker may hold one permission, read before it (`SwitchFits`).
* **BuyerRound** (`RoundAssumption`). For the refunds amounts play no part. A file is written once, refunds are planned once in a
  life and leave the list of those to pay before they are sent (`PassFits`, `PlanFits`, `ChunkFits`); so two payments of one life for one
  round are for different backers (`PaidApart`). A record is `completed` only by a payment seen to
  have landed (`RecordsFit`). `KeeperCovered` has an invariant of its own, `MoneyInv`: when the refunds are planned
  what they rest on is settled. The purchases counted are completed, so they have landed and cost what they cost
  (`LotsFit`); the deliveries counted are of backers, each at no more than its part of the reserve (`BasisFits`). Then the
  plan is within `Unspent` (`RefundsWithinUnspent`, where rounding down only helps), purchases are within the allocation and
  rents within the reserve (`PlanIsCovered`), and no later step changes a summand (`Covered`).
* **Delivery** (`DeliveryAssumption`, `SendAssumption`). That a record is paid once needs the files to agree: what carries
  something for a record is the transfer whose signature it holds or the landed one it was closed with
  (`CarriedFit`), of which there is one (`CarriedOnce`), and a record says the amount its transfer carries
  (`RecordsFit`). A signature is only replaced in a batch, so `WorkFits` says whose records a batch
  holds: no record stands in two batches or twice in one, those in hand share one signature, the halves
  that wait hold none, and what is about to be sent has not been. `VisitFits` says that amounts are shared
  out only among records without a signature. A batch's steps are lemmas on predicates of records,
  transfers and batches (`RecordsMove`, `SigningFits`, `HandMoves`, `FailFits`, `HalvesWait`), since a step changes
  all three. `AmountsAreNat` shows that `calculateDeficitAmounts` gives no send less than nothing, with the
  remainder of rounding taken off one at a time; it rests on lemmas on sums over finite sets (`SumTakesOut`,
  `SumOfShares`), which come from the well-foundedness of the numbers.
  `BooksBalance` and `FairShares` have an invariant of their own, `BookInv`. A wallet's *claims* are the amounts of its records that are
  delivered, marked, or borne by a transfer that has landed or still may; what it got is the part that landed (`ArrivedIs`), so
  it is within the claims. Claims only grow when amounts are shared out, since nobody marks a record elsewhere
  and every marked record is held by a batch that will write it down (`MarkedHeld`). A visit takes all that is due
  (`DueTaken`); so where nothing is overlooked (`NothingOverlooked`, the condition of `FairShares`), what a wallet that is to be given
  something has a claim to is what its records say it was sent (`ServedBare`). The shares and the fire's part add up to no
  more than the pot (`OwedFits`), which by the balance (`Balanced`) is on the keeper or gone where it should be; so the
  keeper covers what is missing (`MissingIsThere`), everybody is given exactly that (`AmountsAddUp`), and the claims end at
  the shares (`SharedWithin`).
  `ShortfallsAreOnRecord` adds `SettleInv` to it. Whoever does not burn everything has a first record (`EverybodyListed`); the
  settlement has put aside only sends that were given up (`PlaceFits`); and once it is over, each wallet it looked at either
  has a record on file (abandoned, of the wrong account, or queued without a signature) or its counted records
  cover the settlement's pot up to the smallest top-up (`SettledFits`). Every later step keeps this record by record (`Turns`), but
  for the sharing of the sweep: that brings the wallets it serves up to a share of a pot no smaller than
  the settlement's, since the pot only grows. When the round is closed nothing is being sent; so a wallet with no record that says otherwise is covered by
  delivered records alone (`ServedIsSettled`). TLC found no state outside `SettleInv` with two backers and with three.
* **CommitFlow, CoinField** (`FlowAssumption`, `FieldAssumption`). What the pause holds back is what the field shows or that it was cleared
  (`PauseFits`); the newest check is about the field unless a newer value waits (`ChecksFit`);
  a coin on offer is the field's unless somebody is about to say so (`CoinFits`). Attempts begin in order
  (`AttemptsFit`), a replaced one broadcasts only if it already did (`ChainFits`), and a wallet that sends by itself is
  offered no second one (`SenderFits`).
* **ChatSession, WalletSession** (`ChatAssumption`, `SessionAssumption`). The session's invariant is proved by itself
  (`SessionSteps`) and used by the chat. A socket carries the session's name or none unless the session changed hands
  unnoticed (`SocketFits`); what is queued or in flight is under its writer's name (`AuthorsFit`), since a
  change of session that is noticed empties the queue.

Some properties are proved and no run states them (`TypeOK`, `PayoutIsWhole`, `SeedBoundToCommitment`,
`CommittedRoundIsFrozen`, `BurnGoesWithCoin`): the theorems say more than an instance of them would, and the runs' time is
spent on what is not proved. The others are both checked and proved.

Only model-checked:

* Everything temporal under fairness (`EveryRoundEnds`, `EntryLeadsToPayout`, `StartedWindowCloses`, and the
  liveness of autostart, buyer, chat and pages): the prover has neither fairness nor ENABLED.
* `FairShare` (`Delivery`) beyond what `FairShares` says of it. The last wallet takes the remainder of
  rounding down the others' parts, which with three or more can be a token more than its own share when the balance does not
  cover what is missing: when a landed transfer is overlooked, whether or not its wallet is given anything, or when
  nobody burns and a pot inferred too small was shared out before. With two wallets, as in the run, the remainder is the
  last one's own and the property holds without a condition.
* `ShortfallIsOnRecord` (`Delivery`) beyond what `ShortfallsAreOnRecord` says of it: where nobody burns, and where a landed transfer was
  overlooked. The property itself excuses the overlooked tokens that were made up for (`ignored`); with three
  backers the overlooked part can be one that rounding leaves at nothing, and then nothing is noted there. The theorem therefore asks that
  nothing be overlooked, the run covers the rest with two.
* Not attempted: `WithinBudget` and `LastAttemptTells` (`BatchBuy`), and the safety properties of `LivePool` and `RoundFeed`. The plans of `BatchBuy` are besides flattened and
  sorted sequences, for which there are none.
* The promises of the pure modules, which TLC evaluates over bounded inputs.


## 5. Assumptions and limits

* **Reads.** RPC reads of the round account are current in `RoundCoordinator`. A node that
  lags may show an earlier phase; the program refuses an instruction out of phase. In
  `BurnLedger` and `BuyerRound` balances and statuses may lag; in `Delivery` a balance is right or
  unreadable (which the code turns into zero).
* **Database.** PostgreSQL serves the waiters for a row lock in order, and a handler's
  UPDATE names only the columns it changed. Deposits that are rolled back after `confirmed` are
  not modelled: they make the sums differ for ever, and a person has to mend the database.
* **A late close** of a round found empty is refused by the program once it has deposits;
  that half is `DepositsNeverSwept`.
* **Delivery.** One coin. `getAccountInfo` failing at `sendRounds.ts:637` breaks the
  delivery of every coin off (`AtaUnreadable`, history variable `broke`), and the
  round is finalized; `ShortfallIsOnRecord` claims nothing there. It claims
  nothing either where the inferred pot missed a transfer in doubt
  (`sharedShort`), or where somebody was given another's tokens (`ignored`): the
  last is what `NobodyPaidTwice` (section 6) is about. `FairShare` bounds an overpayment by exactly what such transfers carried.
  The remainder of rounding, which the last wallet takes, is the wallet's own with two
  wallets. `revivePendingSends` finds nothing to revive: a send is abandoned for running out of
  attempts or for a refusal that no retry changes. The mark `in_progress` and the
  cutting into batches are one step: the semaphore of twenty does not hold
  batches back at these sizes, and what a death in between leaves is queued
  again just the same.
* **BuyerRound.** A coin's buying is one lot; several batches of a coin and the shared rate
  limit are `BatchBuy`'s and `BuyTerms`' matter.
* **Pages.** `/lottery/current` is read as the database has it; the five-second cache is the
  purchase feed's, and `RoundFeed` has it. A person's rejection of a wallet request and a wallet's error are one
  answer. The animation, the charts and the layout are left out.
* **Not modelled**: rounds an admin makes and signs by hand, the layout of ORAO's accounts; the RPC proxy,
  accounts, share cards, admin forms, deployment (no part of a round's course, or outside
  calls with no state).

## 6. Where the code and its words disagree

Properties that state what the repository says and that the code does not keep. They
stand in their modules; each is violated within seconds as the only INVARIANT (or
PROPERTY, where marked) of the named cfg.

| Statement | Property, cfg | What happens |
|---|---|---|
| a wallet with a transfer in doubt gets nothing (`sendRounds.ts:604`) | `NobodyPaidTwice`, `Delivery` | a given-up send that landed is not among the sends asked about |
| nothing is burned twice (`burns.ts:17`) | `NeverBurnedTwice`, `BurnLedger` | death between `updateBurn` (280) and `addBurned` (286) |
| the slot hash of the seed does not exist before the round closes (`lib.rs:95`) | `SeedHashAfterLastDeposit`, `LotteryProgram` | `start_second_phase` accepts one older than the last deposit |
| the commitment matches the commits (`SECURITY.md:60`) | `CommitmentMatchesCommits`, `RoundCoordinator` | a deposit lands while `start_second_phase` is on its way |
| no bet is removed once it may be committed (`bet_finalizer_worker.py:154`) | `CommittedBetsStayActive` (PROPERTY), `RoundCoordinator` | the check of the phase and the commit are apart |
| the sweep makes up for a queued wallet (`settle.ts:284`) | `QueuedIsSettled`, `Delivery` | the queued send had landed and is closed at its old amount |
| a double send of a refund is ruled out (`refunds.ts`) | `RefundedOnce`, `BuyerRound` | the process dies between sending a refund (286) and writing its answer down |
| unsent refunds go out on the next recovery pass (`orchestrator.ts:525`) | `UnsentTakenUp` (PROPERTY), `BuyerRound` | the round is finalized, and recovery takes up no finished round |
| a coin of which anything was bought is a completed purchase (`resume.ts`) | `FailedBoughtNothing`, `BatchBuy` | the buy loop (`orchestrator.ts:616`) judges by the last batch alone |
| an abandoned round is closed properly when it opened on the chain (`lottery_phase_worker.py:706`) | `AbandonedIsEmpty`, `RoundAutostart` | an event shows the round between the release's read and its write, people pay in, and the cleanup leaves it alone for ever |
| nothing may happen early (`test_launch_countdown.py:6`) | `OpensAtItsMoment` (PROPERTY), `RoundAutostart` | a stop between the read and the write of a reconcile that found a launch due is written over (`lottery_cycle_control.py:164`), and rounds go on; `StopCostsOneRound` names this as its one exception (`overruled`) |
| one click is one commit (`commit.service.ts:446`) | `ReplacedNeverLands`, `CommitFlow` | an attempt replaced after its signature came back, and before the node answered, is still sent |

Smaller ones, which the promises and comments of the modules name where they bite:

* *Draw.* "Rule 2, used by every round from 2026-09-24 on" (`weights_commitment.py:16`): a round whose
  draw an admin signs is still pinned by rule 1 (`lottery_router.py:3045`), which hides up to a last
  decimal behind each coin (`OldRuleHidesLess`). There are fewer draws than coins when there are
  more than 70, and a coin may be drawn never (`test_vrf_engine.py:69`; `KGrows`). The page computes the
  targets with the default fee, whatever the round's (`lottery_router.py:218`; `PageShowsTheDraw`).
* *Buying.* A lack of money is recognised by none of the venues' errors in the main loop
  (`batch.ts:271`, comment 672; `LackOfMoneyIsSilent`). A slippage ladder that starts below 300 does
  not reach its top in its four retries.
* *Refunds.* `settleDelivery` trusts a zero debit (`refundLedger.ts:39`); `buySpend` adds the
  account's rent to the first completed purchase in the order of the record (177).
* *Deliveries.* A send of a coin with a transfer fee that is settled late keeps the gross amount
  (`sendRounds.ts:473`, comment 770; `KeeperIsDebited`). A transaction too big to run is not
  recognised and is retried whole (368, comment 802; `ErrorsAreTold`).
* *State file.* A coin's batch file is named by eight letters of its mint (`state.ts:330`): two
  coins of a round that share them would share the file.
* *Lost events.* A deposit whose event neither path brings, and which nobody reported, keeps the
  database's sums from the chain's for ever, and its round from its payout (`lottery_phase_worker.py:2047`,
  2288); so does the lost event of a start the worker did not see confirmed, since a round in its entry
  period is looked at no further (1999). The lost event of a close leaves the row open, since there is
  no account to look at any more (2240), and an open row keeps the next round from its draft. `EntryLeadsToPayout`,
  `StartedWindowCloses` and `CycleGoesOn` name these as the only ways, and without any one of
  these exceptions TLC finds the property violated.
* *Feed.* Rows that were shown may go again: the lists are cut to two hundred (`purchaseFeed.ts:253`),
  answers of two requests cross, and the backend may store an older answer over a newer one
  (`lottery_router.py:332-347`). What is shown catches up (`CatchesUp`), but no row is
  promised to stay. The phase turns from finished back to buying when the process died between a batch's
  end and the coin's status (`resume.ts:201`); a silent buyer's empty answer takes the rows away
  though the comment leaves what is there (`purchases.service.ts:203`).
* *Dialog.* An answer for a coin may be shown while the next one waits out its pause, and a
  clear and a pick within the pause leave the check running for ever
  (`commit-dialog.component.ts:341`, comment 203); the price of a place is asked for before there is a snapshot and
  held for a minute whatever the accounts (`commit.service.ts:307`; `PaysByTheFirstAnswer`); a burn of
  9950 to 9999 parts of 10000 is told as all of it (`burn.ts:147`; `BurnIsTold`).
* *Session.* A refused re-signing leaves the new wallet with the old session
  (`commit-dialog.component.ts:486`); a session that changes hands without the store's flag flipping leaves the
  chat's socket under the old name (`chat.component.ts:267`); `MyCommitsService.clear()` is called
  nowhere (`my-commits.service.ts:103`), so the next person may see the last one's history (`OwnAndFresh`).
* *Page.* A draft shown as "opening", or as open in between, goes from the page when it is abandoned
  (`lottery_phase_worker.py:698-740`, `lottery_router.py:1775`), and the pool before it comes back;
  `NeverGoesBack` excuses abandoned drafts and nothing else. After `pool.refresh()` the follow of a commit does not look again whether the notice
  is still its own (`pool-page.component.ts:567`). A pool filled before its time counts "Draw ends in"
  from the closing time until the draw starts (`pool-state.ts:163`). The launch clock stops at 00:00:00.
* *Words.* A burn lost by a death is put down to others (`burn-view.ts:105`; `NobodyIsBlamed`), 999,950 tokens
  read "1000K" (`CompactIsClose`), a reader's second wallet is counted as somebody else (`feed-rows.ts:82`).

## 7. Plan

1. Proofs, in this order: `LastAttemptTells`, then `WithinBudget` (`BatchBuy`).
2. An abstract `OneShot` (a thing sent at most once through lost answers) that
   `BatchBuy`, `BurnLedger`, `BuyerRound` and `Delivery` each implement, per record.
3. `DeficitAmounts` with three wallets and `AssignRounds` against reference definitions.
