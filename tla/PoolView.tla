------------------------------- MODULE PoolView -------------------------------
(***************************************************************************)
(* What the pool page says of a round: the snapshot made of the server's   *)
(* answer at a moment of the local clock (pool-state.ts), the words, the   *)
(* timer and the bar made of the snapshot and of the purchase feed         *)
(* (pool-view.ts), and the rows of the feed (feed-rows.ts).                *)
(*                                                                         *)
(* Moments are seconds.  A row of the server has the fields status, closes,*)
(* buysStart, nextPool, drawStart, total and cap, with None for null; sums *)
(* of SOL are integers.  A timer is its caption and the seconds it shows;  *)
(* one without a clock shows Still.                                        *)
(***************************************************************************)
EXTENDS Integers, Sequences, FiniteSets, FiniteSetsExt, SequencesExt

None == -1
Still == -2

Or(value, fallback) == IF value = None THEN fallback ELSE value
Plus(moment, seconds) == IF moment = None THEN None ELSE moment + seconds

MsUntil(target, now) == IF target = None THEN None ELSE Max({0, target - now})
Percent(part, whole) ==
  IF whole <= 0 THEN 0 ELSE Max({0, Min({100, (part * 100) \div whole})})
-----------------------------------------------------------------------------
(* The snapshot.                                                           *)

Statuses == {"id_generated", "created", "phase2started", "vrf_binded", "vrf_fulfilled",
             "proceeding_purchases", "closed", "completed", "other"}
Opening == {"id_generated"}
Open == {"created"}
Drawing == {"phase2started", "vrf_binded"}
Buying == {"vrf_fulfilled", "proceeding_purchases"}
Finished == {"closed", "completed"}

MinCommit == 5
DrawSeconds == 12
BuyWindow == 50

\* buildPoolSnapshot of a summary.
Snapshot(row, now) ==
  LET buysEnd   == Plus(row.buysStart, BuyWindow)
      drawStart == Or(row.drawStart, row.closes)
      timeUp    == row.closes # None /\ now >= row.closes
      capReached == row.total > row.cap - MinCommit
      phase ==
        CASE row.status \in Opening -> "opening"
          [] row.status \in Open /\ (timeUp \/ capReached) -> "locked"
          [] row.status \in Open -> "open"
          [] row.status \in Drawing -> "locked"
          [] row.status \in Buying -> "buying"
          [] row.status \in Finished /\ buysEnd # None /\ now < buysEnd -> "buying"
          [] row.status \in Finished -> "done"
          [] OTHER -> "waiting"
      draw ==
        CASE row.status \in Open /\ phase = "locked" -> "pending"
          [] row.status \in Drawing -> "running"
          [] row.status \in Buying \cup Finished -> "ready"
          [] OTHER -> "none"
  IN [phase |-> phase, draw |-> draw, closesAt |-> row.closes,
      buysStartedAt |-> row.buysStart, buysEndAt |-> buysEnd,
      nextPoolAt |-> Or(row.nextPool, buysEnd),
      drawStartedAt |-> drawStart, drawEndsAt |-> Plus(drawStart, DrawSeconds),
      launchAt |-> None, total |-> row.total, cap |-> row.cap]

\* emptyPoolSnapshot.
EmptySnapshot(phase) ==
  [phase |-> phase, draw |-> "none", closesAt |-> None, buysStartedAt |-> None,
   buysEndAt |-> None, nextPoolAt |-> None, drawStartedAt |-> None, drawEndsAt |-> None,
   launchAt |-> None, total |-> 0, cap |-> 77]

\* A launch comes before the last pool when none of the market runs.
LaunchSnapshot(at) == [EmptySnapshot("launch") EXCEPT !.launchAt = at]

\* drawnSolByMint: of two results of a mint the later is kept; the rest is 0.
DrawnOf(results, mint) ==
  LET own == {i \in DOMAIN results : results[i].mint = mint /\ results[i].sol > 0}
  IN IF own = {} THEN 0 ELSE results[Max(own)].sol

\* buildCoins: this pool's coins by what stands behind them, ties by address;
\* a coin's address is its number.
BuildCoins(entries, poolId) ==
  LET own == {entry \in entries : entry.pool = poolId /\ entry.mint # 0}
  IN SetToSortSeq(own, LAMBDA a, b : a.sol > b.sol \/ (a.sol = b.sol /\ a.mint < b.mint))
-----------------------------------------------------------------------------
(* The view.                                                               *)

Timer(label, left) == [label |-> label, left |-> left]
NoBar == [of |-> "nothing", pct |-> 0]
Bar(of, part, whole) == [of |-> of, pct |-> Percent(part, whole)]
CapBar(snapshot) == Bar("cap", snapshot.total, snapshot.cap)

View(lead, timer, bar, step) == [lead |-> lead, timer |-> timer, bar |-> bar, step |-> step]

LockedView(snapshot, now) ==
  LET left == MsUntil(snapshot.drawEndsAt, now)
      span == snapshot.drawEndsAt - snapshot.drawStartedAt
      timer == CASE left > 0 -> Timer("Draw ends in", left)
                 [] left = 0 -> Timer("Any moment now", Still)
                 [] OTHER -> Timer(IF snapshot.draw = "running" THEN "In progress" ELSE "Starting",
                                   Still)
  IN View("The pool is locked", timer,
          IF left # None /\ span > 0 THEN Bar("Draw", span - left, span) ELSE CapBar(snapshot), 1)

NoFeed == [available |-> FALSE, phase |-> "none", completed |-> 0, bought |-> 0, target |-> 0,
           fallbackEndsAt |-> None]

BuyingBar(snapshot, left, feed) ==
  LET window == snapshot.buysEndAt - snapshot.buysStartedAt
  IN CASE feed.available /\ feed.target > 0 -> Bar("bought", feed.bought, feed.target)
       [] left # None /\ window > 0 -> Bar("Buy window", window - left, window)
       [] OTHER -> NoBar

SecondPass(feed, now) ==
  LET left == MsUntil(feed.fallbackEndsAt, now)
  IN CASE left = None -> Timer("Second pass running", Still)
       [] left > 0    -> Timer("Second pass ends in", left)
       [] OTHER       -> Timer("Second pass finishing", Still)

WrapUp(left) ==
  IF left > 0 THEN Timer("Pool wraps up in", left) ELSE Timer("Wrapping up", Still)

BuysTimer(left) ==
  CASE left = None -> Timer("Buys starting", Still)
    [] left > 0    -> Timer("Buys end in", left)
    [] OTHER       -> Timer("Buys finishing", Still)

BuyingView(snapshot, now, feed) ==
  LET left == MsUntil(snapshot.buysEndAt, now)
      bar  == BuyingBar(snapshot, left, feed)
  IN CASE feed.phase = "fallback" -> View("Buying what is left", SecondPass(feed, now), bar, 2)
       [] feed.phase = "finished" /\ feed.completed = 0 ->
            View("Nothing could be bought", WrapUp(left), bar, 2)
       [] feed.phase = "finished" -> View("The buys are done", WrapUp(left), bar, 2)
       [] OTHER -> View("Buys are running", BuysTimer(left), bar, 2)

DoneView(snapshot, now) ==
  LET left == MsUntil(snapshot.nextPoolAt, now)
  IN View("This pool is done",
          IF left > 0 THEN Timer("Next pool in", left) ELSE Timer("Closed", Still), NoBar, 3)

\* buildPoolView.
PoolViewOf(snapshot, now, feed) ==
  CASE snapshot.phase = "loading" -> View("The pool is loading", Timer("", Still), NoBar, None)
    [] snapshot.phase = "launch" ->
         View("The first pool opens soon", Timer("Opens in", MsUntil(snapshot.launchAt, now)),
              NoBar, None)
    [] snapshot.phase = "waiting" ->
         View("The next pool opens soon", Timer("Opening", Still), NoBar, None)
    [] snapshot.phase = "opening" ->
         View("The pool is opening", Timer("Opening", Still), NoBar, 0)
    [] snapshot.phase = "open" ->
         View("The pool is open",
              IF snapshot.closesAt = None THEN Timer("Soon", Still)
              ELSE Timer("Closes in", MsUntil(snapshot.closesAt, now)), CapBar(snapshot), 0)
    [] snapshot.phase = "locked" -> LockedView(snapshot, now)
    [] snapshot.phase = "buying" -> BuyingView(snapshot, now, feed)
    [] snapshot.phase = "done" -> DoneView(snapshot, now)

CanCommit(snapshot) == snapshot.phase = "open"

\* msUntil never is below zero: a timer ticks when it has a clock.
Ticking(timer) == timer.left # Still
-----------------------------------------------------------------------------
(* The feed's rows.                                                        *)

\* toDelivery, toBurn, toRefund, toItem: a record of the answer that names no
\* transaction, or moved no amount that can be read, is left out; a purchase
\* is kept as it is.
Readable(record) ==
  \/ record.kind = "buy"
  \/ record.sig # None /\ record.amount # None /\ (record.kind = "refund" => record.amount > 0)

\* toCoinBurn: the burn of a coin, or none when one of its sums is unreadable.
NoBurn == [bought |-> None, owed |-> None, burned |-> None]
CoinBurn(burn) == IF None \in {burn.bought, burn.owed, burn.burned} THEN NoBurn ELSE burn

\* toPhase: a phase the page does not know is the buying.
ToPhase(raw) == IF raw \in {"fallback", "finished"} THEN raw ELSE "buying"

\* A list of the feed has records of kind, sig, mint, at and recipients; one
\* transaction can refund several coins.
KeyOf(item) ==
  IF item.kind = "refund" THEN <<item.kind, item.sig, item.mint>> ELSE <<item.kind, item.sig>>

KindOrder == [burn |-> 1, buy |-> 2, refund |-> 3, send |-> 4]

\* The rows' order: the newest first, and by key among those of one moment.
Before(a, b) ==
  \/ a.at > b.at
  \/ /\ a.at = b.at
     /\ \/ KindOrder[a.kind] < KindOrder[b.kind]
        \/ a.kind = b.kind /\ a.sig < b.sig
        \/ a.kind = b.kind /\ a.sig = b.sig /\ a.mint < b.mint

\* buildFeedRows; maxRows is MAX_FEED_ROWS.
FeedRows(items, maxRows) ==
  LET rows == SetToSortSeq(items, Before) IN SubSeq(rows, 1, Min({Len(rows), maxRows}))

\* recipientsText: is the reader one of them, and how many others are counted.
Told(item, mine) ==
  LET toYou == item.recipients \cap mine # {}
  IN [toYou |-> toYou,
      others |-> Cardinality(item.recipients) - (IF toYou THEN 1 ELSE 0)]
-----------------------------------------------------------------------------
(* Promises.                                                               *)

(* A clock that ticks has time left: "a clock frozen at 00:00:00 would say *)
(* the buying is over while it is not".  The launch's alone stays at zero  *)
(* until the server lets go of it.                                         *)
ClockHasTimeLeft(snapshot, now, feed) ==
  LET timer == PoolViewOf(snapshot, now, feed).timer IN
  Ticking(timer) => timer.left > 0 \/ snapshot.phase = "launch"

(* Between two answers of the server time does not take a bar back, nor    *)
(* the step on the page's scale.                                           *)
TimeOnlyAdds(row, now, later, feed) ==
  LET was == PoolViewOf(Snapshot(row, now), now, feed)
      is  == PoolViewOf(Snapshot(row, later), later, feed)
  IN /\ is.step >= was.step
     /\ is.bar.of = was.bar.of => is.bar.pct >= was.bar.pct

(* The button is there exactly while the program can take the least        *)
(* commit.                                                                 *)
CommitsAreTaken(row, now) ==
  CanCommit(Snapshot(row, now))
    <=> /\ row.status = "created" /\ row.total + MinCommit <= row.cap
        /\ row.closes = None \/ now < row.closes

(* The page speaks of tokens that were bought only when some were.         *)
NothingBoughtIsTold(snapshot, now, feed) ==
  snapshot.phase = "buying" /\ feed.phase = "finished" =>
    (PoolViewOf(snapshot, now, feed).lead = "Nothing could be bought" <=> feed.completed = 0)

(* Once the buyer answers with what it has to spend, the bar is of the     *)
(* money, in every phase of the buying.                                    *)
MoneyBeforeTime(snapshot, now, feed) ==
  snapshot.phase = "buying" /\ feed.available /\ feed.target > 0 =>
    LET bar == PoolViewOf(snapshot, now, feed).bar IN
    bar.of = "bought" /\ bar.pct \in 0..100

(* Every coin of the pool is in the list once, no other pool's is, and     *)
(* none is above one with more behind it.                                  *)
CoinsAreThePools(entries, poolId) ==
  LET coins == BuildCoins(entries, poolId) IN
  /\ ToSet(coins) = {entry \in entries : entry.pool = poolId /\ entry.mint # 0}
  /\ \A i, j \in DOMAIN coins : i < j => coins[i] # coins[j] /\ coins[i].sol >= coins[j].sol

(* The feed shows the newest rows, no row twice, and no row is lost to one *)
(* that is older.                                                          *)
RowsAreTheNewest(items, maxRows) ==
  LET rows == FeedRows(items, maxRows) IN
  /\ Len(rows) = Min({Cardinality(items), maxRows})
  /\ \A i, j \in DOMAIN rows : i < j => KeyOf(rows[i]) # KeyOf(rows[j]) /\ rows[i].at >= rows[j].at
  /\ \A i \in DOMAIN rows, item \in items \ ToSet(rows) : rows[i].at >= item.at

(* A record the page cannot read costs its own row and no other, and every *)
(* row of tokens has a transaction to look up and an amount.               *)
OneBadRecordCostsOneRow(answer, maxRows) ==
  LET rows == ToSet(FeedRows({record \in answer : Readable(record)}, maxRows)) IN
  /\ \A row \in rows : row.kind # "buy" => row.sig # None /\ row.amount >= 0
  /\ Cardinality(answer) <= maxRows =>
       \A record \in answer \ rows : record.sig = None \/ record.amount <= 0

(* A coin's burn is told by sums that can all be read, or not at all.      *)
BurnIsReadable(burn) ==
  CoinBurn(burn) = NoBurn \/ \A sum \in {"bought", "owed", "burned"} : CoinBurn(burn)[sum] >= 0

(* "to you + 4": the four are other people.  Of a reader with two wallets  *)
(* among the recipients the second is counted as somebody else.            *)
OthersAreOthers(item, mine) ==
  Cardinality(item.recipients \cap mine) <= 1 =>
    Told(item, mine).others = Cardinality(item.recipients \ mine)
=============================================================================
