------------------------------ MODULE RoundFeed ------------------------------
(***************************************************************************)
(* What a page shows of a round that buys: the buyer's record of it, the   *)
(* feed the buyer builds from that record, the backend that holds an       *)
(* answer for some seconds, and the page that polls it.                    *)
(*                                                                         *)
(* A coin's batch plans one purchase; how a purchase is made is module     *)
(* BatchBuy, how a delivery or a refund is, Delivery and BuyerRound.  A    *)
(* delivery, a burn and a refund are rows of their kind.                   *)
(***************************************************************************)
EXTENDS Integers, Sequences, FiniteSets, SequencesExt, FiniteSetsExt, Bags

CONSTANTS
  Coins,
  Kinds,           \* which other rows the round has: of "send", "burn", "refund"
  MaxOthers,       \* bound: rows of each of these kinds
  MaxRows,         \* MAX_FEED_PURCHASES: a list of the feed is not longer
  MaxLives,        \* bound: how often the buyer's process is started
  MaxSilences,     \* bound: requests the buyer or the network leaves unanswered
  MaxSubscribes    \* bound: how often the page subscribes to the feed

ASSUME FeedAssumption ==
  /\ IsFiniteSet(Coins) /\ Coins # {}
  /\ Kinds \subseteq {"send", "burn", "refund"}
  /\ MaxOthers \in Nat /\ MaxRows \in Nat \ {0} /\ MaxLives \in Nat /\ MaxSilences \in Nat /\ MaxSubscribes \in Nat

VARIABLES
  buyer,           \* the buyer's process: is it up, in which life, on which coins
  coin,            \* each coin's record: its status and its batch files
  onChain,         \* how many other rows of each kind are on record as completed
  finishedAt,      \* does the round's summary have a finish time?
  cache,           \* the answer the backend holds
  silences,
  page,            \* the pool page: its subscription, its timers, what it shows
  requests         \* the page's requests under way, and how far each has come

recordVars == <<coin, onChain, finishedAt>>
buyerVars == <<buyer, recordVars>>
serverVars == <<cache, silences>>
pageVars == <<page, requests>>
vars == <<buyerVars, serverVars, pageVars>>

-----------------------------------------------------------------------------
(* The feed: buildPurchaseFeed.                                            *)

NoBatch == [made |-> FALSE, at |-> 0, retry |-> FALSE, fin |-> FALSE]
Made(c) == {i \in DOMAIN coin[c].files : coin[c].files[i].made}
Unfinished(c) == {i \in Made(c) : ~coin[c].files[i].fin}

\* Mutant: a coin whose batch is not on disk is not being bought.
NotStartedPending(c) == coin[c].status = "pending"

NotStarted(c) ==
  \/ coin[c].status = "pending"
  \/ coin[c].status = "in_progress" /\ Cardinality(Made(c)) < Len(coin[c].files)

Buying == \E c \in Coins : Unfinished(c) # {} \/ NotStarted(c)
SecondPass == \E c \in Coins : \E i \in Unfinished(c) : coin[c].files[i].retry

Phase == IF ~Buying \/ finishedAt THEN "finished" ELSE IF SecondPass THEN "fallback" ELSE "buying"

\* The purchases on record: `at` orders them.
Purchases == {<<c, i>> \in Coins \X (1..MaxLives) : i \in Made(c) /\ coin[c].files[i].at > 0}
Bought == {bought[1] : bought \in Purchases}

At(bought) == coin[bought[1]].files[bought[2]].at
Newest(n) ==
  LET newestFirst == SetToSortSeq(Purchases, LAMBDA a, b : At(a) > At(b))
  IN SubSeq(newestFirst, 1, Min({n, Len(newestFirst)}))

\* Of n other rows, numbered as they came, the newest: they come first.
NewestOf(n) == [i \in 1..Min({MaxRows, n}) |-> n + 1 - i]

\* Each list is cut to its newest.
BuildFeed == [available |-> TRUE, phase |-> Phase, completed |-> Cardinality(Purchases),
              purchases |-> Newest(MaxRows), others |-> [k \in Kinds |-> NewestOf(onChain[k])]]
EmptyFeed == [available |-> FALSE, phase |-> "buying", completed |-> 0, purchases |-> <<>>,
              others |-> [k \in Kinds |-> <<>>]]

-----------------------------------------------------------------------------
(* The buyer.                                                              *)

Write(c, status, files) ==
  /\ coin' = [coin EXCEPT ![c] = [status |-> status, files |-> files]]
  /\ UNCHANGED <<onChain, finishedAt, serverVars, pageVars>>

SetBatch(c, batch) ==
  /\ Write(c, coin[c].status, [coin[c].files EXCEPT ![Len(coin[c].files)] = batch])
  /\ UNCHANGED buyer

\* The coin's batch under way, if it has one.
InBatch(c) == buyer.up /\ c \in buyer.on /\ coin[c].status = "in_progress"
Batch(c) == Last(coin[c].files)

\* The batch file is named before the first of the batch's calls.
StartTokenBuy(c) ==
  /\ buyer.up /\ coin[c].status \in {"pending", "in_progress"} /\ c \notin buyer.on
  /\ buyer' = [buyer EXCEPT !.on = @ \union {c}]
  /\ Write(c, "in_progress", Append(coin[c].files, NoBatch))

CreateBatch(c) ==
  /\ InBatch(c) /\ ~Batch(c).made
  /\ SetBatch(c, [NoBatch EXCEPT !.made = TRUE])

MarkCompleted(c) ==
  /\ InBatch(c) /\ Batch(c).made /\ ~Batch(c).fin /\ Batch(c).at = 0
  /\ SetBatch(c, [Batch(c) EXCEPT !.at = Cardinality(Purchases) + 1])

StartRetryPhase(c) ==
  /\ InBatch(c) /\ Batch(c).made /\ ~Batch(c).fin /\ Batch(c).at = 0 /\ ~Batch(c).retry
  /\ SetBatch(c, [Batch(c) EXCEPT !.retry = TRUE])

\* Bought, abandoned or out of retries: the batch has an end, and the end of its
\* retries is not read any more.
FinishBatch(c) ==
  /\ InBatch(c) /\ Batch(c).made /\ ~Batch(c).fin
  /\ SetBatch(c, [Batch(c) EXCEPT !.fin = TRUE, !.retry = FALSE])

\* buyLoop writes down what the batch came to.
MarkTokenBuy(c) ==
  /\ InBatch(c) /\ Batch(c).fin
  /\ Write(c, IF Batch(c).at > 0 THEN "completed" ELSE "failed", coin[c].files)
  /\ UNCHANGED buyer

\* The batch refuses the mint, or breaks off.
MarkTokenBuyFailed(c) ==
  /\ InBatch(c) /\ ~Batch(c).fin
  /\ Write(c, "failed", coin[c].files)
  /\ UNCHANGED buyer

BuysEnded == \A c \in Coins : coin[c].status \in {"completed", "failed"}

\* A delivery or a burn of what was bought, or a refund of what was not spent.
RowCompleted(k) ==
  /\ buyer.up /\ ~finishedAt /\ k \in Kinds /\ onChain[k] < MaxOthers
  /\ IF k = "refund" THEN BuysEnded ELSE Bought # {}
  /\ onChain' = [onChain EXCEPT ![k] = @ + 1]
  /\ UNCHANGED <<buyer, coin, finishedAt, serverVars, pageVars>>

Finalize ==
  /\ buyer.up /\ BuysEnded /\ ~finishedAt
  /\ finishedAt' = TRUE
  /\ UNCHANGED <<buyer, coin, onChain, serverVars, pageVars>>

Crash ==
  /\ buyer.up /\ buyer.life < MaxLives
  /\ buyer' = [buyer EXCEPT !.up = FALSE, !.on = {}]
  /\ UNCHANGED <<recordVars, serverVars, pageVars>>

\* A restart: what was bought is settled, the rest is bought in a new batch.
Resume ==
  /\ ~buyer.up
  /\ buyer' = [up |-> TRUE, life |-> buyer.life + 1, on |-> {}]
  /\ coin' = [c \in Coins |->
                IF coin[c].status = "in_progress" /\ c \in Bought
                THEN [coin[c] EXCEPT !.status = "completed"] ELSE coin[c]]
  /\ UNCHANGED <<onChain, finishedAt, serverVars, pageVars>>

-----------------------------------------------------------------------------
(* The backend: /lottery/{id}/purchases, a thread for each request.        *)

Add(bag, feed) == bag (+) SetToBag({feed})
Without(bag, feed) == bag (-) SetToBag({feed})

\* Under the lock: the answer is in the cache, or the buyer is to be asked.
CheckCache ==
  /\ requests.asked > 0
  /\ requests' = IF cache # <<>>
                 THEN [requests EXCEPT !.asked = @ - 1, !.answers = Add(@, cache[1])]
                 ELSE [requests EXCEPT !.asked = @ - 1, !.missed = @ + 1]
  /\ UNCHANGED <<buyerVars, serverVars, page>>

\* Outside of it: what the buyer says now, or nothing.
FetchPurchases ==
  /\ requests.missed > 0
  /\ LET Got(feed) == requests' = [requests EXCEPT !.missed = @ - 1, !.fetched = Add(@, feed)] IN
     \/ buyer.up /\ Got(BuildFeed) /\ UNCHANGED silences
     \/ silences < MaxSilences /\ Got(EmptyFeed) /\ silences' = silences + 1
  /\ UNCHANGED <<buyerVars, cache, page>>

\* Under it again: two that missed may write in either order, the older over the
\* newer.
StoreAnswer(feed) ==
  /\ BagIn(feed, requests.fetched)
  /\ cache' = <<feed>>
  /\ requests' = [requests EXCEPT !.fetched = Without(@, feed), !.answers = Add(@, feed)]
  /\ UNCHANGED <<buyerVars, silences, page>>

CacheExpires ==
  /\ cache # <<>> /\ cache' = <<>>
  /\ UNCHANGED <<buyerVars, silences, pageVars>>

-----------------------------------------------------------------------------
(* The page: PurchasesService.                                             *)

\* fetch: the timer on record is cleared, and a request leaves.
Fetch(p, n) ==
  /\ page' = [p EXCEPT !.timer = FALSE]
  /\ requests' = [requests EXCEPT !.asked = @ + n]

\* The page starts to follow the feed.
Subscribe ==
  /\ ~page.on /\ page.opened < MaxSubscribes
  /\ Fetch([page EXCEPT !.on = TRUE, !.opened = @ + 1], 1)
  /\ UNCHANGED <<buyerVars, serverVars>>

Unsubscribe ==
  /\ page.on
  /\ page' = [page EXCEPT !.on = FALSE, !.timer = FALSE]
  /\ UNCHANGED <<buyerVars, serverVars, requests>>

\* The buying window changed: the feed is left and taken up again.
Resubscribe ==
  /\ page.on /\ page.opened < MaxSubscribes
  /\ Fetch([page EXCEPT !.opened = @ + 1], 1)
  /\ UNCHANGED <<buyerVars, serverVars>>

TimerFires ==
  /\ page.timer /\ Fetch(page, 1)
  /\ UNCHANGED <<buyerVars, serverVars>>

\* A timer another one took the place of fires all the same.
StrayTimerFires ==
  /\ page.stray > 0 /\ Fetch([page EXCEPT !.stray = @ - 1], 1)
  /\ UNCHANGED <<buyerVars, serverVars>>

\* Mutant: the page stops asking once the buying is over.
ScheduleWhileBuying(p) ==
  IF ~p.on \/ p.shown.phase = "finished" THEN p
  ELSE IF p.hidden THEN [p EXCEPT !.listeners = @ + 1]
  ELSE [p EXCEPT !.timer = TRUE, !.stray = @ + (IF p.timer THEN 1 ELSE 0)]

\* schedule and scheduleOnVisible: a page nobody looks at waits to be seen.
Schedule(p) ==
  IF ~p.on THEN p
  ELSE IF p.hidden THEN [p EXCEPT !.listeners = @ + 1]
  ELSE [p EXCEPT !.timer = TRUE, !.stray = @ + (IF p.timer THEN 1 ELSE 0)]

\* The page changes only when something it compares did: of a list, its length and
\* its newest row.
SameList(a, b) == Len(a) = Len(b) /\ (a # <<>> => Head(a) = Head(b))

SameFeed(a, b) == /\ a.available = b.available /\ a.phase = b.phase
                  /\ a.completed = b.completed /\ SameList(a.purchases, b.purchases)
                  /\ \A k \in Kinds : SameList(a.others[k], b.others[k])

\* An answer is applied, whatever was read before it or after.
Arrive(feed) ==
  /\ BagIn(feed, requests.answers)
  /\ page' = Schedule([page EXCEPT !.shown = IF SameFeed(@, feed) THEN @ ELSE feed])
  /\ requests' = [requests EXCEPT !.answers = Without(@, feed)]
  /\ UNCHANGED <<buyerVars, serverVars>>

\* The network blinked: what is already there stays on screen.
AfterFailure(p) == Schedule(p)

\* The answer never comes.
Fail ==
  /\ requests.asked > 0 /\ silences < MaxSilences
  /\ page' = AfterFailure(page)
  /\ requests' = [requests EXCEPT !.asked = @ - 1]
  /\ silences' = silences + 1
  /\ UNCHANGED <<buyerVars, cache>>

Hide ==
  /\ ~page.hidden /\ page' = [page EXCEPT !.hidden = TRUE]
  /\ UNCHANGED <<buyerVars, serverVars, requests>>

\* Mutant of ListenersLeft: a listener does not remove itself.
ListenersKept == page.listeners

ListenersLeft == 0

\* Seen again: every listener is called, and asks if the feed is followed.
Show ==
  /\ page.hidden
  /\ LET seen == [page EXCEPT !.hidden = FALSE, !.listeners = ListenersLeft] IN
     IF page.on /\ page.listeners > 0 THEN Fetch(seen, page.listeners)
     ELSE page' = seen /\ UNCHANGED requests
  /\ UNCHANGED <<buyerVars, serverVars>>

-----------------------------------------------------------------------------
Init ==
  /\ buyer = [up |-> TRUE, life |-> 1, on |-> {}]
  /\ coin = [c \in Coins |-> [status |-> "pending", files |-> <<>>]]
  /\ onChain = [k \in Kinds |-> 0] /\ finishedAt = FALSE
  /\ cache = <<>> /\ silences = 0
  /\ page = [on |-> FALSE, opened |-> 0, hidden |-> FALSE, timer |-> FALSE, stray |-> 0,
             listeners |-> 0, shown |-> EmptyFeed]
  /\ requests = [asked |-> 0, missed |-> 0, fetched |-> EmptyBag, answers |-> EmptyBag]

BuyerStep ==
  \/ \E c \in Coins : \/ StartTokenBuy(c) \/ CreateBatch(c) \/ MarkCompleted(c) \/ StartRetryPhase(c)
                      \/ FinishBatch(c) \/ MarkTokenBuy(c) \/ MarkTokenBuyFailed(c)
  \/ \E k \in Kinds : RowCompleted(k)
  \/ Finalize \/ Resume

Asked == CheckCache \/ Fail
Stores == \E feed \in BagToSet(requests.fetched) : StoreAnswer(feed)
Arrives == \E feed \in BagToSet(requests.answers) : Arrive(feed)
Timers == TimerFires \/ StrayTimerFires

Next ==
  \/ BuyerStep \/ Crash
  \/ Asked \/ FetchPurchases \/ Stores \/ Arrives \/ Timers \/ CacheExpires
  \/ Subscribe \/ Unsubscribe \/ Resubscribe \/ Hide \/ Show

Spec == Init /\ [][Next]_vars

\* The buyer works on, the server answers, the cache runs out, an answer that
\* was given arrives and a timer fires.
FairSpec == /\ Spec /\ WF_vars(BuyerStep) /\ WF_vars(Asked) /\ WF_vars(FetchPurchases)
            /\ WF_vars(Stores) /\ WF_vars(Arrives)
            /\ WF_vars(Timers) /\ WF_vars(CacheExpires)

-----------------------------------------------------------------------------
Feeds == [available : BOOLEAN, phase : {"buying", "fallback", "finished"}, completed : Nat,
          purchases : Seq(Coins \X Nat), others : [Kinds -> Seq(Nat)]]

TypeOK ==
  /\ buyer \in [up : BOOLEAN, life : 1..MaxLives, on : SUBSET Coins]
  /\ coin \in [Coins -> [status : {"pending", "in_progress", "completed", "failed"},
                         files : Seq([made : BOOLEAN, at : Nat, retry : BOOLEAN, fin : BOOLEAN])]]
  /\ onChain \in [Kinds -> 0..MaxOthers] /\ finishedAt \in BOOLEAN
  /\ cache \in Seq(Feeds) /\ Len(cache) <= 1 /\ silences \in 0..MaxSilences
  /\ page \in [on : BOOLEAN, opened : 0..MaxSubscribes, hidden : BOOLEAN, timer : BOOLEAN,
               stray : Nat, listeners : Nat, shown : Feeds]
  /\ requests.asked \in Nat /\ requests.missed \in Nat
  /\ BagToSet(requests.fetched) \union BagToSet(requests.answers) \subseteq Feeds

\* "Finished" is final: the phase by which the page ends its countdown and the
\* round is closed never turns back to buying.  Only a buyer that died between a
\* batch's end and the coin's record buys the coin again after it.
FinishedIsFinal ==
  [][Phase = "finished" => \/ Phase' = "finished"
                           \/ \E c \in Coins : /\ Len(coin'[c].files) > Len(coin[c].files)
                                             /\ \E i \in DOMAIN coin[c].files : coin[c].files[i].fin]_vars

\* However often the page is left, hidden and taken up again, its requests do not
\* multiply: at any time no more are asked for, answered or timed than the page has
\* subscribed (fetch, schedule, scheduleOnVisible).
RequestsDoNotMultiply ==
  requests.asked + requests.missed
    + BagCardinality(requests.fetched) + BagCardinality(requests.answers)
    + (IF page.timer THEN 1 ELSE 0) + page.stray + page.listeners <= page.opened

\* A page that is looked at comes to show the feed as the buyer has it.
CatchesUp ==
  <>[](page.on /\ ~page.hidden /\ buyer.up) => <>[](page.shown = BuildFeed)
=============================================================================
