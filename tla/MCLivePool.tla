----------------------------- MODULE MCLivePool -----------------------------
(***************************************************************************)
(* Two pools one after another, two commits that between them fill a pool, *)
(* and one visit to another page.  What the page says of a round is        *)
(* evaluated over rows of every status, before, at and after each of their *)
(* moments.                                                                *)
(***************************************************************************)
EXTENDS LivePool

-----------------------------------------------------------------------------
Page == INSTANCE PoolView

Rows == [status : Page!Statuses, closes : {Page!None, 10}, buysStart : {Page!None, 20},
         nextPool : {Page!None, 80}, drawStart : {Page!None, 12}, total : {0, 95, 96},
         cap : {100}]
Clock == {0, 9, 10, 11, 12, 18, 22, 30, 69, 70, 79, 80}
Ends == {Page!None, 75}
Feeds == {Page!NoFeed}
           \cup [available : {TRUE}, phase : {Page!ToPhase(p) : p \in {"buying", "fallback", "finished", "closing"}},
                 completed : {0, 1},
                 bought : {3}, target : {0, 2, 7}, fallbackEndsAt : Ends]

ASSUME ClocksTick ==
  \A row \in Rows, now \in Clock : \A feed \in Feeds :
    LET shown == Page!Snapshot(row, now) IN
    /\ Page!ClockHasTimeLeft(shown, now, feed)
    /\ Page!NothingBoughtIsTold(shown, now, feed)
    /\ Page!MoneyBeforeTime(shown, now, feed)

ASSUME LaunchAndLoading ==
  \A now \in Clock, shown \in {Page!LaunchSnapshot(11), Page!EmptySnapshot("loading"),
                               Page!EmptySnapshot("waiting")} :
    Page!ClockHasTimeLeft(shown, now, Page!NoFeed) /\ ~Page!CanCommit(shown)

ASSUME BarsGoForward ==
  \A row \in Rows, now, later \in Clock :
    now <= later =>
      \A feed \in {Page!NoFeed, [Page!NoFeed EXCEPT !.phase = "fallback", !.fallbackEndsAt = 75]} :
        Page!TimeOnlyAdds(row, now, later, feed)

ASSUME ButtonIsThere == \A row \in Rows, now \in Clock : Page!CommitsAreTaken(row, now)

ASSUME CoinsAreListed ==
  \A entries \in SUBSET [mint : 0..2, sol : {1, 2}, pool : {1, 2}] :
    (\A a, b \in entries : a.mint = b.mint /\ a.pool = b.pool => a = b) =>
      Page!CoinsAreThePools(entries, 1)

ASSUME LaterResultCounts ==
  LET results == <<[mint |-> 1, sol |-> 4], [mint |-> 2, sol |-> 0], [mint |-> 1, sol |-> 5],
                 [mint |-> 1, sol |-> 0]>>
  IN /\ Page!DrawnOf(results, 1) = 5
     /\ Page!DrawnOf(results, 2) = 0 /\ Page!DrawnOf(results, 3) = 0

Wallets == {"mine", "mine as well", "theirs", "another"}
Items == [kind : {"buy", "refund"}, sig : {1, 2}, mint : {1, 2}, at : {1, 2}, recipients : {{}}]
OneKey(items) == \A a, b \in items : Page!KeyOf(a) = Page!KeyOf(b) => a = b

ASSUME FeedIsOfTheNewest ==
  \A items \in {s \in SUBSET Items : Cardinality(s) <= 3} : OneKey(items) =>
    \A most \in {2, 3} : Page!RowsAreTheNewest(items, most)

Records == [kind : {"buy", "burn", "refund"}, sig : {Page!None, 1}, mint : {1}, at : {1, 2},
            recipients : {{}}, amount : {Page!None, 0, 3}]

ASSUME BadRecordsAreLeftOut ==
  \A a, b \in Records :
    LET answer == {a, b} IN OneKey(answer) => Page!OneBadRecordCostsOneRow(answer, 2)

ASSUME BurnsAreReadable ==
  \A burn \in [bought : {Page!None, 0, 5}, owed : {Page!None, 3}, burned : {Page!None, 2}] :
    Page!BurnIsReadable(burn)

ASSUME OthersAreCounted ==
  \A them \in SUBSET Wallets : Page!OthersAreOthers([recipients |-> them], {"mine", "mine as well"})
=============================================================================
