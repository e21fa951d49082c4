------------------------------ MODULE LivePool ------------------------------
(***************************************************************************)
(* The pool on the page: PoolService, which polls /lottery/current while   *)
(* somebody looks, the phase made of its answer and of the local clock,    *)
(* and the notice that follows a commit to its end.  The server goes       *)
(* through its pools underneath.                                           *)
(***************************************************************************)
EXTENDS Naturals, Sequences, SequencesExt, FiniteSets

CONSTANTS
  Commits,         \* every commit of the run
  Cap,             \* commits that fill a pool
  MaxPools,        \* bound: pools one after another, the last up to its buying
  MaxLeaves        \* bound: visits to a page without the pool

ASSUME PoolAssumption ==
  Cap \in Nat \ {0} /\ MaxPools \in Nat \ {0} /\ MaxLeaves \in Nat

VARIABLES
  \* --- the server
  pool,            \* its newest row: number, status, commits counted
  before,          \* the pool that was the newest before it
  abandoned,       \* the drafts that ever were; the code does not keep it
  launch,          \* a launch is set
  passed,          \* the moments that are over, of which pool
  chain,           \* each commit: sent, counted in its pool, or of a pool that is past
  \* --- PoolService
  body,            \* the last answer it holds
  requests,        \* requests under way, each with its answer or none yet
  inFlight,        \* the request it waits for, or 0
  timer,           \* timerId is set
  active,          \* somebody is subscribed
  visible,         \* the tab is
  \* --- PoolPageComponent
  dialog,          \* the commit dialog is up
  follows,         \* how far followCommit is with each commit
  joined,          \* follows that wait for the request under way, in order
  toast,
  leaves

rowVars == <<pool, before, abandoned, launch>>
serverVars == <<rowVars, passed, chain>>
pollVars == <<body, requests, inFlight, timer>>
seenVars == <<active, visible>>
pageVars == <<dialog, follows, joined, toast, leaves>>
vars == <<serverVars, pollVars, seenVars, pageVars>>

Pools == 1..MaxPools
Moments == {"close", "window"}
NoPool == [id |-> 0, status |-> "closed", paid |-> FALSE, bets |-> 0, launch |-> FALSE]
Undefined == [NoPool EXCEPT !.status = "undefined"]
Null == [NoPool EXCEPT !.status = "null"]
NoToast == [commit |-> "none", state |-> "none"]
Slots == {1, 2}
Unused == [at |-> "unused", answer |-> Undefined]
Asked == [Unused EXCEPT !.at = "asked"]

\* A pool page just opened, over a round whose buying runs.
Init ==
  /\ pool = [NoPool EXCEPT !.id = 1, !.status = "buying", !.paid = TRUE]
  /\ before = NoPool /\ abandoned = {} /\ launch = FALSE
  /\ passed = {}
  /\ chain = [c \in Commits |-> "none"]
  /\ body = Undefined
  /\ requests = [s \in Slots |-> IF s = 1 THEN Asked ELSE Unused]
  /\ inFlight = 1 /\ timer = FALSE /\ active = TRUE /\ visible = TRUE
  /\ dialog = FALSE
  /\ follows = [c \in Commits |-> "none"]
  /\ joined = <<>>
  /\ toast = NoToast
  /\ leaves = 0

RowStatuses == {"opening", "open", "draw", "buying", "closed"}
PoolRecords ==
  [id : 0..MaxPools, status : RowStatuses, paid : BOOLEAN, bets : 0..Cardinality(Commits), launch : BOOLEAN]

TypeOK ==
  /\ pool \in [id : 0..MaxPools, status : RowStatuses \cup {"abandoned"}, paid : BOOLEAN,
              bets : 0..Cardinality(Commits), launch : {FALSE}]
  /\ before \in PoolRecords /\ abandoned \subseteq Pools
  /\ launch \in BOOLEAN
  /\ passed \subseteq Pools \X Moments
  /\ chain \in [Commits -> {"none", "sent", "counted", "past"}]
  /\ body \in PoolRecords \cup {Undefined, Null}
  /\ \A s \in Slots : requests[s].at \in {"unused", "asked", "answered", "failed"}
  /\ inFlight \in Slots \cup {0}
  /\ {timer, active, visible, dialog} \subseteq BOOLEAN
  /\ follows \in [Commits -> {"none", "following", "settled", "done"}]
  /\ ToSet(joined) = {c \in Commits : follows[c] = "settled"} /\ IsInjective(joined)
  /\ toast \in [commit : Commits, state : {"sending", "told"}] \cup {NoToast}
  /\ leaves \in 0..MaxLeaves

-----------------------------------------------------------------------------
(* buildPoolSnapshot: what the page makes of an answer at this moment.     *)

Over(b, moment) == <<b.id, moment>> \in passed
Full(b) == b.bets >= Cap
Running(b) == b.status \in {"opening", "open", "draw", "buying"}

PhaseOf(b) ==
  CASE b.status = "undefined" -> "loading"
    [] b.launch /\ ~Running(b) -> "launch"
    [] b.status = "null" \/ (b.id = 0 /\ ~b.launch) -> "waiting"
    [] b.status = "opening" -> "opening"
    [] b.status = "open" -> IF Over(b, "close") \/ Full(b) THEN "locked" ELSE "open"
    [] b.status = "draw" -> "locked"
    [] b.status = "buying" -> "buying"
    [] b.status = "closed" /\ b.id # 0 /\ ~b.launch ->
         IF b.paid /\ ~Over(b, "window") THEN "buying" ELSE "done"

\* The pool a snapshot is of; a launch and an empty answer are of none.
PoolIdOf(b) == IF PhaseOf(b) \in {"loading", "launch", "waiting"} THEN 0 ELSE b.id

Steps == [opening |-> 0, open |-> 1, locked |-> 2, buying |-> 3, done |-> 4]

\* The step on the page's scale.  A full pool that loses a bet opens again, on
\* the server and on the page: until its time is up it counts as open.
StepOf(b) ==
  IF b.status = "open" /\ ~Over(b, "close") THEN Steps["open"] ELSE Steps[PhaseOf(b)]

-----------------------------------------------------------------------------
(* The server.                                                             *)

ServerStays == UNCHANGED <<pollVars, seenVars, pageVars>>

\* Mutant of Shown: an abandoned draft is answered like any other row.
ShownAsItIs == [pool EXCEPT !.status = IF @ = "abandoned" THEN "closed" ELSE @]

\* The newest pool that was not abandoned.
Shown == IF pool.status = "abandoned" THEN before ELSE pool

\* get_current_lottery: that pool as it is, a launch only while none runs.
AnswerNow == [Shown EXCEPT !.launch = launch /\ ~Running(Shown)]

\* The round's row goes on: to the chain, the draw, the buying and the close; an
\* empty round goes from open to closed.
RowMoves ==
  /\ pool.id # 0
  /\ \/ pool.status = "opening" /\ pool' = [pool EXCEPT !.status = "open"]
     \/ /\ pool.status = "open" /\ (Over(pool, "close") \/ Full(pool))
        /\ pool' = [pool EXCEPT !.status = "draw"]
     \/ pool.status = "draw" /\ pool' = [pool EXCEPT !.status = "buying", !.paid = TRUE]
     \/ /\ pool.status = "buying" /\ pool.id < MaxPools
        /\ pool' = [pool EXCEPT !.status = "closed"]
     \/ /\ pool.status = "open" /\ Over(pool, "close") /\ pool.bets = 0
        /\ pool' = [pool EXCEPT !.status = "closed"]
  /\ UNCHANGED <<before, abandoned, launch, passed, chain>> /\ ServerStays

\* _release_stuck_drafts writes by the number it has read: an event may have shown
\* the draft as open meanwhile, and its row is abandoned all the same.
Abandon ==
  /\ pool.status \in {"opening", "open"} /\ pool.id \notin abandoned
  /\ pool' = [pool EXCEPT !.status = "abandoned"]
  /\ abandoned' = abandoned \cup {pool.id}
  /\ UNCHANGED <<before, launch, passed, chain>> /\ ServerStays

\* What becomes of it: an event's late write shows it as open after all, or the
\* cleanup closes it.
AbandonedGoesOn(status) ==
  /\ pool.status = "abandoned"
  /\ pool' = [pool EXCEPT !.status = status]
  /\ UNCHANGED <<before, abandoned, launch, passed, chain>> /\ ServerStays

\* The next pool's row is written; a scheduled launch ends with it.
NextPool ==
  /\ pool.status \in {"closed", "abandoned"} /\ pool.id < MaxPools
  /\ pool' = [NoPool EXCEPT !.id = pool.id + 1, !.status = "opening"]
  /\ before' = Shown /\ launch' = FALSE
  /\ chain' = [c \in Commits |-> IF chain[c] = "none" THEN "none" ELSE "past"]
  /\ UNCHANGED <<abandoned, passed>> /\ ServerStays

SetLaunch ==
  /\ pool.status \in {"closed", "abandoned"} /\ pool.id < MaxPools /\ ~launch
  /\ launch' = TRUE
  /\ UNCHANGED <<pool, before, abandoned, passed, chain>> /\ ServerStays

\* The entry period, and the buying window, come to their end.
TimePasses(moment) ==
  /\ pool.id # 0 /\ ~Over(pool, moment)
  /\ IF moment = "close" THEN pool.status = "open" ELSE pool.paid /\ pool.id < MaxPools
  /\ passed' = passed \cup {<<pool.id, moment>>}
  /\ UNCHANGED <<rowVars, chain>> /\ ServerStays

\* The transaction has landed, and the worker, or a page's report, brought it to the
\* backend, which counts it.
Counted(c) ==
  /\ chain[c] = "sent" /\ chain' = [chain EXCEPT ![c] = "counted"]
  /\ pool.status \in {"open", "draw"}
  /\ pool' = [pool EXCEPT !.bets = @ + 1]
  /\ UNCHANGED <<before, abandoned, launch, passed>> /\ ServerStays

\* A request is answered, with what is so at that moment, or fails.
Answers(s) ==
  /\ requests[s].at = "asked"
  /\ requests' = [requests EXCEPT ![s] = [at |-> "answered", answer |-> AnswerNow]]
  /\ UNCHANGED <<serverVars, body, inFlight, timer, seenVars, pageVars>>

Fails(s) ==
  /\ requests[s].at = "asked"
  /\ requests' = [requests EXCEPT ![s] = [at |-> "failed", answer |-> Undefined]]
  /\ UNCHANGED <<serverVars, body, inFlight, timer, seenVars, pageVars>>

-----------------------------------------------------------------------------
(* PoolService.                                                            *)

\* Mutant of MayAsk: a second request goes out beside the first.
MayAskAgain == \E s \in Slots : requests[s].at = "unused"

\* Whether fetch sends a request, or joins the one in flight.
MayAsk == inFlight = 0

\* fetch.
Fetch ==
  IF MayAsk
  THEN LET s == CHOOSE s \in Slots : requests[s].at = "unused"
       IN /\ requests' = [requests EXCEPT ![s] = Asked]
          /\ inFlight' = s /\ timer' = FALSE
  ELSE UNCHANGED <<requests, inFlight, timer>>

\* Mutant of Scheduled: a pool that is done is not asked about any more.
ScheduledUnlessDone(ok) == active /\ visible /\ PhaseOf(body) # "done"

\* scheduleNext, in `finally`.
Scheduled(ok) == active /\ visible

\* The timer runs out.
TimerFires ==
  /\ timer
  /\ LET s == CHOOSE s \in Slots : requests[s].at = "unused"
     IN IF MayAsk THEN requests' = [requests EXCEPT ![s] = Asked] /\ inFlight' = s
        ELSE UNCHANGED <<requests, inFlight>>
  /\ timer' = FALSE
  /\ UNCHANGED <<serverVars, body, seenVars, pageVars>>

\* onVisibilityChange.
Hide ==
  /\ visible
  /\ visible' = FALSE /\ timer' = FALSE
  /\ UNCHANGED <<serverVars, body, requests, inFlight, active, pageVars>>

Show ==
  /\ ~visible
  /\ visible' = TRUE
  /\ IF active THEN Fetch ELSE UNCHANGED <<requests, inFlight, timer>>
  /\ UNCHANGED <<serverVars, body, active, pageVars>>

-----------------------------------------------------------------------------
(* PoolPageComponent.                                                      *)

\* Mutant of Ours: only a commit the notice is not about goes on.
OursNot(c) == toast.commit # c

\* followCommit after `settled`: only the commit the notice is still about.
Ours(c) == toast.commit = c

\* "recorded", "confirmed" and "unconfirmed" (CommitFlow) each have their notice.
Told(c) == [commit |-> c, state |-> "told"]

\* A follow goes on when the request it joined is over.
AfterRefresh(c) == IF c \in ToSet(joined) THEN "done" ELSE follows[c]

\* The request under way is over, and with it the wait of every follow that joined
\* it: the notices are shown in order, without another look at the page.
Received(s) ==
  /\ requests[s].at \in {"answered", "failed"}
  /\ LET ok == requests[s].at = "answered"
     IN /\ body' = IF ok THEN requests[s].answer
                   ELSE IF body = Undefined THEN Null ELSE body
        /\ timer' = Scheduled(ok)
  /\ inFlight' = 0
  /\ requests' = [requests EXCEPT ![s] = Unused]
  /\ toast' = IF joined = <<>> THEN toast ELSE Told(Last(joined))
  /\ follows' = [c \in Commits |-> AfterRefresh(c)]
  /\ joined' = <<>>
  /\ UNCHANGED <<serverVars, seenVars, dialog, leaves>>

\* openCommit: only over an open pool.
OpenCommit ==
  /\ active /\ visible /\ ~dialog /\ PhaseOf(body) = "open"
  /\ dialog' = TRUE
  /\ UNCHANGED <<serverVars, pollVars, seenVars, follows, joined, toast,
                 leaves>>

CloseDialog ==
  /\ dialog /\ dialog' = FALSE
  /\ UNCHANGED <<serverVars, pollVars, seenVars, follows, joined, toast,
                 leaves>>

\* The dialog closes with a SentCommit: followCommit up to its first await.
Sent(c) ==
  /\ dialog /\ dialog' = FALSE
  /\ chain[c] = "none" /\ chain' = [chain EXCEPT ![c] = "sent"]
  /\ follows' = [follows EXCEPT ![c] = "following"]
  /\ toast' = [commit |-> c, state |-> "sending"]
  /\ Fetch
  /\ UNCHANGED <<rowVars, passed, body, seenVars, joined, leaves>>

\* `settled` resolves (CommitFlow): the server has it, the chain has it, or
\* nobody could tell.  The page refreshes before it says so.
Settles(c) ==
  /\ follows[c] = "following"
  /\ IF Ours(c)
     THEN /\ follows' = [follows EXCEPT ![c] = "settled"]
          /\ joined' = Append(joined, c)
          /\ Fetch
     ELSE /\ follows' = [follows EXCEPT ![c] = "done"]
          /\ UNCHANGED <<joined, requests, inFlight, timer>>
  /\ UNCHANGED <<serverVars, body, seenVars, dialog, toast, leaves>>

\* dismissToast: the person's, or the clock's on a good outcome.
DismissToast ==
  /\ toast # NoToast
  /\ toast' = NoToast
  /\ UNCHANGED <<serverVars, pollVars, seenVars, dialog, follows, joined,
                 leaves>>

\* The person goes to another page: ngOnDestroy, and the polling stops.
Leave ==
  /\ active /\ ~dialog /\ leaves < MaxLeaves
  /\ active' = FALSE /\ timer' = FALSE
  /\ leaves' = leaves + 1
  /\ toast' = NoToast /\ joined' = <<>>
  /\ follows' = [c \in Commits |-> IF follows[c] = "none" THEN "none" ELSE "done"]
  /\ UNCHANGED <<serverVars, body, requests, inFlight, visible, dialog>>

ComeBack ==
  /\ ~active /\ active' = TRUE
  /\ Fetch
  /\ UNCHANGED <<serverVars, body, visible, pageVars>>

-----------------------------------------------------------------------------
Server ==
  \/ RowMoves \/ NextPool \/ SetLaunch \/ Abandon
  \/ \E status \in {"open", "closed"} : AbandonedGoesOn(status)
  \/ \E moment \in Moments : TimePasses(moment)
  \/ \E c \in Commits : Counted(c)
Network == \E s \in Slots : Answers(s) \/ Fails(s) \/ Received(s)
Person ==
  \/ OpenCommit \/ CloseDialog \/ (\E c \in Commits : Sent(c)) \/ DismissToast
  \/ Hide \/ Show \/ Leave \/ ComeBack

Next == Server \/ Network \/ TimerFires \/ Person \/ \E c \in Commits : Settles(c)

Spec == Init /\ [][Next]_vars

\* Requests end, and one of many is answered; timers fire; `settled` resolves.
\* Nothing is assumed of the person or of the rounds.
FairSpec ==
  /\ Spec
  /\ WF_vars(Network) /\ SF_vars(\E s \in Slots : Answers(s))
  /\ WF_vars(TimerFires)
  /\ WF_vars(\E c \in Commits : Settles(c))

-----------------------------------------------------------------------------
Watched == active /\ visible

(* The page does not go back: a pool that was seen locked, buying or done  *)
(* is not seen in an earlier step again, and no older pool comes back -    *)
(* whatever fails, is hidden or crosses on the way.  Only a draft that was *)
(* abandoned goes from the page again, and what comes back then is the     *)
(* pool before it (lottery_router.py:1775).                                *)
NeverGoesBack ==
  [][LET was == PoolIdOf(body)
         is == PoolIdOf(body)'
     IN was # 0 /\ is # 0 =>
          \/ is > was
          \/ is = was /\ StepOf(body)' >= StepOf(body)
          \/ is < was /\ \A p \in is + 1..was : p \in abandoned]_<<body, passed>>

(* What the page holds does not stay behind the server while it is looked  *)
(* at: "the page switches by itself".                                      *)
Behind == Watched /\ body # AnswerNow
CatchesUp == Behind ~> ~Behind

(* The notice of a commit does not stay at "sending": whatever the request *)
(* it waits for comes to, its outcome is told, or another notice or the    *)
(* person takes its place (followCommit).                                  *)
Waiting(c) == toast = [commit |-> c, state |-> "sending"]
NoticeResolves == \A c \in Commits : Waiting(c) ~> ~Waiting(c)
=============================================================================
