---------------------------- MODULE RoundAutostart ----------------------------
(***************************************************************************)
(* The cycle of rounds: how the phase worker opens the next one, and what  *)
(* it makes of a draft that came to nothing (lottery_phase_worker.py), the *)
(* switch of the cycle with its launch countdown (lottery_cycle_control),  *)
(* and the event workers that write to the same rows.                      *)
(*                                                                         *)
(* A draft is a row with an id and nothing on chain yet.  What happens to  *)
(* a round from its opening to its close is module RoundCoordinator; here  *)
(* it is one step, PlayOut.  The two event workers are one that takes an   *)
(* event at a time.                                                        *)
(***************************************************************************)
EXTENDS Integers, FiniteSets

CONSTANTS
  MaxRounds,       \* bound: rounds the worker drafts
  MaxCrashes,      \* bound: deaths of the worker
  MaxStops         \* bound: stops of the cycle

ASSUME AutostartAssumption == MaxRounds \in Nat \ {0} /\ MaxCrashes \in Nat /\ MaxStops \in Nat

VARIABLES
  row,             \* each round's status in the database
  chain,           \* each round's account: "absent", "coming" (its opening is on its way),
                   \* "open", "closed" (gone again)
  closing,         \* the rounds with a close on its way
  paid,            \* the rounds somebody deposited in
  age,             \* of a draft: 0 fresh, 1 stuck, 2 due for cleanup, 3 nothing more can come
  drafted,         \* how many rounds there are
  pause,           \* does the last round's window, or the pause after it, still run?
  control,         \* the switch: is the cycle on, and its countdown
  hype,            \* setting: is there a launch countdown at all?
  worker,          \* where the worker is, the round it is at, what it has read
  handler,         \* the opening an event worker has read a draft for, 0 if none
  overwritten,     \* history: rounds that were shown as open and then abandoned
  stopped,         \* history: is the last word on the cycle a stop?
  overruled,       \* history: was that stop overwritten by a launch read before it?
  afterStop,       \* history: rounds drafted since then
  crashes, stops

roundVars == <<row, chain, closing, paid, age, overwritten>>
historyVars == <<stopped, overruled, afterStop>>
cycleVars == <<drafted, pause, control, hype, historyVars, stops>>
vars == <<roundVars, cycleVars, worker, handler, crashes>>

Ids == 1..MaxRounds
OpenRows == {"id_generated", "created"}
Nobody == [pc |-> "idle", at |-> 0, stuck |-> {}, seen |-> [enabled |-> FALSE, launch |-> "none"],
           blocking |-> FALSE]

At(pc) == worker.pc = pc
Goes(pc) == worker' = [worker EXCEPT !.pc = pc]
Rests == worker' = Nobody

\* The worker holds the row of the round its cleanup is at.
Locked(r) == At("closing") /\ worker.at = r
Alive == {r \in Ids : row[r] \in OpenRows}

-----------------------------------------------------------------------------
(* The world: the chain, the clock, the depositors.                        *)

Lands(r, state) ==
  /\ chain[r] = "coming" /\ chain' = [chain EXCEPT ![r] = state]
  /\ UNCHANGED <<row, closing, paid, age, overwritten, cycleVars, worker, handler, crashes>>

Land(r) == Lands(r, "open")
Expire(r) == Lands(r, "absent")

\* The program refuses to close a round with deposits that has not paid out.
CloseLands(r) ==
  /\ r \in closing
  /\ closing' = closing \ {r}
  /\ chain' = IF chain[r] = "open" /\ r \notin paid THEN [chain EXCEPT ![r] = "closed"] ELSE chain
  /\ UNCHANGED <<row, paid, age, overwritten, cycleVars, worker, handler, crashes>>

CloseExpires(r) ==
  /\ r \in closing /\ closing' = closing \ {r}
  /\ UNCHANGED <<row, chain, paid, age, overwritten, cycleVars, worker, handler, crashes>>

\* People deposit in what the site shows, or showed them, as open.
Deposit(r) ==
  /\ chain[r] = "open" /\ r \notin paid /\ (row[r] = "created" \/ r \in overwritten)
  /\ paid' = paid \union {r}
  /\ UNCHANGED <<row, chain, closing, age, overwritten, cycleVars, worker, handler, crashes>>

Older(r) ==
  /\ age' = [age EXCEPT ![r] = @ + 1]
  /\ UNCHANGED <<row, chain, closing, paid, overwritten, cycleVars, worker, handler, crashes>>

\* Mutant: the wait is not longer than a transaction lives.
AgeAtOnce(r) ==
  /\ row[r] \in {"id_generated", "abandoned"} /\ age[r] < (IF row[r] = "abandoned" THEN 3 ELSE 2)
  /\ Older(r)

\* A draft grows old: past the grace, past the cleanup's delay and its own end.  A
\* quarter of an hour after it was abandoned its opening can no longer land.
Age(r) ==
  /\ \/ row[r] \in {"id_generated", "abandoned"} /\ age[r] < 2
     \/ row[r] = "abandoned" /\ age[r] = 2 /\ chain[r] # "coming"
  /\ Older(r)

\* From its opening to its close the round is RoundCoordinator's.  The pause
\* before the next one is for rounds that bought.
PlayOut(r) ==
  /\ At("idle") /\ row[r] = "created" /\ chain[r] = "open"
  /\ chain' = [chain EXCEPT ![r] = "closed"] /\ row' = [row EXCEPT ![r] = "closed"]
  /\ pause' = (pause \/ r \in paid) /\ paid' = paid \ {r}
  /\ UNCHANGED <<closing, age, overwritten, drafted, control, hype, historyVars,
                 stops, worker, handler, crashes>>

PauseEnds ==
  /\ pause /\ pause' = FALSE
  /\ UNCHANGED <<roundVars, drafted, control, hype, historyVars, stops, worker, handler, crashes>>

-----------------------------------------------------------------------------
(* The event workers.                                                      *)

\* LotteryInitialized: the row is read without a lock ...
HandlerReads(r) ==
  /\ handler = 0 /\ chain[r] \in {"open", "closed"} /\ row[r] = "id_generated"
  /\ handler' = r
  /\ UNCHANGED <<roundVars, cycleVars, worker, crashes>>

\* ... and written by its id; the index allows one open row of a type.
HandlerWrites ==
  /\ handler # 0 /\ ~Locked(handler)
  /\ row' = IF Alive \subseteq {handler} THEN [row EXCEPT ![handler] = "created"] ELSE row
  /\ handler' = 0
  /\ UNCHANGED <<chain, closing, paid, age, overwritten, cycleVars, worker, crashes>>

\* PhaseChanged: closed.
HandlerCloses(r) ==
  /\ handler = 0 /\ chain[r] = "closed" /\ row[r] # "closed" /\ ~Locked(r)
  /\ row' = [row EXCEPT ![r] = "closed"]
  /\ UNCHANGED <<chain, closing, paid, age, overwritten, cycleVars, worker, handler, crashes>>

-----------------------------------------------------------------------------
(* The switch: stop and resume of the admin's pages.                       *)

SetCycleEnabled(enabled) ==
  /\ control' = [enabled |-> enabled, launch |-> "none"]
  /\ stopped' = ~enabled /\ overruled' = FALSE /\ afterStop' = 0
  /\ UNCHANGED <<roundVars, drafted, pause, hype, worker, handler, crashes>>

StopCycle == stops < MaxStops /\ stops' = stops + 1 /\ SetCycleEnabled(FALSE)
ResumeCycle == ~control.enabled /\ UNCHANGED stops /\ SetCycleEnabled(TRUE)

CountdownEnds ==
  /\ control.launch = "counting" /\ control' = [control EXCEPT !.launch = "due"]
  /\ UNCHANGED <<roundVars, drafted, pause, hype, historyVars, stops, worker, handler, crashes>>

-----------------------------------------------------------------------------
(* A pass of the worker: the cleanup of abandoned rounds, then the opening *)
(* of the next one.                                                        *)

WritesRow(r, status) ==
  /\ row' = [row EXCEPT ![r] = status]
  /\ UNCHANGED <<chain, closing, paid, age, overwritten, cycleVars, handler, crashes>>

\* The row is locked, the chain is read.  An account that never came, or is gone, is
\* waited for until nothing can come any more.
GiveUp(r) ==
  /\ At("idle") /\ row[r] = "abandoned" /\ age[r] = 3 /\ chain[r] # "open"
  /\ WritesRow(r, "closed") /\ UNCHANGED worker

\* A round that landed after all, and that nobody paid into, is closed.
CloseAbandoned(r) ==
  /\ At("idle") /\ row[r] = "abandoned" /\ age[r] >= 2
  /\ chain[r] = "open" /\ r \notin paid
  /\ closing' = closing \union {r}
  /\ worker' = [worker EXCEPT !.pc = "closing", !.at = r]
  /\ UNCHANGED <<row, chain, paid, age, overwritten, cycleVars, handler, crashes>>

MarkClosed ==
  /\ At("closing") /\ chain[worker.at] = "closed"
  /\ WritesRow(worker.at, "closed") /\ Rests

\* A draft past its end that is on chain is a round whose event was missed.
RecoverCreated(r) ==
  /\ At("idle") /\ row[r] = "id_generated" /\ age[r] = 2 /\ chain[r] = "open"
  /\ WritesRow(r, "created") /\ UNCHANGED worker

Stuck == {r \in Ids : row[r] = "id_generated" /\ age[r] >= 1}

\* _release_stuck_drafts reads the stuck drafts, and abandons them by their ids.
BeginAutostart ==
  /\ At("idle")
  /\ worker' = [Nobody EXCEPT !.pc = "release", !.stuck = Stuck]
  /\ UNCHANGED <<roundVars, cycleVars, handler, crashes>>

Abandoning(rs) ==
  /\ row' = [r \in Ids |-> IF r \in rs THEN "abandoned" ELSE row[r]]
  /\ overwritten' = overwritten \union {r \in rs : row[r] = "created"}
  /\ UNCHANGED <<chain, closing, paid, age, cycleVars, handler, crashes>>

\* The switch and the rows are read.
Looking(rows) ==
  worker' = [worker EXCEPT !.pc = "reconcile", !.stuck = {}, !.seen = control,
                           !.blocking = \E r \in Ids : rows[r] \in OpenRows]

\* Mutant: a stuck draft waits for a person.
ReleaseNone == At("release") /\ Abandoning({}) /\ Looking(row)

ReleaseStuckDrafts == At("release") /\ Abandoning(worker.stuck) /\ Looking(row')

\* Mutant: a countdown that runs is as good as a cycle that is on.
ReconcileEager(seen, blocking, now) ==
  IF seen.enabled THEN [now EXCEPT !.launch = "none"]
  ELSE IF ~hype THEN now
  ELSE IF blocking THEN now
  ELSE [now EXCEPT !.enabled = TRUE]

\* reconcile_hype_countdown writes the columns it changes, by what was read.
Reconcile(seen, blocking, now) ==
  IF seen.enabled \/ ~hype THEN IF seen.launch # "none" THEN [now EXCEPT !.launch = "none"] ELSE now
  ELSE IF blocking \/ seen.launch = "counting" THEN now
  ELSE IF seen.launch = "none" THEN [now EXCEPT !.launch = "counting"]
  ELSE [enabled |-> TRUE, launch |-> "none"]

\* Then the countdown is reconciled.  What was written is read back; what
\* was not counts as it was read.  A launch does not wait for the pause.  It is the
\* next word on the cycle when the countdown is over as it is written; one that was
\* over when it was read, and that a stop has ended since, overrules the stop.
ReconcileHypeCountdown ==
  /\ At("reconcile")
  /\ LET written == Reconcile(worker.seen, worker.blocking, control)
         enabled == IF written = control THEN worker.seen.enabled ELSE written.enabled
         launched == written.enabled /\ worker.seen.launch = "due" IN
     /\ control' = written
     /\ stopped' = (stopped /\ ~(launched /\ control.launch = "due"))
     /\ overruled' = (overruled \/ (stopped /\ launched /\ control.launch # "due"))
     /\ IF enabled /\ ~worker.blocking /\ (~pause \/ ~worker.seen.enabled)
        THEN Goes("opening") ELSE Rests
  /\ UNCHANGED <<roundVars, drafted, pause, hype, afterStop, stops, handler, crashes>>

\* The buyer was asked for its wallet and the node for the account: the draft
\* is written, unless another row is open.
InsertDraft ==
  /\ At("opening")
  /\ IF Alive # {} THEN Rests /\ UNCHANGED <<row, drafted, afterStop>>
     ELSE /\ drafted < MaxRounds
          /\ drafted' = drafted + 1
          /\ row' = [row EXCEPT ![drafted'] = "id_generated"]
          /\ worker' = [worker EXCEPT !.pc = "sending", !.at = drafted']
          /\ afterStop' = IF stopped THEN afterStop + 1 ELSE afterStop
  /\ UNCHANGED <<chain, closing, paid, age, overwritten, pause, control, hype, stopped,
                 overruled, stops, handler, crashes>>

Send ==
  /\ At("sending") /\ Goes("confirming")
  /\ chain' = [chain EXCEPT ![worker.at] = "coming"]
  /\ UNCHANGED <<row, closing, paid, age, overwritten, cycleVars, handler, crashes>>

Confirmed ==
  /\ At("confirming") /\ chain[worker.at] \in {"open", "closed"} /\ Goes("submitted")
  /\ UNCHANGED <<roundVars, cycleVars, handler, crashes>>

\* The call failed: refused, not sent, or sent and not confirmed in time.
CallFails ==
  /\ worker.pc \in {"sending", "confirming"} /\ Goes("failed")
  /\ UNCHANGED <<roundVars, cycleVars, handler, crashes>>

\* The draft is looked for among the drafts, and abandoned by its id.
ReadDraft ==
  /\ At("failed") /\ (IF row[worker.at] = "id_generated" THEN Goes("abandoning") ELSE Rests)
  /\ UNCHANGED <<roundVars, cycleVars, handler, crashes>>

AbandonDraft == At("abandoning") /\ Abandoning({worker.at}) /\ Rests

\* The account is readable: the round is open.
MarkCreated ==
  /\ At("submitted") /\ WritesRow(worker.at, "created") /\ Rests

\* An error that leaves no trace: a node or the buyer does not answer, a row is
\* left as it was, what was sent is not waited for.
Leave ==
  /\ worker.pc \in {"closing", "opening", "submitted"} /\ Rests
  /\ UNCHANGED <<roundVars, cycleVars, handler, crashes>>

Crash ==
  /\ ~At("idle") /\ crashes < MaxCrashes
  /\ crashes' = crashes + 1 /\ Rests
  /\ UNCHANGED <<roundVars, cycleVars, handler>>

-----------------------------------------------------------------------------
Init ==
  /\ row = [r \in Ids |-> "none"] /\ chain = [r \in Ids |-> "absent"]
  /\ age = [r \in Ids |-> 0]
  /\ closing = {} /\ paid = {} /\ overwritten = {}
  /\ drafted = 0 /\ pause = FALSE /\ afterStop = 0 /\ crashes = 0 /\ stops = 0
  /\ hype \in BOOLEAN
  /\ control \in [enabled : BOOLEAN, launch : {"none"}] /\ stopped = ~control.enabled
  /\ overruled = FALSE
  /\ worker = Nobody /\ handler = 0

Visit == \/ MarkClosed \/ ReleaseStuckDrafts \/ ReconcileHypeCountdown \/ InsertDraft \/ Send
         \/ Confirmed \/ CallFails \/ ReadDraft \/ AbandonDraft \/ MarkCreated \/ Leave

Ends == \E r \in Ids : PlayOut(r)
Ages == \E r \in Ids : Age(r)

Next ==
  \/ \E r \in Ids : \/ Land(r) \/ Expire(r) \/ CloseLands(r) \/ CloseExpires(r)
                    \/ Deposit(r) \/ HandlerReads(r) \/ HandlerCloses(r)
                    \/ GiveUp(r) \/ CloseAbandoned(r) \/ RecoverCreated(r)
  \/ Ends \/ Ages \/ PauseEnds \/ HandlerWrites
  \/ StopCycle \/ ResumeCycle \/ CountdownEnds
  \/ BeginAutostart \/ Visit \/ Crash

Spec == Init /\ [][Next]_vars

\* The worker's loop goes on and its visits end, time passes, a write that waits
\* for its row gets it.  An opening is tried, and a round that is open played out,
\* however often a pass before it broke off.  Events may be missed for ever.
FairSpec ==
  /\ Spec /\ WF_vars(Visit) /\ SF_vars(BeginAutostart) /\ SF_vars(InsertDraft)
  /\ WF_vars(HandlerWrites) /\ SF_vars(Ends) /\ WF_vars(Ages) /\ WF_vars(PauseEnds)

-----------------------------------------------------------------------------
TypeOK ==
  /\ row \in [Ids -> {"none", "id_generated", "created", "abandoned", "closed"}]
  /\ chain \in [Ids -> {"absent", "coming", "open", "closed"}]
  /\ closing \subseteq Ids /\ paid \subseteq Ids /\ overwritten \subseteq Ids
  /\ age \in [Ids -> 0..3] /\ drafted \in 0..MaxRounds /\ pause \in BOOLEAN
  /\ control \in [enabled : BOOLEAN, launch : {"none", "counting", "due"}] /\ hype \in BOOLEAN
  /\ worker.pc \in {"idle", "closing", "release", "reconcile", "opening", "sending",
                    "confirming", "failed", "abandoning", "submitted"}
  /\ worker.at \in 0..MaxRounds /\ handler \in 0..MaxRounds
  /\ stopped \in BOOLEAN /\ overruled \in BOOLEAN /\ afterStop \in Nat /\ crashes \in 0..MaxCrashes /\ stops \in 0..MaxStops

\* A round that is open on chain is watched: it is a draft, it is the round the
\* worker drives, or it was abandoned and nobody's money is in it, so that the
\* cleanup closes it.  Money gets into an abandoned round only when the release
\* overwrote a round that an event had just shown as open.
OpenRoundIsWatched ==
  \A r \in Ids : chain[r] = "open" =>
     \/ row[r] \in OpenRows
     \/ row[r] = "abandoned" /\ (r \in paid => r \in overwritten)

\* What the release says of a stuck draft: if its transaction did land, the cleanup
\* closes it properly.  An event that shows the round between the release's read and its
\* write lets people pay into a round the cleanup then leaves alone for ever.
AbandonedIsEmpty == \A r \in Ids : row[r] = "abandoned" => r \notin paid

\* A stop holds: until somebody resumes, or a countdown begun after it runs out, it
\* costs at most the one round that was being opened.  In one way alone it is lost:
\* it comes while a pass that has read a countdown as over has yet to write the
\* launch, which then writes the switch by its row (lottery_cycle_control.py:164).
StopCostsOneRound == overruled \/ afterStop <= 1

\* What the test of the launch says: nothing may happen early.  A stop that comes
\* between the read and the write of a pass in which the countdown was over is lost.
OpensAtItsMoment ==
  [][~control.enabled /\ control'.enabled /\ At("reconcile") /\ worker'.pc # "reconcile"
     => control.launch = "due"]_vars

\* A row that stays open though its account is closed: the worker looks at no
\* account that is gone, and the event of the close was lost.
CloseLost == \E r \in Ids : row[r] = "created" /\ chain[r] = "closed"

\* The cycle goes on: while it is on, no draft, whatever it came to, keeps the
\* next round from being opened - unless the event of a close is lost, the only
\* thing that takes a row out of the way whose round was closed behind it.
CycleGoesOn == <>[]control.enabled => <>(drafted = MaxRounds) \/ <>[]CloseLost
=============================================================================
