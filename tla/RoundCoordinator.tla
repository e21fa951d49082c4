-------------------------- MODULE RoundCoordinator --------------------------
(***************************************************************************)
(* One round as the backend takes it through its phases: the phase worker, *)
(* the events and backfill workers that copy the chain into the database,  *)
(* the bet finalizer and the browser's report of a deposit.  The on-chain  *)
(* program appears by the phase changes it admits (LotteryProgram).        *)
(*                                                                         *)
(* The worker holds the round's row (SELECT ... FOR UPDATE) until its      *)
(* first commit.  A handler that has read the row queues its write behind  *)
(* that lock, and goes before the next lock is taken: the milliseconds     *)
(* between a handler's read and its write count only while the worker      *)
(* holds the row.  A bet row refers to the round's row, so inserting one   *)
(* queues the same way.                                                    *)
(*                                                                         *)
(* A deposit is one model value; the sums and counts the worker compares   *)
(* are compared as the sets behind them, the count deciding.               *)
(***************************************************************************)
EXTENDS Integers, Sequences, FiniteSets

CONSTANTS
  Deposits,          \* deposits users may sign
  Paths,             \* the processes that hand events over
  Elusive,           \* deposits a node may fail to find though they landed
  None               \* nothing; not a set of deposits

ASSUME CoordinatorAssumption ==
  /\ Elusive \subseteq Deposits
  /\ None \notin Deposits
  /\ \A D \in SUBSET Deposits : None # D

VARIABLES
  \* --- the chain
  phase,        \* of the round account
  landed,       \* deposits it took
  late,         \* history: those taken while start_second_phase was legal too
  commitment,   \* the deposits behind weights_hash, or None
  oraoDone,     \* ORAO has answered the request
  wire,         \* signed instructions that may still land
  \* --- time, as far as anybody looks at it
  clock,        \* the entry period
  waited,       \* the wait for ORAO is up
  window,       \* the buying window
  \* --- event delivery
  log,          \* events the program emitted
  pos,          \* how far each path has read them
  queued,       \* each path's write that waits for the row, or None
  \* --- the database
  row,          \* lottery.status
  started,      \* proceeding_purchases_started_at is set
  bets,         \* active bets
  orphaned,     \* bets the finalizer struck out
  doomed,       \* those it is about to, once its batch is through
  \* --- the phase worker and the buyer
  locked,       \* the worker holds the row
  pc,
  seen,         \* what it read first on this visit: the bets, the chain
  sent,         \* the instruction it waits for
  confirmed,    \* which has landed
  served        \* the bets the buyer was started with, or None

chainVars == <<phase, landed, late, commitment, oraoDone>>
timeVars == <<clock, waited, window>>
eventVars == <<log, pos, queued>>
betVars == <<bets, orphaned, doomed>>
rowVars == <<row, started>>
workVars == <<locked, pc, seen, sent, confirmed>>
vars == <<chainVars, wire, timeVars, eventVars, rowVars, betVars, workVars, served>>

\* The phases of the round account and the statuses of its row, in order.
Phases == <<"absent", "Open", "PendingVrf", "ReadyToDraw", "ProceedingPurchases", "closed">>
Rows == <<"id_generated", "created", "phase2started", "vrf_fulfilled",
          "proceeding_purchases", "closed">>
Rank(seq, x) == CHOOSE n \in DOMAIN seq : seq[n] = x

\* Nothing is no status, and no write that waits for the row.
ASSUME NoneAssumption ==
  /\ \A n \in DOMAIN Rows : None # Rows[n]
  /\ \A status \in {Rows[n] : n \in DOMAIN Rows} \cup {None}, bet \in Deposits \cup {None} :
       None # [status |-> status, bet |-> bet]

NoIx == [ix |-> "none", weights |-> {}]
Ix(name) == [NoIx EXCEPT !.ix = name]
Event(kind) == [kind |-> kind, deposit |-> None]
NotLooked == [phase |-> "absent", landed |-> {}, bets |-> {}]

Init ==
  /\ phase = "absent" /\ landed = {} /\ late = {} /\ commitment = None
  /\ oraoDone = FALSE
  /\ wire = {Ix("initialize")}
  /\ clock = "entry" /\ waited = FALSE /\ window = "running"
  /\ log = <<>>
  /\ pos = [p \in Paths |-> 0]
  /\ queued = [p \in Paths |-> None]
  /\ row = "id_generated" /\ started = FALSE
  /\ bets = {} /\ orphaned = {} /\ doomed = {}
  /\ locked = FALSE /\ pc = "waiting"
  /\ seen = NotLooked
  /\ sent = Ix("initialize") /\ confirmed = FALSE
  /\ served = None
-----------------------------------------------------------------------------
(* The chain and the clock.                                                *)

\* A deposit is taken up to and including the end of the entry period.
DepositSol(d) ==
  /\ phase = "Open" /\ clock # "over" /\ d \notin landed
  /\ landed' = landed \cup {d}
  /\ late' = IF clock = "closing" THEN late \cup {d} ELSE late
  /\ log' = Append(log, [kind |-> "Deposit", deposit |-> d])
  /\ UNCHANGED <<phase, commitment, oraoDone, wire, timeVars, pos, queued,
                 rowVars, betVars, workVars, served>>

\* What an instruction does to the round, and the event it emits.
Admits(i) ==
  CASE i.ix = "initialize"         -> phase = "absent"
    [] i.ix = "start_second_phase" -> phase = "Open" /\ clock # "entry"
    [] i.ix = "fulfill"            -> phase = "PendingVrf" /\ oraoDone
    [] i.ix = "emergency"          -> phase = "PendingVrf" /\ ~oraoDone /\ waited
    [] i.ix = "start_purchases"    -> phase = "ReadyToDraw"
    [] i.ix = "close_lottery"      -> \/ phase = "ProceedingPurchases"
                                      \/ phase \notin {"absent", "closed"} /\ landed = {}

Outcome == [initialize         |-> <<"Open", "LotteryInitialized">>,
            start_second_phase |-> <<"PendingVrf", "Phase2Started">>,
            fulfill            |-> <<"ReadyToDraw", "VrfFulfilled">>,
            emergency          |-> <<"ReadyToDraw", "EmergencySeedUsed">>,
            start_purchases    |-> <<"ProceedingPurchases", "PurchasesPhaseStarted">>,
            close_lottery      |-> <<"closed", "PhaseChanged">>]

Execute(i) ==
  /\ Admits(i)
  /\ phase' = Outcome[i.ix][1]
  /\ log' = Append(log, Event(Outcome[i.ix][2]))
  /\ commitment' = IF i.ix = "start_second_phase" THEN i.weights ELSE commitment

\* An instruction in the network lands, whether or not anybody still waits.
\* The others are for the phase that is over.  A close signed for an empty round
\* that then took a deposit is among them: it would be legal again after the
\* payout, but its blockhash lives a minute, and bets, draw and payout come first.
Land(i) ==
  /\ i \in wire
  /\ Execute(i)
  /\ wire' = {}
  /\ confirmed' = (confirmed \/ (pc = "waiting" /\ sent = i))
  /\ UNCHANGED <<landed, late, oraoDone, timeVars, pos, queued, rowVars, betVars,
                 locked, pc, seen, sent, served>>

\* Or it expires, or the program refuses it.  A round whose initialize never
\* lands is not followed.
Drop(i) ==
  /\ i \in wire /\ i.ix # "initialize"
  /\ wire' = wire \ {i}
  /\ UNCHANGED <<chainVars, timeVars, eventVars, rowVars, betVars, workVars, served>>

\* fulfill_randomness may be called by anybody.
StrangerFulfills ==
  /\ Execute(Ix("fulfill"))
  /\ wire' = {}
  /\ UNCHANGED <<landed, late, oraoDone, timeVars, pos, queued, rowVars,
                 betVars, workVars, served>>

OraoAnswers ==
  /\ phase = "PendingVrf" /\ ~oraoDone
  /\ oraoDone' = TRUE
  /\ UNCHANGED <<phase, landed, late, commitment, wire, timeVars, eventVars,
                 rowVars, betVars, workVars, served>>

\* The entry period nears its end (or its cap), where deposits and
\* start_second_phase are both legal, and passes it.
EntryTick ==
  /\ phase # "absent" /\ clock # "over"
  /\ clock' = IF clock = "entry" THEN "closing" ELSE "over"
  /\ UNCHANGED <<chainVars, wire, waited, window, eventVars, rowVars, betVars,
                 workVars, served>>

VrfTick ==
  /\ phase = "PendingVrf" /\ ~waited
  /\ waited' = TRUE
  /\ UNCHANGED <<chainVars, wire, clock, window, eventVars, rowVars, betVars,
                 workVars, served>>

\* main_end, then the ceiling, both counted from proceeding_purchases_started_at.
WindowTick ==
  /\ started /\ window # "ceiling"
  /\ window' = IF window = "running" THEN "over" ELSE "ceiling"
  /\ UNCHANGED <<chainVars, wire, clock, waited, eventVars, rowVars, betVars,
                 workVars, served>>
-----------------------------------------------------------------------------
(* Events into the database.                                               *)

Early == {"id_generated", "created"}

\* mutants: phase2started is written over whatever is there; or not at all
StatusUnguarded(kind) ==
  CASE kind = "LotteryInitialized" /\ row = "id_generated"        -> "created"
    [] kind = "Phase2Started" /\ row # "phase2started"            -> "phase2started"
    [] kind = "VrfFulfilled" /\ row = "phase2started"             -> "vrf_fulfilled"
    [] kind = "PhaseChanged" /\ row # "closed"                    -> "closed"
    [] OTHER                                                      -> None
StatusWithoutPhase2(kind) ==
  CASE kind = "LotteryInitialized" /\ row = "id_generated"        -> "created"
    [] kind = "VrfFulfilled" /\ row = "phase2started"             -> "vrf_fulfilled"
    [] kind = "PhaseChanged" /\ row # "closed"                    -> "closed"
    [] OTHER                                                      -> None

\* The status an event's handler writes over the one it read, or None: an
\* UPDATE names only the columns that change.
StatusWritten(kind) ==
  CASE kind = "LotteryInitialized" /\ row = "id_generated"        -> "created"
    [] kind = "Phase2Started" /\ row \in Early                    -> "phase2started"
    [] kind = "VrfFulfilled" /\ row = "phase2started"             -> "vrf_fulfilled"
    [] kind = "EmergencySeedUsed" /\ Rank(Rows, row) < 4         -> "vrf_fulfilled"
    [] kind = "PurchasesPhaseStarted" /\ Rank(Rows, row) < 5     -> "proceeding_purchases"
    [] kind = "PhaseChanged" /\ row # "closed"                    -> "closed"
    [] OTHER                                                      -> None

\* A lock that is given up goes to those who wait for it before anybody else.
NoWaiter == locked \/ \A p \in Paths : queued[p] = None

\* What a handler settles to write: the status column alone, or a bet.
Settled(e) ==
  [status |-> StatusWritten(e.kind),
   bet |-> IF e.deposit \in bets \cup orphaned THEN None ELSE e.deposit]

\* The write; a deposit's signature is unique, so a second insert fails.
Write(w) ==
  /\ row' = IF w.status = None THEN row ELSE w.status
  /\ bets' = IF w.bet \in {None} \cup orphaned THEN bets ELSE bets \cup {w.bet}

HandleEvent(p) ==
  LET w == Settled(log[pos[p] + 1]) IN
  /\ pos[p] < Len(log) /\ queued[p] = None
  /\ NoWaiter
  /\ pos' = [pos EXCEPT ![p] = @ + 1]
  /\ IF locked /\ (w.status # None \/ w.bet # None)
     THEN queued' = [queued EXCEPT ![p] = w] /\ UNCHANGED <<row, bets>>
     ELSE Write(w) /\ UNCHANGED queued
  /\ UNCHANGED <<chainVars, wire, timeVars, log, started, orphaned, doomed,
                 workVars, served>>

\* A queued write, once the worker has given up the row.
WriteQueued(p) ==
  /\ queued[p] # None
  /\ ~locked
  /\ Write(queued[p])
  /\ queued' = [queued EXCEPT ![p] = None]
  /\ UNCHANGED <<chainVars, wire, timeVars, log, pos, started, orphaned, doomed,
                 workVars, served>>

\* A dropped subscription, a node that lists a signature and does not have its
\* transaction yet, or an error of the database: the event is marked seen, by the
\* backfill's cursor too (backfill_worker.py:115, 151).
MissEvent(p) ==
  /\ pos[p] < Len(log) /\ queued[p] = None
  /\ pos' = [pos EXCEPT ![p] = @ + 1]
  /\ UNCHANGED <<chainVars, wire, timeVars, log, queued, rowVars, betVars, workVars, served>>

\* POST /bet: the browser reports a deposit it saw confirmed.
PlaceBet(d) ==
  /\ row = "created" /\ clock # "over"
  /\ ~locked /\ NoWaiter
  /\ d \in landed \ (bets \cup orphaned)
  /\ bets' = bets \cup {d}
  /\ UNCHANGED <<chainVars, wire, timeVars, eventVars, rowVars, orphaned, doomed,
                 workVars, served>>

\* The bet finalizer asks about a bet, then looks at the round's status.
FinalizerChecks(d) ==
  /\ d \in (bets \cap Elusive) \ doomed
  /\ row \in Early
  /\ doomed' = doomed \cup {d}
  /\ UNCHANGED <<chainVars, wire, timeVars, eventVars, rowVars, bets, orphaned,
                 workVars, served>>

\* It commits when its whole batch is through.
FinalizerCommits ==
  /\ doomed # {}
  /\ bets' = bets \ doomed
  /\ orphaned' = orphaned \cup doomed
  /\ doomed' = {}
  /\ UNCHANGED <<chainVars, wire, timeVars, eventVars, rowVars, workVars, served>>
-----------------------------------------------------------------------------
(* The phase worker.                                                       *)

\* One visit to the round: the row decides which part of the worker takes it,
\* and a round in its entry period is left alone.
Part ==
  CASE row \in Early -> "phase1"
    [] row = "phase2started" -> "phase2"
    [] row \in {"vrf_fulfilled", "proceeding_purchases"} -> "post_vrf"

Look ==
  /\ pc = "idle"
  /\ row # "closed" /\ phase \notin {"absent", "closed"}
  /\ row \in Early => clock # "entry"
  /\ NoWaiter
  /\ locked' = TRUE
  /\ pc' = Part
  /\ seen' = [phase |-> phase, landed |-> landed, bets |-> bets]
  /\ UNCHANGED <<chainVars, wire, timeVars, eventVars, rowVars, betVars, sent,
                 confirmed, served>>

\* A visit leaves nothing behind in the process.
Forget ==
  /\ locked' = FALSE
  /\ seen' = NotLooked
  /\ sent' = NoIx
  /\ confirmed' = FALSE

\* A visit ends: an early return, an error of a node or of the buyer, or the
\* death of the process.  What it has sent may still land.
Leave ==
  /\ pc # "idle"
  /\ pc' = "idle" /\ Forget
  /\ UNCHANGED <<chainVars, wire, timeVars, eventVars, rowVars, betVars, served>>

\* The worker signs an instruction, sends it and waits for its confirmation.
Send(i) ==
  /\ wire' = wire \cup {i}
  /\ sent' = i
  /\ confirmed' = FALSE
  /\ pc' = "waiting"
  /\ UNCHANGED <<chainVars, timeVars, eventVars, rowVars, betVars, locked, seen, served>>

\* mutant: what was sent is taken for done
MarkUnconfirmed(name, status) ==
  /\ pc = "waiting" /\ sent.ix = name
  /\ NoWaiter
  /\ row' = status
  /\ pc' = IF name = "start_purchases" THEN "buyer" ELSE "idle"
  /\ Forget
  /\ UNCHANGED <<chainVars, wire, timeVars, eventVars, betVars, served>>

\* The commit after a confirmation.
Mark(name, status) ==
  /\ pc = "waiting" /\ sent.ix = name /\ confirmed
  /\ NoWaiter
  /\ row' = status
  /\ pc' = IF name = "start_purchases" THEN "buyer" ELSE "idle"
  /\ Forget
  /\ UNCHANGED <<chainVars, wire, timeVars, eventVars, betVars, served>>

\* The autostart saw its initialize land.
MarkCreated == Mark("initialize", "created") /\ UNCHANGED started

\* Phase 1, on a round whose LotteryInitialized went missing: the commit gives
\* up the row and the visit goes on.
RecoverCreated ==
  /\ pc = "phase1" /\ seen.phase = "Open" /\ row = "id_generated"
  /\ row' = "created"
  /\ locked' = FALSE
  /\ UNCHANGED <<chainVars, wire, timeVars, eventVars, started, betVars, pc, seen,
                 sent, confirmed, served>>

CloseEmptyLottery ==
  /\ pc = "phase1" /\ seen.phase = "Open" /\ row # "id_generated"
  /\ seen.landed = {} /\ bets = {}
  /\ Send(Ix("close_lottery"))

\* The database has every deposit the chain has counted.
DepositsMatch == Cardinality(bets) = Cardinality(seen.landed)

\* mutant: any non-empty set of bets will do
StartWithSomeBets ==
  /\ pc = "phase1" /\ seen.phase = "Open" /\ row # "id_generated"
  /\ bets # {}
  /\ Send([ix |-> "start_second_phase", weights |-> bets])

\* The sum is of the bets read first, count and weights are of those read last.
StartSecondPhase ==
  /\ pc = "phase1" /\ seen.phase = "Open" /\ row # "id_generated"
  /\ bets # {} /\ DepositsMatch
  /\ Cardinality(seen.bets) = Cardinality(seen.landed)
  /\ Send([ix |-> "start_second_phase", weights |-> bets])

MarkPhase2Started ==
  Mark("start_second_phase", "phase2started") /\ UNCHANGED started

\* Where a visit to a later phase goes on, by what the chain said.
Continued ==
  CASE pc = "phase2" /\ seen.phase = "PendingVrf" -> "draw"
    [] pc = "post_vrf" /\ seen.phase = "ReadyToDraw" -> "pay"
    [] pc = "post_vrf" /\ seen.phase = "ProceedingPurchases" -> "buyer"
    [] OTHER -> "idle"

\* _sync_phase2_metadata_from_onchain, at the start of the two later parts:
\* the row follows the chain; the commit, which it makes when it has anything
\* to write, gives up the row.
SyncFromChain ==
  LET status == CASE seen.phase = "ReadyToDraw" -> "vrf_fulfilled"
                  [] seen.phase = "ProceedingPurchases" -> "proceeding_purchases"
                  [] OTHER -> row
  IN
  /\ pc \in {"phase2", "post_vrf"}
  /\ row' = status
  /\ started' = (started \/ (seen.phase = "ProceedingPurchases" /\ row # status))
  /\ IF Continued = "idle"
     THEN pc' = "idle" /\ Forget
     ELSE /\ pc' = Continued
          /\ locked' \in {FALSE, locked /\ status = row}
          /\ UNCHANGED <<seen, sent, confirmed>>
  /\ UNCHANGED <<chainVars, wire, timeVars, eventVars, betVars, served>>

\* The request account is read after the round.
FulfillRandomness == pc = "draw" /\ oraoDone /\ Send(Ix("fulfill"))
EmergencyFulfill == pc = "draw" /\ ~oraoDone /\ waited /\ Send(Ix("emergency"))

MarkVrfFulfilled ==
  /\ \E name \in {"fulfill", "emergency"} : Mark(name, "vrf_fulfilled")
  /\ UNCHANGED started

\* mutant: the pool is released without it
PayUnchecked == pc = "pay" /\ Send(Ix("start_purchases"))

\* The last look at the deposits before the pool is released.
StartPurchases == pc = "pay" /\ DepositsMatch /\ Send(Ix("start_purchases"))

MarkProceedingPurchases ==
  /\ Mark("start_purchases", "proceeding_purchases")
  /\ started' = TRUE

\* The buyer is handed the active bets, until it once accepts; a second
\* request is refused as a duplicate.  It may be down, or its answer lost.
StartBuyer ==
  /\ pc = "buyer"
  /\ served' \in {served, IF served = None THEN bets ELSE served}
  /\ IF seen.phase = "ProceedingPurchases"
     THEN pc' = "close" /\ UNCHANGED <<locked, seen, sent, confirmed>>
     ELSE pc' = "idle" /\ Forget
  /\ UNCHANGED <<chainVars, wire, timeVars, eventVars, rowVars, betVars>>

\* mutant: the buyer's word counts at the ceiling too
CloseWithoutCeiling ==
  /\ pc = "close"
  /\ started /\ window = "over"
  /\ Send(Ix("close_lottery"))

\* _close_is_due: after main_end unless the buyer says it is still buying,
\* which it need not say; at the ceiling whatever it says.
CloseRound ==
  /\ pc = "close"
  /\ started /\ window # "running"
  /\ Send(Ix("close_lottery"))

MarkClosed == Mark("close_lottery", "closed") /\ UNCHANGED started
-----------------------------------------------------------------------------
Chain ==
  \/ \E d \in Deposits : DepositSol(d)
  \/ \E i \in wire : Land(i) \/ Drop(i)
  \/ StrangerFulfills
  \/ OraoAnswers
  \/ EntryTick
  \/ VrfTick
  \/ WindowTick

Database ==
  \/ \E p \in Paths : HandleEvent(p) \/ WriteQueued(p) \/ MissEvent(p)
  \/ \E d \in Deposits : PlaceBet(d) \/ FinalizerChecks(d)
  \/ FinalizerCommits

PhaseWorker ==
  \/ Look \/ Leave
  \/ MarkCreated \/ RecoverCreated \/ CloseEmptyLottery
  \/ StartSecondPhase \/ MarkPhase2Started
  \/ SyncFromChain
  \/ FulfillRandomness \/ EmergencyFulfill \/ MarkVrfFulfilled
  \/ StartPurchases \/ MarkProceedingPurchases
  \/ StartBuyer \/ CloseRound \/ MarkClosed

Next == Chain \/ Database \/ PhaseWorker

Spec == Init /\ [][Next]_vars

\* The step of a visit that sends an instruction; one of them for each phase of the
\* round, so that fairness to them together is fairness to each.
Instruct ==
  \/ CloseEmptyLottery \/ StartSecondPhase
  \/ FulfillRandomness \/ EmergencyFulfill \/ StartPurchases
  \/ window = "ceiling" /\ CloseRound

\* The clocks run, each path comes to each event, to hand it over or to miss it,
\* and every visit ends; instructions, database writes and visits may fail any
\* number of times, but not every time; at the ceiling the buyer's word no longer
\* counts.  ORAO, strangers and users owe nothing.
Fairness ==
  /\ WF_vars(EntryTick) /\ WF_vars(VrfTick) /\ WF_vars(WindowTick)
  /\ \A p \in Paths : WF_vars(HandleEvent(p) \/ MissEvent(p))
  /\ \A p \in Paths : WF_vars(WriteQueued(p))
  /\ SF_vars(\E i \in wire : Land(i))
  /\ WF_vars(Look) /\ WF_vars(Leave)
  /\ SF_vars(SyncFromChain) /\ SF_vars(StartBuyer)
  /\ SF_vars(Instruct \/ RecoverCreated)
-----------------------------------------------------------------------------
(* Properties.                                                             *)

InSeq(seq, x) == \E n \in DOMAIN seq : seq[n] = x

\* Types; the worker holds the row only during a visit, and nothing outlives one.
TypeOK ==
  /\ InSeq(Phases, phase) /\ InSeq(Rows, row)
  /\ late \subseteq landed /\ landed \subseteq Deposits
  /\ commitment = None \/ commitment \in SUBSET Deposits
  /\ <<oraoDone, waited, started, locked, confirmed>> \in [1..5 -> BOOLEAN]
  /\ clock \in {"entry", "closing", "over"} /\ window \in {"running", "over", "ceiling"}
  /\ \A i \in wire : i.weights \subseteq landed /\ i.ix \in DOMAIN Outcome
  /\ \A p \in Paths : pos[p] \in 0..Len(log)
  /\ bets \cup orphaned \subseteq landed /\ bets \cap orphaned = {} /\ doomed \subseteq bets
  /\ pc \in {"idle", "phase1", "phase2", "post_vrf", "draw", "pay", "buyer",
             "close", "waiting"}
  /\ pc = "idle" => ~locked /\ seen = NotLooked /\ sent = NoIx
  /\ served = None \/ served \in SUBSET Deposits

\* The database never runs ahead of the chain: through lost confirmations,
\* repeated events and deaths, no status is shown that the round has not
\* reached.
RowNeverAhead == Rank(Rows, row) <= Rank(Phases, phase)

\* Nor does it go back, however late and often the two event paths repeat
\* themselves, but for one case, never over "closed", that the next visit mends:
\* the worker's own commit after a confirmation, on a visit that no longer holds
\* the row (lottery_phase_worker.py:2008), may fall behind the events.
RowNeverGoesBack ==
  [][Rank(Rows, row') < Rank(Rows, row) =>
       row # "closed" /\ pc = "waiting" /\ confirmed /\ ~locked]_vars

\* What weights_hash commits to are deposits that landed, and it misses only
\* those that were taken once start_second_phase had become legal too, or were
\* struck out: no event lost or late on a path leaves another one out
\* (lottery_phase_worker.py:2047).
CommitmentMissesOnlyLate ==
  commitment # None =>
    /\ commitment \subseteq landed
    /\ landed \ commitment \subseteq late \cup orphaned

\* The buyer is started only with the keeper paid, and with every deposit of
\* the round but those the finalizer has struck out since the pool was released.
BuyerGetsEveryBet ==
  served # None =>
    /\ phase \in {"ProceedingPurchases", "closed"}
    /\ served \subseteq landed
    /\ landed \ served \subseteq orphaned

\* "The commitment matches the commits" (SECURITY.md:60).
CommitmentMatchesCommits ==
  phase \in {"PendingVrf", "ReadyToDraw", "ProceedingPurchases"} => commitment = landed

\* "Once weights_hash may already have been committed on-chain, removing a bet
\* would desync payouts from the draw input" (bet_finalizer_worker.py:154): no
\* bet behind the commitment is struck out after it.
CommittedBetsStayActive ==
  [][commitment # None => commitment \cap bets \subseteq bets']_vars
=============================================================================
