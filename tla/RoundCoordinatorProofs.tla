----------------------- MODULE RoundCoordinatorProofs -----------------------
(***************************************************************************)
(* Proofs about one round in the backend: the row never runs ahead of the  *)
(* chain, the commitment misses only late deposits, the buyer gets every   *)
(* bet, and the row goes back only in the worker's own stale commit.       *)
(*                                                                         *)
(* The argument relates every actor to the round: what an instruction on   *)
(* the wire, an event of the log, a queued write and the worker's visit    *)
(* each know of the phase, of the row and of the bets.                     *)
(***************************************************************************)
EXTENDS RoundCoordinator, FiniteSetTheorems, SequenceTheorems, TLAPS

-----------------------------------------------------------------------------
(* The inductive invariant.                                                *)

\* The phases and the rows from one of them on.
FromOpen == {"Open", "PendingVrf", "ReadyToDraw", "ProceedingPurchases", "closed"}
FromVrf == {"PendingVrf", "ReadyToDraw", "ProceedingPurchases", "closed"}
FromDraw == {"ReadyToDraw", "ProceedingPurchases", "closed"}
FromPayout == {"ProceedingPurchases", "closed"}

RowFromCreated == {"created", "phase2started", "vrf_fulfilled", "proceeding_purchases", "closed"}
RowFromSecond == {"phase2started", "vrf_fulfilled", "proceeding_purchases", "closed"}
RowFromDraw == {"vrf_fulfilled", "proceeding_purchases", "closed"}
RowFromPayout == {"proceeding_purchases", "closed"}

\* The phases in which a status may be shown.
Reached(status) ==
  CASE status = "id_generated"         -> {"absent"} \cup FromOpen
    [] status = "created"              -> FromOpen
    [] status = "phase2started"        -> FromVrf
    [] status = "vrf_fulfilled"        -> FromDraw
    [] status = "proceeding_purchases" -> FromPayout
    [] status = "closed"               -> {"closed"}

\* And the statuses it may be written over.
Before(status) ==
  CASE status = "created"              -> {"id_generated", "created"}
    [] status = "phase2started"        -> {"id_generated", "created", "phase2started"}
    [] status = "vrf_fulfilled"        -> {"id_generated", "created", "phase2started", "vrf_fulfilled"}
    [] status = "proceeding_purchases" -> {"id_generated", "created", "phase2started",
                                           "vrf_fulfilled", "proceeding_purchases"}
    [] status = "closed"               -> {"id_generated", "created", "phase2started",
                                           "vrf_fulfilled", "proceeding_purchases", "closed"}

Statuses == RowFromCreated
Instructions == {"initialize", "start_second_phase", "fulfill", "emergency",
                 "start_purchases", "close_lottery"}
Kinds == {"Deposit", "LotteryInitialized", "Phase2Started", "VrfFulfilled",
          "EmergencySeedUsed", "PurchasesPhaseStarted", "PhaseChanged"}
Stations == {"idle", "phase1", "phase2", "post_vrf", "draw", "pay", "buyer",
             "close", "waiting"}

Instruction == [ix : Instructions \cup {"none"}, weights : SUBSET Deposits]
Logged == [kind : Kinds, deposit : Deposits \cup {None}]
QueuedWrite == [status : Statuses \cup {None}, bet : Deposits \cup {None}]
Sight == [phase : {"absent"} \cup FromOpen, landed : SUBSET Deposits, bets : SUBSET Deposits]

ChainTypes ==
  /\ phase \in {"absent"} \cup FromOpen
  /\ landed \in SUBSET Deposits /\ IsFiniteSet(landed)
  /\ late \in SUBSET landed
  /\ commitment \in (SUBSET Deposits) \cup {None}
  /\ oraoDone \in BOOLEAN
  /\ wire \in SUBSET Instruction
  /\ clock \in {"entry", "closing", "over"}
  /\ waited \in BOOLEAN
  /\ window \in {"running", "over", "ceiling"}

DatabaseTypes ==
  /\ log \in Seq(Logged)
  /\ pos \in [Paths -> Nat]
  /\ \A p \in Paths : pos[p] <= Len(log)
  /\ queued \in [Paths -> QueuedWrite \cup {None}]
  /\ row \in {"id_generated"} \cup Statuses
  /\ started \in BOOLEAN
  /\ bets \in SUBSET landed /\ orphaned \in SUBSET landed
  /\ bets \cap orphaned = {}
  /\ doomed \in SUBSET bets

WorkerTypes ==
  /\ locked \in BOOLEAN
  /\ pc \in Stations
  /\ seen \in Sight
  /\ sent \in Instruction
  /\ confirmed \in BOOLEAN
  /\ served \in (SUBSET Deposits) \cup {None}

\* The row shows nothing the round has not reached, and keeps up with it where
\* the next phase takes the worker's own instruction.
RowFits ==
  /\ phase \in Reached(row)
  /\ phase \in {"PendingVrf", "ReadyToDraw"} => row \in RowFromCreated
  /\ phase = "ProceedingPurchases" => row \in RowFromDraw
  /\ phase = "closed" => IF landed = {} THEN row \in {"created", "closed"}
                                        ELSE row \in RowFromPayout
  /\ phase \in {"PendingVrf", "ReadyToDraw", "ProceedingPurchases"} => landed # {}
  /\ phase = "absent" => landed = {}

\* What an instruction on the wire says of the round that signed it.
InstructionFits(i) ==
  /\ i.ix # "none" /\ i.weights \subseteq landed
  /\ i.ix = "initialize" => phase = "absent"
  /\ i.ix = "start_second_phase" =>
       /\ row \in RowFromCreated /\ phase \in FromOpen /\ clock # "entry"
       /\ i.weights # {}
       /\ landed \ i.weights \subseteq late \cup orphaned
  /\ i.ix = "close_lottery" =>
       /\ row \in RowFromCreated /\ phase \in FromOpen
       /\ phase = "ProceedingPurchases" => row \in RowFromPayout
  /\ i.ix \in {"fulfill", "emergency"} => row \in RowFromSecond /\ phase \in FromVrf
  /\ i.ix = "start_purchases" =>
       row \in RowFromDraw /\ phase \in FromDraw /\ landed \subseteq bets \cup orphaned

WireFits == \A i \in wire : InstructionFits(i)

\* What an emitted event says of the round.
EventFits(e) ==
  /\ e.kind = "Deposit" => e.deposit \in landed
  /\ e.kind # "Deposit" => e.deposit = None
  /\ e.kind = "LotteryInitialized" => phase \in FromOpen
  /\ e.kind = "Phase2Started" => phase \in FromVrf /\ landed # {}
  /\ e.kind = "VrfFulfilled" => phase \in FromDraw /\ landed # {}
  /\ e.kind = "EmergencySeedUsed" =>
       phase \in FromDraw /\ landed # {} /\ row \in RowFromSecond
  /\ e.kind = "PurchasesPhaseStarted" =>
       phase \in FromPayout /\ landed # {} /\ row \in RowFromDraw
  /\ e.kind = "PhaseChanged" => phase = "closed"

LogFits == \A n \in 1..Len(log) : EventFits(log[n])

\* A queued write would not put the row ahead of the round, nor back.
WriteFits(w) ==
  /\ w.bet \in landed \cup {None}
  /\ w.status # None =>
       /\ phase \in Reached(w.status) /\ row \in Before(w.status)
       /\ w.status = "phase2started" => landed # {}
       /\ w.status = "vrf_fulfilled" => landed # {} /\ row \in RowFromSecond
       /\ w.status = "proceeding_purchases" => landed # {} /\ row \in RowFromDraw

QueueFits ==
  /\ \A p \in Paths : queued[p] # None => WriteFits(queued[p])
  /\ \A p, q \in Paths :
       queued[p] # None /\ queued[q] # None
         /\ queued[p].status # None /\ queued[q].status # None
       => queued[p].status = queued[q].status
  /\ locked => \A p \in Paths : queued[p] # None => queued[p].status # row

\* What the worker has seen of the round still holds of it.
SightFits ==
  /\ phase \in CASE seen.phase = "absent"      -> {"absent"} \cup FromOpen
                 [] seen.phase = "Open"        -> {"Open", "PendingVrf", "ReadyToDraw", "closed"}
                 [] seen.phase = "PendingVrf"  -> {"PendingVrf", "ReadyToDraw"}
                 [] seen.phase = "ReadyToDraw" -> {"ReadyToDraw", "ProceedingPurchases"}
                 [] seen.phase = "ProceedingPurchases" -> {"ProceedingPurchases", "closed"}
                 [] seen.phase = "closed"      -> {}
  /\ seen.landed \subseteq landed
  /\ seen.bets \subseteq seen.landed
  /\ seen.bets \subseteq bets \cup orphaned
  /\ seen.phase = "Open" =>
       /\ phase = "closed" => landed = {}
       /\ \A i \in wire : i.ix \in {"initialize", "start_second_phase", "close_lottery"}
  /\ seen.phase = "PendingVrf" => \A i \in wire : i.ix # "start_purchases"
  /\ seen.phase = "ReadyToDraw" =>
       /\ seen.landed = landed
       /\ phase = "ProceedingPurchases" => \A i \in wire : i.ix # "close_lottery"

\* Where the worker stands in its visit, and what it knows there.
VisitFits ==
  /\ pc = "idle" => ~locked /\ seen = NotLooked /\ sent = NoIx
  /\ confirmed => pc = "waiting"
  /\ pc = "phase1" =>
       /\ seen.phase # "absent" /\ clock # "entry"
       /\ landed \ late \subseteq seen.landed
       /\ IF locked THEN row \in Early ELSE row \in RowFromCreated
  /\ pc = "phase2" => locked /\ row = "phase2started" /\ seen.phase \in FromVrf
  /\ pc = "post_vrf" =>
       /\ locked /\ row \in {"vrf_fulfilled", "proceeding_purchases"}
       /\ seen.phase \in Reached(row)
  /\ pc = "draw" => seen.phase = "PendingVrf" /\ row \in RowFromSecond
  /\ pc = "pay" => seen.phase = "ReadyToDraw" /\ row \in RowFromDraw
  /\ pc = "buyer" =>
       /\ seen.phase = "ProceedingPurchases" \/ seen = NotLooked
       /\ row \in RowFromPayout /\ phase \in FromPayout /\ landed # {}
  /\ pc = "close" =>
       /\ seen.phase = "ProceedingPurchases"
       /\ row \in RowFromPayout /\ landed # {}

WaitFits ==
  pc = "waiting" =>
    /\ sent.ix # "none"
    /\ sent.ix = "initialize" =>
         /\ seen = NotLooked /\ ~locked /\ phase \in {"absent", "Open"}
         /\ \A i \in wire : i.ix = "initialize"
         /\ confirmed => phase \in FromOpen
    /\ sent.ix = "start_second_phase" =>
         /\ seen.phase = "Open" /\ row \in RowFromCreated
         /\ locked => row \in Early
         /\ confirmed => phase \in FromVrf /\ landed # {}
    /\ sent.ix = "close_lottery" =>
         /\ \/ seen.phase = "Open" /\ row \in RowFromCreated
            \/ seen.phase = "ProceedingPurchases" /\ row \in RowFromPayout
         /\ confirmed => phase = "closed"
    /\ sent.ix \in {"fulfill", "emergency"} =>
         /\ seen.phase = "PendingVrf" /\ row \in RowFromSecond
         /\ confirmed => phase \in FromDraw
    /\ sent.ix = "start_purchases" =>
         /\ seen.phase = "ReadyToDraw" /\ row \in RowFromDraw
         /\ confirmed => phase \in FromPayout

\* Once the pool is released every deposit is a bet, but those struck out; the
\* finalizer strikes a bet out only as long as the row is early.
PaidFits ==
  /\ phase = "ProceedingPurchases" \/ (phase = "closed" /\ landed # {}) =>
       landed \subseteq bets \cup orphaned
  /\ commitment # None =>
       phase \in FromVrf /\ commitment \subseteq landed
         /\ landed \ commitment \subseteq late \cup orphaned
  /\ served # None =>
       /\ phase \in FromPayout /\ landed # {}
       /\ served \subseteq landed /\ landed \ served \subseteq orphaned

IInv ==
  /\ ChainTypes /\ DatabaseTypes /\ WorkerTypes
  /\ RowFits /\ WireFits /\ LogFits /\ QueueFits
  /\ SightFits /\ VisitFits /\ WaitFits /\ PaidFits

-----------------------------------------------------------------------------
(* The orders of the phases and of the statuses, and what they are worth.  *)

\* The place of each phase and of each status in its order.
LEMMA Places ==
  /\ Rank(Phases, "absent") = 1 /\ Rank(Phases, "Open") = 2
  /\ Rank(Phases, "PendingVrf") = 3 /\ Rank(Phases, "ReadyToDraw") = 4
  /\ Rank(Phases, "ProceedingPurchases") = 5 /\ Rank(Phases, "closed") = 6
  /\ Rank(Rows, "id_generated") = 1 /\ Rank(Rows, "created") = 2
  /\ Rank(Rows, "phase2started") = 3 /\ Rank(Rows, "vrf_fulfilled") = 4
  /\ Rank(Rows, "proceeding_purchases") = 5 /\ Rank(Rows, "closed") = 6
<1>1. DOMAIN Phases = 1..6 /\ DOMAIN Rows = 1..6
  BY DEF Phases, Rows
<1>2. \A x, n : n \in 1..6 /\ Phases[n] = x => Rank(Phases, x) = n
  BY <1>1 DEF Rank, Phases
<1>3. \A x, n : n \in 1..6 /\ Rows[n] = x => Rank(Rows, x) = n
  BY <1>1 DEF Rank, Rows
<1>4. /\ Phases[1] = "absent" /\ Phases[2] = "Open" /\ Phases[3] = "PendingVrf"
      /\ Phases[4] = "ReadyToDraw" /\ Phases[5] = "ProceedingPurchases" /\ Phases[6] = "closed"
      /\ Rows[1] = "id_generated" /\ Rows[2] = "created" /\ Rows[3] = "phase2started"
      /\ Rows[4] = "vrf_fulfilled" /\ Rows[5] = "proceeding_purchases" /\ Rows[6] = "closed"
  BY DEF Phases, Rows
<1> QED
  BY <1>2, <1>3, <1>4

\* Nothing is none of the statuses.
LEMMA NoneIsNoStatus ==
  /\ \A status \in {"id_generated"} \cup Statuses : None # status
  /\ \A w \in QueuedWrite : None # w
<1>1. DOMAIN Rows = 1..6
  BY DEF Rows
<1>2. /\ Rows[1] = "id_generated" /\ Rows[2] = "created" /\ Rows[3] = "phase2started"
      /\ Rows[4] = "vrf_fulfilled" /\ Rows[5] = "proceeding_purchases" /\ Rows[6] = "closed"
  BY DEF Rows
<1>3. {"id_generated"} \cup Statuses = {Rows[n] : n \in DOMAIN Rows}
  BY <1>1, <1>2 DEF Statuses, RowFromCreated
<1>4. \A status \in {"id_generated"} \cup Statuses : None # status
  BY <1>3, NoneAssumption
<1>5. ASSUME NEW w \in QueuedWrite PROVE None # w
  <2>1. /\ w = [status |-> w.status, bet |-> w.bet]
        /\ w.status \in Statuses \cup {None} /\ w.bet \in Deposits \cup {None}
    BY DEF QueuedWrite
  <2>2. w.status \in {Rows[n] : n \in DOMAIN Rows} \cup {None}
    BY <2>1, <1>3
  <2> QED
    BY <2>1, <2>2, NoneAssumption
<1> QED
  BY <1>4, <1>5

\* What each instruction does to the round, and the event it emits.
LEMMA Outcomes ==
  /\ DOMAIN Outcome = Instructions
  /\ Outcome["initialize"][1] = "Open" /\ Outcome["initialize"][2] = "LotteryInitialized"
  /\ Outcome["start_second_phase"][1] = "PendingVrf"
  /\ Outcome["start_second_phase"][2] = "Phase2Started"
  /\ Outcome["fulfill"][1] = "ReadyToDraw" /\ Outcome["fulfill"][2] = "VrfFulfilled"
  /\ Outcome["emergency"][1] = "ReadyToDraw" /\ Outcome["emergency"][2] = "EmergencySeedUsed"
  /\ Outcome["start_purchases"][1] = "ProceedingPurchases"
  /\ Outcome["start_purchases"][2] = "PurchasesPhaseStarted"
  /\ Outcome["close_lottery"][1] = "closed" /\ Outcome["close_lottery"][2] = "PhaseChanged"
BY DEF Outcome, Instructions

\* An event more in the log.
LEMMA Logs ==
  ASSUME log \in Seq(Logged), NEW e \in Logged
  PROVE  /\ Append(log, e) \in Seq(Logged)
         /\ Len(Append(log, e)) = Len(log) + 1
         /\ Len(log) \in Nat
         /\ \A n \in 1..Len(log) : Append(log, e)[n] = log[n]
         /\ Append(log, e)[Len(log) + 1] = e
BY AppendProperties, LenProperties

-----------------------------------------------------------------------------
(* The initial state and the chain.                                        *)

\* A round begins with nothing but its signed initialize.
LEMMA InitIInv == Init => IInv
<1> SUFFICES ASSUME Init PROVE IInv
  OBVIOUS
<1>1. ChainTypes
  BY FS_EmptySet DEF Init, ChainTypes, Instruction, Instructions, Ix, NoIx
<1>2. DatabaseTypes
  <2>1. log = <<>> /\ log \in Seq(Logged) /\ Len(log) = 0
    BY EmptySeq, LenProperties DEF Init
  <2>2. pos \in [Paths -> Nat] /\ \A p \in Paths : pos[p] <= Len(log)
    BY <2>1 DEF Init
  <2> QED
    BY <2>1, <2>2 DEF Init, DatabaseTypes
<1>3. WorkerTypes
  BY DEF Init, WorkerTypes, Stations, Sight, NotLooked, Instruction, Instructions, Ix, NoIx
<1>4. RowFits /\ WireFits /\ SightFits /\ VisitFits /\ WaitFits /\ PaidFits
  BY DEF Init, RowFits, WireFits, InstructionFits, SightFits, VisitFits, WaitFits, PaidFits,
         Reached, NotLooked, Ix, NoIx, FromOpen
<1>5. LogFits
  <2>1. Len(log) = 0
    BY LenProperties, EmptySeq DEF Init
  <2> QED
    BY <2>1 DEF LogFits
<1>6. QueueFits
  BY DEF Init, QueueFits
<1> QED
  BY <1>1, <1>2, <1>3, <1>4, <1>5, <1>6 DEF IInv

\* A deposit: what was signed or seen before it misses it, and it is late, or
\* nothing has been signed yet.
LEMMA DepositKeepsIInv ==
  ASSUME IInv, NEW d \in Deposits, DepositSol(d)
  PROVE  IInv'
<1> DEFINE e == [kind |-> "Deposit", deposit |-> d]
<1>1. e \in Logged /\ log' = Append(log, e) /\ log \in Seq(Logged)
  BY DEF Logged, Kinds, DepositSol, IInv, DatabaseTypes
<1>2. /\ log' \in Seq(Logged) /\ Len(log') = Len(log) + 1 /\ Len(log) \in Nat
      /\ \A n \in 1..Len(log) : log'[n] = log[n]
      /\ log'[Len(log) + 1] = e
  BY <1>1, Logs
<1>3. /\ phase = "Open" /\ clock \in {"entry", "closing"}
      /\ landed' = landed \cup {d}
      /\ late \subseteq late' /\ late' \subseteq late \cup {d}
      /\ clock # "entry" => d \in late'
  BY DEF DepositSol, IInv, ChainTypes
<1>u. UNCHANGED <<phase, commitment, oraoDone, wire, clock, waited, window, pos, queued, row,
                 started, bets, orphaned, doomed, locked, pc, seen, sent, confirmed, served>>
  BY DEF DepositSol, timeVars, rowVars, betVars, workVars
<1>4. ChainTypes'
  BY <1>3, <1>u, FS_AddElement DEF IInv, ChainTypes
<1>5. DatabaseTypes'
  BY <1>2, <1>3, <1>u DEF IInv, DatabaseTypes
<1>6. WorkerTypes'
  BY <1>u DEF IInv, WorkerTypes
<1>7. RowFits'
  BY <1>3, <1>u DEF IInv, RowFits
<1>8. WireFits'
  BY <1>3, <1>u DEF IInv, ChainTypes, WireFits, InstructionFits, RowFits, Reached, FromDraw, FromVrf
<1>9. LogFits'
  <2> SUFFICES ASSUME NEW n \in 1..Len(log') PROVE EventFits(log[n])'
    BY DEF LogFits
  <2>1. CASE n \in 1..Len(log)
    <3>1. EventFits(log[n]) /\ log'[n] = log[n]
      BY <2>1, <1>2 DEF IInv, LogFits
    <3> QED
      BY <3>1, <1>3, <1>u DEF EventFits
  <2>2. CASE n = Len(log) + 1
    BY <2>2, <1>2, <1>3 DEF EventFits
  <2> QED
    BY <2>1, <2>2, <1>2
<1>10. QueueFits'
  BY <1>3, <1>u DEF IInv, QueueFits, WriteFits
<1>11. SightFits'
  BY <1>3, <1>u DEF IInv, SightFits
<1>12. VisitFits'
  BY <1>3, <1>u DEF IInv, VisitFits
<1>13. WaitFits'
  BY <1>3, <1>u DEF IInv, WaitFits
<1>14. PaidFits'
  BY <1>3, <1>u DEF IInv, PaidFits, FromVrf, FromPayout
<1> QED
  BY <1>4, <1>5, <1>6, <1>7, <1>8, <1>9, <1>10, <1>11, <1>12, <1>13, <1>14 DEF IInv

\* An instruction moves the round on by one phase, or closes it.
LEMMA Moves ==
  ASSUME IInv, NEW i \in Instruction, Execute(i), i.ix = "fulfill" \/ InstructionFits(i)
  PROVE  /\ i.ix \in Instructions
         /\ i.ix = "initialize" => phase = "absent" /\ phase' = "Open"
         /\ i.ix = "start_second_phase" => phase = "Open" /\ phase' = "PendingVrf"
         /\ i.ix \in {"fulfill", "emergency"} => phase = "PendingVrf" /\ phase' = "ReadyToDraw"
         /\ i.ix = "start_purchases" => phase = "ReadyToDraw" /\ phase' = "ProceedingPurchases"
         /\ i.ix = "close_lottery" =>
              /\ phase' = "closed"
              /\ phase = "ProceedingPurchases" \/ (phase = "Open" /\ landed = {})
<1>1. i.ix \in Instructions
  BY DEF InstructionFits, Instruction, Instructions
<1>2. phase' = Outcome[i.ix][1] /\ Admits(i)
  BY DEF Execute
<1>3. i.ix = "close_lottery" => phase = "ProceedingPurchases" \/ (phase = "Open" /\ landed = {})
  BY <1>2 DEF Admits, IInv, RowFits, ChainTypes, FromOpen
<1> QED
  BY <1>1, <1>2, <1>3, Outcomes DEF Admits, Instructions

\* Landing an instruction clears the wire, and leaves what the log, the queue and
\* the visit say of the round true of the next phase.
LEMMA ExecuteKeepsIInv ==
  ASSUME IInv, NEW i \in Instruction, Execute(i), i.ix = "fulfill" \/ i \in wire,
         wire' = {},
         confirmed' = confirmed \/ (confirmed' = TRUE /\ pc = "waiting" /\ sent = i),
         UNCHANGED <<landed, late, oraoDone, timeVars, pos, queued, rowVars, betVars,
                     locked, pc, seen, sent, served>>
  PROVE  IInv'
<1> DEFINE e == Event(Outcome[i.ix][2])
<1>0. i.ix = "fulfill" \/ InstructionFits(i)
  BY DEF IInv, WireFits
<1>1. /\ i.ix \in Instructions
      /\ i.ix = "initialize" => phase = "absent" /\ phase' = "Open"
      /\ i.ix = "start_second_phase" => phase = "Open" /\ phase' = "PendingVrf"
      /\ i.ix \in {"fulfill", "emergency"} => phase = "PendingVrf" /\ phase' = "ReadyToDraw"
      /\ i.ix = "start_purchases" => phase = "ReadyToDraw" /\ phase' = "ProceedingPurchases"
      /\ i.ix = "close_lottery" =>
           /\ phase' = "closed"
           /\ phase = "ProceedingPurchases" \/ (phase = "Open" /\ landed = {})
  BY <1>0, Moves
<1>2. e \in Logged /\ log' = Append(log, e) /\ log \in Seq(Logged)
  BY <1>1, Outcomes DEF Logged, Kinds, Event, Execute, IInv, DatabaseTypes, Instructions
<1>3. /\ log' \in Seq(Logged) /\ Len(log') = Len(log) + 1 /\ Len(log) \in Nat
      /\ \A n \in 1..Len(log) : log'[n] = log[n]
      /\ log'[Len(log) + 1] = e
  BY <1>2, Logs
<1>4. /\ i.ix = "start_second_phase" => commitment' = i.weights
      /\ i.ix # "start_second_phase" => commitment' = commitment
      /\ i.weights \in SUBSET Deposits
  BY DEF Execute, Instruction
<1>u. UNCHANGED <<landed, late, oraoDone, clock, waited, window, pos, queued, row, started,
                 bets, orphaned, doomed, locked, pc, seen, sent, served>>
  BY DEF timeVars, rowVars, betVars
<1>5. ChainTypes'
  BY <1>1, <1>4, <1>u DEF IInv, ChainTypes, FromOpen, Instructions
<1>6. DatabaseTypes'
  BY <1>3, <1>u DEF IInv, DatabaseTypes
<1>7. WorkerTypes'
  BY <1>u DEF IInv, WorkerTypes
<1>8. RowFits'
  <2>1. (phase \in Reached(row))'
    BY <1>1, <1>u DEF IInv, DatabaseTypes, Statuses, RowFromCreated, RowFits, Reached,
       FromOpen, FromVrf, FromDraw, FromPayout, Instructions
  <2>2. i.ix = "start_second_phase" => row \in RowFromCreated /\ landed # {}
    BY <1>0 DEF InstructionFits
  <2>3. i.ix = "close_lottery" =>
          IF landed = {} THEN row \in {"created", "closed"} ELSE row \in RowFromPayout
    BY <1>0, <1>1 DEF InstructionFits, IInv, RowFits, Reached, RowFromCreated, FromVrf, FromDraw,
       FromPayout
  <2>4. i.ix = "start_purchases" => row \in RowFromDraw
    BY <1>0 DEF InstructionFits
  <2> QED
    BY <1>1, <1>u, <2>1, <2>2, <2>3, <2>4 DEF IInv, RowFits, Instructions
<1>9. WireFits'
  BY DEF WireFits
<1>10. LogFits'
  <2> SUFFICES ASSUME NEW n \in 1..Len(log') PROVE EventFits(log[n])'
    BY DEF LogFits
  <2>1. CASE n \in 1..Len(log)
    <3>1. EventFits(log[n]) /\ log'[n] = log[n]
      BY <2>1, <1>3 DEF IInv, LogFits
    <3> QED
      BY <3>1, <1>1, <1>u DEF EventFits, FromOpen, FromVrf, FromDraw, FromPayout, Instructions
  <2>2. CASE n = Len(log) + 1
    <3>1. log'[n] = e /\ e.deposit = None /\ e.kind = Outcome[i.ix][2]
      BY <2>2, <1>3 DEF Event
    <3>2. /\ i.ix # "initialize" => landed # {} \/ i.ix = "close_lottery"
          /\ i.ix = "emergency" => row \in RowFromSecond
          /\ i.ix = "start_purchases" => row \in RowFromDraw
      BY <1>0, <1>1 DEF InstructionFits, IInv, RowFits, Instructions
    <3> QED
      BY <3>1, <3>2, <1>1, <1>u, Outcomes
      DEF EventFits, FromOpen, FromVrf, FromDraw, FromPayout, Instructions
  <2> QED
    BY <2>1, <2>2, <1>3
<1>11. QueueFits'
  <2>1. ASSUME NEW p \in Paths, queued[p] # None, queued[p].status # None
        PROVE  phase' \in Reached(queued[p].status)
    <3>1. queued[p].status \in Statuses /\ phase \in Reached(queued[p].status)
      BY <2>1 DEF IInv, DatabaseTypes, QueuedWrite, QueueFits, WriteFits
    <3> QED
      BY <3>1, <1>1 DEF Statuses, RowFromCreated, Reached,
         FromOpen, FromVrf, FromDraw, FromPayout, Instructions
  <2> QED
    BY <2>1, <1>u DEF IInv, QueueFits, WriteFits
<1>12. SightFits'
  BY <1>1, <1>u DEF IInv, SightFits, WireFits, WorkerTypes, Sight, FromOpen, Instructions
<1>13. VisitFits'
  BY <1>1, <1>u DEF IInv, VisitFits, FromPayout, Instructions
<1>14. WaitFits'
  BY <1>0, <1>1, <1>u DEF IInv, WaitFits, InstructionFits, FromOpen, FromVrf, FromDraw, FromPayout, Instructions
<1>15. PaidFits'
  BY <1>0, <1>1, <1>4, <1>u DEF IInv, PaidFits, InstructionFits, FromVrf, FromPayout, Instructions
<1> QED
  BY <1>5, <1>6, <1>7, <1>8, <1>9, <1>10, <1>11, <1>12, <1>13, <1>14, <1>15 DEF IInv

\* Every instruction that lands, and the fulfill of a stranger.
LEMMA LandKeepsIInv ==
  ASSUME IInv, (\E i \in wire : Land(i)) \/ StrangerFulfills
  PROVE  IInv'
<1>1. ASSUME NEW i \in wire, Land(i) PROVE IInv'
  <2>1. i \in Instruction
    BY DEF IInv, ChainTypes
  <2>2. confirmed' = confirmed \/ (confirmed' = TRUE /\ pc = "waiting" /\ sent = i)
    BY <1>1 DEF Land, IInv, WorkerTypes
  <2> QED
    BY <1>1, <2>1, <2>2, ExecuteKeepsIInv DEF Land
<1>2. ASSUME StrangerFulfills PROVE IInv'
  <2>1. Ix("fulfill") \in Instruction /\ Ix("fulfill").ix = "fulfill"
    BY DEF Ix, NoIx, Instruction, Instructions
  <2>2. confirmed' = confirmed
    BY <1>2 DEF StrangerFulfills, workVars
  <2> QED
    BY <1>2, <2>1, <2>2, ExecuteKeepsIInv DEF StrangerFulfills, workVars
<1> QED
  BY <1>1, <1>2

\* What is dropped from the wire, and the passing of time, touch no relation but
\* the one to the end of the entry period, which only comes nearer.
LEMMA TimeKeepsIInv ==
  ASSUME IInv,
         \/ \E i \in wire : Drop(i)
         \/ OraoAnswers \/ EntryTick \/ VrfTick \/ WindowTick
  PROVE  IInv'
<1>1. /\ wire' \subseteq wire
      /\ clock' \in {"entry", "closing", "over"}
      /\ clock # "entry" => clock' # "entry"
      /\ oraoDone' \in BOOLEAN /\ waited' \in BOOLEAN /\ window' \in {"running", "over", "ceiling"}
      /\ UNCHANGED <<phase, landed, late, commitment, log, pos, queued, row, started, bets,
                     orphaned, doomed, locked, pc, seen, sent, confirmed, served>>
  <2>1. ASSUME NEW i \in wire, Drop(i) PROVE <1>1!:
    BY <2>1 DEF Drop, IInv, ChainTypes, chainVars, timeVars, eventVars, rowVars, betVars, workVars
  <2>2. ASSUME OraoAnswers PROVE <1>1!:
    BY <2>2 DEF OraoAnswers, IInv, ChainTypes, timeVars, eventVars, rowVars, betVars, workVars
  <2>3. ASSUME EntryTick PROVE <1>1!:
    BY <2>3 DEF EntryTick, IInv, ChainTypes, chainVars, eventVars, rowVars, betVars, workVars
  <2>4. ASSUME VrfTick PROVE <1>1!:
    BY <2>4 DEF VrfTick, IInv, ChainTypes, chainVars, eventVars, rowVars, betVars, workVars
  <2>5. ASSUME WindowTick PROVE <1>1!:
    BY <2>5 DEF WindowTick, IInv, ChainTypes, chainVars, eventVars, rowVars, betVars, workVars
  <2> QED
    BY <2>1, <2>2, <2>3, <2>4, <2>5
<1>2. ChainTypes' /\ DatabaseTypes' /\ WorkerTypes'
  BY <1>1 DEF IInv, ChainTypes, DatabaseTypes, WorkerTypes
<1>3. RowFits' /\ PaidFits'
  BY <1>1 DEF IInv, RowFits, PaidFits
<1>4. WireFits'
  BY <1>1 DEF IInv, WireFits, InstructionFits
<1>5. LogFits' /\ QueueFits'
  BY <1>1 DEF IInv, LogFits, EventFits, QueueFits, WriteFits
<1>6. SightFits'
  BY <1>1 DEF IInv, SightFits
<1>7. VisitFits' /\ WaitFits'
  BY <1>1 DEF IInv, VisitFits, WaitFits
<1> QED
  BY <1>2, <1>3, <1>4, <1>5, <1>6, <1>7 DEF IInv

\* The chain and the clock.
LEMMA ChainKeepsIInv == IInv /\ Chain => IInv'
BY DepositKeepsIInv, LandKeepsIInv, TimeKeepsIInv DEF Chain

-----------------------------------------------------------------------------
(* Events into the database.                                               *)

\* What a handler settles on, from a true event: a status the round has reached,
\* the next one to be shown, and a bet that landed.
LEMMA SettledFits ==
  ASSUME IInv, NEW e \in Logged, EventFits(e)
  PROVE  /\ Settled(e) \in QueuedWrite
         /\ WriteFits(Settled(e))
         /\ Settled(e).status # row
<1>1. /\ Settled(e).status = StatusWritten(e.kind)
      /\ Settled(e).bet \in {None, e.deposit} \cap (landed \cup {None})
  BY DEF Settled, EventFits, Logged
<1>2. e.kind \in Kinds
  BY DEF Logged
<1>3. row \in {"id_generated"} \cup Statuses
  BY DEF IInv, DatabaseTypes
<1>4. StatusWritten(e.kind) =
        IF e.kind = "LotteryInitialized" /\ row = "id_generated" THEN "created"
        ELSE IF e.kind = "Phase2Started" /\ row \in {"id_generated", "created"}
             THEN "phase2started"
        ELSE IF \/ e.kind = "VrfFulfilled" /\ row = "phase2started"
                \/ e.kind = "EmergencySeedUsed"
                     /\ row \in {"id_generated", "created", "phase2started"}
             THEN "vrf_fulfilled"
        ELSE IF e.kind = "PurchasesPhaseStarted"
                  /\ row \in {"id_generated", "created", "phase2started", "vrf_fulfilled"}
             THEN "proceeding_purchases"
        ELSE IF e.kind = "PhaseChanged" /\ row # "closed" THEN "closed"
        ELSE None
  BY <1>2, <1>3, Places DEF StatusWritten, Kinds, Early, Statuses, RowFromCreated
<1>5. StatusWritten(e.kind) \in Statuses \cup {None} /\ StatusWritten(e.kind) # row
  BY <1>3, <1>4, NoneIsNoStatus DEF Statuses, RowFromCreated
<1>6. Settled(e) \in QueuedWrite
  BY <1>1, <1>5 DEF Settled, QueuedWrite, Logged, IInv, ChainTypes
<1>7. WriteFits(Settled(e))
  <2> SUFFICES ASSUME Settled(e).status # None
               PROVE  LET s == Settled(e).status IN
                      /\ phase \in Reached(s) /\ row \in Before(s)
                      /\ s = "phase2started" => landed # {}
                      /\ s = "vrf_fulfilled" => landed # {} /\ row \in RowFromSecond
                      /\ s = "proceeding_purchases" => landed # {} /\ row \in RowFromDraw
    BY <1>1 DEF WriteFits
  <2>1. CASE e.kind = "LotteryInitialized" /\ row = "id_generated"
    BY <2>1, <1>1, <1>4 DEF EventFits, Reached, Before
  <2>2. CASE e.kind = "Phase2Started" /\ row \in {"id_generated", "created"}
    BY <2>2, <1>1, <1>4 DEF EventFits, Reached, Before
  <2>3. CASE \/ e.kind = "VrfFulfilled" /\ row = "phase2started"
             \/ e.kind = "EmergencySeedUsed"
                  /\ row \in {"id_generated", "created", "phase2started"}
    BY <2>3, <1>1, <1>4 DEF EventFits, Reached, Before, RowFromSecond
  <2>4. CASE e.kind = "PurchasesPhaseStarted"
               /\ row \in {"id_generated", "created", "phase2started", "vrf_fulfilled"}
    BY <2>4, <1>1, <1>4 DEF EventFits, Reached, Before, RowFromDraw
  <2>5. CASE e.kind = "PhaseChanged" /\ row # "closed"
    BY <2>5, <1>1, <1>3, <1>4 DEF EventFits, Reached, Before, Statuses, RowFromCreated
  <2> QED
    BY <2>1, <2>2, <2>3, <2>4, <2>5, <1>1, <1>4
<1> QED
  BY <1>1, <1>5, <1>6, <1>7

\* Over one row only one status can be waiting to be written.
LEMMA OneStatusWaits ==
  ASSUME IInv, NEW v \in QueuedWrite, NEW w \in QueuedWrite, WriteFits(v), WriteFits(w),
         v.status \notin {None, row}, w.status \notin {None, row}
  PROVE  v.status = w.status
<1>1. v.status \in Statuses /\ w.status \in Statuses /\ row \in {"id_generated"} \cup Statuses
  BY DEF QueuedWrite, IInv, DatabaseTypes
<1>2. ASSUME NEW s \in Statuses, s # row, phase \in Reached(s), row \in Before(s),
             s = "phase2started" => landed # {},
             s = "vrf_fulfilled" => landed # {} /\ row \in RowFromSecond,
             s = "proceeding_purchases" => landed # {} /\ row \in RowFromDraw
      PROVE  s = CASE row = "id_generated" -> "created"
                   [] row = "created" -> IF landed = {} THEN "closed" ELSE "phase2started"
                   [] row = "phase2started" -> "vrf_fulfilled"
                   [] row = "vrf_fulfilled" -> "proceeding_purchases"
                   [] row = "proceeding_purchases" -> "closed"
                   [] row = "closed" -> "none"
  <2> USE <1>2 DEF Reached, Before, Statuses, RowFromCreated, RowFromSecond, RowFromDraw,
          RowFromPayout, FromOpen, FromVrf, FromDraw, FromPayout
  <2>0. RowFits
    BY DEF IInv
  <2>1. CASE row = "id_generated"
    BY <2>0, <2>1 DEF RowFits
  <2>2. CASE row = "created"
    BY <2>0, <2>2 DEF RowFits
  <2>3. CASE row = "phase2started"
    BY <2>0, <2>3 DEF RowFits
  <2>4. CASE row = "vrf_fulfilled"
    BY <2>0, <2>4 DEF RowFits
  <2>5. CASE row = "proceeding_purchases"
    BY <2>0, <2>5 DEF RowFits
  <2>6. CASE row = "closed"
    BY <2>6
  <2> QED
    BY <1>1, <2>1, <2>2, <2>3, <2>4, <2>5, <2>6
<1>3. /\ phase \in Reached(v.status) /\ row \in Before(v.status)
      /\ v.status = "phase2started" => landed # {}
      /\ v.status = "vrf_fulfilled" => landed # {} /\ row \in RowFromSecond
      /\ v.status = "proceeding_purchases" => landed # {} /\ row \in RowFromDraw
      /\ phase \in Reached(w.status) /\ row \in Before(w.status)
      /\ w.status = "phase2started" => landed # {}
      /\ w.status = "vrf_fulfilled" => landed # {} /\ row \in RowFromSecond
      /\ w.status = "proceeding_purchases" => landed # {} /\ row \in RowFromDraw
  BY DEF WriteFits
<1> QED
  BY <1>1, <1>2, <1>3

\* A write to the database, at once or from the queue: the row moves on to what
\* the round has reached, and a bet that landed is added.
LEMMA WriteKeepsIInv ==
  ASSUME IInv, NEW w \in QueuedWrite, WriteFits(w), Write(w),
         locked => w.status = None,
         pos' \in [Paths -> Nat], \A p \in Paths : pos'[p] <= Len(log),
         queued' \in [Paths -> QueuedWrite \cup {None}],
         \A p \in Paths : queued'[p] # None =>
           /\ queued'[p] = queued[p]
           /\ w.status # None /\ queued[p].status # None => queued[p].status = w.status,
         UNCHANGED <<chainVars, wire, timeVars, log, started, orphaned, doomed, workVars, served>>
  PROVE  IInv'
<1>1. /\ row' = IF w.status = None THEN row ELSE w.status
      /\ bets \subseteq bets' /\ bets' \subseteq landed /\ bets' \cap orphaned = {}
  BY DEF Write, WriteFits, IInv, DatabaseTypes
<1>2. w.status \in Statuses \cup {None} /\ row \in {"id_generated"} \cup Statuses
  BY DEF QueuedWrite, IInv, DatabaseTypes
<1>3. w.status # None =>
        /\ phase \in Reached(w.status) /\ row \in Before(w.status)
        /\ w.status = "phase2started" => landed # {}
        /\ w.status = "vrf_fulfilled" => landed # {} /\ row \in RowFromSecond
        /\ w.status = "proceeding_purchases" => landed # {} /\ row \in RowFromDraw
  BY DEF WriteFits
<1>u. UNCHANGED <<phase, landed, late, commitment, oraoDone, wire, clock, waited, window, log,
                 started, orphaned, doomed, locked, pc, seen, sent, confirmed, served>>
  BY DEF chainVars, timeVars, workVars
<1>4. /\ row' \in {"id_generated"} \cup Statuses
      /\ row \in RowFromCreated => row' \in RowFromCreated
      /\ row \in RowFromSecond => row' \in RowFromSecond
      /\ row \in RowFromDraw => row' \in RowFromDraw
      /\ row \in RowFromPayout => row' \in RowFromPayout
      /\ row = "closed" => row' = "closed"
      /\ locked => row' = row
  BY <1>1, <1>2, <1>3 DEF Before, Statuses, RowFromCreated, RowFromSecond, RowFromDraw, RowFromPayout
<1>5. ChainTypes' /\ WorkerTypes'
  <2>1. ChainTypes'
    BY <1>u DEF IInv, ChainTypes
  <2>2. WorkerTypes'
    BY <1>u DEF IInv, WorkerTypes
  <2> QED
    BY <2>1, <2>2
<1>6. DatabaseTypes'
  BY <1>1, <1>4, <1>u DEF IInv, DatabaseTypes
<1>7. RowFits'
  <2>1. phase' \in Reached(row)'
    BY <1>1, <1>3, <1>u DEF IInv, RowFits
  <2>2. landed = {} /\ row \in {"created", "closed"} => row' \in {"created", "closed"}
    BY <1>1, <1>2, <1>3 DEF Before, Statuses, RowFromCreated, RowFromSecond, RowFromDraw
  <2> QED
    BY <2>1, <2>2, <1>4, <1>u DEF IInv, RowFits
<1>8. WireFits' /\ LogFits'
  <2>1. WireFits'
    BY <1>1, <1>4, <1>u DEF IInv, WireFits, InstructionFits
  <2>2. LogFits'
    BY <1>4, <1>u DEF IInv, LogFits, EventFits
  <2> QED
    BY <2>1, <2>2
<1>9. QueueFits'
  <2>1. ASSUME NEW p \in Paths, queued'[p] # None PROVE WriteFits(queued[p])'
    <3>1. queued'[p] = queued[p] /\ WriteFits(queued[p])
      BY <2>1 DEF IInv, QueueFits
    <3>2. queued[p].status \in Statuses \cup {None}
      BY <2>1, <3>1 DEF IInv, DatabaseTypes, QueuedWrite
    <3>3. queued[p].status # None => row' \in Before(queued[p].status)
      <4>1. CASE w.status = None
        BY <3>1, <4>1, <1>1 DEF WriteFits
      <4>2. CASE w.status # None
        BY <2>1, <3>2, <4>2, <1>1 DEF Before, Statuses, RowFromCreated
      <4> QED
        BY <4>1, <4>2
    <3> QED
      BY <3>1, <3>3, <1>4, <1>u DEF WriteFits
  <2>2. \A p, q \in Paths :
          queued'[p] # None /\ queued'[q] # None
            /\ queued'[p].status # None /\ queued'[q].status # None
          => queued'[p].status = queued'[q].status
    BY DEF IInv, QueueFits
  <2>3. locked => \A p \in Paths : queued'[p] # None => queued'[p].status # row'
    BY <1>4 DEF IInv, QueueFits
  <2> QED
    BY <2>1, <2>2, <2>3, <1>u DEF QueueFits
<1>10. SightFits'
  BY <1>1, <1>u DEF IInv, SightFits
<1>11. VisitFits'
  BY <1>4, <1>u DEF IInv, VisitFits
<1>12. WaitFits'
  BY <1>4, <1>u DEF IInv, WaitFits
<1>13. PaidFits'
  BY <1>1, <1>u DEF IInv, PaidFits
<1> QED
  BY <1>5, <1>6, <1>7, <1>8, <1>9, <1>10, <1>11, <1>12, <1>13 DEF IInv

\* What a handler reads is an event of the log.
LEMMA ReadsTheLog ==
  ASSUME IInv, NEW p \in Paths, pos[p] < Len(log)
  PROVE  /\ log[pos[p] + 1] \in Logged /\ EventFits(log[pos[p] + 1])
         /\ [pos EXCEPT ![p] = @ + 1] \in [Paths -> Nat]
         /\ \A q \in Paths : [pos EXCEPT ![p] = @ + 1][q] <= Len(log)
<1>1. pos \in [Paths -> Nat] /\ Len(log) \in Nat /\ \A q \in Paths : pos[q] <= Len(log)
  BY LenProperties DEF IInv, DatabaseTypes
<1>2. pos[p] + 1 \in 1..Len(log)
  BY <1>1
<1>3. log[pos[p] + 1] \in Logged
  BY <1>2, ElementOfSeq DEF IInv, DatabaseTypes
<1> QED
  BY <1>1, <1>2, <1>3 DEF IInv, LogFits

\* A handler that finds the row held queues its write behind the lock; any other
\* writes at once.
LEMMA HandleKeepsIInv ==
  ASSUME IInv, NEW p \in Paths, HandleEvent(p)
  PROVE  IInv'
<1> DEFINE w == Settled(log[pos[p] + 1])
<1>1. pos[p] < Len(log) /\ queued[p] = None /\ NoWaiter /\ pos' = [pos EXCEPT ![p] = @ + 1]
  BY DEF HandleEvent
<1>2. /\ log[pos[p] + 1] \in Logged /\ EventFits(log[pos[p] + 1])
      /\ pos' \in [Paths -> Nat] /\ \A q \in Paths : pos'[q] <= Len(log)
  BY <1>1, ReadsTheLog
<1>3. w \in QueuedWrite /\ WriteFits(w) /\ w.status # row
  BY <1>2, SettledFits
<1> HIDE DEF w
<1>u. UNCHANGED <<chainVars, wire, timeVars, log, started, orphaned, doomed, workVars, served>>
  BY DEF HandleEvent
<1>4. queued \in [Paths -> QueuedWrite \cup {None}]
  BY DEF IInv, DatabaseTypes
<1>5. CASE locked /\ (w.status # None \/ w.bet # None)
  <2>1. queued' = [queued EXCEPT ![p] = w] /\ UNCHANGED <<row, bets>>
    BY <1>5 DEF HandleEvent, w
  <2>2. UNCHANGED <<phase, landed, late, commitment, oraoDone, wire, clock, waited, window, log,
                    row, bets, started, orphaned, doomed, locked, pc, seen, sent, confirmed, served>>
    BY <2>1, <1>u DEF chainVars, timeVars, workVars
  <2>3. ChainTypes'
    BY <2>2 DEF IInv, ChainTypes
  <2>4. DatabaseTypes'
    BY <1>2, <1>3, <1>4, <2>1, <2>2 DEF IInv, DatabaseTypes
  <2>5. WorkerTypes' /\ RowFits' /\ PaidFits'
    BY <2>2 DEF IInv, WorkerTypes, RowFits, PaidFits
  <2>6. WireFits' /\ LogFits'
    BY <2>2 DEF IInv, WireFits, InstructionFits, LogFits, EventFits
  <2>7. SightFits' /\ VisitFits' /\ WaitFits'
    <3>1. SightFits'
      BY <2>2 DEF IInv, SightFits
    <3>2. VisitFits'
      BY <2>2 DEF IInv, VisitFits
    <3>3. WaitFits'
      BY <2>2 DEF IInv, WaitFits
    <3> QED
      BY <3>1, <3>2, <3>3
  <2>8. QueueFits'
    <3>1. \A q \in Paths : queued'[q] = IF q = p THEN w ELSE queued[q]
      BY <2>1, <1>4
    <3>2. ASSUME NEW q \in Paths, queued'[q] # None PROVE WriteFits(queued[q])'
      <4>1. WriteFits(queued'[q])
        BY <3>1, <3>2, <1>3 DEF IInv, QueueFits
      <4> QED
        BY <4>1, <2>2 DEF WriteFits
    <3>3. ASSUME NEW q \in Paths, queued'[q] # None PROVE queued'[q].status # row
      BY <3>1, <3>3, <1>3, <1>5 DEF IInv, QueueFits
    <3>4. ASSUME NEW q \in Paths, NEW r \in Paths, queued'[q] # None, queued'[r] # None,
                 queued'[q].status # None, queued'[r].status # None
          PROVE  queued'[q].status = queued'[r].status
      <4>1. queued'[q] \in QueuedWrite /\ queued'[r] \in QueuedWrite
        BY <3>1, <3>4, <1>3, <1>4
      <4>2. WriteFits(queued'[q]) /\ WriteFits(queued'[r])
        BY <3>1, <3>4, <1>3 DEF IInv, QueueFits
      <4>3. queued'[q].status # row /\ queued'[r].status # row
        BY <3>3, <3>4
      <4> QED
        BY <4>1, <4>2, <4>3, <3>4, OneStatusWaits
    <3> QED
      BY <3>2, <3>3, <3>4, <2>2 DEF QueueFits
  <2> QED
    BY <2>3, <2>4, <2>5, <2>6, <2>7, <2>8 DEF IInv
<1>6. CASE ~(locked /\ (w.status # None \/ w.bet # None))
  <2>1. Write(w) /\ queued' = queued
    BY <1>6 DEF HandleEvent, w
  <2>2. locked => w.status = None
    BY <1>6
  <2>3. \A q \in Paths : queued'[q] # None =>
          /\ queued'[q] = queued[q]
          /\ w.status # None /\ queued[q].status # None => queued[q].status = w.status
    BY <1>1, <2>1, <2>2 DEF NoWaiter
  <2> QED
    BY <1>2, <1>3, <1>4, <1>u, <2>1, <2>2, <2>3, WriteKeepsIInv
<1> QED
  BY <1>5, <1>6

\* The write that waited goes first once the row is given up.
LEMMA QueuedKeepsIInv ==
  ASSUME IInv, NEW p \in Paths, WriteQueued(p)
  PROVE  IInv'
<1>1. /\ queued \in [Paths -> QueuedWrite \cup {None}]
      /\ pos \in [Paths -> Nat] /\ \A q \in Paths : pos[q] <= Len(log)
  BY DEF IInv, DatabaseTypes
<1>2. /\ queued[p] # None /\ ~locked /\ Write(queued[p])
      /\ queued' = [queued EXCEPT ![p] = None] /\ pos' = pos
      /\ UNCHANGED <<chainVars, wire, timeVars, log, started, orphaned, doomed, workVars, served>>
  BY DEF WriteQueued
<1>3. queued[p] \in QueuedWrite /\ WriteFits(queued[p])
  BY <1>1, <1>2 DEF IInv, QueueFits
<1>4. queued' \in [Paths -> QueuedWrite \cup {None}]
  BY <1>1, <1>2
<1>5. \A q \in Paths : queued'[q] # None =>
        /\ queued'[q] = queued[q]
        /\ queued[p].status # None /\ queued[q].status # None => queued[q].status = queued[p].status
  BY <1>1, <1>2 DEF IInv, QueueFits
<1> QED
  BY <1>1, <1>2, <1>3, <1>4, <1>5, WriteKeepsIInv

\* A missed event, the browser's report and the finalizer leave the row alone; a
\* bet that is struck out stays known as such.
LEMMA BetsKeepIInv ==
  ASSUME IInv,
         \/ \E p \in Paths : MissEvent(p)
         \/ \E d \in Deposits : PlaceBet(d) \/ FinalizerChecks(d)
         \/ FinalizerCommits
  PROVE  IInv'
<1>1. /\ pos' \in [Paths -> Nat] /\ \A q \in Paths : pos'[q] <= Len(log)
      /\ bets' \subseteq landed /\ orphaned' \subseteq landed /\ bets' \cap orphaned' = {}
      /\ doomed' \subseteq bets'
      /\ bets \cup orphaned \subseteq bets' \cup orphaned' /\ orphaned \subseteq orphaned'
      /\ UNCHANGED <<phase, landed, late, commitment, oraoDone, wire, clock, waited, window, log,
                     queued, row, started, locked, pc, seen, sent, confirmed, served>>
  <2> USE DEF chainVars, timeVars, eventVars, rowVars, workVars, betVars
  <2>0. /\ bets \subseteq landed /\ orphaned \subseteq landed /\ bets \cap orphaned = {}
        /\ doomed \subseteq bets
        /\ pos \in [Paths -> Nat] /\ \A q \in Paths : pos[q] <= Len(log)
    BY DEF IInv, DatabaseTypes
  <2>1. ASSUME NEW p \in Paths, MissEvent(p) PROVE <1>1!:
    <3>1. pos' \in [Paths -> Nat] /\ \A q \in Paths : pos'[q] <= Len(log)
      BY <2>1, ReadsTheLog DEF MissEvent
    <3> QED
      BY <2>0, <2>1, <3>1 DEF MissEvent
  <2>2. ASSUME NEW d \in Deposits, PlaceBet(d) PROVE <1>1!:
    BY <2>0, <2>2 DEF PlaceBet
  <2>3. ASSUME NEW d \in Deposits, FinalizerChecks(d) PROVE <1>1!:
    BY <2>0, <2>3 DEF FinalizerChecks
  <2>4. ASSUME FinalizerCommits PROVE <1>1!:
    BY <2>0, <2>4 DEF FinalizerCommits
  <2> QED
    BY <2>1, <2>2, <2>3, <2>4
<1>2. ChainTypes' /\ DatabaseTypes' /\ WorkerTypes'
  <2>1. ChainTypes'
    BY <1>1 DEF IInv, ChainTypes
  <2>2. DatabaseTypes'
    BY <1>1 DEF IInv, DatabaseTypes
  <2>3. WorkerTypes'
    BY <1>1 DEF IInv, WorkerTypes
  <2> QED
    BY <2>1, <2>2, <2>3
<1>3. RowFits' /\ LogFits' /\ QueueFits'
  BY <1>1 DEF IInv, RowFits, LogFits, EventFits, QueueFits, WriteFits
<1>4. WireFits' /\ SightFits'
  BY <1>1 DEF IInv, WireFits, InstructionFits, SightFits
<1>5. VisitFits' /\ WaitFits'
  BY <1>1 DEF IInv, VisitFits, WaitFits
<1>6. PaidFits'
  BY <1>1 DEF IInv, PaidFits
<1> QED
  BY <1>2, <1>3, <1>4, <1>5, <1>6 DEF IInv

\* The database.
LEMMA DatabaseKeepsIInv == IInv /\ Database => IInv'
BY HandleKeepsIInv, QueuedKeepsIInv, BetsKeepIInv DEF Database

-----------------------------------------------------------------------------
(* The phase worker.                                                       *)

\* A step of the worker that writes nothing to the database: what the log, the
\* queue and the bets say stays as it was.
LEMMA VisitStep ==
  ASSUME IInv,
         UNCHANGED <<chainVars, timeVars, eventVars, rowVars, betVars, served>>,
         wire' \in SUBSET Instruction, WireFits', WorkerTypes', SightFits', VisitFits', WaitFits',
         locked' => locked \/ \A p \in Paths : queued[p] = None
  PROVE  IInv'
<1>1. UNCHANGED <<phase, landed, late, commitment, oraoDone, clock, waited, window, log,
                 pos, queued, row, started, bets, orphaned, doomed, served>>
  BY DEF chainVars, timeVars, eventVars, rowVars, betVars
<1>2. ChainTypes'
  BY <1>1 DEF IInv, ChainTypes
<1>3. DatabaseTypes'
  BY <1>1 DEF IInv, DatabaseTypes
<1>4. RowFits' /\ LogFits' /\ PaidFits'
  BY <1>1 DEF IInv, RowFits, LogFits, EventFits, PaidFits
<1>5. QueueFits'
  BY <1>1 DEF IInv, QueueFits, WriteFits
<1> QED
  BY <1>2, <1>3, <1>4, <1>5 DEF IInv

\* A visit begins with a look at the round, under the lock.
LEMMA LookKeepsIInv ==
  ASSUME IInv, Look
  PROVE  IInv'
<1>1. /\ pc = "idle" /\ row # "closed" /\ phase \notin {"absent", "closed"}
      /\ row \in Early => clock # "entry"
      /\ locked' = TRUE /\ pc' = Part
      /\ seen' = [phase |-> phase, landed |-> landed, bets |-> bets]
      /\ UNCHANGED <<chainVars, wire, timeVars, eventVars, rowVars, betVars, sent, confirmed, served>>
  BY DEF Look
<1>2. ~locked /\ sent = NoIx /\ \A p \in Paths : queued[p] = None
  BY <1>1 DEF Look, NoWaiter, IInv, VisitFits
<1>3. ~confirmed
  BY <1>1 DEF IInv, VisitFits
<1>u. UNCHANGED <<phase, landed, late, commitment, oraoDone, wire, clock, row, bets, orphaned,
                 sent, confirmed, served>>
  BY <1>1 DEF chainVars, timeVars, rowVars, betVars
<1>4. /\ phase \in FromOpen /\ landed \in SUBSET Deposits /\ bets \subseteq landed
      /\ row \in {"id_generated"} \cup Statuses
  BY <1>1 DEF IInv, ChainTypes, DatabaseTypes
<1>5. /\ seen'.phase = phase /\ seen'.landed = landed /\ seen'.bets = bets
      /\ seen' \in Sight
  BY <1>1, <1>4 DEF Sight
<1>6. pc' = IF row \in Early THEN "phase1" ELSE IF row = "phase2started" THEN "phase2"
                                              ELSE "post_vrf"
  BY <1>1, <1>4 DEF Part, Early, Statuses, RowFromCreated
<1>7. WireFits'
  BY <1>u DEF IInv, WireFits, InstructionFits
<1>8. WorkerTypes'
  BY <1>1, <1>5, <1>6, <1>u DEF IInv, WorkerTypes, Stations
<1>9. SightFits'
  <2>1. phase = "Open" \/ phase = "PendingVrf" \/ phase = "ReadyToDraw" \/ phase = "ProceedingPurchases"
    BY <1>1, <1>4 DEF FromOpen
  <2>2. \A i \in wire :
          /\ phase = "Open" => i.ix \in {"initialize", "start_second_phase", "close_lottery"}
          /\ phase = "PendingVrf" => i.ix # "start_purchases"
    <3> SUFFICES ASSUME NEW i \in wire
                 PROVE  /\ phase = "Open" => i.ix \in {"initialize", "start_second_phase", "close_lottery"}
                        /\ phase = "PendingVrf" => i.ix # "start_purchases"
      OBVIOUS
    <3>1. i.ix \in Instructions \cup {"none"} /\ InstructionFits(i)
      BY DEF IInv, ChainTypes, WireFits, Instruction
    <3> QED
      BY <3>1 DEF Instructions, InstructionFits, FromVrf, FromDraw
  <2> QED
    BY <1>4, <1>5, <1>u, <2>1, <2>2 DEF SightFits
<1>10. VisitFits'
  <2>1. seen'.phase \in Reached(row)
    BY <1>5 DEF IInv, RowFits
  <2>2. row = "phase2started" => phase \in FromVrf
    BY <1>5 DEF IInv, RowFits, Reached
  <2>3. pc' # "phase1" /\ pc' # "phase2" => row \in {"vrf_fulfilled", "proceeding_purchases"}
    BY <1>1, <1>4, <1>6 DEF Early, Statuses, RowFromCreated
  <2> QED
    BY <1>1, <1>3, <1>4, <1>5, <1>6, <1>u, <2>1, <2>2, <2>3 DEF VisitFits, FromOpen
<1>11. WaitFits'
  BY <1>6 DEF WaitFits
<1>12. wire' \in SUBSET Instruction
  BY <1>u DEF IInv, ChainTypes
<1> QED
  BY <1>1, <1>2, <1>7, <1>8, <1>9, <1>10, <1>11, <1>12, VisitStep

\* A visit that ends knows nothing any more.
LEMMA LeaveKeepsIInv ==
  ASSUME IInv, Leave
  PROVE  IInv'
<1>1. /\ pc' = "idle" /\ locked' = FALSE /\ seen' = NotLooked /\ sent' = NoIx /\ confirmed' = FALSE
      /\ UNCHANGED <<chainVars, wire, timeVars, eventVars, rowVars, betVars, served>>
  BY DEF Leave, Forget
<1>u. UNCHANGED <<phase, landed, late, wire, clock, row, bets, orphaned, served>>
  BY <1>1 DEF chainVars, timeVars, rowVars, betVars
<1>2. WireFits' /\ wire' \in SUBSET Instruction
  BY <1>u DEF IInv, WireFits, InstructionFits, ChainTypes
<1>3. WorkerTypes'
  BY <1>1, <1>u DEF IInv, WorkerTypes, Stations, NotLooked, NoIx, Sight, Instruction
<1>4. SightFits'
  BY <1>1, <1>u DEF IInv, ChainTypes, SightFits, NotLooked
<1>5. VisitFits' /\ WaitFits'
  BY <1>1 DEF VisitFits, WaitFits
<1> QED
  BY <1>1, <1>2, <1>3, <1>4, <1>5, VisitStep

\* What the worker signs fits the round it has seen, and it waits for nothing else.
LEMMA SendKeepsIInv ==
  ASSUME IInv, NEW i \in Instruction, Send(i), UNCHANGED rowVars, InstructionFits(i),
         pc # "waiting",
         \/ /\ i.ix = "start_second_phase" /\ seen.phase = "Open"
            /\ locked => row \in Early
         \/ i.ix = "close_lottery" /\ seen.phase = "Open" /\ row \in RowFromCreated
         \/ i.ix = "close_lottery" /\ seen.phase = "ProceedingPurchases" /\ row \in RowFromPayout
         \/ i.ix \in {"fulfill", "emergency"} /\ seen.phase = "PendingVrf"
         \/ i.ix = "start_purchases" /\ seen.phase = "ReadyToDraw"
  PROVE  IInv'
<1>1. /\ wire' = wire \cup {i} /\ sent' = i /\ confirmed' = FALSE /\ pc' = "waiting"
      /\ UNCHANGED <<chainVars, timeVars, eventVars, rowVars, betVars, locked, seen, served>>
  BY DEF Send
<1>u. UNCHANGED <<phase, landed, late, clock, row, bets, orphaned, locked, seen, served>>
  BY <1>1 DEF chainVars, timeVars, rowVars, betVars
<1>2. wire' \in SUBSET Instruction
  BY <1>1 DEF IInv, ChainTypes
<1>3. WireFits'
  BY <1>1, <1>u DEF IInv, WireFits, InstructionFits
<1>4. WorkerTypes'
  BY <1>1, <1>u DEF IInv, WorkerTypes, Stations
<1>5. SightFits'
  BY <1>1, <1>u DEF IInv, SightFits
<1>6. VisitFits'
  BY <1>1 DEF VisitFits
<1>7. WaitFits'
  BY <1>1, <1>u DEF IInv, WaitFits, InstructionFits
<1> QED
  BY <1>1, <1>2, <1>3, <1>4, <1>5, <1>6, <1>7, VisitStep

\* The instructions the worker signs.  Two sets of bets counted equal are the same
\* where one is part of the other: what is committed to misses only late deposits,
\* and the pool is released with every deposit a bet.
LEMMA SendsKeepIInv ==
  ASSUME IInv,
         \/ CloseEmptyLottery \/ StartSecondPhase
         \/ FulfillRandomness \/ EmergencyFulfill
         \/ StartPurchases \/ CloseRound
  PROVE  IInv'
<1> USE DEF Send
<1>1. /\ phase \in {"absent"} \cup FromOpen /\ IsFiniteSet(landed) /\ landed \subseteq Deposits
      /\ row \in {"id_generated"} \cup Statuses
      /\ bets \subseteq landed /\ seen.landed \subseteq landed /\ seen.bets \subseteq seen.landed
      /\ seen.bets \subseteq bets \cup orphaned
  BY DEF IInv, ChainTypes, DatabaseTypes, SightFits
<1>2. \A name \in Instructions :
        Ix(name) \in Instruction /\ Ix(name).ix = name /\ Ix(name).weights = {}
  BY DEF Ix, NoIx, Instruction, Instructions
<1>3. row # "id_generated" => row \in RowFromCreated /\ phase \in FromOpen
  BY <1>1 DEF IInv, RowFits, Reached, Statuses, RowFromCreated, FromOpen, FromVrf, FromDraw, FromPayout
<1>4. CASE CloseEmptyLottery
  <2>1. /\ pc = "phase1" /\ seen.phase = "Open" /\ row # "id_generated"
        /\ Send(Ix("close_lottery")) /\ UNCHANGED rowVars
    BY <1>4 DEF CloseEmptyLottery
  <2>2. phase # "ProceedingPurchases"
    BY <2>1 DEF IInv, SightFits
  <2>3. /\ Ix("close_lottery") \in Instruction /\ Ix("close_lottery").ix = "close_lottery"
        /\ Ix("close_lottery").weights = {}
    BY <1>2 DEF Instructions
  <2>4. InstructionFits(Ix("close_lottery"))
    BY <1>3, <2>1, <2>2, <2>3 DEF InstructionFits
  <2> QED
    BY <1>3, <2>1, <2>3, <2>4, SendKeepsIInv
<1>5. CASE StartSecondPhase
  <2> DEFINE i == [ix |-> "start_second_phase", weights |-> bets]
  <2>1. /\ pc = "phase1" /\ seen.phase = "Open" /\ row # "id_generated"
        /\ bets # {} /\ Cardinality(seen.bets) = Cardinality(seen.landed)
        /\ Send(i) /\ UNCHANGED rowVars
    BY <1>5 DEF StartSecondPhase
  <2>2. seen.bets = seen.landed
    <3>1. IsFiniteSet(seen.landed)
      BY <1>1, FS_Subset
    <3> QED
      BY <1>1, <2>1, <3>1, FS_Subset
  <2>3. clock # "entry" /\ landed \ late \subseteq seen.landed /\ (locked => row \in Early)
    BY <2>1 DEF IInv, VisitFits
  <2>4. i \in Instruction /\ i.ix = "start_second_phase" /\ i.weights = bets
    BY <1>1 DEF Instruction, Instructions
  <2>5. landed \ bets \subseteq late \cup orphaned
    BY <1>1, <2>2, <2>3
  <2>6. InstructionFits(i)
    BY <1>1, <1>3, <2>1, <2>3, <2>4, <2>5 DEF InstructionFits
  <2> QED
    BY <2>1, <2>3, <2>4, <2>6, SendKeepsIInv
<1>6. CASE FulfillRandomness \/ EmergencyFulfill
  <2>1. PICK name \in {"fulfill", "emergency"} :
          pc = "draw" /\ Send(Ix(name)) /\ UNCHANGED rowVars
    BY <1>6 DEF FulfillRandomness, EmergencyFulfill
  <2>2. seen.phase = "PendingVrf" /\ row \in RowFromSecond /\ phase \in FromVrf
    BY <2>1 DEF IInv, VisitFits, SightFits, FromVrf
  <2>3. Ix(name) \in Instruction /\ Ix(name).ix = name /\ Ix(name).weights = {}
    BY <1>2 DEF Instructions
  <2>4. InstructionFits(Ix(name))
    BY <2>2, <2>3 DEF InstructionFits
  <2> QED
    BY <2>1, <2>2, <2>3, <2>4, SendKeepsIInv
<1>7. CASE StartPurchases
  <2>1. /\ pc = "pay" /\ Cardinality(bets) = Cardinality(seen.landed)
        /\ Send(Ix("start_purchases")) /\ UNCHANGED rowVars
    BY <1>7 DEF StartPurchases, DepositsMatch
  <2>2. /\ seen.phase = "ReadyToDraw" /\ row \in RowFromDraw
        /\ phase \in FromDraw /\ seen.landed = landed
    BY <2>1 DEF IInv, VisitFits, SightFits, FromDraw
  <2>3. bets = landed
    BY <1>1, <2>1, <2>2, FS_Subset
  <2>4. /\ Ix("start_purchases") \in Instruction /\ Ix("start_purchases").ix = "start_purchases"
        /\ Ix("start_purchases").weights = {}
    BY <1>2 DEF Instructions
  <2>5. InstructionFits(Ix("start_purchases"))
    BY <2>2, <2>3, <2>4 DEF InstructionFits
  <2> QED
    BY <2>1, <2>2, <2>4, <2>5, SendKeepsIInv
<1>8. CASE CloseRound
  <2>1. pc = "close" /\ Send(Ix("close_lottery")) /\ UNCHANGED rowVars
    BY <1>8 DEF CloseRound
  <2>2. /\ seen.phase = "ProceedingPurchases" /\ row \in RowFromPayout
        /\ phase \in FromOpen /\ row \in RowFromCreated
    BY <2>1 DEF IInv, VisitFits, SightFits, FromOpen, RowFromPayout, RowFromCreated
  <2>3. /\ Ix("close_lottery") \in Instruction /\ Ix("close_lottery").ix = "close_lottery"
        /\ Ix("close_lottery").weights = {}
    BY <1>2 DEF Instructions
  <2>4. InstructionFits(Ix("close_lottery"))
    BY <2>2, <2>3 DEF InstructionFits
  <2> QED
    BY <2>1, <2>2, <2>3, <2>4, SendKeepsIInv
<1> QED
  BY <1>4, <1>5, <1>6, <1>7, <1>8

\* The buyer is handed bets only once the pool is released.
LEMMA StartBuyerKeepsIInv ==
  ASSUME IInv, StartBuyer
  PROVE  IInv'
<1>1. /\ pc = "buyer" /\ served' \in {served, bets}
      /\ served # None => served' = served
      /\ UNCHANGED <<chainVars, wire, timeVars, eventVars, rowVars, betVars>>
  BY DEF StartBuyer
<1>2. /\ seen.phase = "ProceedingPurchases" \/ seen = NotLooked
      /\ row \in RowFromPayout /\ phase \in FromPayout /\ landed # {}
  BY <1>1 DEF IInv, VisitFits
<1>3. landed \subseteq bets \cup orphaned /\ bets \subseteq landed /\ landed \subseteq Deposits
  BY <1>2 DEF IInv, PaidFits, FromPayout, DatabaseTypes, ChainTypes
<1>u. UNCHANGED <<phase, landed, late, commitment, oraoDone, wire, clock, waited, window, log,
                 pos, queued, row, started, bets, orphaned, doomed>>
  BY <1>1 DEF chainVars, timeVars, eventVars, rowVars, betVars
<1>4. \/ pc' = "close" /\ seen.phase = "ProceedingPurchases"
           /\ UNCHANGED <<locked, seen, sent, confirmed>>
      \/ pc' = "idle" /\ locked' = FALSE /\ seen' = NotLooked /\ sent' = NoIx /\ confirmed' = FALSE
  BY DEF StartBuyer, Forget
<1>5. ~confirmed
  BY <1>1 DEF IInv, VisitFits
<1>6. ChainTypes'
  BY <1>u DEF IInv, ChainTypes
<1>7. DatabaseTypes'
  BY <1>u DEF IInv, DatabaseTypes
<1>8. WorkerTypes'
  <2>1. served' \in (SUBSET Deposits) \cup {None}
    BY <1>1, <1>3 DEF IInv, WorkerTypes
  <2>2. CASE pc' = "close" /\ UNCHANGED <<locked, seen, sent, confirmed>>
    BY <2>1, <2>2 DEF IInv, WorkerTypes, Stations
  <2>3. CASE pc' = "idle" /\ locked' = FALSE /\ seen' = NotLooked /\ sent' = NoIx /\ confirmed' = FALSE
    BY <2>1, <2>3 DEF WorkerTypes, Stations, NotLooked, NoIx, Sight, Instruction
  <2> QED
    BY <1>4, <2>2, <2>3
<1>9. RowFits' /\ LogFits'
  BY <1>u DEF IInv, RowFits, LogFits, EventFits
<1>10. WireFits'
  BY <1>u DEF IInv, WireFits, InstructionFits
<1>11. QueueFits'
  BY <1>4, <1>u DEF IInv, QueueFits, WriteFits
<1>12. SightFits'
  <2>1. CASE seen' = seen
    BY <1>u, <2>1 DEF IInv, SightFits
  <2>2. CASE seen' = NotLooked
    BY <1>u, <2>2 DEF IInv, ChainTypes, SightFits, NotLooked
  <2> QED
    BY <1>4, <2>1, <2>2
<1>13. VisitFits' /\ WaitFits'
  BY <1>2, <1>4, <1>5, <1>u DEF VisitFits, WaitFits
<1>14. PaidFits'
  BY <1>1, <1>2, <1>3, <1>u DEF IInv, PaidFits
<1> QED
  BY <1>6, <1>7, <1>8, <1>9, <1>10, <1>11, <1>12, <1>13, <1>14 DEF IInv

\* A commit of the worker that takes the row no step back.
LEMMA RowAdvances ==
  ASSUME IInv,
         UNCHANGED <<chainVars, wire, timeVars, eventVars, betVars, served>>,
         row \in RowFromCreated => row' \in RowFromCreated,
         row \in RowFromSecond => row' \in RowFromSecond,
         row \in RowFromDraw => row' \in RowFromDraw,
         row \in RowFromPayout => row' \in RowFromPayout,
         \A p \in Paths : queued[p] # None /\ queued[p].status # None =>
           row' \in Before(queued[p].status),
         locked' => locked /\ row' = row
  PROVE  WireFits' /\ LogFits' /\ QueueFits'
<1>u. UNCHANGED <<phase, landed, late, commitment, oraoDone, wire, clock, log, pos, queued,
                 bets, orphaned>>
  BY DEF chainVars, timeVars, eventVars, betVars
<1>1. WireFits'
  BY <1>u DEF IInv, WireFits, InstructionFits
<1>2. LogFits'
  BY <1>u DEF IInv, LogFits, EventFits
<1>3. QueueFits'
  BY <1>u DEF IInv, QueueFits, WriteFits
<1> QED
  BY <1>1, <1>2, <1>3

\* What is left to show of a commit.
LEMMA CommitStep ==
  ASSUME IInv,
         UNCHANGED <<chainVars, wire, timeVars, eventVars, betVars, served>>,
         row' \in {"id_generated"} \cup Statuses, started' \in BOOLEAN,
         WorkerTypes', RowFits', WireFits', LogFits', QueueFits', SightFits', VisitFits', WaitFits'
  PROVE  IInv'
<1>u. UNCHANGED <<phase, landed, late, commitment, oraoDone, wire, clock, waited, window, log,
                 pos, queued, bets, orphaned, doomed, served>>
  BY DEF chainVars, timeVars, eventVars, betVars
<1>1. ChainTypes'
  BY <1>u DEF IInv, ChainTypes
<1>2. DatabaseTypes'
  BY <1>u DEF IInv, DatabaseTypes
<1>3. PaidFits'
  BY <1>u DEF IInv, PaidFits
<1> QED
  BY <1>1, <1>2, <1>3 DEF IInv

\* A visit that ends with its commit, or goes on to the buyer, forgets the rest.
LEMMA Forgotten ==
  ASSUME IInv, Forget,
         UNCHANGED <<chainVars, wire, betVars, served>>,
         \/ pc' = "idle"
         \/ pc' = "buyer" /\ row' \in RowFromPayout /\ phase \in FromPayout /\ landed # {}
  PROVE  WorkerTypes' /\ SightFits' /\ VisitFits' /\ WaitFits'
<1>1. locked' = FALSE /\ seen' = NotLooked /\ sent' = NoIx /\ confirmed' = FALSE
  BY DEF Forget
<1>2. UNCHANGED <<phase, landed, bets, orphaned, served>>
  BY DEF chainVars, betVars
<1>3. WorkerTypes'
  BY <1>1, <1>2 DEF IInv, WorkerTypes, Stations, NotLooked, NoIx, Sight, Instruction
<1>4. SightFits'
  BY <1>1, <1>2 DEF IInv, ChainTypes, SightFits, NotLooked
<1>5. VisitFits' /\ WaitFits'
  BY <1>1, <1>2 DEF VisitFits, WaitFits
<1> QED
  BY <1>3, <1>4, <1>5

\* What the worker knows when its instruction has landed and it commits.
LEMMA MarkKnows ==
  ASSUME IInv, NEW name \in Instructions, NEW status, Mark(name, status)
  PROVE  /\ Forget /\ row' = status
         /\ pc' = IF name = "start_purchases" THEN "buyer" ELSE "idle"
         /\ UNCHANGED <<chainVars, wire, timeVars, eventVars, betVars, served>>
         /\ pc = "waiting" /\ confirmed
         /\ name = "initialize" => phase = "Open"
         /\ name = "start_second_phase" =>
              /\ phase \in {"PendingVrf", "ReadyToDraw"} /\ row \in RowFromCreated
              /\ seen.phase = "Open"
              /\ locked => row \in Early
         /\ name = "close_lottery" =>
              /\ phase = "closed" /\ row \in {"created", "proceeding_purchases", "closed"}
         /\ name \in {"fulfill", "emergency"} =>
              phase = "ReadyToDraw" /\ row \in {"phase2started", "vrf_fulfilled"}
         /\ name = "start_purchases" =>
              phase = "ProceedingPurchases" /\ row \in {"vrf_fulfilled", "proceeding_purchases"}
         /\ \A p \in Paths : queued[p] # None =>
              locked /\ queued[p].status # row
<1>1. /\ pc = "waiting" /\ sent.ix = name /\ confirmed /\ NoWaiter
      /\ Forget /\ row' = status
      /\ pc' = IF name = "start_purchases" THEN "buyer" ELSE "idle"
      /\ UNCHANGED <<chainVars, wire, timeVars, eventVars, betVars, served>>
  BY DEF Mark
<1>2. \A p \in Paths : queued[p] # None => locked /\ queued[p].status # row
  BY <1>1 DEF NoWaiter, IInv, QueueFits
<1>3. name = "initialize" => phase = "Open"
  BY <1>1 DEF IInv, WaitFits, FromOpen
<1>4. name = "start_second_phase" =>
        /\ phase \in {"PendingVrf", "ReadyToDraw"} /\ row \in RowFromCreated
        /\ seen.phase = "Open"
        /\ locked => row \in Early
  BY <1>1 DEF IInv, WaitFits, SightFits, FromVrf
<1>5. name = "close_lottery" => phase = "closed" /\ row \in {"created", "proceeding_purchases", "closed"}
  BY <1>1 DEF IInv, WaitFits, SightFits, RowFits, RowFromPayout
<1>6. name \in {"fulfill", "emergency"} =>
        phase = "ReadyToDraw" /\ row \in {"phase2started", "vrf_fulfilled"}
  BY <1>1 DEF IInv, WaitFits, SightFits, RowFits, RowFromSecond, Reached, FromDraw, FromPayout
<1>7. name = "start_purchases" =>
        phase = "ProceedingPurchases" /\ row \in {"vrf_fulfilled", "proceeding_purchases"}
  BY <1>1 DEF IInv, WaitFits, SightFits, RowFits, RowFromDraw, Reached, FromPayout
<1> QED
  BY <1>1, <1>2, <1>3, <1>4, <1>5, <1>6, <1>7

\* The commits after a confirmation that follow the row's order.
LEMMA MarksKeepIInv ==
  ASSUME IInv,
         \/ MarkCreated \/ MarkVrfFulfilled \/ MarkProceedingPurchases \/ MarkClosed
  PROVE  IInv'
<1>1. PICK name \in Instructions, status \in Statuses :
        /\ Mark(name, status) /\ started' \in BOOLEAN
        /\ \/ name = "initialize" /\ status = "created"
           \/ name \in {"fulfill", "emergency"} /\ status = "vrf_fulfilled"
           \/ name = "start_purchases" /\ status = "proceeding_purchases"
           \/ name = "close_lottery" /\ status = "closed"
  <2>1. started \in BOOLEAN
    BY DEF IInv, DatabaseTypes
  <2>2. CASE MarkCreated
    BY <2>1, <2>2 DEF MarkCreated, Instructions, Statuses, RowFromCreated
  <2>3. CASE MarkVrfFulfilled
    BY <2>1, <2>3 DEF MarkVrfFulfilled, Instructions, Statuses, RowFromCreated
  <2>4. CASE MarkProceedingPurchases
    BY <2>4 DEF MarkProceedingPurchases, Instructions, Statuses, RowFromCreated
  <2>5. CASE MarkClosed
    BY <2>1, <2>5 DEF MarkClosed, Instructions, Statuses, RowFromCreated
  <2> QED
    BY <2>2, <2>3, <2>4, <2>5
<1>2. /\ Forget /\ row' = status
      /\ pc' = IF name = "start_purchases" THEN "buyer" ELSE "idle"
      /\ UNCHANGED <<chainVars, wire, timeVars, eventVars, betVars, served>>
      /\ name = "initialize" => phase = "Open"
      /\ name = "close_lottery" =>
           /\ phase = "closed" /\ row \in {"created", "proceeding_purchases", "closed"}
      /\ name \in {"fulfill", "emergency"} =>
           phase = "ReadyToDraw" /\ row \in {"phase2started", "vrf_fulfilled"}
      /\ name = "start_purchases" =>
           phase = "ProceedingPurchases" /\ row \in {"vrf_fulfilled", "proceeding_purchases"}
      /\ \A p \in Paths : queued[p] # None =>
           locked /\ queued[p].status # row
  BY <1>1, MarkKnows
<1>3. /\ row \in {"id_generated"} \cup Statuses
      /\ name = "initialize" => row \in {"id_generated", "created"}
  BY <1>2 DEF IInv, DatabaseTypes, RowFits, Reached, Statuses, RowFromCreated,
     FromVrf, FromDraw, FromPayout
<1>u. UNCHANGED <<phase, landed>>
  BY <1>2 DEF chainVars
<1>4. /\ row \in RowFromCreated => row' \in RowFromCreated
      /\ row \in RowFromSecond => row' \in RowFromSecond
      /\ row \in RowFromDraw => row' \in RowFromDraw
      /\ row \in RowFromPayout => row' \in RowFromPayout
  BY <1>1, <1>2, <1>3 DEF RowFromCreated, RowFromSecond, RowFromDraw, RowFromPayout
<1>5. ASSUME NEW p \in Paths, queued[p] # None, queued[p].status # None
      PROVE  row' \in Before(queued[p].status)
  <2>1. /\ queued[p].status \in Statuses /\ WriteFits(queued[p])
        /\ locked /\ queued[p].status # row
    BY <1>2, <1>5 DEF IInv, DatabaseTypes, QueuedWrite, QueueFits
  <2>2. /\ phase \in Reached(queued[p].status) /\ row \in Before(queued[p].status)
        /\ queued[p].status = "phase2started" => landed # {}
        /\ queued[p].status = "vrf_fulfilled" => landed # {} /\ row \in RowFromSecond
        /\ queued[p].status = "proceeding_purchases" => landed # {} /\ row \in RowFromDraw
    BY <1>5, <2>1 DEF WriteFits
  <2>3. phase = "closed" => IF landed = {} THEN row \in {"created", "closed"} ELSE row \in RowFromPayout
    BY DEF IInv, RowFits
  <2> QED
    BY <1>1, <1>2, <1>3, <2>1, <2>2, <2>3
    DEF Before, Statuses, RowFromCreated, RowFromSecond, RowFromDraw, RowFromPayout
<1>6. WireFits' /\ LogFits' /\ QueueFits'
  BY <1>2, <1>4, <1>5, RowAdvances DEF Forget
<1>7. RowFits'
  <2>1. phase' \in Reached(row)'
    BY <1>1, <1>2, <1>u DEF Reached, FromOpen, FromDraw, FromPayout
  <2>2. /\ phase \in {"PendingVrf", "ReadyToDraw"} => row' \in RowFromCreated
        /\ phase = "ProceedingPurchases" => row' \in RowFromDraw
        /\ phase = "closed" => row' = "closed"
    BY <1>1, <1>2 DEF RowFromCreated, RowFromDraw, Statuses
  <2> QED
    BY <2>1, <2>2, <1>u DEF IInv, RowFits, RowFromPayout
<1>8. WorkerTypes' /\ SightFits' /\ VisitFits' /\ WaitFits'
  <2>1. phase = "ProceedingPurchases" => landed # {}
    BY DEF IInv, RowFits
  <2>2. \/ pc' = "idle"
        \/ pc' = "buyer" /\ row' \in RowFromPayout /\ phase \in FromPayout /\ landed # {}
    BY <1>1, <1>2, <2>1 DEF RowFromPayout, FromPayout
  <2> QED
    BY <1>2, <2>2, Forgotten
<1> QED
  BY <1>1, <1>2, <1>6, <1>7, <1>8, CommitStep

\* The commit that may come late: the round may be drawn by now, though no
\* further, and nothing on the wire or in the log needs a later row.
LEMMA MarkPhase2KeepsIInv ==
  ASSUME IInv, MarkPhase2Started
  PROVE  IInv'
<1>1. Mark("start_second_phase", "phase2started") /\ started' = started
  BY DEF MarkPhase2Started
<1>2. /\ Forget /\ row' = "phase2started" /\ pc' = "idle"
      /\ UNCHANGED <<chainVars, wire, timeVars, eventVars, betVars, served>>
      /\ phase \in {"PendingVrf", "ReadyToDraw"} /\ row \in RowFromCreated
      /\ seen.phase = "Open"
      /\ locked => row \in Early
      /\ \A p \in Paths : queued[p] # None =>
           locked /\ queued[p].status # row
  BY <1>1, MarkKnows DEF Instructions
<1>u. UNCHANGED <<phase, landed, late, commitment, oraoDone, wire, clock, log, pos, queued,
                 bets, orphaned>>
  BY <1>2 DEF chainVars, timeVars, eventVars, betVars
<1>3. row' \in RowFromCreated /\ row' \in RowFromSecond
  BY <1>2 DEF RowFromCreated, RowFromSecond
<1>4. RowFits'
  BY <1>2, <1>3, <1>u DEF IInv, RowFits, Reached, FromVrf
<1>5. WireFits'
  <2>1. \A i \in wire : i.ix \in {"initialize", "start_second_phase", "close_lottery"}
    BY <1>2 DEF IInv, SightFits
  <2> QED
    BY <1>2, <1>3, <1>u, <2>1 DEF IInv, WireFits, InstructionFits
<1>6. LogFits'
  BY <1>2, <1>3, <1>u DEF IInv, LogFits, EventFits, FromPayout
<1>7. QueueFits'
  <2>1. ASSUME NEW p \in Paths, queued[p] # None PROVE WriteFits(queued[p])'
    <3>1. WriteFits(queued[p]) /\ queued[p].status # row /\ row \in {"created"}
      BY <1>2, <2>1 DEF IInv, QueueFits, RowFromCreated, Early
    <3>2. queued[p].status \in Statuses \cup {None}
      BY <2>1 DEF IInv, DatabaseTypes, QueuedWrite
    <3>3. queued[p].status # None => queued[p].status \in {"phase2started", "closed"}
      BY <3>1, <3>2 DEF WriteFits, Before, Statuses, RowFromCreated, RowFromSecond, RowFromDraw
    <3>4. queued[p].status # None => row' \in Before(queued[p].status)
      BY <3>3, <1>2 DEF Before
    <3> QED
      BY <3>1, <3>3, <3>4, <1>u DEF WriteFits
  <2> QED
    BY <2>1, <1>2, <1>u DEF IInv, QueueFits, Forget
<1>8. WorkerTypes' /\ SightFits' /\ VisitFits' /\ WaitFits'
  BY <1>2, Forgotten
<1> QED
  BY <1>1, <1>2, <1>4, <1>5, <1>6, <1>7, <1>8, CommitStep
  DEF Statuses, RowFromCreated, IInv, DatabaseTypes

\* The commit in the middle of phase 1 gives up the row; the visit goes on.
LEMMA RecoverKeepsIInv ==
  ASSUME IInv, RecoverCreated
  PROVE  IInv'
<1>1. /\ pc = "phase1" /\ seen.phase = "Open" /\ row = "id_generated" /\ row' = "created"
      /\ locked' = FALSE /\ started' = started
      /\ UNCHANGED <<chainVars, wire, timeVars, eventVars, betVars, pc, seen, sent, confirmed, served>>
  BY DEF RecoverCreated
<1>u. UNCHANGED <<phase, landed, late, wire, clock, bets, orphaned, pc, seen, sent, confirmed, served>>
  BY <1>1 DEF chainVars, timeVars, betVars
<1>2. row \notin RowFromCreated /\ row' \in RowFromCreated
  BY <1>1 DEF RowFromCreated
<1>3. ASSUME NEW p \in Paths, queued[p] # None, queued[p].status # None
      PROVE  row' \in Before(queued[p].status)
  <2>1. queued[p].status \in Statuses
    BY <1>3 DEF IInv, DatabaseTypes, QueuedWrite
  <2> QED
    BY <1>1, <2>1 DEF Before, Statuses, RowFromCreated
<1>4. row \notin RowFromSecond /\ row \notin RowFromDraw /\ row \notin RowFromPayout
  BY <1>1 DEF RowFromSecond, RowFromDraw, RowFromPayout
<1>5. WireFits' /\ LogFits' /\ QueueFits'
  BY <1>1, <1>2, <1>3, <1>4, RowAdvances
<1>6. RowFits'
  <2>1. /\ phase \in FromOpen /\ phase # "ProceedingPurchases"
        /\ phase = "closed" => landed = {}
    BY <1>1 DEF IInv, SightFits, FromOpen
  <2> QED
    BY <1>1, <1>2, <1>u, <2>1 DEF IInv, RowFits, Reached
<1>7. WorkerTypes'
  BY <1>1, <1>u DEF IInv, WorkerTypes
<1>8. SightFits'
  BY <1>u DEF IInv, SightFits
<1>9. VisitFits'
  BY <1>1, <1>2, <1>u DEF IInv, VisitFits
<1>10. WaitFits'
  BY <1>1 DEF WaitFits
<1> QED
  BY <1>1, <1>5, <1>6, <1>7, <1>8, <1>9, <1>10, CommitStep
  DEF Statuses, RowFromCreated, IInv, DatabaseTypes

\* What the row becomes when it follows the chain, and where the visit goes on.
LEMMA SyncKnows ==
  ASSUME IInv, SyncFromChain
  PROVE  /\ locked /\ ~confirmed /\ started' \in BOOLEAN
         /\ UNCHANGED <<chainVars, wire, timeVars, eventVars, betVars, served>>
         /\ \/ /\ seen.phase = "PendingVrf" /\ row = "phase2started" /\ row' = row
               /\ pc' = "draw"
            \/ /\ seen.phase = "ReadyToDraw" /\ row \in {"phase2started", "vrf_fulfilled"}
               /\ row' = "vrf_fulfilled"
               /\ pc' = IF row = "phase2started" THEN "idle" ELSE "pay"
            \/ /\ seen.phase = "ProceedingPurchases"
               /\ row \in {"vrf_fulfilled", "proceeding_purchases"}
               /\ row' = "proceeding_purchases"
               /\ pc' = "buyer"
         /\ \/ pc' = "idle" /\ Forget
            \/ /\ pc' # "idle" /\ locked' \in {FALSE, row' = row}
               /\ UNCHANGED <<seen, sent, confirmed>>
<1>1. /\ pc \in {"phase2", "post_vrf"}
      /\ row' = CASE seen.phase = "ReadyToDraw" -> "vrf_fulfilled"
                  [] seen.phase = "ProceedingPurchases" -> "proceeding_purchases"
                  [] OTHER -> row
      /\ \/ Continued = "idle" /\ pc' = "idle" /\ Forget
         \/ /\ Continued # "idle" /\ pc' = Continued /\ locked' \in {FALSE, locked /\ row' = row}
            /\ UNCHANGED <<seen, sent, confirmed>>
      /\ UNCHANGED <<chainVars, wire, timeVars, eventVars, betVars, served>>
  BY DEF SyncFromChain
<1>2. started' \in BOOLEAN
  BY DEF SyncFromChain, IInv, DatabaseTypes
<1>3. locked /\ ~confirmed
  BY <1>1 DEF IInv, VisitFits
<1>4. seen.phase # "closed"
  BY DEF IInv, SightFits
<1>5. CASE pc = "phase2"
  <2>1. row = "phase2started" /\ seen.phase \in {"PendingVrf", "ReadyToDraw", "ProceedingPurchases"}
    BY <1>4, <1>5 DEF IInv, VisitFits, FromVrf
  <2>2. seen.phase # "ProceedingPurchases"
    <3>1. SUFFICES ASSUME seen.phase = "ProceedingPurchases" PROVE FALSE
      OBVIOUS
    <3>2. phase \in {"ProceedingPurchases", "closed"}
      BY <3>1 DEF IInv, SightFits
    <3> QED
      BY <2>1, <3>2 DEF IInv, RowFits, RowFromDraw, RowFromPayout
  <2>3. Continued = IF seen.phase = "PendingVrf" THEN "draw" ELSE "idle"
    BY <1>5, <2>1, <2>2 DEF Continued
  <2> QED
    BY <1>1, <1>2, <1>3, <1>5, <2>1, <2>2, <2>3
<1>6. CASE pc = "post_vrf"
  <2>1. /\ row \in {"vrf_fulfilled", "proceeding_purchases"}
        /\ row = "vrf_fulfilled" => seen.phase \in {"ReadyToDraw", "ProceedingPurchases"}
        /\ row = "proceeding_purchases" => seen.phase = "ProceedingPurchases"
    BY <1>4, <1>6 DEF IInv, VisitFits, Reached, FromDraw, FromPayout
  <2>2. Continued = IF seen.phase = "ReadyToDraw" THEN "pay" ELSE "buyer"
    BY <1>6, <2>1 DEF Continued
  <2> QED
    BY <1>1, <1>2, <1>3, <1>6, <2>1, <2>2
<1> QED
  BY <1>1, <1>5, <1>6

\* The row follows the chain under the lock; nothing that waits would put it back.
LEMMA SyncKeepsIInv ==
  ASSUME IInv, SyncFromChain
  PROVE  IInv'
<1>1. /\ locked /\ ~confirmed /\ started' \in BOOLEAN
      /\ UNCHANGED <<chainVars, wire, timeVars, eventVars, betVars, served>>
      /\ \/ /\ seen.phase = "PendingVrf" /\ row = "phase2started" /\ row' = row
            /\ pc' = "draw"
         \/ /\ seen.phase = "ReadyToDraw" /\ row \in {"phase2started", "vrf_fulfilled"}
            /\ row' = "vrf_fulfilled"
            /\ pc' = IF row = "phase2started" THEN "idle" ELSE "pay"
         \/ /\ seen.phase = "ProceedingPurchases"
            /\ row \in {"vrf_fulfilled", "proceeding_purchases"}
            /\ row' = "proceeding_purchases"
            /\ pc' = "buyer"
      /\ \/ pc' = "idle" /\ Forget
         \/ /\ pc' # "idle" /\ locked' \in {FALSE, row' = row}
            /\ UNCHANGED <<seen, sent, confirmed>>
  BY SyncKnows
<1>u. UNCHANGED <<phase, landed, late, wire, clock, bets, orphaned, served>>
  BY <1>1 DEF chainVars, timeVars, betVars
<1>2. /\ seen.phase = "ReadyToDraw" => phase \in {"ReadyToDraw", "ProceedingPurchases"}
      /\ seen.phase = "ProceedingPurchases" => phase \in {"ProceedingPurchases", "closed"}
      /\ seen.phase = "PendingVrf" => phase \in {"PendingVrf", "ReadyToDraw"}
  BY DEF IInv, SightFits
<1>3. phase = "closed" => landed # {} /\ row \in RowFromPayout
  BY <1>1, <1>2 DEF IInv, RowFits
<1>4. /\ row' \in Statuses
      /\ row \in RowFromCreated => row' \in RowFromCreated
      /\ row \in RowFromSecond => row' \in RowFromSecond
      /\ row \in RowFromDraw => row' \in RowFromDraw
      /\ row \in RowFromPayout => row' \in RowFromPayout
      /\ row' \in RowFromSecond
      /\ pc' = "pay" => row' \in RowFromDraw
      /\ pc' = "buyer" => row' \in RowFromPayout
  BY <1>1 DEF Statuses, RowFromCreated, RowFromSecond, RowFromDraw, RowFromPayout
<1>5. ASSUME NEW p \in Paths, queued[p] # None, queued[p].status # None
      PROVE  row' \in Before(queued[p].status)
  <2>1. /\ queued[p].status \in Statuses /\ queued[p].status # row
        /\ row \in Before(queued[p].status)
    BY <1>1, <1>5 DEF IInv, DatabaseTypes, QueuedWrite, QueueFits, WriteFits
  <2> QED
    BY <1>1, <2>1 DEF Before, Statuses, RowFromCreated
<1>6. WireFits' /\ LogFits' /\ QueueFits'
  <2>1. locked' => locked /\ row' = row
    BY <1>1 DEF Forget
  <2> QED
    BY <1>1, <1>4, <1>5, <2>1, RowAdvances
<1>7. RowFits'
  <2>1. phase' \in Reached(row)'
    BY <1>1, <1>2, <1>u DEF Reached, FromVrf, FromDraw, FromPayout
  <2>2. row' \in RowFromCreated
    BY <1>4 DEF Statuses
  <2> QED
    BY <1>1, <1>2, <1>3, <1>4, <1>u, <2>1, <2>2 DEF IInv, RowFits, RowFromDraw, RowFromPayout
<1>8. WorkerTypes' /\ SightFits' /\ VisitFits' /\ WaitFits'
  <2>1. CASE pc' = "idle" /\ Forget
    BY <1>1, <2>1, Forgotten
  <2>2. CASE pc' # "idle" /\ UNCHANGED <<seen, sent, confirmed>>
    <3>1. pc' \in {"draw", "pay", "buyer"} /\ locked' \in BOOLEAN
      BY <1>1, <2>2
    <3>2. WorkerTypes'
      BY <1>u, <2>2, <3>1 DEF IInv, WorkerTypes, Stations
    <3>3. SightFits'
      BY <1>u, <2>2 DEF IInv, SightFits
    <3>4. pc' = "buyer" => phase \in FromPayout /\ landed # {} /\ seen.phase = "ProceedingPurchases"
      BY <1>1, <1>2, <1>3, <3>1 DEF IInv, RowFits, FromPayout
    <3>5. /\ pc' = "draw" => seen.phase = "PendingVrf"
          /\ pc' = "pay" => seen.phase = "ReadyToDraw"
      BY <1>1, <3>1
    <3>6. VisitFits'
      BY <1>1, <1>4, <1>u, <2>2, <3>1, <3>4, <3>5 DEF VisitFits
    <3>7. WaitFits'
      BY <3>1 DEF WaitFits
    <3> QED
      BY <3>2, <3>3, <3>6, <3>7
  <2> QED
    BY <1>1, <2>1, <2>2
<1> QED
  BY <1>1, <1>4, <1>6, <1>7, <1>8, CommitStep

\* The phase worker.
LEMMA WorkerKeepsIInv == IInv /\ PhaseWorker => IInv'
BY LookKeepsIInv, LeaveKeepsIInv, SendsKeepIInv, StartBuyerKeepsIInv, MarksKeepIInv,
   MarkPhase2KeepsIInv, RecoverKeepsIInv, SyncKeepsIInv
DEF PhaseWorker

-----------------------------------------------------------------------------
(* The theorems.                                                           *)

\* Every step of the round keeps the inductive invariant.
LEMMA NextIInv == IInv /\ [Next]_vars => IInv'
<1>1. IInv /\ Next => IInv'
  BY ChainKeepsIInv, DatabaseKeepsIInv, WorkerKeepsIInv DEF Next
<1>2. IInv /\ UNCHANGED vars => IInv'
  <2> SUFFICES ASSUME IInv, UNCHANGED vars PROVE IInv'
    OBVIOUS
  <2>u. UNCHANGED <<phase, landed, late, commitment, oraoDone, wire, clock, waited, window, log,
                   pos, queued, row, started, bets, orphaned, doomed, locked, pc, seen, sent,
                   confirmed, served>>
    BY DEF vars, chainVars, timeVars, eventVars, rowVars, betVars, workVars
  <2>1. WorkerTypes'
    BY <2>u DEF IInv, WorkerTypes
  <2>2. WireFits' /\ SightFits'
    BY <2>u DEF IInv, WireFits, InstructionFits, SightFits
  <2>3. VisitFits' /\ WaitFits'
    BY <2>u DEF IInv, VisitFits, WaitFits
  <2>4. /\ UNCHANGED <<chainVars, timeVars, eventVars, rowVars, betVars, served>>
        /\ wire' \in SUBSET Instruction
    BY <2>u DEF IInv, ChainTypes, chainVars, timeVars, eventVars, rowVars, betVars
  <2> QED
    BY <2>u, <2>1, <2>2, <2>3, <2>4, VisitStep
<1> QED
  BY <1>1, <1>2

\* What each actor knows of the round holds throughout.
THEOREM Invariance == Spec => []IInv
BY InitIInv, NextIInv, PTL DEF Spec

\* The state keeps its types; the worker holds the row only during a visit, and
\* nothing it has seen outlives one.
THEOREM TypeCorrect == Spec => []TypeOK
<1>1. IInv => TypeOK
  <2> SUFFICES ASSUME IInv PROVE TypeOK
    OBVIOUS
  <2>1. DOMAIN Phases = 1..6 /\ DOMAIN Rows = 1..6
    BY DEF Phases, Rows
  <2>2. InSeq(Phases, phase)
    <3>1. /\ Phases[1] = "absent" /\ Phases[2] = "Open" /\ Phases[3] = "PendingVrf"
          /\ Phases[4] = "ReadyToDraw" /\ Phases[5] = "ProceedingPurchases" /\ Phases[6] = "closed"
      BY DEF Phases
    <3> QED
      BY <2>1, <3>1 DEF InSeq, IInv, ChainTypes, FromOpen
  <2>3. InSeq(Rows, row)
    <3>1. /\ Rows[1] = "id_generated" /\ Rows[2] = "created" /\ Rows[3] = "phase2started"
          /\ Rows[4] = "vrf_fulfilled" /\ Rows[5] = "proceeding_purchases" /\ Rows[6] = "closed"
      BY DEF Rows
    <3> QED
      BY <2>1, <3>1 DEF InSeq, IInv, DatabaseTypes, Statuses, RowFromCreated
  <2>4. <<oraoDone, waited, started, locked, confirmed>> \in [1..5 -> BOOLEAN]
    BY DEF IInv, ChainTypes, DatabaseTypes, WorkerTypes
  <2>5. \A i \in wire : i.weights \subseteq landed /\ i.ix \in DOMAIN Outcome
    BY Outcomes DEF IInv, ChainTypes, WireFits, InstructionFits, Instruction
  <2>6. \A p \in Paths : pos[p] \in 0..Len(log)
    BY LenProperties DEF IInv, DatabaseTypes
  <2>7. pc = "idle" => ~locked /\ seen = NotLooked /\ sent = NoIx
    BY DEF IInv, VisitFits
  <2>8. /\ late \subseteq landed /\ landed \subseteq Deposits
        /\ commitment = None \/ commitment \in SUBSET Deposits
        /\ clock \in {"entry", "closing", "over"} /\ window \in {"running", "over", "ceiling"}
    BY DEF IInv, ChainTypes
  <2>9. /\ bets \cup orphaned \subseteq landed /\ bets \cap orphaned = {} /\ doomed \subseteq bets
        /\ pc \in {"idle", "phase1", "phase2", "post_vrf", "draw", "pay", "buyer",
                   "close", "waiting"}
        /\ served = None \/ served \in SUBSET Deposits
    BY DEF IInv, DatabaseTypes, WorkerTypes, Stations
  <2> QED
    BY <2>2, <2>3, <2>4, <2>5, <2>6, <2>7, <2>8, <2>9 DEF TypeOK
<1> QED
  BY <1>1, Invariance, PTL

\* The database never shows a status the round has not reached.
THEOREM DatabaseFollows == Spec => []RowNeverAhead
<1>1. IInv => RowNeverAhead
  BY Places DEF IInv, DatabaseTypes, RowFits, RowNeverAhead, Reached, Statuses, RowFromCreated,
     FromOpen, FromVrf, FromDraw, FromPayout
<1> QED
  BY <1>1, Invariance, PTL

\* The commitment behind the draw is of deposits that landed, and misses only those
\* taken late or struck out.
THEOREM CommitmentIsWhole == Spec => []CommitmentMissesOnlyLate
<1>1. IInv => CommitmentMissesOnlyLate
  BY DEF IInv, PaidFits, CommitmentMissesOnlyLate
<1> QED
  BY <1>1, Invariance, PTL

\* The buyer is started after the payout and with every deposit of the round but
\* those struck out.
THEOREM BuyerIsWhole == Spec => []BuyerGetsEveryBet
<1>1. IInv => BuyerGetsEveryBet
  BY DEF IInv, PaidFits, BuyerGetsEveryBet, FromPayout
<1> QED
  BY <1>1, Invariance, PTL

\* A write, from the queue or at once, puts the row no place back.
LEMMA WriteGoesForward ==
  ASSUME IInv, NEW w \in QueuedWrite, WriteFits(w), Write(w)
  PROVE  Rank(Rows, row) <= Rank(Rows, row')
<1>1. /\ row' = IF w.status = None THEN row ELSE w.status
      /\ w.status \in Statuses \cup {None} /\ row \in {"id_generated"} \cup Statuses
      /\ w.status # None => row \in Before(w.status)
  BY DEF Write, WriteFits, QueuedWrite, IInv, DatabaseTypes
<1>2. CASE w.status = None
  BY <1>1, <1>2, Places DEF Statuses, RowFromCreated
<1>3. CASE w.status \in Statuses
  BY <1>1, <1>3, Places, NoneIsNoStatus DEF Before, Statuses, RowFromCreated
<1> QED
  BY <1>1, <1>2, <1>3

\* The one way back.
LEMMA StepBack ==
  ASSUME IInv, [Next]_vars
  PROVE  \/ Rank(Rows, row) <= Rank(Rows, row')
         \/ row # "closed" /\ pc = "waiting" /\ confirmed /\ ~locked
<1>0. row \in {"id_generated"} \cup Statuses
  BY DEF IInv, DatabaseTypes
<1>1. row' = row => Rank(Rows, row) <= Rank(Rows, row')
  BY <1>0, Places DEF Statuses, RowFromCreated
<1>2. CASE Chain \/ UNCHANGED vars
  BY <1>1, <1>2 DEF Chain, DepositSol, Land, Drop, StrangerFulfills, OraoAnswers, EntryTick,
     VrfTick, WindowTick, vars, rowVars
<1>3. CASE Database
  <2>1. ASSUME NEW p \in Paths, HandleEvent(p)
        PROVE  Rank(Rows, row) <= Rank(Rows, row')
    <3> DEFINE w == Settled(log[pos[p] + 1])
    <3>1. w \in QueuedWrite /\ WriteFits(w)
      BY <2>1, ReadsTheLog, SettledFits DEF HandleEvent
    <3>2. row' = row \/ Write(w)
      BY <2>1 DEF HandleEvent
    <3> QED
      BY <1>1, <3>1, <3>2, WriteGoesForward
  <2>2. ASSUME NEW p \in Paths, WriteQueued(p)
        PROVE  Rank(Rows, row) <= Rank(Rows, row')
    <3>1. queued[p] \in QueuedWrite /\ WriteFits(queued[p]) /\ Write(queued[p])
      BY <2>2 DEF WriteQueued, IInv, DatabaseTypes, QueueFits
    <3> QED
      BY <3>1, WriteGoesForward
  <2>3. (\E p \in Paths : MissEvent(p)) \/ (\E d \in Deposits : PlaceBet(d) \/ FinalizerChecks(d))
          \/ FinalizerCommits => row' = row
    BY DEF MissEvent, PlaceBet, FinalizerChecks, FinalizerCommits, rowVars
  <2> QED
    BY <1>1, <1>3, <2>1, <2>2, <2>3 DEF Database
<1>4. CASE Look \/ Leave \/ CloseEmptyLottery \/ StartSecondPhase \/ FulfillRandomness
             \/ EmergencyFulfill \/ StartPurchases \/ StartBuyer \/ CloseRound
  BY <1>1, <1>4 DEF Look, Leave, CloseEmptyLottery, StartSecondPhase, FulfillRandomness,
     EmergencyFulfill, StartPurchases, StartBuyer, CloseRound, Send, rowVars
<1>5. CASE RecoverCreated
  BY <1>5, Places DEF RecoverCreated
<1>6. CASE MarkPhase2Started
  <2>1. Mark("start_second_phase", "phase2started")
    BY <1>6 DEF MarkPhase2Started
  <2>2. /\ row' = "phase2started" /\ pc = "waiting" /\ confirmed
        /\ phase \in {"PendingVrf", "ReadyToDraw"}
        /\ locked => row \in Early
    BY <2>1, MarkKnows DEF Instructions
  <2>3. row # "closed"
    BY <2>2 DEF IInv, RowFits, Reached
  <2> QED
    BY <2>2, <2>3, Places DEF Early, IInv, WorkerTypes
<1>7. CASE MarkCreated
  <2>1. Mark("initialize", "created")
    BY <1>7 DEF MarkCreated
  <2>2. row' = "created" /\ phase = "Open"
    BY <2>1, MarkKnows DEF Instructions
  <2>3. row \in {"id_generated", "created"}
    BY <1>0, <2>2 DEF IInv, RowFits, Reached, Statuses, RowFromCreated, FromVrf, FromDraw, FromPayout
  <2> QED
    BY <2>2, <2>3, Places
<1>8. CASE MarkVrfFulfilled
  <2>1. PICK name \in {"fulfill", "emergency"} : Mark(name, "vrf_fulfilled")
    BY <1>8 DEF MarkVrfFulfilled
  <2>2. row' = "vrf_fulfilled" /\ row \in {"phase2started", "vrf_fulfilled"}
    BY <2>1, MarkKnows DEF Instructions
  <2> QED
    BY <2>2, Places
<1>9. CASE MarkProceedingPurchases
  <2>1. Mark("start_purchases", "proceeding_purchases")
    BY <1>9 DEF MarkProceedingPurchases
  <2>2. row' = "proceeding_purchases" /\ row \in {"vrf_fulfilled", "proceeding_purchases"}
    BY <2>1, MarkKnows DEF Instructions
  <2> QED
    BY <2>2, Places
<1>10. CASE MarkClosed
  <2>1. Mark("close_lottery", "closed")
    BY <1>10 DEF MarkClosed
  <2>2. row' = "closed" /\ row \in {"created", "proceeding_purchases", "closed"}
    BY <2>1, MarkKnows DEF Instructions
  <2> QED
    BY <2>2, Places
<1>11. CASE SyncFromChain
  <2>1. \/ row' = row
        \/ row' = "vrf_fulfilled" /\ row \in {"phase2started", "vrf_fulfilled"}
        \/ row' = "proceeding_purchases" /\ row \in {"vrf_fulfilled", "proceeding_purchases"}
    BY <1>11, SyncKnows
  <2> QED
    BY <1>1, <2>1, Places
<1> QED
  BY <1>2, <1>3, <1>4, <1>5, <1>6, <1>7, <1>8, <1>9, <1>10, <1>11 DEF Next, PhaseWorker

\* The row goes back only in the worker's own late commit, and never from "closed".
THEOREM OnlyTheLateCommitGoesBack == Spec => RowNeverGoesBack
<1>1. IInv /\ [Next]_vars =>
        [Rank(Rows, row') < Rank(Rows, row) =>
           row # "closed" /\ pc = "waiting" /\ confirmed /\ ~locked]_vars
  <2> SUFFICES ASSUME IInv, [Next]_vars, Rank(Rows, row') < Rank(Rows, row)
               PROVE  row # "closed" /\ pc = "waiting" /\ confirmed /\ ~locked
    OBVIOUS
  <2>1. row \in {"id_generated"} \cup Statuses /\ row' \in {"id_generated"} \cup Statuses
    BY NextIInv DEF IInv, DatabaseTypes
  <2>2. Rank(Rows, row) \in Int /\ Rank(Rows, row') \in Int
    BY <2>1, Places DEF Statuses, RowFromCreated
  <2> QED
    BY <2>2, StepBack
<1> QED
  BY <1>1, Invariance, PTL DEF Spec, RowNeverGoesBack
=============================================================================
