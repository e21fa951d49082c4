------------------------ MODULE RoundAutostartProofs ------------------------
(***************************************************************************)
(* Proofs about the cycle of rounds: a round that is open on chain is      *)
(* never out of sight, and a stop of the cycle costs one round at most.    *)
(***************************************************************************)
EXTENDS RoundAutostart, TLAPS

-----------------------------------------------------------------------------
(* The inductive invariant.                                                *)

Pcs == {"idle", "closing", "release", "reconcile", "opening", "sending", "confirming",
        "failed", "abandoning", "submitted"}
Switches == [enabled : BOOLEAN, launch : {"none", "counting", "due"}]

\* The worker's record, field by field.
WorkerTypes ==
  worker \in [pc : Pcs, at : 0..MaxRounds, stuck : SUBSET Ids, seen : Switches,
              blocking : BOOLEAN]

\* The rows exist in order; nobody pays into a draft; a row is closed when nothing can
\* land any more; who is paid into and abandoned was overwritten, unless it is gone.
RowFits(r) ==
  /\ r > drafted <=> row[r] = "none"
  /\ row[r] \in {"none", "id_generated"} => r \notin paid /\ r \notin overwritten /\ age[r] <= 2
  /\ row[r] = "none" => chain[r] = "absent"
  /\ row[r] = "closed" => chain[r] \in {"closed", "absent"}
  /\ r \in paid => chain[r] \in {"open", "closed"}
  /\ age[r] = 3 => chain[r] # "coming"
  /\ row[r] = "abandoned" /\ chain[r] # "closed" /\ r \in paid => r \in overwritten

\* An event is about a round that has landed.
HandlerFits == handler # 0 => chain[handler] \in {"open", "closed"}

\* The worker is at a round that has a row, and before it sends the opening this is a
\* draft nobody else can have touched.
WorkerFits ==
  /\ worker.pc \in {"closing", "sending", "confirming", "failed", "abandoning", "submitted"} =>
       worker.at \in Ids /\ row[worker.at] # "none"
  /\ At("sending") => row[worker.at] = "id_generated" /\ chain[worker.at] = "absent"
  /\ \A r \in worker.stuck : row[r] # "none"

\* After a stop that no launch has overruled the switch is off, and once a round was
\* drafted all the same, the worker holds no permission to open another.
SwitchFits ==
  stopped /\ ~overruled =>
    /\ ~control.enabled
    /\ afterStop >= 1 => ~At("opening") /\ (At("reconcile") => ~worker.seen.enabled)

RowsFit == \A r \in Ids : RowFits(r)
IInv == TypeOK /\ WorkerTypes /\ RowsFit /\ HandlerFits /\ WorkerFits /\ SwitchFits
          /\ StopCostsOneRound

-----------------------------------------------------------------------------
(* The steps.                                                              *)

\* The bounds are numbers, and the initial and final values are apart.
LEMMA Bounds ==
  /\ MaxRounds \in Nat \ {0} /\ MaxCrashes \in Nat /\ MaxStops \in Nat
  /\ \A r \in Ids : r \in Nat /\ r # 0 /\ r \in 0..MaxRounds
BY AutostartAssumption DEF Ids

\* What a step must keep of one row, as an action.
RowKept(r) ==
  /\ (row'[r] = "none" <=> row[r] = "none")
  /\ row'[r] \in {"none", "id_generated"} =>
       r \notin paid' /\ r \notin overwritten' /\ age'[r] <= 2
  /\ row'[r] = "none" => chain'[r] = "absent"
  /\ row'[r] = "closed" => chain'[r] \in {"closed", "absent"}
  /\ r \in paid' => chain'[r] \in {"open", "closed"}
  /\ age'[r] = 3 => chain'[r] # "coming"
  /\ row'[r] = "abandoned" /\ chain'[r] # "closed" /\ r \in paid' => r \in overwritten'

\* The types of what a step of the world may change.
RoundTypes ==
  /\ row \in [Ids -> {"none", "id_generated", "created", "abandoned", "closed"}]
  /\ chain \in [Ids -> {"absent", "coming", "open", "closed"}]
  /\ closing \subseteq Ids /\ paid \subseteq Ids /\ overwritten \subseteq Ids
  /\ age \in [Ids -> 0..3]

CycleTypes ==
  /\ drafted \in 0..MaxRounds /\ pause \in BOOLEAN
  /\ control \in Switches /\ hype \in BOOLEAN
  /\ stopped \in BOOLEAN /\ overruled \in BOOLEAN /\ afterStop \in Nat
  /\ stops \in 0..MaxStops

\* The types in four groups, by who changes them.
LEMMA TypesSplit ==
  TypeOK /\ WorkerTypes <=>
    RoundTypes /\ CycleTypes /\ WorkerTypes /\ handler \in 0..MaxRounds /\ crashes \in 0..MaxCrashes
BY DEF TypeOK, RoundTypes, CycleTypes, WorkerTypes, Switches, Pcs

\* A step that changes one round only.
RoundMoves(r) ==
  /\ RoundTypes' /\ RowKept(r)
  /\ \A s \in Ids : s # r => /\ row'[s] = row[s] /\ chain'[s] = chain[s] /\ age'[s] = age[s]
                             /\ (s \in paid' <=> s \in paid)
                             /\ (s \in overwritten' <=> s \in overwritten)
  /\ chain[r] \in {"open", "closed"} => chain'[r] \in {"open", "closed"}
  /\ At("sending") /\ r = worker.at => row'[r] = row[r] /\ chain'[r] = chain[r]
  /\ UNCHANGED <<drafted, control, hype, historyVars, stops, worker, crashes>>
  /\ pause' \in BOOLEAN /\ handler' \in {0, handler, r}
  /\ handler' = r => chain[r] \in {"open", "closed"} \/ handler' = handler

\* Such a step keeps the invariant.
LEMMA RoundStep ==
  ASSUME IInv, NEW r \in Ids, RoundMoves(r)
  PROVE  IInv'
<1> USE Bounds
<1>u. /\ drafted' = drafted /\ control' = control /\ hype' = hype
      /\ stopped' = stopped /\ overruled' = overruled /\ afterStop' = afterStop
      /\ stops' = stops
      /\ worker' = worker /\ crashes' = crashes
  BY DEF RoundMoves, historyVars
<1>t. /\ RoundTypes /\ CycleTypes /\ WorkerTypes /\ handler \in 0..MaxRounds
      /\ crashes \in 0..MaxCrashes
      /\ RowsFit /\ HandlerFits /\ WorkerFits /\ SwitchFits /\ StopCostsOneRound
  BY TypesSplit DEF IInv
<1>1. CycleTypes' /\ WorkerTypes' /\ handler' \in 0..MaxRounds /\ crashes' \in 0..MaxCrashes
  BY <1>t, <1>u DEF CycleTypes, WorkerTypes, RoundMoves
<1>2. RowsFit'
  <2> SUFFICES ASSUME NEW s \in Ids PROVE RowFits(s)'
    BY DEF RowsFit
  <2>1. RowFits(s)
    BY <1>t DEF RowsFit
  <2>2. CASE s = r
    BY <2>1, <2>2, <1>u DEF RowFits, RowKept, RoundMoves
  <2>3. CASE s # r
    BY <2>1, <2>3, <1>u DEF RowFits, RoundMoves
  <2> QED
    BY <2>2, <2>3
<1>3. HandlerFits'
  <2> SUFFICES ASSUME handler' # 0 PROVE chain'[handler'] \in {"open", "closed"}
    BY DEF HandlerFits
  <2>1. CASE handler' = r /\ chain[r] \in {"open", "closed"}
    BY <2>1 DEF RoundMoves
  <2>2. CASE handler' = handler
    <3>1. handler \in Ids
      BY <2>2, <1>t DEF Ids
    <3> QED
      BY <2>2, <3>1, <1>t DEF HandlerFits, RoundMoves
  <2> QED
    BY <2>1, <2>2 DEF RoundMoves
<1>4. WorkerFits'
  <2>1. \A s \in Ids : row[s] # "none" => row'[s] # "none"
    BY DEF RowKept, RoundMoves
  <2>2. worker.stuck \subseteq Ids
    BY <1>t DEF WorkerTypes
  <2>3. At("sending") => worker.at \in Ids
    BY <1>t DEF WorkerFits, At
  <2> QED
    BY <2>1, <2>2, <2>3, <1>t, <1>u DEF WorkerFits, At, RoundMoves
<1>5. SwitchFits' /\ StopCostsOneRound'
  BY <1>t, <1>u DEF SwitchFits, StopCostsOneRound, At
<1>6. (TypeOK /\ WorkerTypes)'
  BY <1>1, TypesSplit DEF RoundMoves, TypeOK, RoundTypes, CycleTypes, WorkerTypes, Switches, Pcs
<1> QED
  BY <1>2, <1>3, <1>4, <1>5, <1>6 DEF IInv

\* What the world and the event workers do to one round.
LEMMA WorldKeeps ==
  ASSUME IInv, NEW r \in Ids,
         \/ Land(r) \/ Expire(r) \/ CloseLands(r) \/ CloseExpires(r) \/ Deposit(r) \/ Age(r)
         \/ PlayOut(r) \/ HandlerReads(r) \/ HandlerCloses(r) \/ GiveUp(r) \/ RecoverCreated(r)
  PROVE  IInv'
<1> USE Bounds
<1>t. /\ RoundTypes /\ CycleTypes /\ RowFits(r)
      /\ At("sending") => row[worker.at] = "id_generated" /\ chain[worker.at] = "absent"
  BY TypesSplit DEF IInv, RowsFit, WorkerFits
<1>a. At("sending") /\ r = worker.at => row[r] = "id_generated" /\ chain[r] = "absent"
  BY <1>t
<1>1. ASSUME NEW state \in {"open", "absent"}, Lands(r, state) PROVE IInv'
  <2>u. /\ chain[r] = "coming" /\ chain' = [chain EXCEPT ![r] = state]
        /\ UNCHANGED <<row, closing, paid, age, overwritten, drafted, pause, control, hype,
                       historyVars, stops, worker, handler, crashes>>
    BY <1>1 DEF Lands, cycleVars
  <2>1. RoundTypes'
    BY <1>t, <2>u DEF RoundTypes
  <2>2. RowKept(r)
    BY <1>t, <2>u DEF RoundTypes, RowKept, RowFits
  <2>3. \A s \in Ids : s # r => chain'[s] = chain[s]
    BY <1>t, <2>u DEF RoundTypes
  <2>4. pause' \in BOOLEAN
    BY <1>t, <2>u DEF CycleTypes
  <2>9. RoundMoves(r)
    BY <1>a, <2>u, <2>1, <2>2, <2>3, <2>4 DEF RoundMoves
  <2> QED
    BY <2>9, RoundStep
<1>2. CASE CloseLands(r)
  <2>u. /\ closing' = closing \ {r}
        /\ chain' = IF chain[r] = "open" /\ r \notin paid
                    THEN [chain EXCEPT ![r] = "closed"] ELSE chain
        /\ UNCHANGED <<row, paid, age, overwritten, drafted, pause, control, hype,
                       historyVars, stops, worker, handler, crashes>>
    BY <1>2 DEF CloseLands, cycleVars
  <2>1. RoundTypes'
    BY <1>t, <2>u DEF RoundTypes
  <2>2. RowKept(r)
    BY <1>t, <2>u DEF RoundTypes, RowKept, RowFits
  <2>3. /\ \A s \in Ids : s # r => chain'[s] = chain[s]
        /\ chain[r] \in {"open", "closed"} => chain'[r] \in {"open", "closed"}
        /\ chain[r] = "absent" => chain'[r] = "absent"
    BY <1>t, <2>u DEF RoundTypes
  <2>4. pause' \in BOOLEAN
    BY <1>t, <2>u DEF CycleTypes
  <2>9. RoundMoves(r)
    BY <1>a, <2>u, <2>1, <2>2, <2>3, <2>4 DEF RoundMoves
  <2> QED
    BY <2>9, RoundStep
<1>3. CASE CloseExpires(r)
  <2>u. /\ closing' = closing \ {r}
        /\ UNCHANGED <<row, chain, paid, age, overwritten, drafted, pause, control, hype,
                       historyVars, stops, worker, handler, crashes>>
    BY <1>3 DEF CloseExpires, cycleVars
  <2>1. RoundTypes' /\ pause' \in BOOLEAN
    BY <1>t, <2>u DEF RoundTypes, CycleTypes
  <2>2. RowKept(r)
    BY <1>t, <2>u DEF RowKept, RowFits
  <2>9. RoundMoves(r)
    BY <1>a, <2>u, <2>1, <2>2 DEF RoundMoves
  <2> QED
    BY <2>9, RoundStep
<1>4. CASE Deposit(r)
  <2>u. /\ chain[r] = "open" /\ (row[r] = "created" \/ r \in overwritten)
        /\ paid' = paid \union {r}
        /\ UNCHANGED <<row, chain, closing, age, overwritten, drafted, pause, control, hype,
                       historyVars, stops, worker, handler, crashes>>
    BY <1>4 DEF Deposit, cycleVars
  <2>1. RoundTypes' /\ pause' \in BOOLEAN
    BY <1>t, <2>u DEF RoundTypes, CycleTypes
  <2>2. RowKept(r)
    BY <1>t, <2>u DEF RowKept, RowFits
  <2>9. RoundMoves(r)
    BY <1>a, <2>u, <2>1, <2>2 DEF RoundMoves
  <2> QED
    BY <2>9, RoundStep
<1>5. CASE Age(r)
  <2>u. /\ \/ row[r] \in {"id_generated", "abandoned"} /\ age[r] < 2
           \/ row[r] = "abandoned" /\ age[r] = 2 /\ chain[r] # "coming"
        /\ age' = [age EXCEPT ![r] = age[r] + 1]
        /\ UNCHANGED <<row, chain, closing, paid, overwritten, drafted, pause, control, hype,
                       historyVars, stops, worker, handler, crashes>>
    BY <1>5 DEF Age, Older, cycleVars
  <2>0. age[r] \in 0..3 /\ age[r] + 1 \in 0..3
    BY <1>t, <2>u DEF RoundTypes
  <2>1. RoundTypes' /\ pause' \in BOOLEAN
    BY <1>t, <2>u, <2>0 DEF RoundTypes, CycleTypes
  <2>2. RowKept(r)
    BY <1>t, <2>u, <2>0 DEF RoundTypes, RowKept, RowFits
  <2>3. \A s \in Ids : s # r => age'[s] = age[s]
    BY <1>t, <2>u DEF RoundTypes
  <2>9. RoundMoves(r)
    BY <1>a, <2>u, <2>1, <2>2, <2>3 DEF RoundMoves
  <2> QED
    BY <2>9, RoundStep
<1>6. CASE PlayOut(r)
  <2>u. /\ At("idle") /\ row[r] = "created" /\ chain[r] = "open"
        /\ chain' = [chain EXCEPT ![r] = "closed"] /\ row' = [row EXCEPT ![r] = "closed"]
        /\ pause' = (pause \/ r \in paid) /\ paid' = paid \ {r}
        /\ UNCHANGED <<closing, age, overwritten, drafted, control, hype, historyVars,
                       stops, worker, handler, crashes>>
    BY <1>6 DEF PlayOut
  <2>1. RoundTypes' /\ pause' \in BOOLEAN
    BY <1>t, <2>u DEF RoundTypes, CycleTypes
  <2>2. RowKept(r)
    BY <1>t, <2>u DEF RoundTypes, RowKept, RowFits
  <2>3. \A s \in Ids : s # r => chain'[s] = chain[s] /\ row'[s] = row[s]
    BY <1>t, <2>u DEF RoundTypes
  <2>4. chain'[r] = "closed" /\ ~At("sending")
    BY <1>t, <2>u DEF RoundTypes, At
  <2>9. RoundMoves(r)
    BY <2>u, <2>1, <2>2, <2>3, <2>4 DEF RoundMoves
  <2> QED
    BY <2>9, RoundStep
<1>7. CASE HandlerReads(r)
  <2>u. /\ chain[r] \in {"open", "closed"} /\ handler' = r
        /\ UNCHANGED <<row, chain, closing, paid, age, overwritten, drafted, pause, control,
                       hype, historyVars, stops, worker, crashes>>
    BY <1>7 DEF HandlerReads, roundVars, cycleVars
  <2>1. RoundTypes' /\ pause' \in BOOLEAN
    BY <1>t, <2>u DEF RoundTypes, CycleTypes
  <2>2. RowKept(r)
    BY <1>t, <2>u DEF RowKept, RowFits
  <2>9. RoundMoves(r)
    BY <1>a, <2>u, <2>1, <2>2 DEF RoundMoves
  <2> QED
    BY <2>9, RoundStep
<1>8. ASSUME NEW status \in {"created", "closed"}, row' = [row EXCEPT ![r] = status],
             row[r] # "none", status = "closed" => chain[r] \in {"closed", "absent"},
             At("sending") => r # worker.at,
             UNCHANGED <<chain, closing, paid, age, overwritten, cycleVars, worker, handler,
                         crashes>>
      PROVE  IInv'
  <2>u. /\ row' = [row EXCEPT ![r] = status] /\ row[r] # "none"
        /\ status = "closed" => chain[r] \in {"closed", "absent"}
        /\ At("sending") => r # worker.at
        /\ UNCHANGED <<chain, closing, paid, age, overwritten, drafted, pause, control, hype,
                       historyVars, stops, worker, handler, crashes>>
    BY <1>8 DEF cycleVars
  <2>1. RoundTypes' /\ pause' \in BOOLEAN
    BY <1>t, <2>u DEF RoundTypes, CycleTypes
  <2>2. RowKept(r)
    BY <1>t, <2>u DEF RoundTypes, RowKept, RowFits
  <2>3. \A s \in Ids : s # r => row'[s] = row[s]
    BY <1>t, <2>u DEF RoundTypes
  <2>9. RoundMoves(r)
    BY <2>u, <2>1, <2>2, <2>3 DEF RoundMoves
  <2> QED
    BY <2>9, RoundStep
<1>9. CASE HandlerCloses(r)
  <2>1. row[r] # "none" /\ (At("sending") => r # worker.at)
    BY <1>9, <1>t, <1>a DEF HandlerCloses, RowFits
  <2> QED
    BY <1>8, <1>9, <2>1 DEF HandlerCloses
<1>10. CASE GiveUp(r)
  <2>1. chain[r] \in {"closed", "absent"} /\ row[r] # "none"
    BY <1>10, <1>t DEF GiveUp, RoundTypes, RowFits
  <2>2. At("sending") => r # worker.at
    BY <1>10 DEF GiveUp, At
  <2> QED
    BY <1>8, <1>10, <2>1, <2>2 DEF GiveUp, WritesRow
<1>11. CASE RecoverCreated(r)
  <2>1. row[r] # "none" /\ (At("sending") => r # worker.at)
    BY <1>11 DEF RecoverCreated, At
  <2> QED
    BY <1>8, <1>11, <2>1 DEF RecoverCreated, WritesRow
<1> QED
  BY <1>1, <1>2, <1>3, <1>4, <1>5, <1>6, <1>7, <1>9, <1>10, <1>11 DEF Land, Expire

\* An event worker's write: the row it has read a draft for, if no other is open.
LEMMA HandlerKeeps == IInv /\ HandlerWrites => IInv'
<1> SUFFICES ASSUME IInv, HandlerWrites PROVE IInv'
  OBVIOUS
<1> USE Bounds
<1> DEFINE r == handler
<1>t. /\ RoundTypes /\ CycleTypes /\ handler \in 0..MaxRounds /\ RowsFit
      /\ handler # 0 => chain[handler] \in {"open", "closed"}
      /\ At("sending") => row[worker.at] = "id_generated" /\ chain[worker.at] = "absent"
  BY TypesSplit DEF IInv, HandlerFits, WorkerFits
<1>u. /\ handler # 0 /\ handler' = 0
      /\ row' = [row EXCEPT ![r] = "created"] \/ row' = row
      /\ UNCHANGED <<chain, closing, paid, age, overwritten, drafted, pause, control, hype,
                     historyVars, stops, worker, crashes>>
  BY DEF HandlerWrites, cycleVars
<1>r. r \in Ids /\ RowFits(r)
  BY <1>t, <1>u DEF Ids, RowsFit
<1> HIDE DEF r
<1>1. RoundTypes' /\ pause' \in BOOLEAN
  BY <1>t, <1>u, <1>r DEF RoundTypes, CycleTypes
<1>2. row[r] # "none" /\ (At("sending") => r # worker.at)
  BY <1>t, <1>u, <1>r DEF RowFits, r
<1>3. /\ row'[r] \in {"created", row[r]}
      /\ \A s \in Ids : s # r => row'[s] = row[s]
  BY <1>t, <1>u, <1>r DEF RoundTypes
<1>4. RowKept(r)
  BY <1>r, <1>u, <1>2, <1>3 DEF RowKept, RowFits
<1>5. RoundMoves(r)
  BY <1>u, <1>1, <1>2, <1>3, <1>4, <1>r, <1>t DEF RoundMoves, r
<1> QED
  BY <1>5, <1>r, RoundStep

\* A row a step leaves alone is kept.
LEMMA Untouched ==
  ASSUME NEW r \in Ids, RowFits(r), row'[r] = row[r], chain'[r] = chain[r], age'[r] = age[r],
         paid' = paid, overwritten' = overwritten
  PROVE  RowKept(r)
BY DEF RowFits, RowKept

\* A step of the worker: the rows it keeps, and what it leaves of itself.
WorkerMoves ==
  /\ RoundTypes' /\ WorkerTypes' /\ crashes' \in 0..MaxCrashes
  /\ \A r \in Ids : RowKept(r) /\ (chain[r] \in {"open", "closed"} => chain'[r] = chain[r])
  /\ UNCHANGED <<drafted, pause, control, hype, stopped, overruled, afterStop, stops,
                 handler>>
  /\ WorkerFits' /\ worker'.pc \notin {"opening", "reconcile"}

\* Such a step keeps the invariant: the other rounds and the cycle do not notice it.
LEMMA WorkerStep == IInv /\ WorkerMoves => IInv'
<1> SUFFICES ASSUME IInv, WorkerMoves PROVE IInv'
  OBVIOUS
<1> USE Bounds
<1>t. /\ CycleTypes /\ handler \in 0..MaxRounds /\ RowsFit /\ HandlerFits /\ SwitchFits
      /\ StopCostsOneRound
  BY TypesSplit DEF IInv
<1>u. /\ drafted' = drafted /\ pause' = pause /\ control' = control /\ hype' = hype
      /\ stopped' = stopped /\ overruled' = overruled /\ afterStop' = afterStop
      /\ stops' = stops
      /\ handler' = handler
  BY DEF WorkerMoves
<1>1. CycleTypes'
  BY <1>t, <1>u DEF CycleTypes
<1>2. RowsFit'
  <2> SUFFICES ASSUME NEW s \in Ids PROVE RowFits(s)'
    BY DEF RowsFit
  <2>1. RowFits(s) /\ RowKept(s)
    BY <1>t DEF RowsFit, WorkerMoves
  <2> QED
    BY <2>1, <1>u DEF RowFits, RowKept
<1>3. HandlerFits'
  <2>1. handler # 0 => handler \in Ids
    BY <1>t DEF Ids
  <2> QED
    BY <2>1, <1>t, <1>u DEF HandlerFits, WorkerMoves
<1>4. SwitchFits' /\ StopCostsOneRound'
  BY <1>t, <1>u DEF SwitchFits, StopCostsOneRound, WorkerMoves, At
<1>5. (TypeOK /\ WorkerTypes)'
  BY <1>1, <1>t, <1>u, TypesSplit
     DEF WorkerMoves, TypeOK, RoundTypes, CycleTypes, WorkerTypes, Switches, Pcs
<1> QED
  BY <1>2, <1>3, <1>4, <1>5 DEF IInv, WorkerMoves

\* Its passes, but for the release, the countdown and the draft.
LEMMA WorkerKeeps ==
  ASSUME IInv,
         \/ BeginAutostart \/ Confirmed \/ CallFails \/ ReadDraft \/ Leave \/ Crash
         \/ MarkClosed \/ AbandonDraft \/ MarkCreated \/ Send
         \/ \E r \in Ids : CloseAbandoned(r)
  PROVE  IInv'
<1> USE Bounds
<1>t. /\ RoundTypes /\ CycleTypes /\ WorkerTypes /\ crashes \in 0..MaxCrashes
      /\ RowsFit /\ WorkerFits
  BY TypesSplit DEF IInv
<1>n. /\ Nobody \in [pc : Pcs, at : 0..MaxRounds, stuck : SUBSET Ids, seen : Switches,
                     blocking : BOOLEAN]
      /\ Nobody.pc = "idle" /\ Nobody.stuck = {}
  BY DEF Nobody, Pcs, Switches
<1>0. ASSUME UNCHANGED <<roundVars, cycleVars, handler>>, crashes' \in 0..MaxCrashes,
             WorkerTypes', WorkerFits', worker'.pc \notin {"opening", "reconcile"}
      PROVE  IInv'
  <2>u. /\ row' = row /\ chain' = chain /\ closing' = closing /\ paid' = paid /\ age' = age
        /\ overwritten' = overwritten
        /\ UNCHANGED <<drafted, pause, control, hype, stopped, overruled, afterStop, stops,
                       handler>>
    BY <1>0 DEF roundVars, cycleVars, historyVars
  <2>1. RoundTypes'
    BY <2>u, <1>t DEF RoundTypes
  <2>2. \A r \in Ids : RowKept(r)
    BY <2>u, <1>t, Untouched DEF RowsFit
  <2>3. WorkerMoves
    BY <1>0, <2>u, <2>1, <2>2 DEF WorkerMoves
  <2> QED
    BY <2>3, WorkerStep
<1>r. ASSUME worker' = Nobody PROVE WorkerTypes' /\ WorkerFits'
  <2>1. worker'.pc = "idle" /\ worker'.stuck = {}
    BY <1>r, <1>n
  <2> QED
    BY <1>r, <1>n, <2>1 DEF WorkerTypes, WorkerFits, At
<1>g. ASSUME NEW pc \in Pcs \ {"sending"}, Goes(pc), UNCHANGED row,
             worker.at \in Ids, row[worker.at] # "none"
      PROVE  WorkerTypes' /\ WorkerFits' /\ worker'.pc = pc
  <2>1. /\ worker'.pc = pc /\ worker'.at = worker.at /\ worker'.stuck = worker.stuck
        /\ WorkerTypes'
    BY <1>g, <1>t DEF Goes, WorkerTypes
  <2> QED
    BY <1>g, <1>t, <2>1 DEF WorkerFits, At
<1>1. CASE BeginAutostart
  <2>u. /\ worker' = [Nobody EXCEPT !.pc = "release", !.stuck = Stuck]
        /\ UNCHANGED <<roundVars, cycleVars, handler, crashes>>
    BY <1>1 DEF BeginAutostart
  <2>1. Stuck \subseteq Ids /\ \A r \in Stuck : row[r] # "none"
    BY DEF Stuck
  <2>2. WorkerTypes' /\ worker'.pc = "release" /\ worker'.stuck = Stuck
    BY <2>u, <2>1, <1>n DEF WorkerTypes, Pcs
  <2>3. WorkerFits'
    BY <2>u, <2>1, <2>2 DEF WorkerFits, At, roundVars
  <2> QED
    BY <2>u, <2>2, <2>3, <1>0, <1>t
<1>2. CASE Confirmed
  <2>u. /\ worker.at \in Ids /\ row[worker.at] # "none" /\ Goes("submitted") /\ UNCHANGED row
        /\ UNCHANGED <<roundVars, cycleVars, handler, crashes>>
    BY <1>2, <1>t DEF Confirmed, WorkerFits, At, roundVars
  <2>1. WorkerTypes' /\ WorkerFits' /\ worker'.pc = "submitted"
    BY <2>u, <1>g DEF Pcs
  <2> QED
    BY <2>u, <2>1, <1>0, <1>t
<1>3. CASE CallFails
  <2>u. /\ worker.at \in Ids /\ row[worker.at] # "none" /\ Goes("failed") /\ UNCHANGED row
        /\ UNCHANGED <<roundVars, cycleVars, handler, crashes>>
    BY <1>3, <1>t DEF CallFails, WorkerFits, At, roundVars
  <2>1. WorkerTypes' /\ WorkerFits' /\ worker'.pc = "failed"
    BY <2>u, <1>g DEF Pcs
  <2> QED
    BY <2>u, <2>1, <1>0, <1>t
<1>4. CASE ReadDraft
  <2>u. /\ worker.at \in Ids /\ row[worker.at] # "none" /\ UNCHANGED row
        /\ Goes("abandoning") \/ worker' = Nobody
        /\ UNCHANGED <<roundVars, cycleVars, handler, crashes>>
    BY <1>4, <1>t DEF ReadDraft, WorkerFits, At, roundVars, Rests
  <2>1. CASE Goes("abandoning")
    <3>1. WorkerTypes' /\ WorkerFits' /\ worker'.pc = "abandoning"
      BY <2>u, <2>1, <1>g DEF Pcs
    <3> QED
      BY <2>u, <3>1, <1>0, <1>t
  <2>2. CASE worker' = Nobody
    BY <2>u, <2>2, <1>r, <1>n, <1>0, <1>t
  <2> QED
    BY <2>u, <2>1, <2>2
<1>5. CASE Leave
  BY <1>5, <1>r, <1>n, <1>0, <1>t DEF Leave, Rests
<1>6. CASE Crash
  <2>1. crashes' \in 0..MaxCrashes
    BY <1>6, <1>t DEF Crash
  <2> QED
    BY <1>6, <2>1, <1>r, <1>n, <1>0 DEF Crash, Rests
<1>7. ASSUME NEW r \in Ids, NEW status \in {"created", "closed"}, WritesRow(r, status), Rests,
             row[r] # "none", status = "closed" => chain[r] = "closed"
      PROVE  IInv'
  <2>u. /\ row' = [row EXCEPT ![r] = status] /\ worker' = Nobody /\ crashes' = crashes
        /\ chain' = chain /\ closing' = closing /\ paid' = paid /\ age' = age
        /\ overwritten' = overwritten
        /\ UNCHANGED <<drafted, pause, control, hype, stopped, overruled, afterStop, stops,
                       handler>>
    BY <1>7 DEF WritesRow, Rests, cycleVars, historyVars
  <2>1. RoundTypes'
    BY <2>u, <1>t DEF RoundTypes
  <2>2. row'[r] = status /\ \A s \in Ids : s # r => row'[s] = row[s]
    BY <2>u, <1>t DEF RoundTypes
  <2>3. ASSUME NEW s \in Ids PROVE RowKept(s)
    <3>1. RowFits(s)
      BY <1>t DEF RowsFit
    <3>2. CASE s = r
      BY <3>1, <3>2, <2>u, <2>2, <1>7 DEF RowKept, RowFits
    <3>3. CASE s # r
      BY <3>1, <3>3, <2>u, <2>2, Untouched
    <3> QED
      BY <3>2, <3>3
  <2>4. WorkerMoves
    BY <2>u, <2>1, <2>3, <1>r, <1>n, <1>t DEF WorkerMoves
  <2> QED
    BY <2>4, WorkerStep
<1>8. CASE MarkClosed
  <2>1. worker.at \in Ids /\ row[worker.at] # "none" /\ chain[worker.at] = "closed"
    BY <1>8, <1>t DEF MarkClosed, WorkerFits, At
  <2> QED
    BY <1>7, <1>8, <2>1 DEF MarkClosed
<1>9. CASE MarkCreated
  <2>1. worker.at \in Ids /\ row[worker.at] # "none"
    BY <1>9, <1>t DEF MarkCreated, WorkerFits, At
  <2> QED
    BY <1>7, <1>9, <2>1 DEF MarkCreated
<1>10. CASE AbandonDraft
  <2>a. worker.at \in Ids /\ row[worker.at] # "none"
    BY <1>10, <1>t DEF AbandonDraft, WorkerFits, At
  <2> DEFINE a == worker.at
  <2>u. /\ row' = [r \in Ids |-> IF r \in {a} THEN "abandoned" ELSE row[r]]
        /\ overwritten' = overwritten \union {r \in {a} : row[r] = "created"}
        /\ worker' = Nobody /\ crashes' = crashes
        /\ chain' = chain /\ closing' = closing /\ paid' = paid /\ age' = age
        /\ UNCHANGED <<drafted, pause, control, hype, stopped, overruled, afterStop, stops,
                       handler>>
    BY <1>10 DEF AbandonDraft, Abandoning, Rests, cycleVars, historyVars
  <2> HIDE DEF a
  <2>0. a \in Ids /\ row[a] # "none"
    BY <2>a DEF a
  <2>1. RoundTypes'
    BY <2>u, <2>0, <1>t DEF RoundTypes
  <2>3. ASSUME NEW s \in Ids PROVE RowKept(s)
    <3>1. RowFits(s)
      BY <1>t DEF RowsFit
    <3>t. row[s] \in {"none", "id_generated", "created", "abandoned", "closed"}
      BY <1>t DEF RoundTypes
    <3>2. CASE s = a
      <4>1. row'[s] = "abandoned" /\ (row[s] = "created" => s \in overwritten')
        BY <3>2, <2>u
      <4>2. s \in overwritten => s \in overwritten'
        BY <2>u
      <4> QED
        BY <3>1, <3>2, <3>t, <4>1, <4>2, <2>u, <2>0 DEF RowKept, RowFits
    <3>3. CASE s # a
      <4>1. row'[s] = row[s] /\ (s \in overwritten' <=> s \in overwritten)
        BY <3>3, <2>u
      <4> QED
        BY <3>1, <4>1, <2>u DEF RowKept, RowFits
    <3> QED
      BY <3>2, <3>3
  <2>4. WorkerMoves
    BY <2>u, <2>1, <2>3, <1>r, <1>n, <1>t DEF WorkerMoves
  <2> QED
    BY <2>4, WorkerStep
<1>11. CASE Send
  <2>a. /\ worker.at \in Ids /\ row[worker.at] = "id_generated" /\ chain[worker.at] = "absent"
        /\ Goes("confirming") /\ UNCHANGED row
    BY <1>11, <1>t DEF Send, WorkerFits, At
  <2>g. WorkerTypes' /\ WorkerFits' /\ worker'.pc = "confirming"
    BY <2>a, <1>g DEF Pcs
  <2> DEFINE a == worker.at
  <2>u. /\ chain' = [chain EXCEPT ![a] = "coming"]
        /\ row' = row /\ closing' = closing /\ paid' = paid /\ age' = age
        /\ overwritten' = overwritten /\ crashes' = crashes
        /\ UNCHANGED <<drafted, pause, control, hype, stopped, overruled, afterStop, stops,
                       handler>>
    BY <1>11 DEF Send, cycleVars, historyVars
  <2>0. a \in Ids /\ row[a] = "id_generated" /\ chain[a] = "absent"
    BY <2>a
  <2> HIDE DEF a
  <2>1. RoundTypes'
    BY <2>u, <2>0, <1>t DEF RoundTypes
  <2>2. chain'[a] = "coming" /\ \A s \in Ids : s # a => chain'[s] = chain[s]
    BY <2>u, <2>0, <1>t DEF RoundTypes
  <2>3. ASSUME NEW s \in Ids
        PROVE RowKept(s) /\ (chain[s] \in {"open", "closed"} => chain'[s] = chain[s])
    <3>1. RowFits(s) /\ age[s] \in 0..3
      BY <1>t DEF RowsFit, RoundTypes
    <3>2. CASE s = a
      BY <3>1, <3>2, <2>u, <2>0, <2>2 DEF RowKept, RowFits
    <3>3. CASE s # a
      BY <3>1, <3>3, <2>u, <2>2, Untouched
    <3> QED
      BY <3>2, <3>3
  <2>4. WorkerMoves
    BY <2>u, <2>1, <2>3, <2>g, <1>t DEF WorkerMoves
  <2> QED
    BY <2>4, WorkerStep
<1>12. ASSUME NEW r \in Ids, CloseAbandoned(r) PROVE IInv'
  <2>u. /\ row[r] = "abandoned" /\ closing' = closing \union {r}
        /\ worker' = [worker EXCEPT !.pc = "closing", !.at = r]
        /\ row' = row /\ chain' = chain /\ paid' = paid /\ age' = age
        /\ overwritten' = overwritten /\ crashes' = crashes
        /\ UNCHANGED <<drafted, pause, control, hype, stopped, overruled, afterStop, stops,
                       handler>>
    BY <1>12 DEF CloseAbandoned, cycleVars, historyVars
  <2>1. RoundTypes'
    BY <2>u, <1>t DEF RoundTypes
  <2>2. /\ WorkerTypes' /\ worker'.pc = "closing" /\ worker'.at = r
        /\ worker'.stuck = worker.stuck
    BY <2>u, <1>t DEF WorkerTypes, Pcs
  <2>3. WorkerFits'
    BY <2>u, <2>2, <1>t DEF WorkerFits, At
  <2>4. \A s \in Ids : RowKept(s)
    BY <2>u, <1>t, Untouched DEF RowsFit
  <2>5. WorkerMoves
    BY <2>u, <2>1, <2>2, <2>3, <2>4, <1>t DEF WorkerMoves
  <2> QED
    BY <2>5, WorkerStep
<1> QED
  BY <1>1, <1>2, <1>3, <1>4, <1>5, <1>6, <1>8, <1>9, <1>10, <1>11, <1>12

\* The release: what was read as stuck is abandoned, whatever it has become since.
LEMMA ReleaseKeeps == IInv /\ ReleaseStuckDrafts => IInv'
<1> SUFFICES ASSUME IInv, ReleaseStuckDrafts PROVE IInv'
  OBVIOUS
<1> USE Bounds
<1>t. /\ RoundTypes /\ CycleTypes /\ WorkerTypes /\ handler \in 0..MaxRounds
      /\ crashes \in 0..MaxCrashes
      /\ RowsFit /\ HandlerFits /\ WorkerFits /\ SwitchFits /\ StopCostsOneRound
  BY TypesSplit DEF IInv
<1> DEFINE rs == worker.stuck
           blocked == \E r \in Ids : row'[r] \in OpenRows
<1>u. /\ At("release")
      /\ row' = [r \in Ids |-> IF r \in rs THEN "abandoned" ELSE row[r]]
      /\ overwritten' = overwritten \union {r \in rs : row[r] = "created"}
      /\ worker' = [worker EXCEPT !.pc = "reconcile", !.stuck = {}, !.seen = control,
                                  !.blocking = blocked]
      /\ chain' = chain /\ closing' = closing /\ paid' = paid /\ age' = age
      /\ drafted' = drafted /\ pause' = pause /\ control' = control /\ hype' = hype
      /\ stopped' = stopped /\ overruled' = overruled /\ afterStop' = afterStop
      /\ stops' = stops
      /\ handler' = handler /\ crashes' = crashes
  BY DEF ReleaseStuckDrafts, Abandoning, Looking, cycleVars, historyVars
<1>s. rs \subseteq Ids /\ \A r \in rs : row[r] # "none"
  BY <1>t DEF WorkerTypes, WorkerFits
<1>w. /\ WorkerTypes' /\ worker'.pc = "reconcile" /\ worker'.stuck = {}
      /\ worker'.seen = control
  <2>1. blocked \in BOOLEAN
    OBVIOUS
  <2> HIDE DEF blocked
  <2> QED
    BY <2>1, <1>u, <1>t DEF WorkerTypes, CycleTypes, Pcs
<1> HIDE DEF rs, blocked
<1>1. RoundTypes'
  BY <1>u, <1>s, <1>t DEF RoundTypes
<1>2. RowsFit'
  <2> SUFFICES ASSUME NEW r \in Ids PROVE RowFits(r)'
    BY DEF RowsFit
  <2>1. RowFits(r) /\ row[r] \in {"none", "id_generated", "created", "abandoned", "closed"}
    BY <1>t DEF RowsFit, RoundTypes
  <2>2. CASE r \in rs
    <3>1. /\ row'[r] = "abandoned" /\ row[r] # "none"
          /\ row[r] = "created" \/ r \in overwritten => r \in overwritten'
      BY <2>2, <1>u, <1>s
    <3> QED
      BY <2>1, <3>1, <1>u DEF RowFits
  <2>3. CASE r \notin rs
    <3>1. row'[r] = row[r] /\ (r \in overwritten' <=> r \in overwritten)
      BY <2>3, <1>u
    <3> QED
      BY <2>1, <3>1, <1>u DEF RowFits
  <2> QED
    BY <2>2, <2>3
<1>3. HandlerFits' /\ WorkerFits'
  BY <1>u, <1>w, <1>t DEF HandlerFits, WorkerFits, At
<1>4. SwitchFits' /\ StopCostsOneRound'
  BY <1>u, <1>w, <1>t DEF SwitchFits, StopCostsOneRound, At
<1>5. CycleTypes'
  BY <1>u, <1>t DEF CycleTypes
<1>6. (TypeOK /\ WorkerTypes)'
  BY <1>1, <1>5, <1>w, <1>u, <1>t, TypesSplit
     DEF TypeOK, RoundTypes, CycleTypes, WorkerTypes, Switches, Pcs
<1> QED
  BY <1>2, <1>3, <1>4, <1>6 DEF IInv

\* The countdown writes a switch; it turns the cycle on only when it was read as over.
LEMMA CountdownWrites ==
  ASSUME NEW seen \in Switches, NEW blocking \in BOOLEAN, NEW now \in Switches
  PROVE  /\ Reconcile(seen, blocking, now) \in Switches
         /\ Reconcile(seen, blocking, now).enabled => now.enabled \/ seen.launch = "due"
BY DEF Reconcile, Switches

\* reconcile_hype_countdown writes the switch from what it read.  A stop in between costs
\* a round, which is counted, or is overwritten by the launch, and then it is overruled.
LEMMA ReconcileKeeps == IInv /\ ReconcileHypeCountdown => IInv'
<1> SUFFICES ASSUME IInv, ReconcileHypeCountdown PROVE IInv'
  OBVIOUS
<1> USE Bounds
<1>t. /\ RoundTypes /\ CycleTypes /\ WorkerTypes /\ handler \in 0..MaxRounds
      /\ crashes \in 0..MaxCrashes
      /\ RowsFit /\ HandlerFits /\ WorkerFits /\ SwitchFits /\ StopCostsOneRound
  BY TypesSplit DEF IInv
<1> DEFINE written == Reconcile(worker.seen, worker.blocking, control)
           launched == written.enabled /\ worker.seen.launch = "due"
<1>u. /\ At("reconcile") /\ control' = written
      /\ stopped' = (stopped /\ ~(launched /\ control.launch = "due"))
      /\ overruled' = (overruled \/ (stopped /\ launched /\ control.launch # "due"))
      /\ \/ /\ worker' = [worker EXCEPT !.pc = "opening"]
            /\ IF written = control THEN worker.seen.enabled ELSE written.enabled
         \/ worker' = Nobody
      /\ row' = row /\ chain' = chain /\ closing' = closing /\ paid' = paid /\ age' = age
      /\ overwritten' = overwritten
      /\ drafted' = drafted /\ pause' = pause /\ hype' = hype
      /\ afterStop' = afterStop /\ stops' = stops
      /\ handler' = handler /\ crashes' = crashes
  BY DEF ReconcileHypeCountdown, Goes, Rests, roundVars
<1>r. /\ written \in Switches /\ written.enabled \in BOOLEAN
      /\ written.enabled => control.enabled \/ launched
  <2>1. worker.seen \in Switches /\ worker.blocking \in BOOLEAN /\ control \in Switches
    BY <1>t DEF WorkerTypes, CycleTypes
  <2>2. written \in Switches /\ (written.enabled => control.enabled \/ worker.seen.launch = "due")
    BY <2>1, CountdownWrites
  <2> HIDE DEF written
  <2> QED
    BY <2>2 DEF Switches
<1> HIDE DEF written, launched
<1>w. /\ WorkerTypes' /\ worker'.pc \in {"opening", "idle"} /\ worker'.stuck \subseteq worker.stuck
  <2>1. CASE worker' = [worker EXCEPT !.pc = "opening"]
    BY <2>1, <1>t DEF WorkerTypes, Pcs
  <2>2. CASE worker' = Nobody
    BY <2>2, <1>t DEF WorkerTypes, Pcs, Nobody, Switches
  <2> QED
    BY <2>1, <2>2, <1>u
<1>1. RoundTypes'
  BY <1>u, <1>t DEF RoundTypes
<1>2. RowsFit'
  BY <1>u, <1>t DEF RowsFit, RowFits
<1>3. HandlerFits' /\ WorkerFits'
  BY <1>u, <1>w, <1>t DEF HandlerFits, WorkerFits, At
<1>5. CycleTypes'
  BY <1>u, <1>r, <1>t DEF CycleTypes
<1>4. SwitchFits' /\ StopCostsOneRound'
  <2>1. stopped' /\ ~overruled' => stopped /\ ~overruled /\ ~written.enabled
    <3>1. stopped' /\ ~overruled' => stopped /\ ~overruled /\ ~launched
      BY <1>u
    <3> QED
      BY <3>1, <1>r, <1>t, Zenon DEF SwitchFits
  <2>2. ASSUME stopped', ~overruled', afterStop >= 1 PROVE worker'.pc # "opening"
    <3>1. ~worker.seen.enabled /\ ~written.enabled
      BY <2>1, <2>2, <1>u, <1>t DEF SwitchFits
    <3>2. worker' = Nobody
      BY <3>1, <1>u
    <3> QED
      BY <3>2 DEF Nobody
  <2> QED
    BY <2>1, <2>2, <1>u, <1>w, <1>t DEF SwitchFits, StopCostsOneRound, At
<1>6. (TypeOK /\ WorkerTypes)'
  BY <1>1, <1>5, <1>w, <1>u, <1>t, TypesSplit
     DEF TypeOK, RoundTypes, CycleTypes, WorkerTypes, Switches, Pcs
<1> QED
  BY <1>2, <1>3, <1>4, <1>6 DEF IInv

\* A new draft is a row of its own; after a stop it is the first.
LEMMA InsertKeeps == IInv /\ InsertDraft => IInv'
<1> SUFFICES ASSUME IInv, InsertDraft PROVE IInv'
  OBVIOUS
<1> USE Bounds
<1>t. /\ RoundTypes /\ CycleTypes /\ WorkerTypes /\ handler \in 0..MaxRounds
      /\ crashes \in 0..MaxCrashes
      /\ RowsFit /\ HandlerFits /\ WorkerFits /\ SwitchFits /\ StopCostsOneRound
  BY TypesSplit DEF IInv
<1>u. /\ At("opening")
      /\ chain' = chain /\ closing' = closing /\ paid' = paid /\ age' = age
      /\ overwritten' = overwritten /\ pause' = pause /\ control' = control /\ hype' = hype
      /\ stopped' = stopped /\ overruled' = overruled /\ stops' = stops
      /\ handler' = handler /\ crashes' = crashes
  BY DEF InsertDraft
<1>1. CASE Alive # {}
  <2>u. /\ worker' = Nobody /\ row' = row /\ drafted' = drafted /\ afterStop' = afterStop
        /\ worker'.pc = "idle" /\ worker'.stuck = {}
    BY <1>1 DEF InsertDraft, Rests, Nobody
  <2>w. WorkerTypes' /\ WorkerFits'
    BY <2>u DEF WorkerTypes, WorkerFits, At, Nobody, Pcs, Switches
  <2>1. RoundTypes'
    BY <1>u, <2>u, <1>t DEF RoundTypes
  <2>2. \A r \in Ids : RowKept(r)
    BY <1>u, <2>u, <1>t, Untouched DEF RowsFit
  <2>3. WorkerMoves
    BY <1>u, <2>u, <2>w, <2>1, <2>2, <1>t DEF WorkerMoves
  <2> QED
    BY <2>3, WorkerStep
<1>2. CASE Alive = {}
  <2> DEFINE new == drafted + 1
  <2>u. /\ drafted < MaxRounds /\ drafted' = new
        /\ row' = [row EXCEPT ![new] = "id_generated"]
        /\ worker' = [worker EXCEPT !.pc = "sending", !.at = new]
        /\ afterStop' = IF stopped THEN afterStop + 1 ELSE afterStop
    BY <1>2 DEF InsertDraft
  <2>n. /\ new \in Ids /\ new \in 0..MaxRounds /\ drafted \in Nat
        /\ \A r \in Ids : r > new <=> r > drafted /\ r # new
        /\ new > drafted /\ ~(new > new)
    BY <2>u, <1>t DEF Ids, CycleTypes
  <2> HIDE DEF new
  <2>r. /\ row'[new] = "id_generated" /\ \A r \in Ids : r # new => row'[r] = row[r]
        /\ RoundTypes'
    BY <1>u, <2>u, <2>n, <1>t DEF RoundTypes
  <2>0. row[new] = "none" /\ RowFits(new) /\ chain[new] = "absent"
    BY <2>n, <1>t DEF RowsFit, RowFits
  <2>w. /\ WorkerTypes' /\ worker'.pc = "sending" /\ worker'.at = new
        /\ worker'.stuck = worker.stuck
    BY <2>u, <2>n, <1>t DEF WorkerTypes, Pcs
  <2>1. RowsFit'
    <3> SUFFICES ASSUME NEW r \in Ids PROVE RowFits(r)'
      BY DEF RowsFit
    <3>1. RowFits(r) /\ age[r] \in 0..3
      BY <1>t DEF RowsFit, RoundTypes
    <3>2. CASE r = new
      BY <3>1, <3>2, <2>0, <2>n, <2>r, <1>u, <2>u DEF RowFits
    <3>3. CASE r # new
      BY <3>1, <3>3, <2>n, <2>r, <1>u, <2>u DEF RowFits
    <3> QED
      BY <3>2, <3>3
  <2>2. HandlerFits'
    BY <1>u, <1>t DEF HandlerFits
  <2>3. WorkerFits'
    <3>1. worker.stuck \subseteq Ids
      BY <1>t DEF WorkerTypes
    <3>2. \A r \in worker.stuck : row'[r] # "none"
      BY <3>1, <2>r, <1>t DEF WorkerFits
    <3> QED
      BY <3>2, <2>w, <2>n, <2>r, <2>0, <1>u DEF WorkerFits, At
  <2>4. stopped /\ ~overruled => afterStop = 0
    BY <1>u, <1>t DEF SwitchFits, CycleTypes
  <2>5. SwitchFits' /\ StopCostsOneRound'
    BY <1>u, <2>u, <2>w, <2>4, <1>t DEF SwitchFits, StopCostsOneRound, At
  <2>6. CycleTypes'
    BY <1>u, <2>u, <2>n, <1>t DEF CycleTypes
  <2>7. (TypeOK /\ WorkerTypes)'
    BY <2>r, <2>6, <2>w, <1>u, <1>t, TypesSplit
       DEF TypeOK, RoundTypes, CycleTypes, WorkerTypes, Switches, Pcs
  <2> QED
    BY <2>1, <2>2, <2>3, <2>5, <2>7 DEF IInv
<1> QED
  BY <1>1, <1>2

\* The switch itself: a stop starts the count anew, a resumption forgets it.
LEMMA SwitchKeeps ==
  ASSUME IInv, StopCycle \/ ResumeCycle \/ CountdownEnds \/ PauseEnds
  PROVE  IInv'
<1> USE Bounds
<1>t. /\ RoundTypes /\ CycleTypes /\ WorkerTypes /\ handler \in 0..MaxRounds
      /\ crashes \in 0..MaxCrashes
      /\ RowsFit /\ HandlerFits /\ WorkerFits /\ SwitchFits /\ StopCostsOneRound
  BY TypesSplit DEF IInv
<1>u. /\ row' = row /\ chain' = chain /\ closing' = closing /\ paid' = paid /\ age' = age
      /\ overwritten' = overwritten /\ drafted' = drafted /\ hype' = hype
      /\ worker' = worker /\ handler' = handler /\ crashes' = crashes
  BY DEF StopCycle, ResumeCycle, SetCycleEnabled, CountdownEnds, PauseEnds, roundVars,
         historyVars
<1>1. RoundTypes' /\ WorkerTypes'
  BY <1>u, <1>t DEF RoundTypes, WorkerTypes
<1>2. RowsFit'
  BY <1>u, <1>t DEF RowsFit, RowFits
<1>3. HandlerFits' /\ WorkerFits'
  BY <1>u, <1>t DEF HandlerFits, WorkerFits, At
<1>4. CycleTypes' /\ SwitchFits' /\ StopCostsOneRound'
  <2>1. ASSUME NEW enabled \in BOOLEAN, SetCycleEnabled(enabled), stops' \in 0..MaxStops
        PROVE  CycleTypes' /\ SwitchFits' /\ StopCostsOneRound'
    <3>u. /\ control' = [enabled |-> enabled, launch |-> "none"]
          /\ stopped' = ~enabled /\ overruled' = FALSE /\ afterStop' = 0 /\ pause' = pause
      BY <2>1 DEF SetCycleEnabled
    <3>1. CycleTypes'
      BY <3>u, <2>1, <1>u, <1>t DEF CycleTypes, Switches
    <3>2. control'.enabled = enabled /\ ~(afterStop' >= 1) /\ afterStop' <= 1
      BY <3>u
    <3>3. stopped' => ~control'.enabled
      BY <3>2, <3>u
    <3>4. SwitchFits'
      BY <3>2, <3>3, Zenon DEF SwitchFits
    <3>5. StopCostsOneRound'
      BY <3>u, SMT DEF StopCostsOneRound
    <3> QED
      BY <3>1, <3>4, <3>5, Zenon
  <2>2. CASE StopCycle
    <3>1. SetCycleEnabled(FALSE) /\ stops < MaxStops /\ stops' = stops + 1
      BY <2>2 DEF StopCycle
    <3>2. stops' \in 0..MaxStops
      BY <3>1, <1>t DEF CycleTypes
    <3> QED
      BY <2>1, <3>1, <3>2
  <2>3. CASE ResumeCycle
    BY <2>1, <2>3, <1>t DEF ResumeCycle, CycleTypes
  <2>4. CASE CountdownEnds
    <3>u. /\ control' = [control EXCEPT !.launch = "due"] /\ pause' = pause
          /\ stopped' = stopped /\ overruled' = overruled /\ afterStop' = afterStop
          /\ stops' = stops
      BY <2>4 DEF CountdownEnds, historyVars
    <3>1. control' \in Switches /\ control'.enabled = control.enabled
      BY <3>u, <1>t DEF CycleTypes, Switches
    <3>2. CycleTypes'
      BY <3>u, <3>1, <1>u, <1>t DEF CycleTypes
    <3> QED
      BY <3>u, <3>1, <3>2, <1>u, <1>t DEF SwitchFits, StopCostsOneRound, At
  <2>5. CASE PauseEnds
    <3>u. /\ pause' = FALSE /\ control' = control
          /\ stopped' = stopped /\ overruled' = overruled /\ afterStop' = afterStop
          /\ stops' = stops
      BY <2>5 DEF PauseEnds, historyVars
    <3> QED
      BY <3>u, <1>u, <1>t DEF CycleTypes, SwitchFits, StopCostsOneRound, At
  <2> QED
    BY <2>2, <2>3, <2>4, <2>5
<1>5. (TypeOK /\ WorkerTypes)'
  BY <1>1, <1>4, <1>u, <1>t, TypesSplit
     DEF TypeOK, RoundTypes, CycleTypes, WorkerTypes, Switches, Pcs
<1> QED
  BY <1>2, <1>3, <1>4, <1>5 DEF IInv

\* At the beginning there is no round, and a cycle that is off counts as stopped.
LEMMA InitIInv == Init => IInv
<1> SUFFICES ASSUME Init PROVE IInv
  OBVIOUS
<1> USE Bounds
<1>w. /\ worker = Nobody /\ worker.pc = "idle" /\ worker.stuck = {} /\ WorkerTypes
  BY DEF Init, Nobody, WorkerTypes, Pcs, Switches
<1>1. RoundTypes /\ CycleTypes /\ handler \in 0..MaxRounds /\ crashes \in 0..MaxCrashes
  <2>1. control \in Switches /\ control.enabled \in BOOLEAN
    BY DEF Init, Switches
  <2>2. stopped \in BOOLEAN /\ overruled \in BOOLEAN
    BY <2>1 DEF Init
  <2>3. RoundTypes
    BY DEF Init, RoundTypes
  <2>4. /\ drafted = 0 /\ pause = FALSE /\ hype \in BOOLEAN /\ afterStop = 0 /\ stops = 0
        /\ handler = 0 /\ crashes = 0
    BY DEF Init
  <2>5. /\ drafted \in 0..MaxRounds /\ afterStop \in Nat /\ stops \in 0..MaxStops
        /\ handler \in 0..MaxRounds /\ crashes \in 0..MaxCrashes
    BY <2>4
  <2>6. pause \in BOOLEAN
    BY <2>4
  <2> QED
    BY <2>1, <2>2, <2>3, <2>4, <2>5, <2>6, Zenon DEF CycleTypes
<1>2. RowsFit
  <2>1. \A r \in Ids : r > 0
    BY DEF Ids
  <2> QED
    BY <2>1 DEF Init, RowsFit, RowFits
<1>3. HandlerFits /\ WorkerFits
  BY <1>w DEF Init, HandlerFits, WorkerFits, At
<1>4. SwitchFits /\ StopCostsOneRound
  <2>1. afterStop = 0 /\ stopped = ~control.enabled
    BY DEF Init
  <2>2. ~(afterStop >= 1) /\ afterStop <= 1
    BY <2>1
  <2>3. stopped => ~control.enabled
    BY <2>1
  <2> QED
    BY <2>2, <2>3, Zenon DEF SwitchFits, StopCostsOneRound
<1> QED
  BY <1>w, <1>1, <1>2, <1>3, <1>4, TypesSplit DEF IInv

-----------------------------------------------------------------------------
(* The theorems.                                                           *)

\* Every state of the cycle satisfies the inductive invariant.
THEOREM Invariance == Spec => []IInv
<1>1. IInv /\ [Next]_vars => IInv'
  <2> SUFFICES ASSUME IInv, [Next]_vars PROVE IInv'
    OBVIOUS
  <2>1. ASSUME NEW r \in Ids,
               \/ Land(r) \/ Expire(r) \/ CloseLands(r) \/ CloseExpires(r) \/ Deposit(r)
               \/ Age(r) \/ PlayOut(r) \/ HandlerReads(r) \/ HandlerCloses(r) \/ GiveUp(r)
               \/ RecoverCreated(r)
        PROVE  IInv'
    BY <2>1, WorldKeeps
  <2>2. CASE HandlerWrites
    BY <2>2, HandlerKeeps
  <2>3. CASE StopCycle \/ ResumeCycle \/ CountdownEnds \/ PauseEnds
    BY <2>3, SwitchKeeps
  <2>4. CASE \/ BeginAutostart \/ Confirmed \/ CallFails \/ ReadDraft \/ Leave \/ Crash
             \/ MarkClosed \/ AbandonDraft \/ MarkCreated \/ Send
             \/ \E r \in Ids : CloseAbandoned(r)
    BY <2>4, WorkerKeeps
  <2>5. CASE ReleaseStuckDrafts
    BY <2>5, ReleaseKeeps
  <2>6. CASE ReconcileHypeCountdown
    BY <2>6, ReconcileKeeps
  <2>7. CASE InsertDraft
    BY <2>7, InsertKeeps
  <2>8. CASE UNCHANGED vars
    <3>u. /\ row' = row /\ chain' = chain /\ closing' = closing /\ paid' = paid /\ age' = age
          /\ overwritten' = overwritten /\ drafted' = drafted /\ pause' = pause
          /\ control' = control /\ hype' = hype /\ stopped' = stopped /\ overruled' = overruled
          /\ afterStop' = afterStop /\ stops' = stops /\ worker' = worker
          /\ handler' = handler /\ crashes' = crashes
      BY <2>8 DEF vars, roundVars, cycleVars, historyVars
    <3>1. TypeOK' /\ WorkerTypes'
      BY <3>u DEF IInv, TypeOK, WorkerTypes
    <3>2. RowsFit'
      BY <3>u DEF IInv, RowsFit, RowFits
    <3>3. HandlerFits' /\ WorkerFits' /\ SwitchFits' /\ StopCostsOneRound'
      BY <3>u DEF IInv, HandlerFits, WorkerFits, SwitchFits, StopCostsOneRound, At
    <3> QED
      BY <3>1, <3>2, <3>3 DEF IInv
  <2> QED
    BY <2>1, <2>2, <2>3, <2>4, <2>5, <2>6, <2>7, <2>8 DEF Next, Ends, Ages, Visit
<1> QED
  BY <1>1, InitIInv, PTL DEF Spec

\* Type correctness, for every bound on rounds, crashes and stops.
THEOREM TypeCorrect == Spec => []TypeOK
<1>1. IInv => TypeOK
  BY DEF IInv
<1> QED
  BY <1>1, Invariance, PTL

\* A round that is open on chain is a draft, the round being driven, or an abandoned
\* one without money or one the release overwrote.
THEOREM NoRoundIsForgotten == Spec => []OpenRoundIsWatched
<1>1. IInv => OpenRoundIsWatched
  <2> SUFFICES ASSUME IInv, NEW r \in Ids, chain[r] = "open"
               PROVE  \/ row[r] \in OpenRows
                      \/ row[r] = "abandoned" /\ (r \in paid => r \in overwritten)
    BY DEF OpenRoundIsWatched
  <2>1. /\ RowFits(r)
        /\ row[r] \in {"none", "id_generated", "created", "abandoned", "closed"}
    BY DEF IInv, RowsFit, TypeOK
  <2> QED
    BY <2>1 DEF RowFits, OpenRows
<1> QED
  BY <1>1, Invariance, PTL

\* Between a stop and the next word on the cycle at most one round is drafted, unless
\* the stop came between the reading of a countdown that was over and the launch.
THEOREM OneRoundAfterAStop == Spec => []StopCostsOneRound
<1>1. IInv => StopCostsOneRound
  BY DEF IInv
<1> QED
  BY <1>1, Invariance, PTL
=============================================================================
