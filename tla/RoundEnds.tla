----------------------------- MODULE RoundEnds -----------------------------
(***************************************************************************)
(* The end of a round though events go missing: RoundCoordinator with a    *)
(* record of the events that no path has brought.  Some of them nothing    *)
(* else makes good: the worker compares deposits by the database alone,    *)
(* takes a round in its entry period no further than the chain's Open, and *)
(* does not look at an account that is gone.                               *)
(***************************************************************************)
EXTENDS RoundCoordinator

VARIABLE missed      \* history: the events each path has missed, by their place

endVars == <<vars, missed>>

\* The events whose loss nothing may make good.
Vital == {"Deposit", "Phase2Started", "PhaseChanged"}

Miss(p) ==
  /\ MissEvent(p)
  /\ missed' = IF log[pos[p] + 1].kind \in Vital
               THEN [missed EXCEPT ![p] = @ \cup {pos[p] + 1}] ELSE missed

Others ==
  \/ Chain \/ PhaseWorker \/ FinalizerCommits
  \/ \E p \in Paths : HandleEvent(p) \/ WriteQueued(p)
  \/ \E d \in Deposits : PlaceBet(d) \/ FinalizerChecks(d)

EndsSpec ==
  /\ Init /\ missed = [p \in Paths |-> {}]
  /\ [][(\E p \in Paths : Miss(p)) \/ (Others /\ UNCHANGED missed)]_endVars
  /\ Fairness
-----------------------------------------------------------------------------
Lost == {log[n] : n \in {n \in DOMAIN log : \A p \in Paths : n \in missed[p]}}
LostKind(kind) == \E event \in Lost : event.kind = kind

\* A deposit the database will not have: its event is lost and nobody reported it,
\* or the finalizer struck it out.
DepositGone == \E d \in landed \ bets : d \in orphaned \/ \E event \in Lost : event.deposit = d

\* The round was committed, and neither the worker saw its own instruction land
\* nor a path brought the event.
StartUnseen ==
  phase \in {"PendingVrf", "ReadyToDraw"} /\ row \in Early /\ LostKind("Phase2Started")

\* Past the end of its entry period a round is paid out, or closed if it is
\* empty, whoever brings the randomness and wherever the worker dies.  Two losses
\* alone hold it for ever: of a deposit, at both comparisons
\* (lottery_phase_worker.py:2047, 2288), and of the start, where the worker looks
\* at the round in its entry period only (lottery_phase_worker.py:1999).
EntryLeadsToPayout ==
  (clock = "over") ~> (phase \in {"ProceedingPurchases", "closed"} \/ DepositGone \/ StartUnseen)

\* A round whose window has been started is closed on chain, though the buyer
\* never answers or never stops buying; in the database too, unless the event of
\* the close is lost, when the worker finds no account to look at any more
\* (lottery_phase_worker.py:2240).
StartedWindowCloses ==
  started ~> (phase = "closed" /\ (row = "closed" \/ LostKind("PhaseChanged")))
=============================================================================
