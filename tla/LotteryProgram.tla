--------------------------- MODULE LotteryProgram ---------------------------
(***************************************************************************)
(* The on-chain program `lottery_v_1_0`: one round account, its vault and  *)
(* the ORAO randomness request it is bound to.  One action per             *)
(* instruction; a refused instruction changes nothing and is no step.      *)
(*                                                                         *)
(* Account constraints (`has_one = admin`, PDA seeds) are taken as met:    *)
(* every action is a call by somebody the constraint admits.  Hashes are   *)
(* modelled by what they do, a different value for every different input.  *)
(* u64 and u128 never overflow here: initialize bounds the total by a u64. *)
(***************************************************************************)
EXTENDS Integers, FiniteSets

CONSTANTS
  Params,                \* argument records `initialize` is called with
  Amounts,               \* lamports a depositor names
  WeightsArgs,           \* 32-byte values the admin passes as weights_hash
  SeedArgs,              \* 32-byte values the admin passes as emergency seed
  Zero,                  \* 32 zero bytes, the default of every hash field
  None,                  \* Rust's None for an optional amount
  MinAmountDefault,      \* MIN_AMOUNT_LAMPORTS_DEFAULT
  VaultRent,             \* Rent::minimum_balance(0)
  EmergencyDelay,        \* EMERGENCY_FULFILL_DELAY_SECONDS
  MaxDuration,           \* MAX_LOTTERY_DURATION_SECONDS
  MaxSeedSlotAge,        \* MAX_SEED_SLOT_AGE_SLOTS
  LastSlot,              \* bound: the last slot of the modelled chain
  MaxExtra,              \* bound: lamports strangers send to the vault
  MaxRounds              \* bound: rounds that ask for randomness

ASSUME ProgramAssumption ==
  /\ Params \subseteq [start : Int, end : Int, feeBps : Nat,
                       minAmount : Nat \cup {None}, maxAmount : Nat \cup {None},
                       maxTotal : Nat]
  /\ None \notin Nat
  /\ Amounts \subseteq Nat
  /\ Zero \in WeightsArgs \cap SeedArgs
  /\ MinAmountDefault \in Nat \ {0}
  /\ VaultRent \in Nat \ {0}
  /\ EmergencyDelay \in Nat
  /\ MaxDuration \in Nat
  /\ MaxSeedSlotAge \in Nat
  /\ LastSlot \in Nat
  /\ MaxExtra \in Nat
  /\ MaxRounds \in Nat

VARIABLES
  \* --- the round account
  status,          \* LotteryStatus, or "Absent" while the account does not exist
  paused,
  terms,           \* what initialize fixed: times, fee, limits
  depositsCount,
  totalDeposited,
  vrf,             \* the fields of phases 2 and 3
  \* --- the rest of the chain
  vault,           \* lamports in the vault PDA
  requests,        \* ORAO request accounts, by the seed they stand for
  fulfilled,       \* those ORAO has answered
  slot,            \* the current slot; unix time is counted in slots
  \* --- history, read by the properties only
  ledger,          \* where the lamports of this round came from and went
  lastDepositSlot  \* the slot of the latest deposit of this round

roundVars == <<status, paused, terms, depositsCount, totalDeposited, vrf>>
vars == <<status, paused, terms, depositsCount, totalDeposited, vrf, vault,
          requests, fulfilled, slot, ledger, lastDepositSlot>>
-----------------------------------------------------------------------------
(* Values derived by the program.                                          *)

\* derive_vrf_force: the slot hash is named by its slot, the round's address
\* is the same throughout.
VrfForce(weights, seedSlot) == <<weights, seedSlot>>

\* ORAO's answer is its signature over the request seed: one value per seed.
OraoSignature(force) == <<"orao", force>>

\* hashv(VRF_SEED_DOMAIN, randomness): 64 bytes folded down to 32.
FoldSeed(randomness) == <<"fold", randomness>>

NoVrf == [weights |-> Zero, force |-> <<Zero, 0>>, seedSlot |-> 0,
          requestedTs |-> 0, seed |-> Zero, called |-> FALSE]

NoTerms == [start |-> 0, end |-> 0, feeBps |-> 0, minAmount |-> 0,
            maxAmount |-> 0, maxTotal |-> 0]

NoLedger == [deposited |-> 0, extra |-> 0, fee |-> 0, keeper |-> 0, swept |-> 0]

\* The commission on a total, rounded down.
FeeOf(total, bps) == (total * bps) \div 10000

\* The limits initialize stores: named ones, or the defaults.
TermsOf(p) ==
  [start     |-> p.start,
   end       |-> p.end,
   feeBps    |-> p.feeBps,
   minAmount |-> IF p.minAmount = None THEN MinAmountDefault ELSE p.minAmount,
   maxAmount |-> IF p.maxAmount = None THEN p.maxTotal ELSE p.maxAmount,
   maxTotal  |-> p.maxTotal]

\* What initialize requires of its arguments.
ValidTerms(t) ==
  /\ t.start > 0
  /\ t.end > t.start
  /\ t.end - t.start <= MaxDuration
  /\ t.feeBps <= 500
  /\ t.minAmount > 0
  /\ t.minAmount <= t.maxAmount
  /\ t.maxTotal >= t.minAmount
  /\ t.maxAmount <= t.maxTotal

\* When the entry period is over: by time, or because nothing fits any more.
EntryOver ==
  \/ slot >= terms.end
  \/ totalDeposited = terms.maxTotal
  \/ terms.maxTotal - totalDeposited <= 2 * terms.minAmount

Init ==
  /\ status = "Absent"
  /\ paused = FALSE
  /\ terms = NoTerms
  /\ depositsCount = 0
  /\ totalDeposited = 0
  /\ vrf = NoVrf
  /\ vault = 0
  /\ requests = {}
  /\ fulfilled = {}
  /\ slot = 1
  /\ ledger = NoLedger
  /\ lastDepositSlot = 0
-----------------------------------------------------------------------------
(* The instructions.                                                       *)

\* initialize: opens the round; the admin pays the vault's rent only if the
\* vault holds nothing, which is how the program recognises a missing one.
\* The same address may be opened again after a close, up to the bound.
Initialize(p) ==
  LET paidRent == IF vault = 0 THEN VaultRent ELSE 0 IN
  /\ status = "Absent"
  /\ Cardinality(requests) < MaxRounds
  /\ ValidTerms(TermsOf(p))
  /\ status' = "Open"
  /\ paused' = FALSE
  /\ terms' = TermsOf(p)
  /\ depositsCount' = 0
  /\ totalDeposited' = 0
  /\ vrf' = NoVrf
  /\ vault' = vault + paidRent
  /\ ledger' = [NoLedger EXCEPT !.extra = vault + paidRent]
  /\ lastDepositSlot' = 0
  /\ UNCHANGED <<requests, fulfilled, slot>>

\* Both ends of the entry period are inside it.
DepositAllowed(amount) ==
  /\ status = "Open"
  /\ ~paused
  /\ slot >= terms.start
  /\ slot <= terms.end
  /\ amount >= terms.minAmount
  /\ amount <= terms.maxAmount
  /\ totalDeposited + amount <= terms.maxTotal

\* deposit_sol
DepositSol(amount) ==
  /\ DepositAllowed(amount)
  /\ vault' = vault + amount
  /\ depositsCount' = depositsCount + 1
  /\ totalDeposited' = totalDeposited + amount
  /\ ledger' = [ledger EXCEPT !.deposited = @ + amount]
  /\ lastDepositSlot' = slot
  /\ UNCHANGED <<status, paused, terms, vrf, requests, fulfilled, slot>>

\* mutant: any commitment is taken, the empty one included
RequestAnyWeights(weights, seedSlot) ==
  /\ status = "Open"
  /\ seedSlot < slot
  /\ slot - seedSlot <= MaxSeedSlotAge
  /\ EntryOver

\* mutant: a paused round does not go on
RequestUnpaused(weights, seedSlot) ==
  /\ status = "Open"
  /\ ~paused
  /\ seedSlot < slot
  /\ slot - seedSlot <= MaxSeedSlotAge
  /\ EntryOver
  /\ vrf.weights = Zero
  /\ weights # Zero

RequestAllowed(weights, seedSlot) ==
  /\ status = "Open"
  /\ seedSlot < slot
  /\ slot - seedSlot <= MaxSeedSlotAge
  /\ EntryOver
  /\ vrf.weights = Zero
  /\ weights # Zero

\* start_second_phase: publishes the commitment, derives the request seed from
\* it and a recent slot hash, and asks ORAO, which creates the request account
\* and so refuses a seed that was requested before.
StartSecondPhase(weights, seedSlot) ==
  LET force == VrfForce(weights, seedSlot) IN
  /\ RequestAllowed(weights, seedSlot)
  /\ force \notin requests
  /\ vrf' = [vrf EXCEPT !.weights = weights, !.force = force,
                        !.seedSlot = seedSlot, !.requestedTs = slot]
  /\ status' = "PendingVrf"
  /\ requests' = requests \cup {force}
  /\ UNCHANGED <<paused, terms, depositsCount, totalDeposited, vault, fulfilled,
                 slot, ledger, lastDepositSlot>>

\* ORAO answers an open request; nothing says when, or that it will.
OraoAnswer(force) ==
  /\ force \in requests \ fulfilled
  /\ fulfilled' = fulfilled \cup {force}
  /\ UNCHANGED <<roundVars, vault, requests, slot, ledger, lastDepositSlot>>

\* The round takes a seed: what both ways of drawing share.
TakeSeed(seed) ==
  /\ status = "PendingVrf"
  /\ ~vrf.called
  /\ seed # Zero
  /\ vrf' = [vrf EXCEPT !.seed = seed, !.called = TRUE]
  /\ status' = "ReadyToDraw"
  /\ UNCHANGED <<paused, terms, depositsCount, totalDeposited, vault, requests,
                 fulfilled, slot, ledger, lastDepositSlot>>

\* fulfill_randomness: anybody may bring ORAO's answer in.
FulfillRandomness ==
  /\ vrf.force \in fulfilled
  /\ TakeSeed(FoldSeed(OraoSignature(vrf.force)))

\* mutant: once the wait is over, whether or not ORAO has answered since
EmergencyUnread == slot >= vrf.requestedTs + EmergencyDelay

\* Only while the request is still empty, and only after the wait.
EmergencyAllowed ==
  /\ vrf.force \notin fulfilled
  /\ slot >= vrf.requestedTs + EmergencyDelay

\* emergency_fulfill_randomness
EmergencyFulfillRandomness(seed) ==
  /\ EmergencyAllowed
  /\ TakeSeed(seed)

\* mutant: only the count is reset
ResetCountOnly ==
  /\ depositsCount' = 0
  /\ UNCHANGED totalDeposited

ResetCounters ==
  /\ depositsCount' = 0
  /\ totalDeposited' = 0

\* start_purchases_phase: the whole total leaves the vault, split between the
\* fee wallet and the keeper, and the counters are reset.
StartPurchasesPhase ==
  LET fee == FeeOf(totalDeposited, terms.feeBps)
      keeper == totalDeposited - fee
  IN
  /\ status = "ReadyToDraw"
  /\ vault >= totalDeposited
  /\ vault' = vault - totalDeposited
  /\ ledger' = [ledger EXCEPT !.fee = @ + fee, !.keeper = @ + keeper]
  /\ ResetCounters
  /\ status' = "ProceedingPurchases"
  /\ UNCHANGED <<paused, terms, vrf, requests, fulfilled, slot, lastDepositSlot>>

\* pause and unpause: nothing but deposits looks at the flag.
SetPaused(flag) ==
  /\ status # "Absent"
  /\ paused # flag
  /\ paused' = flag
  /\ UNCHANGED <<status, terms, depositsCount, totalDeposited, vrf, vault,
                 requests, fulfilled, slot, ledger, lastDepositSlot>>

\* mutant: a drawn round may be closed too
CloseWhenDrawn ==
  \/ depositsCount = 0 /\ totalDeposited = 0
  \/ status \in {"ReadyToDraw", "ProceedingPurchases"}

CloseAllowed ==
  \/ depositsCount = 0 /\ totalDeposited = 0
  \/ status = "ProceedingPurchases"

\* close_lottery: a round that took money may go only after the payout, an
\* empty one at any time.  Everything left in the vault goes to the admin and
\* the account ceases to exist.
CloseLottery ==
  /\ status # "Absent"
  /\ CloseAllowed
  /\ ledger' = [ledger EXCEPT !.swept = @ + vault]
  /\ vault' = 0
  /\ status' = "Absent"
  /\ paused' = FALSE
  /\ terms' = NoTerms
  /\ depositsCount' = 0
  /\ totalDeposited' = 0
  /\ vrf' = NoVrf
  /\ lastDepositSlot' = 0
  /\ UNCHANGED <<requests, fulfilled, slot>>

\* Anybody can send lamports to the vault's address; the runtime refuses to
\* leave an account holding less than its rent.
TransferIn(amount) ==
  /\ vault + amount >= VaultRent
  /\ ledger.extra + amount <= MaxExtra
  /\ vault' = vault + amount
  /\ ledger' = [ledger EXCEPT !.extra = @ + amount]
  /\ UNCHANGED <<roundVars, requests, fulfilled, slot, lastDepositSlot>>

\* The chain goes on.  Bound: it stops at LastSlot, except that a request made
\* late is given its full wait.
Tick ==
  /\ \/ slot < LastSlot
     \/ status = "PendingVrf" /\ slot < vrf.requestedTs + EmergencyDelay
  /\ slot' = slot + 1
  /\ UNCHANGED <<roundVars, vault, requests, fulfilled, ledger, lastDepositSlot>>
-----------------------------------------------------------------------------
Request == \E w \in WeightsArgs, s \in 0..slot : StartSecondPhase(w, s)
DrawSeed == FulfillRandomness \/ \E s \in SeedArgs : EmergencyFulfillRandomness(s)

Next ==
  \/ \E p \in Params : Initialize(p)
  \/ \E a \in Amounts : DepositSol(a)
  \/ Request
  \/ \E f \in requests : OraoAnswer(f)
  \/ DrawSeed
  \/ StartPurchasesPhase
  \/ \E flag \in BOOLEAN : SetPaused(flag)
  \/ CloseLottery
  \/ \E a \in Amounts : TransferIn(a)
  \/ Tick

Spec == Init /\ [][Next]_vars

\* What the phase worker provides: it keeps asking, drawing, paying out and
\* closing.  ORAO owes nothing, and neither do depositors or the pause.
Fairness ==
  /\ WF_vars(Tick)
  /\ WF_vars(Request)
  /\ WF_vars(DrawSeed)
  /\ WF_vars(StartPurchasesPhase)
  /\ WF_vars(status = "ProceedingPurchases" /\ CloseLottery)

FairSpec == Spec /\ Fairness
-----------------------------------------------------------------------------
(* Properties.                                                             *)

Statuses == {"Absent", "Open", "PendingVrf", "ReadyToDraw", "ProceedingPurchases"}

VrfType ==
  vrf \in [weights : WeightsArgs, force : WeightsArgs \X Nat,
           seedSlot : Nat, requestedTs : Nat,
           seed : SeedArgs \cup {FoldSeed(OraoSignature(vrf.force))},
           called : BOOLEAN]

\* Types.
TypeOK ==
  /\ status \in Statuses
  /\ paused \in BOOLEAN
  /\ terms \in [start : Int, end : Int, feeBps : Nat, minAmount : Nat,
                maxAmount : Nat, maxTotal : Nat]
  /\ depositsCount \in Nat
  /\ totalDeposited \in Nat
  /\ VrfType
  /\ vault \in Nat
  /\ requests \subseteq WeightsArgs \X Nat
  /\ fulfilled \subseteq requests
  /\ slot \in Nat
  /\ ledger \in [deposited : Nat, extra : Nat, fee : Nat, keeper : Nat, swept : Nat]
  /\ lastDepositSlot \in Nat

\* The vault holds exactly what came in less what went out, and until the
\* payout every deposit and its own rent: start_purchases_phase (lib.rs:666)
\* is never refused, by InsufficientVaultBalance or by the runtime for leaving
\* a vault below its rent, either of which would freeze the round.
VaultCoversPool ==
  /\ vault + ledger.fee + ledger.keeper + ledger.swept = ledger.extra + ledger.deposited
  /\ status # "Absent" => vault >= totalDeposited + VaultRent
  /\ status \in {"Open", "PendingVrf", "ReadyToDraw"} => totalDeposited = ledger.deposited

\* Depositors' lamports reach the fee wallet and the keeper and nobody else:
\* what close_lottery (lib.rs:772) sweeps to the admin never exceeds what did
\* not come from deposits, in whatever phase it is called.
DepositsNeverSwept == ledger.swept <= ledger.extra

\* A payout is the whole pot or nothing, and the fee is within the 5% that
\* initialize allows.
PayoutIsWhole ==
  /\ ledger.fee + ledger.keeper \in {0, ledger.deposited}
  /\ ledger.fee * 20 <= ledger.deposited

\* What a drawn round was drawn with: the fold of ORAO's only possible answer
\* to the request derived from its own commitment and slot, or a seed the admin
\* named after the whole wait.
SeedBoundToCommitment ==
  status \in {"ReadyToDraw", "ProceedingPurchases"} =>
    /\ vrf.weights # Zero
    /\ \/ vrf.seed = FoldSeed(OraoSignature(VrfForce(vrf.weights, vrf.seedSlot)))
       \/ vrf.seed \in SeedArgs \ {Zero} /\ slot >= vrf.requestedTs + EmergencyDelay

AnswerWinsStep ==
  vrf.force \in fulfilled /\ vrf'.called /\ ~vrf.called =>
    vrf'.seed = FoldSeed(OraoSignature(VrfForce(vrf.weights, vrf.seedSlot)))

\* Once ORAO has answered a round's request, the admin has no say left: the
\* step that draws it takes ORAO's value (lib.rs:559, "It cannot be used to
\* dislike a result").
AnswerWins == [][AnswerWinsStep]_vars

FrozenStep ==
  status \notin {"Absent", "Open"} /\ status' # "Absent" =>
    /\ vrf'.weights = vrf.weights
    /\ vrf'.force = vrf.force
    /\ vrf.called => vrf'.seed = vrf.seed
    /\ status' # "ProceedingPurchases" =>
         <<totalDeposited, depositsCount>>' = <<totalDeposited, depositsCount>>

\* From the commitment to the payout nothing changes the pot it commits to, and
\* neither the commitment nor, once drawn, the seed is ever replaced while the
\* account lives.
CommittedRoundIsFrozen == [][FrozenStep]_vars

Stage ==
  CASE status = "Absent" -> "none"
    [] status = "Open" -> "collecting"
    [] status = "PendingVrf" -> "committed"
    [] status = "ReadyToDraw" -> "drawn"
    [] status = "ProceedingPurchases" -> "paid"

Pool == INSTANCE PromotionPool WITH
  None <- Zero, stage <- Stage, pot <- totalDeposited,
  commitment <- vrf.weights, draw <- vrf.seed

\* The program keeps the promise of PromotionPool.
PoolPromise == Pool!PoolSpec

\* No state of the program is a dead end: whatever depositors, the pause, the
\* clock and a silent ORAO do, a worker that keeps calling brings every open
\* round to its close, with its money paid out.
EveryRoundEnds == (status = "Open") ~> (status = "Absent")

\* "What matters is that none of them exist before the round closes"
\* (lib.rs:95, of the slot hashes a request seed may be derived from): no
\* deposit was taken after the hash that was used came into existence, which is
\* when its slot ended.
SeedHashAfterLastDeposit ==
  status \notin {"Absent", "Open"} => lastDepositSlot <= vrf.seedSlot
=============================================================================
