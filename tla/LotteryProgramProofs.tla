------------------------ MODULE LotteryProgramProofs ------------------------
(***************************************************************************)
(* What the on-chain program guarantees whatever its constants are: types, *)
(* conservation of the lamports, the binding of the seed to the            *)
(* commitment, and that it implements PromotionPool.  All of it rests on   *)
(* one inductive invariant.                                                *)
(***************************************************************************)
EXTENDS LotteryProgram, TLAPS

Committed == {"PendingVrf", "ReadyToDraw", "ProceedingPurchases"}
Drawn == {"ReadyToDraw", "ProceedingPurchases"}

\* What initialize let through.
TermsChecked ==
  /\ terms.feeBps <= 500
  /\ status # "Absent" => terms.minAmount > 0

\* Where this round's lamports are, phase by phase.
MoneyByPhase ==
  /\ status \in {"Open", "PendingVrf", "ReadyToDraw"} =>
       /\ totalDeposited = ledger.deposited
       /\ ledger.fee = 0
       /\ ledger.keeper = 0
  /\ status \in {"Absent", "ProceedingPurchases"} =>
       /\ totalDeposited = 0
       /\ depositsCount = 0
       /\ ledger.fee + ledger.keeper = ledger.deposited
       /\ ledger.fee * 20 <= ledger.deposited
  /\ status # "Absent" => ledger.swept = 0 /\ ledger.extra >= VaultRent

\* The vault's balance is the ledger's.
VaultByLedger ==
  /\ vault + ledger.fee + ledger.keeper + ledger.swept = ledger.extra + ledger.deposited
  /\ vault = 0 \/ vault >= VaultRent

\* What the randomness fields hold, phase by phase.
VrfByPhase ==
  /\ status \in {"Absent", "Open"} =>
       vrf.weights = Zero /\ vrf.seed = Zero /\ ~vrf.called
  /\ status = "PendingVrf" => ~vrf.called
  /\ status \in Committed =>
       vrf.weights # Zero /\ vrf.force = VrfForce(vrf.weights, vrf.seedSlot)
  /\ status \in Drawn =>
       /\ vrf.called
       /\ \/ vrf.seed = FoldSeed(OraoSignature(vrf.force))
          \/ vrf.seed \in SeedArgs \ {Zero} /\ slot >= vrf.requestedTs + EmergencyDelay

\* The inductive invariant.
IInv ==
  /\ TypeOK
  /\ TermsChecked
  /\ MoneyByPhase
  /\ VaultByLedger
  /\ VrfByPhase
-----------------------------------------------------------------------------
(* The fee: the only arithmetic that is not linear.                        *)

\* A commission within the 5% that initialize allows is a part of the total,
\* at most a twentieth of it (lib.rs:643-651).
LEMMA FeeBounds ==
  ASSUME NEW total \in Nat, NEW bps \in Nat, bps <= 500
  PROVE  /\ FeeOf(total, bps) \in Nat
         /\ FeeOf(total, bps) * 20 <= total
         /\ total - FeeOf(total, bps) \in Nat
<1> DEFINE product == total * bps
           fee == product \div 10000
<1>1. product \in Nat /\ product <= total * 500
  OBVIOUS
<1>2. fee \in Nat /\ 10000 * fee <= product
  <2> HIDE DEF product
  <2> QED BY <1>1
<1>3. 10000 * fee <= total * 500
  <2> HIDE DEF product, fee
  <2> QED BY <1>1, <1>2
<1>4. fee * 20 <= total /\ total - fee \in Nat
  <2> HIDE DEF fee
  <2> QED BY <1>2, <1>3
<1> QED BY <1>2, <1>4 DEF FeeOf
-----------------------------------------------------------------------------
(* What the assumption on the constants is used for.                       *)

\* A vault account has to hold something (Rent::minimum_balance, lib.rs:213).
LEMMA RentType == VaultRent \in Nat /\ VaultRent > 0
BY ProgramAssumption

\* The default of the hash fields is a value the arguments may take.
LEMMA ZeroType == Zero \in WeightsArgs /\ Zero \in SeedArgs
BY ProgramAssumption

LedgerType == [deposited : Nat, extra : Nat, fee : Nat, keeper : Nat, swept : Nat]

\* The randomness fields initialize leaves behind (lib.rs:303-318) are of their
\* type.
LEMMA NoVrfType ==
  /\ NoVrf.weights = Zero /\ NoVrf.seed = Zero /\ ~NoVrf.called
  /\ NoVrf \in [weights : WeightsArgs, force : WeightsArgs \X Nat,
               seedSlot : Nat, requestedTs : Nat, seed : SeedArgs, called : BOOLEAN]
BY ZeroType DEF NoVrf
-----------------------------------------------------------------------------
(* The invariant holds at the start and is kept by every instruction.      *)

\* Before any round is opened the invariant holds.
LEMMA InitIInv == Init => IInv
<1> USE DEF Init
<1> SUFFICES ASSUME Init PROVE IInv
  OBVIOUS
<1>1. VrfType
  BY NoVrfType DEF VrfType
<1>2. TypeOK
  <2>1. paused \in BOOLEAN
    BY Zenon
  <2> QED BY <1>1, <2>1 DEF TypeOK, Statuses, NoTerms, NoLedger
<1>3. TermsChecked /\ MoneyByPhase /\ VaultByLedger
  BY RentType DEF TermsChecked, MoneyByPhase, VaultByLedger, NoTerms, NoLedger
<1>4. VrfByPhase
  BY NoVrfType DEF VrfByPhase, Committed, Drawn
<1> QED BY <1>2, <1>3, <1>4 DEF IInv

\* Time, strangers' lamports and the pause disturb nothing.
LEMMA SurroundingsKeepIInv ==
  ASSUME IInv,
         \/ Tick
         \/ \E flag \in BOOLEAN : SetPaused(flag)
         \/ \E a \in Amounts : TransferIn(a)
         \/ \E f \in requests : OraoAnswer(f)
         \/ UNCHANGED vars
  PROVE  IInv'
<1> USE ProgramAssumption
        DEF IInv, TypeOK, VrfType, TermsChecked, MoneyByPhase, VaultByLedger, VrfByPhase,
            Statuses, Committed, Drawn, VrfForce, roundVars
<1>1. CASE Tick
  BY <1>1 DEF Tick
<1>2. CASE \E flag \in BOOLEAN : SetPaused(flag)
  BY <1>2 DEF SetPaused
<1>3. CASE \E a \in Amounts : TransferIn(a)
  BY <1>3 DEF TransferIn
<1>4. CASE \E f \in requests : OraoAnswer(f)
  BY <1>4 DEF OraoAnswer
<1>5. CASE UNCHANGED vars
  BY <1>5 DEF vars
<1> QED BY <1>1, <1>2, <1>3, <1>4, <1>5

\* initialize (lib.rs:184-332) accounts for the rent the vault already held.
LEMMA OpeningKeepsIInv ==
  ASSUME IInv, NEW p \in Params, Initialize(p)
  PROVE  IInv'
<1>1. VrfType'
  BY NoVrfType DEF Initialize, VrfType
<1>2. /\ terms' \in [start : Int, end : Int, feeBps : Nat, minAmount : Nat,
                     maxAmount : Nat, maxTotal : Nat]
      /\ TermsChecked'
  BY ProgramAssumption DEF Initialize, TermsChecked, TermsOf, ValidTerms
<1>3. /\ status = "Absent" /\ status' = "Open"
      /\ totalDeposited' = 0 /\ depositsCount' = 0
      /\ vault' \in Nat /\ vault' >= VaultRent
      /\ ledger' = [deposited |-> 0, extra |-> vault', fee |-> 0, keeper |-> 0, swept |-> 0]
  BY RentType DEF IInv, TypeOK, VaultByLedger, Initialize, NoLedger
<1>4. ledger' \in LedgerType
  BY <1>3 DEF LedgerType
<1>5. TypeOK'
  <2>1. paused' \in BOOLEAN
    BY Zenon DEF Initialize
  <2> QED BY <1>1, <1>2, <1>3, <1>4, <2>1 DEF IInv, Initialize, TypeOK, Statuses, LedgerType
<1>6. MoneyByPhase'
  BY <1>3 DEF MoneyByPhase
<1>7. VaultByLedger'
  BY <1>3 DEF VaultByLedger
<1>8. VrfByPhase'
  BY <1>3, NoVrfType DEF Initialize, VrfByPhase, Committed, Drawn
<1> QED BY <1>2, <1>5, <1>6, <1>7, <1>8 DEF IInv

\* deposit_sol (lib.rs:337-393) adds the same amount to vault, total and ledger.
LEMMA DepositKeepsIInv ==
  ASSUME IInv, NEW a \in Amounts, DepositSol(a)
  PROVE  IInv'
<1> USE DEF DepositSol, DepositAllowed
<1>1. a \in Nat
  BY ProgramAssumption
<1>2. TypeOK' /\ TermsChecked'
  BY <1>1 DEF IInv, TypeOK, VrfType, TermsChecked
<1>3. MoneyByPhase' /\ VaultByLedger'
  BY <1>1, RentType DEF IInv, TypeOK, MoneyByPhase, VaultByLedger
<1>4. VrfByPhase'
  BY DEF IInv, VrfByPhase, Committed, Drawn, VrfForce
<1> QED BY <1>2, <1>3, <1>4 DEF IInv

\* start_second_phase (lib.rs:398-496) stores the request seed it derives from
\* the commitment it stores.
LEMMA RequestKeepsIInv ==
  ASSUME IInv, Request
  PROVE  IInv'
<1> PICK w \in WeightsArgs, s \in 0..slot : StartSecondPhase(w, s)
  BY DEF Request
<1> USE DEF StartSecondPhase, RequestAllowed
<1>1. /\ s \in Nat /\ slot \in Nat
      /\ VrfForce(w, s) \in WeightsArgs \X Nat
      /\ status = "Open" /\ status' = "PendingVrf"
      /\ vrf.seed = Zero /\ ~vrf.called
      /\ w # Zero
  BY DEF IInv, TypeOK, VrfForce, VrfByPhase
<1>2. vrf' = [weights |-> w, force |-> VrfForce(w, s), seedSlot |-> s,
              requestedTs |-> slot, seed |-> Zero, called |-> FALSE]
  BY <1>1 DEF IInv, TypeOK, VrfType
<1>3. VrfType'
  BY <1>1, ZeroType DEF IInv, TypeOK, VrfType
<1>4. TypeOK'
  BY <1>1, <1>3 DEF IInv, TypeOK, Statuses
<1>5. TermsChecked' /\ MoneyByPhase' /\ VaultByLedger'
  BY <1>1 DEF IInv, TermsChecked, MoneyByPhase, VaultByLedger
<1>6. VrfByPhase'
  BY <1>1, <1>2 DEF VrfByPhase, Committed, Drawn
<1> QED BY <1>4, <1>5, <1>6 DEF IInv

\* Both ways of drawing (lib.rs:507-614) store a seed that is bound to the
\* commitment, or waited for.
LEMMA DrawKeepsIInv ==
  ASSUME IInv, DrawSeed
  PROVE  IInv'
<1>1. PICK seed : /\ TakeSeed(seed)
                  /\ \/ seed = FoldSeed(OraoSignature(vrf.force))
                     \/ seed \in SeedArgs /\ slot >= vrf.requestedTs + EmergencyDelay
  BY DEF DrawSeed, FulfillRandomness, EmergencyFulfillRandomness, EmergencyAllowed
<1> USE DEF TakeSeed
<1>2. TypeOK'
  <2>1. VrfType'
    BY <1>1 DEF IInv, TypeOK, VrfType
  <2> QED BY <1>1, <2>1 DEF IInv, TypeOK, Statuses
<1>3. TermsChecked' /\ MoneyByPhase' /\ VaultByLedger'
  BY <1>1 DEF IInv, TermsChecked, MoneyByPhase, VaultByLedger
<1>4. VrfByPhase'
  BY <1>1 DEF IInv, TypeOK, VrfType, VrfByPhase, Committed, Drawn, VrfForce
<1> QED BY <1>2, <1>3, <1>4 DEF IInv

\* start_purchases_phase (lib.rs:621-733) leaves the vault at least its rent and
\* takes exactly the deposits out.
LEMMA PayoutKeepsIInv ==
  ASSUME IInv, StartPurchasesPhase
  PROVE  IInv'
<1> DEFINE fee == FeeOf(totalDeposited, terms.feeBps)
<1>1. fee \in Nat /\ fee * 20 <= totalDeposited /\ totalDeposited - fee \in Nat
  BY FeeBounds DEF IInv, TypeOK, TermsChecked
<1>2. /\ status = "ReadyToDraw" /\ status' = "ProceedingPurchases"
      /\ totalDeposited' = 0 /\ depositsCount' = 0
      /\ vault' = vault - totalDeposited
      /\ ledger' = [ledger EXCEPT !.fee = @ + fee, !.keeper = @ + (totalDeposited - fee)]
      /\ UNCHANGED <<paused, terms, vrf, requests, fulfilled, slot, lastDepositSlot>>
  BY DEF StartPurchasesPhase, ResetCounters
<1> HIDE DEF fee
<1>3. /\ vault' \in Nat /\ vault' >= VaultRent
      /\ ledger.fee = 0 /\ ledger.keeper = 0 /\ ledger.swept = 0
      /\ ledger.deposited = totalDeposited
      /\ ledger \in [deposited : Nat, extra : Nat, fee : Nat, keeper : Nat, swept : Nat]
  BY <1>2, RentType DEF IInv, TypeOK, MoneyByPhase, VaultByLedger
<1>4. ledger' = [deposited |-> totalDeposited, extra |-> ledger.extra, fee |-> fee,
                 keeper |-> totalDeposited - fee, swept |-> 0]
  <2>1. ledger.fee + fee = fee /\ ledger.keeper + (totalDeposited - fee) = totalDeposited - fee
    BY <1>1, <1>3
  <2> QED BY <1>2, <1>3, <2>1
<1>5. TypeOK'
  <2>1. VrfType'
    BY <1>2 DEF IInv, TypeOK, VrfType
  <2>2. ledger' \in LedgerType
    BY <1>1, <1>3, <1>4 DEF LedgerType
  <2> QED BY <1>2, <1>3, <2>1, <2>2 DEF IInv, TypeOK, Statuses, LedgerType
<1>6. TermsChecked' /\ MoneyByPhase' /\ VaultByLedger'
  BY <1>1, <1>2, <1>3, <1>4, RentType
     DEF IInv, TypeOK, TermsChecked, MoneyByPhase, VaultByLedger
<1>7. VrfByPhase'
  BY <1>2 DEF IInv, VrfByPhase, Committed, Drawn, VrfForce
<1> QED BY <1>5, <1>6, <1>7 DEF IInv

\* close_lottery (lib.rs:772-820) sweeps no more than what is not a deposit.
LEMMA CloseKeepsIInv ==
  ASSUME IInv, CloseLottery
  PROVE  IInv'
<1>1. /\ status # "Absent" /\ status' = "Absent"
      /\ totalDeposited' = 0 /\ depositsCount' = 0
      /\ vault' = 0 /\ vault \in Nat
      /\ ledger \in [deposited : Nat, extra : Nat, fee : Nat, keeper : Nat, swept : Nat]
      /\ ledger' = [ledger EXCEPT !.swept = @ + vault]
      /\ ledger.swept = 0
  BY DEF IInv, TypeOK, MoneyByPhase, CloseLottery
<1>2. /\ ledger.fee + ledger.keeper = ledger.deposited
      /\ ledger.fee * 20 <= ledger.deposited
      /\ vault = ledger.extra
  BY <1>1 DEF IInv, TypeOK, Statuses, MoneyByPhase, VaultByLedger, CloseLottery, CloseAllowed
<1>3. ledger' = [deposited |-> ledger.deposited, extra |-> vault, fee |-> ledger.fee,
                 keeper |-> ledger.keeper, swept |-> vault]
  BY <1>1, <1>2
<1>4. TypeOK' /\ TermsChecked'
  <2>1. VrfType'
    BY NoVrfType DEF CloseLottery, VrfType
  <2>2. ledger' \in LedgerType
    BY <1>1, <1>3 DEF LedgerType
  <2>3. paused' \in BOOLEAN
    BY Zenon DEF CloseLottery
  <2> QED BY <1>1, <2>1, <2>2, <2>3
          DEF IInv, TypeOK, Statuses, LedgerType, TermsChecked, NoTerms, CloseLottery
<1>5. MoneyByPhase' /\ VaultByLedger'
  BY <1>1, <1>2, <1>3 DEF MoneyByPhase, VaultByLedger
<1>6. VrfByPhase'
  BY <1>1, NoVrfType DEF CloseLottery, VrfByPhase, Committed, Drawn
<1> QED BY <1>4, <1>5, <1>6 DEF IInv

\* No instruction, and nothing else on the chain, breaks the invariant.
LEMMA NextKeepsIInv == IInv /\ [Next]_vars => IInv'
BY InitIInv, SurroundingsKeepIInv, OpeningKeepsIInv, DepositKeepsIInv,
   RequestKeepsIInv, DrawKeepsIInv, PayoutKeepsIInv, CloseKeepsIInv DEF Next

\* Every reachable state satisfies the inductive invariant.
THEOREM Invariance == Spec => []IInv
BY InitIInv, NextKeepsIInv, PTL DEF Spec
-----------------------------------------------------------------------------
(* The safety properties.                                                  *)

\* Types (the Lottery account, lib.rs:827, and the chain around it).
THEOREM TypeCorrect == Spec => []TypeOK
BY Invariance, PTL DEF IInv

\* The payout is never refused for want of lamports in the vault.
THEOREM VaultAlwaysCovers == Spec => []VaultCoversPool
<1>1. IInv => VaultCoversPool
  BY RentType DEF IInv, TypeOK, Statuses, MoneyByPhase, VaultByLedger, VaultCoversPool
<1> QED BY <1>1, Invariance, PTL

\* close_lottery never sweeps a depositor's lamport.
THEOREM SweepIsNotDeposits == Spec => []DepositsNeverSwept
<1>1. IInv => DepositsNeverSwept
  BY DEF IInv, TypeOK, Statuses, MoneyByPhase, VaultByLedger, DepositsNeverSwept
<1> QED BY <1>1, Invariance, PTL

\* start_purchases_phase pays the whole pot, the fee at most a twentieth of it.
THEOREM PayoutWhole == Spec => []PayoutIsWhole
<1>1. IInv => PayoutIsWhole
  BY DEF IInv, TypeOK, Statuses, MoneyByPhase, PayoutIsWhole
<1> QED BY <1>1, Invariance, PTL

\* The seed of a drawn round is bound to what the round committed to.
THEOREM SeedBound == Spec => []SeedBoundToCommitment
<1>1. IInv => SeedBoundToCommitment
  BY DEF IInv, VrfByPhase, Committed, Drawn, SeedBoundToCommitment
<1> QED BY <1>1, Invariance, PTL
-----------------------------------------------------------------------------
(* What a step may never do.                                               *)

\* emergency_fulfill_randomness cannot displace an answer of ORAO.
THEOREM AnswerAlwaysWins == Spec => AnswerWins
<1>1. ASSUME IInv, [Next]_vars,
             vrf.force \in fulfilled, vrf'.called, ~vrf.called
      PROVE  vrf'.seed = FoldSeed(OraoSignature(VrfForce(vrf.weights, vrf.seedSlot)))
  <2>1. CASE FulfillRandomness
    BY <1>1, <2>1 DEF IInv, TypeOK, VrfType, VrfByPhase, Committed, FulfillRandomness, TakeSeed
  <2>2. CASE \E s \in SeedArgs : EmergencyFulfillRandomness(s)
    BY <1>1, <2>2 DEF EmergencyFulfillRandomness, EmergencyAllowed
  <2>3. CASE Request
    BY <1>1, <2>3 DEF IInv, TypeOK, VrfType, Request, StartSecondPhase
  <2>4. CASE \E p \in Params : Initialize(p)
    BY <1>1, <2>4, NoVrfType DEF Initialize
  <2>5. CASE CloseLottery
    BY <1>1, <2>5, NoVrfType DEF CloseLottery
  <2>6. CASE UNCHANGED vrf
    BY <1>1, <2>6
  <2>7. UNCHANGED vrf \/ FulfillRandomness \/ Request \/ CloseLottery
        \/ (\E s \in SeedArgs : EmergencyFulfillRandomness(s))
        \/ (\E p \in Params : Initialize(p))
    BY <1>1 DEF Next, DrawSeed, DepositSol, OraoAnswer, StartPurchasesPhase, SetPaused,
                TransferIn, Tick, roundVars, vars
  <2> QED BY <2>1, <2>2, <2>3, <2>4, <2>5, <2>6, <2>7
<1>2. IInv /\ [Next]_vars => [AnswerWinsStep]_vars
  BY <1>1 DEF AnswerWinsStep
<1> QED BY <1>2, Invariance, PTL DEF Spec, AnswerWins

\* From start_second_phase on, what the round committed to stands still.
THEOREM CommittedIsFrozen == Spec => CommittedRoundIsFrozen
<1>1. IInv /\ [Next]_vars => [FrozenStep]_vars
  <2> SUFFICES ASSUME IInv, Next, status \in Committed, status' # "Absent"
               PROVE  FrozenStep
    BY DEF FrozenStep, IInv, TypeOK, Statuses, Committed
  <2> USE DEF FrozenStep, Committed
  <2>1. CASE DrawSeed
    <3>1. PICK seed : TakeSeed(seed)
      BY <2>1 DEF DrawSeed, FulfillRandomness, EmergencyFulfillRandomness
    <3> QED BY <3>1 DEF TakeSeed, IInv, TypeOK, VrfType
  <2>2. CASE StartPurchasesPhase
    BY <2>2 DEF StartPurchasesPhase
  <2>3. CASE Tick \/ (\E flag \in BOOLEAN : SetPaused(flag))
             \/ (\E a \in Amounts : TransferIn(a)) \/ (\E f \in requests : OraoAnswer(f))
    BY <2>3 DEF Tick, SetPaused, TransferIn, OraoAnswer, roundVars
  <2>4. ~ Request /\ ~ CloseLottery /\ (\A p \in Params : ~ Initialize(p))
        /\ (\A a \in Amounts : ~ DepositSol(a))
    BY DEF Request, StartSecondPhase, RequestAllowed, CloseLottery, Initialize,
           DepositSol, DepositAllowed
  <2> QED BY <2>1, <2>2, <2>3, <2>4 DEF Next
<1> QED BY <1>1, Invariance, PTL DEF Spec, CommittedRoundIsFrozen
-----------------------------------------------------------------------------
(* The program implements PromotionPool.                                   *)

\* Every step of the program is a step of the abstract pool, or none: money
\* only while collecting, one commitment, one draw, one whole payout, and no
\* forgetting a pot (lib.rs:184-820).
THEOREM ImplementsPool == Spec => PoolPromise
<1> DEFINE poolUnchanged == UNCHANGED <<status, totalDeposited, vrf>>
<1>1. Init => Pool!PoolInit
  BY DEF Init, Pool!PoolInit, Stage, NoVrf
<1>2. ASSUME poolUnchanged
      PROVE  [Pool!PoolNext]_(Pool!poolVars)
  BY <1>2 DEF Pool!poolVars, Stage
<1>3. ASSUME IInv, NEW p \in Params, Initialize(p)
      PROVE  Pool!PoolNext
  BY <1>3 DEF Initialize, Pool!PoolNext, Pool!Start, Stage, NoVrf
<1>4. ASSUME IInv, NEW a \in Amounts, DepositSol(a)
      PROVE  Pool!PoolNext
  <2>1. a \in Nat /\ a > 0 /\ totalDeposited \in Nat
    BY <1>4, ProgramAssumption DEF DepositSol, DepositAllowed, IInv, TypeOK, TermsChecked
  <2> QED BY <1>4, <2>1 DEF DepositSol, DepositAllowed, Pool!PoolNext, Pool!Collect, Stage
<1>5. ASSUME IInv, Request
      PROVE  Pool!PoolNext
  BY <1>5 DEF Request, StartSecondPhase, RequestAllowed, IInv, TypeOK, VrfType,
              Pool!PoolNext, Pool!Commit, Stage
<1>6. ASSUME IInv, DrawSeed
      PROVE  Pool!PoolNext
  <2>1. PICK seed : TakeSeed(seed)
    BY <1>6 DEF DrawSeed, FulfillRandomness, EmergencyFulfillRandomness
  <2> QED BY <1>6, <2>1 DEF TakeSeed, IInv, TypeOK, VrfType, Pool!PoolNext, Pool!Draw, Stage
<1>7. ASSUME IInv, StartPurchasesPhase
      PROVE  Pool!PoolNext
  BY <1>7 DEF StartPurchasesPhase, ResetCounters, Pool!PoolNext, Pool!PayOut, Stage
<1>8. ASSUME IInv, CloseLottery
      PROVE  Pool!PoolNext
  <2>1. totalDeposited = 0
    BY <1>8 DEF IInv, MoneyByPhase, CloseLottery, CloseAllowed
  <2>2. Stage # "none"
    BY <1>8 DEF CloseLottery, IInv, TypeOK, Statuses, Stage
  <2> QED BY <1>8, <2>1, <2>2 DEF CloseLottery, NoVrf, Pool!PoolNext, Pool!Forget, Stage
<1>9. ASSUME Tick \/ (\E flag \in BOOLEAN : SetPaused(flag))
             \/ (\E a \in Amounts : TransferIn(a)) \/ (\E f \in requests : OraoAnswer(f))
             \/ UNCHANGED vars
      PROVE  poolUnchanged
  BY <1>9 DEF Tick, SetPaused, TransferIn, OraoAnswer, roundVars, vars
<1> HIDE DEF poolUnchanged
<1>10. IInv /\ [Next]_vars => [Pool!PoolNext]_(Pool!poolVars)
  BY <1>2, <1>3, <1>4, <1>5, <1>6, <1>7, <1>8, <1>9 DEF Next
<1> QED BY <1>1, <1>10, Invariance, PTL DEF Spec, PoolPromise, Pool!PoolSpec
=============================================================================
