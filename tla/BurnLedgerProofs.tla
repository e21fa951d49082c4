-------------------------- MODULE BurnLedgerProofs --------------------------
(***************************************************************************)
(* What burning keeps for every lot, share and bound: types, at most one   *)
(* undecided burn, records that agree with the chain, and the account of   *)
(* every token destroyed.  All of it rests on one inductive invariant.     *)
(***************************************************************************)
EXTENDS BurnLedger, SequenceTheorems, TLAPS

BurnType == [amount : Nat \ {0}, status : {"in_progress", "completed", "failed"}]

\* Only the burn that was signed last may be open: the next one is signed when
\* none is.
OnlyLastOpen == \A i \in Open : i = Len(burns)

\* What the place in the code says of the burn the process works on.
PlaceOfBurn ==
  /\ pc \in {"sending", "confirming", "refused"} =>
       /\ cur = Len(burns) /\ cur \in Open
       /\ pc = "sending" => fate[cur] = "signed"
       /\ pc = "refused" => fate[cur] = "gone"
  /\ pc \in {"counting_settled", "counting_sent"} =>
       /\ cur \in DOMAIN burns
       /\ burns[cur].status = "completed"
       /\ Open = {}

\* What a completed burn has destroyed, while it is not in the total.
Uncounted ==
  IF pc \in {"counting_settled", "counting_sent"} THEN burns[cur].amount ELSE 0

\* What the last burn has destroyed while its record is open.
Unnoticed ==
  IF Len(burns) \in Open /\ fate[Len(burns)] = "landed" THEN burns[Len(burns)].amount ELSE 0

\* What it may yet destroy.
Undecided ==
  IF Len(burns) \in Open /\ fate[Len(burns)] \in {"signed", "flying"}
  THEN burns[Len(burns)].amount ELSE 0

Accounted == landedRaw = burnedRaw + lostRaw + Uncounted + Unnoticed

\* Also when the burn on its way lands, no more is destroyed than is owed.
WithinShare == landedRaw + Undecided <= BurnOwed(purchases) + lostRaw

\* The inductive invariant.
IInv ==
  /\ TypeOK
  /\ RecordsMatchChain
  /\ OnlyLastOpen
  /\ PlaceOfBurn
  /\ Accounted
  /\ WithinShare
-----------------------------------------------------------------------------
(* Facts the steps share.                                                  *)

\* More purchases never owe less to the fire (burnOwed, burns.ts): rounding
\* down does not change the order.
LEMMA BurnOwedGrows ==
  ASSUME NEW m \in Nat, NEW n \in Nat, m <= n
  PROVE  BurnOwed(m) \in Nat /\ BurnOwed(m) <= BurnOwed(n)
<1> DEFINE x == m * Lot * BurnWeight
           y == n * Lot * BurnWeight
<1>1. BurnWeight \in Nat /\ Lot \in Nat /\ TotalWeight \in Nat \ {0}
  BY BurnAssumption
<1>2. m * Lot \in Nat /\ n * Lot \in Nat /\ m * Lot <= n * Lot
  BY <1>1
<1>3. x \in Nat /\ y \in Nat /\ x <= y
  BY <1>1, <1>2
<1>4. x \div TotalWeight \in Nat /\ x \div TotalWeight <= y \div TotalWeight
  <2> HIDE DEF x, y
  <2> QED BY <1>1, <1>3
<1> QED BY <1>4 DEF BurnOwed

\* The state file's records and the chain's verdicts are kept side by side.
LEMMA SideBySide ==
  ASSUME TypeOK
  PROVE  /\ Len(burns) \in Nat
         /\ DOMAIN burns = 1..Len(burns) /\ DOMAIN fate = DOMAIN burns
         /\ \A i \in DOMAIN burns : burns[i] \in BurnType /\ fate[i] \in Fates
<1>1. burns \in Seq(BurnType) /\ fate \in Seq(Fates) /\ Len(fate) = Len(burns)
  BY DEF TypeOK, BurnType
<1>2. Len(burns) \in Nat /\ DOMAIN burns = 1..Len(burns) /\ DOMAIN fate = 1..Len(burns)
  BY <1>1, LenProperties
<1> QED BY <1>1, <1>2, ElementOfSeq

\* A burn that may still land has an open record, and that is the last one.
LEMMA UndecidedIsLast ==
  ASSUME IInv, NEW i \in DOMAIN fate, fate[i] \in {"signed", "flying"}
  PROVE  i \in Open /\ i = Len(burns)
<1>1. i \in DOMAIN burns /\ burns[i].status = "in_progress"
  BY SideBySide DEF IInv, RecordsMatchChain, BurnType
<1> QED BY <1>1 DEF IInv, OnlyLastOpen, Open
-----------------------------------------------------------------------------
(* The invariant holds at the start, and every step keeps it.              *)

\* Before the first visit nothing is on record and nothing has been signed.
LEMMA InitIInv == Init => IInv
<1> SUFFICES ASSUME Init PROVE IInv
  OBVIOUS
<1> USE DEF Init
<1>1. Open = {} /\ burns = <<>> /\ Len(burns) = 0
  BY DEF Open
<1>2. TypeOK
  <2>1. burns \in Seq(BurnType) /\ fate \in Seq(Fates) /\ Len(fate) = Len(burns)
    BY EmptySeq
  <2>2. burns \in Seq([amount : Nat \ {0}, status : {"in_progress", "completed", "failed"}])
    BY <2>1 DEF BurnType
  <2>3. purchases \in Nat /\ read \in 0..purchases /\ cur \in 0..Len(burns) /\ pc \in Places
    BY <1>1 DEF Places
  <2> HIDE DEF Init
  <2>4. /\ burnedRaw \in Nat /\ blocked \in BOOLEAN /\ final \in BOOLEAN /\ landedRaw \in Nat
        /\ lostRaw \in Nat
    BY DEF Init
  <2> QED BY <2>1, <2>2, <2>3, <2>4 DEF TypeOK
<1>3. RecordsMatchChain /\ OnlyLastOpen /\ PlaceOfBurn /\ Accounted
  BY <1>1 DEF RecordsMatchChain, OnlyLastOpen, PlaceOfBurn, Accounted, Uncounted, Unnoticed
<1>4. WithinShare
  BY <1>1, BurnOwedGrows DEF WithinShare, Undecided
<1> QED BY <1>2, <1>3, <1>4 DEF IInv

\* Reading and buying disturb nothing but what is owed.
LEMMA BuyerKeepsIInv ==
  ASSUME IInv, Buy \/ RefreshPurchaseTokens
  PROVE  IInv'
<1> USE DEF fileVars, procVars
<1>1. purchases \in Nat /\ purchases' \in Nat /\ purchases <= purchases'
  BY DEF Buy, RefreshPurchaseTokens, IInv, TypeOK
<1>2. TypeOK'
  BY <1>1 DEF Buy, RefreshPurchaseTokens, IInv, TypeOK
<1>3. UNCHANGED <<burns, burnedRaw, fate, pc, cur, landedRaw, lostRaw>>
  BY DEF Buy, RefreshPurchaseTokens
<1>4. RecordsMatchChain' /\ OnlyLastOpen' /\ PlaceOfBurn' /\ Accounted'
  BY <1>3 DEF IInv, RecordsMatchChain, OnlyLastOpen, PlaceOfBurn, Accounted, Uncounted,
              Unnoticed, Open
<1>5. WithinShare'
  <2>1. Undecided' = Undecided /\ Undecided \in Nat
    BY <1>3, SideBySide DEF Undecided, Open, IInv, BurnType
  <2>2. BurnOwed(purchases) \in Nat /\ BurnOwed(purchases') \in Nat
        /\ BurnOwed(purchases) <= BurnOwed(purchases')
    BY <1>1, BurnOwedGrows
  <2> QED BY <1>3, <2>1, <2>2 DEF IInv, TypeOK, WithinShare
<1> QED BY <1>2, <1>4, <1>5 DEF IInv

\* A transaction that lands moves its amount from what may yet be destroyed to
\* what is; one that fails or runs out of blocks takes it off.
LEMMA ChainKeepsIInv ==
  ASSUME IInv, NEW i \in DOMAIN fate, Land(i) \/ FailOnChain(i) \/ Expire(i)
  PROVE  IInv'
<1>1. i \in Open /\ i = Len(burns) /\ fate[i] \in {"signed", "flying"}
  BY UndecidedIsLast DEF Land, FailOnChain, Expire
<1>2. UNCHANGED <<purchases, read, burns, burnedRaw, blocked, pc, cur, final, lostRaw>>
  BY DEF Land, FailOnChain, Expire, fileVars, procVars
<1>3. PICK f \in {"landed", "failed", "gone"} :
        /\ fate' = [fate EXCEPT ![i] = f]
        /\ landedRaw' = landedRaw + (IF f = "landed" THEN burns[i].amount ELSE 0)
        /\ ~(i = cur /\ pc = "sending")
  BY <1>1 DEF Land, FailOnChain, Expire, fileVars, procVars, IInv, TypeOK, PlaceOfBurn
<1>4. /\ DOMAIN fate' = DOMAIN fate /\ fate'[i] = f
      /\ \A j \in DOMAIN fate : j # i => fate'[j] = fate[j]
  BY <1>3, SideBySide DEF IInv
<1>5. burns[i].amount \in Nat
  BY <1>1, SideBySide DEF IInv, Open, BurnType
<1>6. TypeOK'
  <2>1. fate' \in Seq(Fates) /\ Len(fate') = Len(fate)
    BY <1>3, ExceptSeq, SideBySide DEF IInv, TypeOK, Fates
  <2> QED BY <1>2, <1>3, <1>5, <2>1 DEF IInv, TypeOK
<1>7. RecordsMatchChain'
  BY <1>1, <1>2, <1>4, SideBySide DEF IInv, RecordsMatchChain, Open
<1>8. OnlyLastOpen' /\ Open' = Open
  BY <1>2 DEF IInv, OnlyLastOpen, Open
<1>9. PlaceOfBurn'
  BY <1>1, <1>2, <1>3, <1>4, <1>8, SideBySide DEF IInv, PlaceOfBurn, Open
<1>10. Accounted'
  <2>1. landedRaw \in Nat /\ burnedRaw \in Nat /\ lostRaw \in Nat /\ pc \notin {"counting_settled", "counting_sent"}
    BY <1>1 DEF IInv, TypeOK, PlaceOfBurn, Open
  <2> QED
    BY <1>1, <1>2, <1>3, <1>4, <1>5, <1>8, <2>1
       DEF IInv, TypeOK, PlaceOfBurn, Accounted, Uncounted, Unnoticed
<1>11. WithinShare'
  <2>1. BurnOwed(purchases) \in Nat /\ BurnOwed(purchases)' = BurnOwed(purchases)
    <3>1. purchases \in Nat /\ purchases' = purchases
      BY <1>2 DEF IInv, TypeOK
    <3>2. BurnOwed(purchases) \in Nat
      BY <3>1, BurnOwedGrows
    <3> QED
      BY <3>1, <3>2 DEF BurnOwed
  <2> QED BY <1>1, <1>2, <1>3, <1>4, <1>5, <1>8, <2>1
          DEF IInv, TypeOK, WithinShare, Undecided
<1> QED BY <1>6, <1>7, <1>8, <1>9, <1>10, <1>11 DEF IInv

\* A visit to the coin that begins, ends, gives up or dies changes no record.
LEMMA VisitKeepsIInv ==
  ASSUME IInv,
         \/ \E isFinal \in BOOLEAN : Visit(isFinal)
         \/ GiveUpVisit \/ NotConfirmed \/ Crash
         \/ \E code \in OtherCodes : RefusedOtherwise(code)
         \/ UNCHANGED vars
  PROVE  IInv'
<1> USE DEF Visit, GiveUpVisit, NotConfirmed, Crash, RefusedOtherwise, fileVars, vars
<1>1. UNCHANGED <<purchases, read, burns, burnedRaw, blocked, fate, cur, landedRaw>>
  OBVIOUS
<1>2. \/ UNCHANGED <<pc, lostRaw>>
      \/ /\ pc' \in {"idle", "settling"} /\ lostRaw' = lostRaw + Uncounted
  BY DEF IInv, TypeOK, PlaceOfBurn, Uncounted
<1>3. Uncounted \in Nat /\ Unnoticed \in Nat /\ Undecided \in Nat
  BY SideBySide DEF IInv, PlaceOfBurn, Uncounted, Unnoticed, Undecided, Open, BurnType
<1>4. TypeOK'
  <2>1. final' \in BOOLEAN /\ pc' \in Places
    BY DEF IInv, TypeOK, Places
  <2> QED BY <1>1, <1>2, <1>3, <2>1 DEF IInv, TypeOK
<1>5. Open' = Open /\ Unnoticed' = Unnoticed /\ Undecided' = Undecided
  BY <1>1 DEF Open, Unnoticed, Undecided
<1>6. RecordsMatchChain' /\ OnlyLastOpen'
  BY <1>1, <1>5 DEF IInv, RecordsMatchChain, OnlyLastOpen
<1>7. PlaceOfBurn'
  BY <1>1, <1>2, <1>5 DEF IInv, PlaceOfBurn
<1>8. Accounted'
  <2>1. burnedRaw \in Nat /\ lostRaw \in Nat /\ landedRaw = burnedRaw + lostRaw + Uncounted + Unnoticed
    BY DEF IInv, TypeOK, Accounted
  <2>2. CASE UNCHANGED <<pc, lostRaw>>
    <3>1. Uncounted' = Uncounted
      BY <1>1, <2>2 DEF Uncounted
    <3> QED
      BY <1>1, <1>5, <2>1, <2>2, <3>1 DEF Accounted
  <2>3. CASE pc' \in {"idle", "settling"} /\ lostRaw' = lostRaw + Uncounted
    <3>1. Uncounted' = 0
      BY <2>3 DEF Uncounted
    <3> QED
      BY <1>1, <1>3, <1>5, <2>1, <2>3, <3>1 DEF Accounted
  <2> QED
    BY <1>2, <2>2, <2>3
<1>9. WithinShare'
  <2>1. BurnOwed(purchases) \in Nat /\ BurnOwed(purchases)' = BurnOwed(purchases)
    <3>1. purchases \in Nat /\ purchases' = purchases
      BY <1>1 DEF IInv, TypeOK
    <3>2. BurnOwed(purchases) \in Nat
      BY <3>1, BurnOwedGrows
    <3> QED
      BY <3>1, <3>2 DEF BurnOwed
  <2> QED BY <1>1, <1>2, <1>3, <1>5, <2>1 DEF IInv, TypeOK, WithinShare
<1> QED BY <1>4, <1>6, <1>7, <1>8, <1>9 DEF IInv

\* A record is closed, once the chain has said what became of its transaction:
\* what that destroyed is from now on to be counted.
LEMMA ClosingKeepsIInv ==
  ASSUME IInv, NEW i \in Open, NEW status \in {"completed", "failed"},
         status = "completed" => fate[i] = "landed",
         status = "failed" => fate[i] \in {"failed", "gone"},
         burns' = [burns EXCEPT ![i].status = status],
         status = "completed" => cur' = i /\ pc' \in {"counting_settled", "counting_sent"},
         status = "failed" => cur' = cur /\ pc' \in {"settling", "idle"},
         pc \notin {"counting_settled", "counting_sent"},
         blocked' \in BOOLEAN,
         UNCHANGED <<purchases, read, burnedRaw, fate, final, landedRaw, lostRaw>>
  PROVE  IInv'
<1>1. i \in DOMAIN burns /\ i = Len(burns) /\ burns[i] \in BurnType
  BY SideBySide DEF IInv, OnlyLastOpen, Open
<1>2. /\ burns' \in Seq(BurnType) /\ Len(burns') = Len(burns) /\ DOMAIN burns' = DOMAIN burns
      /\ burns'[i].status = status /\ burns'[i].amount = burns[i].amount
      /\ \A j \in DOMAIN burns : j # i => burns'[j] = burns[j]
  <2> DEFINE closed == [burns[i] EXCEPT !.status = status]
  <2>1. closed \in BurnType /\ closed.status = status /\ closed.amount = burns[i].amount
    BY <1>1 DEF BurnType
  <2>2. burns' = [burns EXCEPT ![i] = closed]
    OBVIOUS
  <2>3. burns \in Seq(BurnType) /\ i \in 1..Len(burns)
    BY <1>1, SideBySide DEF IInv, TypeOK, BurnType
  <2> HIDE DEF closed
  <2> QED BY <2>1, <2>2, <2>3, ExceptSeq, SideBySide DEF IInv
<1>3. Open' = {}
  BY <1>1, <1>2 DEF IInv, OnlyLastOpen, Open
<1>4. TypeOK'
  BY <1>1, <1>2, SideBySide DEF IInv, TypeOK, BurnType, Places
<1>5. RecordsMatchChain'
  BY <1>1, <1>2 DEF IInv, RecordsMatchChain
<1>6. OnlyLastOpen' /\ PlaceOfBurn'
  BY <1>1, <1>2, <1>3 DEF OnlyLastOpen, PlaceOfBurn
<1>7. /\ Uncounted = 0 /\ Unnoticed' = 0 /\ Undecided' = 0 /\ Undecided = 0
      /\ Uncounted' = Unnoticed
  BY <1>1, <1>2, <1>3 DEF Uncounted, Unnoticed, Undecided
<1>8. Accounted' /\ WithinShare'
  <2>1. BurnOwed(purchases)' = BurnOwed(purchases)
    BY DEF BurnOwed
  <2>2. Unnoticed \in Nat
    BY <1>1 DEF Unnoticed, BurnType
  <2> QED BY <1>7, <2>1, <2>2 DEF IInv, TypeOK, Accounted, WithinShare
<1> QED BY <1>4, <1>5, <1>6, <1>8 DEF IInv

\* settlePending closes the open burn, or the visit waits for a node that can tell.
LEMMA SettleOneKeepsIInv ==
  ASSUME IInv, NEW i \in DOMAIN burns, NEW v \in {"landed", "failed", "absent", "unknown"},
         SettleOne(i, v)
  PROVE  IInv'
<1>1. CASE v = "unknown"
  <2>1. /\ pc = "settling" /\ pc' = "idle"
        /\ UNCHANGED <<purchases, read, burns, burnedRaw, blocked, fate, cur, final, landedRaw, lostRaw>>
    BY <1>1 DEF SettleOne
  <2>2. TypeOK'
    BY <2>1 DEF IInv, TypeOK, Places
  <2> QED
    BY <2>1, <2>2 DEF IInv, RecordsMatchChain, OnlyLastOpen, PlaceOfBurn, Accounted, WithinShare,
                      Uncounted, Unnoticed, Undecided, Open, BurnOwed
<1>2. CASE v # "unknown"
  <2>1. /\ i \in Open /\ pc = "settling"
        /\ v = "landed" => fate[i] = "landed"
        /\ v # "landed" => fate[i] \in {"failed", "gone"}
    BY <1>2, SideBySide DEF SettleOne, Verdicts, IInv, Fates
  <2> DEFINE status == IF v = "landed" THEN "completed" ELSE "failed"
  <2>2. /\ burns' = [burns EXCEPT ![i].status = status]
        /\ status = "completed" => cur' = i /\ pc' = "counting_settled"
        /\ status = "failed" => cur' = cur /\ pc' = pc
        /\ UNCHANGED <<purchases, read, burnedRaw, blocked, fate, final, landedRaw, lostRaw>>
    BY <1>2 DEF SettleOne
  <2>3. blocked' \in BOOLEAN
    BY <2>2 DEF IInv, TypeOK
  <2> QED BY <2>1, <2>2, <2>3, ClosingKeepsIInv
<1> QED BY <1>1, <1>2

\* A confirmed burn is closed; so is one the token program refused.
LEMMA AnswerKeepsIInv ==
  ASSUME IInv, Confirmed \/ \E code \in Structural \cup Liftable : Refused(code)
  PROVE  IInv'
<1>1. CASE Confirmed
  <2>1. cur \in Open /\ blocked \in BOOLEAN
    BY <1>1 DEF Confirmed, IInv, PlaceOfBurn, TypeOK
  <2> QED BY <1>1, <2>1, ClosingKeepsIInv DEF Confirmed
<1>2. CASE \E code \in Structural \cup Liftable : Refused(code)
  <2>1. cur \in Open /\ fate[cur] = "gone"
    BY <1>2 DEF Refused, IInv, PlaceOfBurn
  <2>2. blocked' \in BOOLEAN
    BY <1>2 DEF Refused, IInv, TypeOK
  <2> QED BY <1>2, <2>1, <2>2, ClosingKeepsIInv DEF Refused
<1> QED BY <1>1, <1>2

\* addBurned: what was to be counted is in the total.
LEMMA AddBurnedKeepsIInv ==
  ASSUME IInv, AddBurned
  PROVE  IInv'
<1> USE DEF AddBurned
<1>1. /\ burnedRaw' = burnedRaw + Uncounted /\ pc' \in {"settling", "idle"}
      /\ Open = {} /\ cur \in DOMAIN burns
  BY DEF Uncounted, IInv, PlaceOfBurn
<1>2. Uncounted \in Nat
  BY <1>1, SideBySide DEF IInv, Uncounted, BurnType
<1>3. TypeOK'
  BY <1>1, <1>2 DEF IInv, TypeOK, Places
<1>4. UNCHANGED <<purchases, burns, fate, cur, landedRaw, lostRaw>>
  BY DEF fileVars, procVars
<1>5. Open' = Open /\ Unnoticed' = Unnoticed /\ Undecided' = Undecided
  BY <1>4 DEF Open, Unnoticed, Undecided
<1>6. RecordsMatchChain' /\ OnlyLastOpen' /\ PlaceOfBurn'
  BY <1>1, <1>4, <1>5 DEF IInv, RecordsMatchChain, OnlyLastOpen, PlaceOfBurn
<1>7. burnedRaw \in Nat /\ lostRaw \in Nat /\ Uncounted' = 0
  BY <1>1 DEF IInv, TypeOK, Uncounted
<1>8. Unnoticed = 0 /\ Undecided = 0
  BY <1>1 DEF Unnoticed, Undecided
<1>9. Accounted' /\ WithinShare'
  BY <1>1, <1>2, <1>4, <1>5, <1>7, <1>8 DEF IInv, Accounted, WithinShare, BurnOwed
<1> QED
  BY <1>3, <1>6, <1>9 DEF IInv

\* A burn is signed only when every record is closed, and for no more than is
\* owed and not yet destroyed.
LEMMA SignBurnKeepsIInv ==
  ASSUME IInv, NEW balance \in Balances, SignBurn(balance)
  PROVE  IInv'
<1> DEFINE due == Capped(VisitDue, balance)
           n == Len(burns) + 1
           new == [amount |-> due, status |-> "in_progress"]
<1>1. /\ burnedRaw \in Nat /\ lostRaw \in Nat /\ landedRaw = burnedRaw + lostRaw
      /\ pc = "settling" /\ Open = {}
  BY DEF SignBurn, IInv, TypeOK, Accounted, Uncounted, Unnoticed
<1>2. BurnOwed(read) \in Nat /\ BurnOwed(purchases) \in Nat /\ BurnOwed(read) <= BurnOwed(purchases)
  BY BurnOwedGrows DEF IInv, TypeOK
<1>3. due \in Nat \ {0} /\ due <= BurnOwed(read) - burnedRaw
  <2>1. due > 0 /\ balance \in Nat \cup {None}
    BY BurnAssumption DEF SignBurn
  <2> QED BY <1>1, <1>2, <2>1 DEF Capped, VisitDue, Due
<1>4. new \in BurnType /\ "signed" \in Fates /\ new.amount = due /\ new.status = "in_progress"
  BY <1>3 DEF BurnType, Fates
<1>5. /\ burns' = Append(burns, new) /\ fate' = Append(fate, "signed")
      /\ cur' = n /\ pc' = "sending"
      /\ UNCHANGED <<purchases, read, burnedRaw, blocked, final, landedRaw, lostRaw>>
  BY DEF SignBurn
<1> HIDE DEF due, new
<1>6. /\ burns' \in Seq(BurnType) /\ Len(burns') = n /\ burns'[n] = new
      /\ fate' \in Seq(Fates) /\ Len(fate') = n /\ fate'[n] = "signed"
      /\ \A i \in DOMAIN burns : burns'[i] = burns[i] /\ fate'[i] = fate[i]
      /\ DOMAIN burns' = DOMAIN burns \cup {n} /\ n \notin DOMAIN burns /\ n \in Nat
  <2>1. burns \in Seq(BurnType) /\ fate \in Seq(Fates) /\ Len(fate) = Len(burns)
    BY DEF IInv, TypeOK, BurnType
  <2>2. DOMAIN burns = 1..Len(burns) /\ DOMAIN fate = 1..Len(burns) /\ Len(burns) \in Nat
    BY SideBySide DEF IInv
  <2> QED BY <1>4, <1>5, <2>1, <2>2, AppendProperties, LenProperties
<1>7. Open' = {n}
  BY <1>1, <1>4, <1>6 DEF Open
<1>8. TypeOK'
  BY <1>5, <1>6 DEF IInv, TypeOK, BurnType, Places
<1>9. RecordsMatchChain' /\ OnlyLastOpen' /\ PlaceOfBurn'
  BY <1>4, <1>5, <1>6, <1>7 DEF IInv, RecordsMatchChain, OnlyLastOpen, PlaceOfBurn
<1>10. Uncounted' = 0 /\ Unnoticed' = 0 /\ Undecided' = due
  BY <1>4, <1>5, <1>6, <1>7 DEF Uncounted, Unnoticed, Undecided
<1>11. Accounted' /\ WithinShare'
  <2>1. BurnOwed(purchases)' = BurnOwed(purchases)
    BY <1>5 DEF BurnOwed
  <2>2. burnedRaw' = burnedRaw /\ lostRaw' = lostRaw /\ landedRaw' = landedRaw
    BY <1>5
  <2> QED BY <1>1, <1>2, <1>3, <1>10, <2>1, <2>2 DEF Accounted, WithinShare
<1> QED BY <1>8, <1>9, <1>11 DEF IInv

\* The node takes the burn, or nobody ever will.
LEMMA SendRawKeepsIInv ==
  ASSUME IInv, SendRaw
  PROVE  IInv'
<1>1. /\ cur \in DOMAIN fate /\ cur = Len(burns) /\ cur \in Open /\ fate[cur] = "signed"
      /\ pc = "sending"
  BY SideBySide DEF SendRaw, IInv, PlaceOfBurn, Open
<1>2. PICK f \in {"signed", "flying", "gone"} :
        /\ fate' = [fate EXCEPT ![cur] = f]
        /\ pc' \in {"idle", "confirming", "refused"} /\ (pc' = "refused" => f = "gone")
        /\ UNCHANGED <<purchases, read, burns, burnedRaw, blocked, cur, final, landedRaw, lostRaw>>
  <2>1. fate = [fate EXCEPT ![cur] = "signed"]
    BY <1>1, SideBySide DEF IInv, TypeOK
  <2> QED BY <2>1 DEF SendRaw, fileVars
<1>3. /\ DOMAIN fate' = DOMAIN fate /\ fate'[cur] = f
      /\ \A j \in DOMAIN fate : j # cur => fate'[j] = fate[j]
  BY <1>1, <1>2, SideBySide DEF IInv
<1>4. TypeOK'
  <2>1. fate' \in Seq(Fates) /\ Len(fate') = Len(fate)
    BY <1>1, <1>2, ExceptSeq, SideBySide DEF IInv, TypeOK, Fates
  <2> QED BY <1>2, <2>1 DEF IInv, TypeOK, Places
<1>5. RecordsMatchChain' /\ OnlyLastOpen' /\ PlaceOfBurn'
  BY <1>1, <1>2, <1>3, SideBySide DEF IInv, RecordsMatchChain, OnlyLastOpen, PlaceOfBurn, Open
<1>6. burns[cur].amount \in Nat
  BY <1>1, SideBySide DEF IInv, Open, BurnType
<1>7. Accounted' /\ WithinShare'
  <2>1. BurnOwed(purchases)' = BurnOwed(purchases) /\ BurnOwed(purchases) \in Nat
    BY <1>2, BurnOwedGrows DEF BurnOwed, IInv, TypeOK
  <2> QED BY <1>1, <1>2, <1>3, <1>6, <2>1
          DEF IInv, TypeOK, Accounted, WithinShare, Uncounted, Unnoticed, Undecided, Open
<1> QED BY <1>4, <1>5, <1>7 DEF IInv
-----------------------------------------------------------------------------
(* The theorems.                                                           *)

\* Every step of the coin's burning keeps the invariant.
LEMMA NextIInv == IInv /\ [Next]_vars => IInv'
<1> SUFFICES ASSUME IInv, [Next]_vars PROVE IInv'
  OBVIOUS
<1>1. CASE Buy \/ RefreshPurchaseTokens
  BY <1>1, BuyerKeepsIInv
<1>2. CASE Chain
  BY <1>2, ChainKeepsIInv DEF Chain
<1>3. CASE BurnDueFor
  <2>1. CASE \E isFinal \in BOOLEAN : Visit(isFinal)
    BY <2>1, VisitKeepsIInv
  <2>2. CASE \E i \in DOMAIN burns, v \in {"landed", "failed", "absent", "unknown"} : SettleOne(i, v)
    BY <2>2, SettleOneKeepsIInv
  <2>3. CASE AddBurned
    BY <2>3, AddBurnedKeepsIInv
  <2>4. CASE \E b \in Balances : SignBurn(b)
    BY <2>4, SignBurnKeepsIInv
  <2>5. CASE SendRaw
    BY <2>5, SendRawKeepsIInv
  <2>6. CASE Confirmed \/ \E code \in Structural \cup Liftable : Refused(code)
    BY <2>6, AnswerKeepsIInv
  <2>7. CASE GiveUpVisit \/ NotConfirmed \/ \E code \in OtherCodes : RefusedOtherwise(code)
    BY <2>7, VisitKeepsIInv
  <2> QED BY <1>3, <2>1, <2>2, <2>3, <2>4, <2>5, <2>6, <2>7 DEF BurnDueFor
<1>4. CASE Crash \/ UNCHANGED vars
  BY <1>4, VisitKeepsIInv
<1> QED BY <1>1, <1>2, <1>3, <1>4 DEF Next

\* The inductive invariant holds in every state the buyer, its state file and the
\* chain can reach.
THEOREM Invariance == Spec => []IInv
BY InitIInv, NextIInv, PTL DEF Spec

\* The state file, the process and the chain keep their types.
THEOREM TypeCorrect == Spec => []TypeOK
<1>1. IInv => TypeOK
  BY DEF IInv
<1> QED BY Invariance, <1>1, PTL

\* At most one burn of a coin is undecided, through timeouts, unreadable
\* statuses and restarts (burns.ts:22): settlePending leaves no other open.
THEOREM NoTwoUndecided == Spec => []OneUndecidedBurn
<1>1. IInv => OneUndecidedBurn
  BY UndecidedIsLast DEF OneUndecidedBurn
<1> QED BY Invariance, <1>1, PTL

\* No record is closed against what the chain did (settlePending, burnDueFor).
THEOREM RecordsAreTrue == Spec => []RecordsMatchChain
<1>1. IInv => RecordsMatchChain
  BY DEF IInv
<1> QED BY Invariance, <1>1, PTL

\* Every token destroyed is in the total or at its burn, or was lost by a death
\* between updateBurn and addBurned (burns.ts:280, 286); and no more than the
\* share of what was bought is destroyed, but for what such deaths lost.
THEOREM EveryTokenAccounted == Spec => []DestroyedIsAccounted
<1>1. IInv => DestroyedIsAccounted
  <2> SUFFICES ASSUME IInv PROVE DestroyedIsAccounted
    OBVIOUS
  <2> DEFINE noticed == IF \E i \in Open : fate[i] = "landed"
                        THEN burns[CHOOSE i \in Open : fate[i] = "landed"].amount ELSE 0
  <2>1. noticed = Unnoticed
    BY DEF Unnoticed, IInv, OnlyLastOpen
  <2>2. Undecided \in Nat
    BY SideBySide DEF Undecided, Open, IInv, BurnType
  <2>3. BurnOwed(purchases) \in Nat
    BY BurnOwedGrows DEF IInv, TypeOK
  <2>4. landedRaw \in Nat /\ lostRaw \in Nat /\ Accounted /\ WithinShare
    BY DEF IInv, TypeOK
  <2> HIDE DEF noticed
  <2>5. landedRaw = burnedRaw + lostRaw + Uncounted + noticed
    BY <2>1, <2>4 DEF Accounted
  <2>6. landedRaw <= BurnOwed(purchases) + lostRaw
    BY <2>2, <2>3, <2>4 DEF WithinShare
  <2> QED BY <2>5, <2>6 DEF Uncounted, DestroyedIsAccounted, noticed
<1> QED BY Invariance, <1>1, PTL
=============================================================================
