---------------------------- MODULE MCBurnLedger ----------------------------
(***************************************************************************)
(* Two purchases of five tokens, three fifths of which are to be burned,   *)
(* and up to three burns: room for a first burn, a repeated one and one    *)
(* that follows a partial burn under a short balance.                      *)
(*                                                                         *)
(* Before them, where the share comes from: rounds of up to three commits  *)
(* of two wallets, with no memo, one, two, and one the site does not       *)
(* offer.  And where the purchases come from: one purchase record with up  *)
(* to two attempts that landed or not, and a node that lags; a delivery    *)
(* that was tried twice and a burn.  After them, what the verification     *)
(* window says of a burn, over every small supply.                         *)
(***************************************************************************)
EXTENDS BurnLedger, RoundRequest, RoundBooks

MCBalances == {None, 0, 2, 10}

Bets(lamports, memos) ==
  [wallet : {"w1", "w2"}, lamports : lamports, memos : memos]
Memos == {MemoFor(c) : c \in BurnChoices}
Rounds ==
  UNION {[1..n -> Bets({5, 14, 100}, Memos \cup {<<3333>>, <<2500, 10000>>})] : n \in 1..2}
    \cup [1..3 -> Bets({14, 100}, Memos)]

ASSUME BackendIsAlwaysHeard == \A bets \in Rounds : BackendIsHeard(bets)
ASSUME EverybodyIsServedAsSigned == \A bets \in Rounds : ServedAsSigned(bets)
ASSUME ChoicesAreOnesOwn ==
  \A bets \in [1..2 -> Bets({5, 14}, Memos)], bought \in {1, 7, 1000} :
    ChoiceIsOnesOwn(bought, bets)
ASSUME NothingIsEverOversold ==
  \A bets \in Rounds, bought \in {1, 7, 100} : NothingIsOversold(bought, bets)
ASSUME LeftOutIsWhoBurnsAll ==
  \A bets \in [1..2 -> Bets({1, 2}, Memos \cup {<<1>>, <<9999>>})] : LeftOutGetsNothing(bets)
ASSUME ChipsTellTheBurn ==
  \A n \in 1..2 : \A bets \in [1..n -> Bets({4, 400}, Memos)] : ChipTellsTheBurn(bets)
ASSUME OldRoundsKeepTheirShares == \A bets \in Rounds : OldRoundKeepsItsShares(bets)
ASSUME BurnsAreParts ==
  \A r \in [wallet : {"w1"}, amount : 0..3, lamports : {Absent} \cup 0..40, garbled : BOOLEAN,
             bps : {Absent, 0, 49, 50, 333333, 499950, 1000000, 1000001},
             weight : {Absent, 0, 1, 50000, 99999, 100000, 100001, 200000}] :
    BurnIsAPart(r)

Partial(S, values) == UNION {[part -> values] : part \in SUBSET S}
\* A purchase that completed has its signature; one that was given up has none.
OnePurchase ==
  {p \in [status : {"completed", "abandoned"}, signature : {Unsigned, "s1"}, pending : {Unsigned, "s2"},
          sentAttempts : SUBSET {[signature |-> "s1", at |-> 0], [signature |-> "s2", at |-> 2]},
          updatedAt : {2}] : (p.status = "completed") <=> (p.signature = "s1")}
Answers(deltas) ==
  [found : {TRUE}, delta : deltas] \cup [found : {FALSE}, delta : {0}]

ASSUME NoPurchaseIsWrittenOff ==
  \A p \in OnePurchase, now \in 0..5, chain \in Partial({"s1", "s2"}, [at : 0..3, delta : {3}]) :
    /\ AuditAgreesWithBuyer([purchases |-> <<p>>, sends |-> {}, burns |-> {}], chain, now)
    /\ \A effects \in Partial({"s1", "s2"}, Answers({3})) :
         NothingIsWrittenOff(<<p>>, chain, <<>>, effects, now)

Mentioned(p, send, burn) ==
  {p.signature, p.pending, send.signature, send.pending, burn.signature, burn.pending} \cup send.failed
    \cup {a.signature : a \in p.sentAttempts}
ASSUME AuditIsRight ==
  \A p \in OnePurchase,
     send \in [signature : {Unsigned, "d1"}, pending : {Unsigned, "d2"}, failed : {{}, {"d3"}}],
     burn \in [signature : {Unsigned, "b1"}, pending : {Unsigned, "b2"}] :
    LET delta(s) == IF s \in {"s1", "s2"} THEN 7 ELSE -2
        known    == Mentioned(p, send, burn) \ {Unsigned}
    IN \A landed \in SUBSET known, unread \in {{}} \cup {{s} : s \in known} :
         StrandedIsLeft([purchases |-> <<p>>, sends |-> {send}, burns |-> {burn}],
                        [s \in landed |-> [at |-> 0, delta |-> delta(s)]],
                        [s \in known \ unread |->
                           IF s \in landed THEN [found |-> TRUE, delta |-> delta(s)]
                           ELSE [found |-> FALSE, delta |-> 0]], 4, 1)

BurnAnswers == [result : {"burned", "waiting", "blocked", "nothing"}, unread : BOOLEAN]

ASSUME UnfinishedBurnsAreTold ==
  /\ \A answers \in [1..2 -> [{"a", "b"} -> BurnAnswers]], mints \in SUBSET {"a", "b"} :
       UnfinishedIsTold(mints, answers)
  /\ LastVisitKnows(90)

ASSUME KeeperIsRead ==
  \A before, after \in 0..2, other \in BOOLEAN :
    LET rows(n) == (IF n = 0 THEN <<>> ELSE <<[owner |-> "keeper", mint |-> "coin", amount |-> n]>>)
                     \o (IF other THEN <<[owner |-> "pool", mint |-> "coin", amount |-> 9 - n],
                                        [owner |-> "keeper", mint |-> "wsol", amount |-> n]>> ELSE <<>>)
    IN EffectOf([missing |-> FALSE, pre |-> rows(before), post |-> rows(after)], "coin").delta
         = after - before

Window == INSTANCE BurnView

Supplies == {Window!Null} \cup 0..3
Shown == [burned : {Window!Null} \cup 0..3, owed : {Window!Null} \cup 0..3, supplyStart : Supplies,
          supplyEnd : Supplies, blocked : BOOLEAN, final : BOOLEAN]

ASSUME WindowClaimsNoMore ==
  /\ \A world \in [recorded : 0..3, lost : 0..2, others : 0..2, minted : 0..4], owed \in 0..3 :
       /\ Window!NobodyIsBlamed(world, 10, owed)
       /\ Window!QuietRoundIsExact(world, 10, owed)
  /\ \A burn \in Shown : Window!WellMeansWhole(burn) /\ Window!FuseBurnsOn(burn, 1)

ASSUME AmountsAreReadable ==
  /\ \A value \in {0, 1, 999, 1000, 1049, 1050, 9949, 999949, 999950, 999999, 1000000, 52313440,
                   999949999, 999950000, 1000000000, 1995000000} : Window!CompactIsClose(value)
  /\ \A raw \in {Window!Null} \cup 0..30 \cup {999, 1000, 1001}, decimals \in {0, 1, 3} :
       Window!ExactIsNoMore(raw, decimals)
=============================================================================
