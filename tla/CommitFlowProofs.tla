-------------------------- MODULE CommitFlowProofs --------------------------
(***************************************************************************)
(* Proofs about the commit dialog: the coin it offers is the coin in the   *)
(* field, a burn goes with the coin it was chosen for, and a transaction   *)
(* that went out is reported to the page but in three cases.               *)
(***************************************************************************)
EXTENDS CommitFlow, FiniteSetTheorems, TLAPS

-----------------------------------------------------------------------------
(* The inductive invariant.                                                *)

\* What the pause holds back is what the field shows, or that it was cleared
\* before a coin was picked.
PauseFits == paused = {} \/ paused = {field} \/ paused = {NoMint}

\* Requests are about coins and none is newer than the last check; unless a newer
\* value waits out the pause, the last check is about the field.
ChecksFit ==
  \A check \in checks :
    /\ check.id <= checkId
    /\ check.mint \in Coins
    /\ Heeded(check) /\ paused \subseteq {NoMint} => check.mint = field

\* A coin on offer is the field's, but while a newer value waits or is asked about.
CoinFits ==
  coin.kind = "ready" =>
    /\ coin.mint \in Coins
    /\ paused = {NoMint} => coin.mint = field
    /\ paused = {} => coin.mint = field \/ \E check \in checks : Heeded(check)

\* Attempts begin in order, and a dialog that sends has one under way.
AttemptsFit ==
  /\ \A a \in Attempts : a > attempt <=> At(a, "unused")
  /\ \A a \in Attempts : a >= attempt => replacedAt[a] = "never"
  /\ send = "idle" => attempt = 0 \/ At(attempt, "done")

\* A transaction is out only from its broadcast on; a replaced attempt broadcasts
\* only if it already did when it was replaced.
ChainFits ==
  \A a \in Attempts :
    /\ chain[a] # "none" => At(a, "broadcast") \/ At(a, "done")
    /\ a < attempt /\ At(a, "broadcast") => replacedAt[a] = "broadcast"

\* A wallet that sends by itself is never offered a second attempt, so that none of
\* its attempts is replaced; any other wallet leaves the sending to the page.
SenderFits ==
  /\ \A a \in Attempts : At(a, "wallet sends") => wallet.name = Sender
  /\ wallet.name = Sender =>
       /\ hint # "retry"
       /\ \A t \in timer : ~t.retryable
       /\ \A a \in Attempts : a < attempt => At(a, "done")
       /\ \A a \in Attempts : ~At(a, "trust") /\ ~At(a, "reconnect")

\* A dialog closes with nothing under way, and the page is told once.
DialogFits ==
  /\ dialog = "closed" => send = "idle"
  /\ dialog = "open" => sent = 0

FieldInv == FieldTypeOK /\ PauseFits /\ ChecksFit /\ CoinFits /\ BurnGoesWithCoin
FlowInv == AttemptsFit /\ ChainFits /\ SenderFits /\ DialogFits /\ SentIsReported
IInv == TypeOK /\ FieldInv /\ FlowInv

-----------------------------------------------------------------------------
(* The field.                                                              *)

\* No coin is the empty value, and a burn of nothing is among the choices.
LEMMA Values ==
  /\ \A m \in Coins : m # NoMint /\ m \notin Junk
  /\ \A m \in Junk : m # NoMint
  /\ Listed \subseteq Coins /\ Burnable \subseteq Coins
  /\ 0 \in Burns /\ MaxEdits \in Nat /\ MaxAttempts \in Nat
BY FieldAssumption, FlowAssumption

\* A set that is empty or holds one thing has at most one.
LEMMA OneValue == \A S, v : S = {} \/ S = {v} => Cardinality(S) <= 1
<1> SUFFICES ASSUME NEW S, NEW v, S = {} \/ S = {v} PROVE Cardinality(S) <= 1
  OBVIOUS
<1>1. Cardinality({v}) = 1 /\ Cardinality({}) = 0
  BY FS_Singleton, FS_EmptySet
<1> QED
  BY <1>1

\* What a check is at its beginning: an empty value only counts, a known coin is
\* shown, junk is refused, any other coin is asked about.
LEMMA CheckBegins ==
  ASSUME FieldTypeOK, NEW value \in Typed \cup {NoMint}, NEW meanwhile,
         BeginCheck(value, meanwhile)
  PROVE  /\ checkId' = checkId + 1 /\ checkId \in Nat
         /\ \/ value = NoMint /\ coin' = meanwhile /\ burn' = burn /\ checks' = checks
            \/ /\ value \in Coins /\ coin' = Shown("ready", value) /\ checks' = checks
               /\ burn' = (IF value \in Burnable THEN burn ELSE 0)
            \/ /\ value \in Junk /\ coin' = Shown("error", NoMint)
               /\ burn' = burn /\ checks' = checks
            \/ /\ value \in Coins /\ coin' = meanwhile /\ burn' = burn
               /\ checks' = checks \cup {Asked(checkId + 1, value, signedIn')}
<1>t. checkId \in Nat /\ known \subseteq Coins
  BY DEF FieldTypeOK
<1>i. checkId' = checkId + 1
  BY DEF BeginCheck
<1>1. CASE value = NoMint
  BY <1>1, <1>i, <1>t, Values DEF BeginCheck
<1>2. CASE value # NoMint /\ value \in known
  BY <1>2, <1>i, <1>t, Values DEF BeginCheck, Found
<1>3. CASE value # NoMint /\ value \notin known /\ value \in Junk
  BY <1>3, <1>i, <1>t DEF BeginCheck
<1>4. CASE value # NoMint /\ value \notin known /\ value \notin Junk
  BY <1>4, <1>i, <1>t DEF BeginCheck, Typed
<1> QED
  BY <1>1, <1>2, <1>3, <1>4

\* After a check of the field's value nothing older is heeded and what is shown is
\* the field's; with an empty value, what was shown stays.
LEMMA CheckKeepsField ==
  ASSUME FieldInv, NEW value \in Typed \cup {NoMint}, NEW meanwhile,
         BeginCheck(value, meanwhile),
         meanwhile \in [kind : Kinds, mint : Coins \cup {NoMint}],
         field' \in Typed \cup {NoMint}, known' = known,
         signedIn' \in BOOLEAN, poolOpen' \in BOOLEAN, edits' \in 0..MaxEdits,
         value # NoMint => value = field',
         paused' = {} \/ paused' = {NoMint} \/ paused' = {field'},
         meanwhile.kind = "ready" => meanwhile = coin /\ paused' = {},
         meanwhile.kind = "ready" /\ value = NoMint => coin.mint = field'
  PROVE  FieldInv'
<1> USE Values, OneValue DEF FieldInv
<1>b. /\ checkId' = checkId + 1 /\ checkId \in Nat
      /\ \/ value = NoMint /\ coin' = meanwhile /\ burn' = burn /\ checks' = checks
         \/ /\ value \in Coins /\ coin' = Shown("ready", value) /\ checks' = checks
            /\ burn' = (IF value \in Burnable THEN burn ELSE 0)
         \/ /\ value \in Junk /\ coin' = Shown("error", NoMint)
            /\ burn' = burn /\ checks' = checks
         \/ /\ value \in Coins /\ coin' = meanwhile /\ burn' = burn
            /\ checks' = checks \cup {Asked(checkId + 1, value, signedIn')}
  BY CheckBegins
<1>c. /\ coin' \in [kind : Kinds, mint : Coins \cup {NoMint}]
      /\ burn' \in Burns
      /\ coin \in [kind : Kinds, mint : Coins \cup {NoMint}]
  BY <1>b DEF FieldTypeOK, Shown, Kinds
<1>d. checks' \subseteq [id : Nat, mint : Typed, byAccount : BOOLEAN]
  BY <1>b DEF FieldTypeOK, Typed, Asked
<1>1. FieldTypeOK'
  <2>1. paused' \subseteq Typed \cup {NoMint}
    OBVIOUS
  <2>2. Cardinality(paused') <= 1
    BY OneValue
  <2> QED
    BY <2>1, <2>2, <1>b, <1>c, <1>d DEF FieldTypeOK
<1>2. PauseFits'
  BY DEF PauseFits
<1>3. ChecksFit'
  <2> SUFFICES ASSUME NEW check \in checks'
               PROVE  /\ check.id <= checkId' /\ check.mint \in Coins
                      /\ check.id = checkId' => check.mint = field'
    BY DEF ChecksFit, Heeded
  <2>1. CASE check \in checks
    <3>1. check.id \in Nat /\ check.id <= checkId /\ check.mint \in Coins
      BY <2>1 DEF ChecksFit, FieldTypeOK
    <3> QED
      BY <3>1, <1>b
  <2>2. CASE check = Asked(checkId + 1, value, signedIn') /\ value \in Coins
    BY <2>2, <1>b DEF Asked
  <2> QED
    BY <2>1, <2>2, <1>b
<1>4. CoinFits'
  <2> SUFFICES ASSUME coin'.kind = "ready"
               PROVE  /\ coin'.mint \in Coins
                      /\ paused' = {NoMint} => coin'.mint = field'
                      /\ paused' = {} => \/ coin'.mint = field'
                                         \/ \E check \in checks' : check.id = checkId'
    BY DEF CoinFits, Heeded
  <2>1. CASE value = NoMint /\ coin' = meanwhile /\ checks' = checks
    BY <2>1 DEF CoinFits
  <2>2. CASE value \in Coins /\ coin' = Shown("ready", value)
    BY <2>2 DEF Shown
  <2>3. CASE coin' = Shown("error", NoMint)
    BY <2>3 DEF Shown
  <2>4. CASE /\ value \in Coins /\ coin' = meanwhile
             /\ checks' = checks \cup {Asked(checkId + 1, value, signedIn')}
    <3>1. meanwhile = coin /\ paused' = {} /\ coin.mint \in Coins
      BY <2>4 DEF CoinFits
    <3>2. Asked(checkId + 1, value, signedIn') \in checks'
      BY <2>4
    <3> QED
      BY <2>4, <3>1, <3>2, <1>b DEF Asked
  <2> QED
    BY <2>1, <2>2, <2>3, <2>4, <1>b
<1>5. BurnGoesWithCoin'
  <2> SUFFICES ASSUME coin'.kind = "ready", coin'.mint \in Coins \ Burnable
               PROVE  burn' = 0
    BY DEF BurnGoesWithCoin, ReadyCoin
  <2>1. CASE coin' = meanwhile /\ burn' = burn
    BY <2>1 DEF BurnGoesWithCoin, ReadyCoin
  <2>2. CASE coin' = Shown("ready", value) /\ burn' = (IF value \in Burnable THEN burn ELSE 0)
    BY <2>2 DEF Shown
  <2> QED
    BY <2>1, <2>2, <1>b DEF Shown
<1> QED
  BY <1>1, <1>2, <1>3, <1>4, <1>5

\* Nothing the person does to the field breaks its invariant.
LEMMA EditsKeepField == FieldInv /\ FieldEdits => FieldInv'
<1> USE Values, OneValue
<1>1. ASSUME FieldInv, NEW value \in Typed \cup {NoMint}, TypeMint(value) PROVE FieldInv'
  <2>s. /\ field' = value /\ paused' = {value} /\ checks' = checks /\ known' = known
        /\ coin' = [kind |-> IF value = NoMint THEN "empty" ELSE "checking", mint |-> NoMint]
        /\ checkId' = (IF value = NoMint THEN checkId + 1 ELSE checkId)
        /\ signedIn' = signedIn /\ poolOpen' = poolOpen /\ burn' = burn
        /\ edits < MaxEdits /\ edits' = edits + 1
    BY <1>1 DEF TypeMint, Edit, Shown
  <2>1. FieldTypeOK'
    <3>1. paused' \subseteq Typed \cup {NoMint} /\ Cardinality(paused') <= 1
      BY <2>s
    <3> QED
      BY <2>s, <3>1, <1>1 DEF FieldInv, FieldTypeOK, Kinds
  <2>2. PauseFits'
    BY <2>s DEF PauseFits
  <2>3. ChecksFit'
    <3> SUFFICES ASSUME NEW check \in checks
                 PROVE  /\ check.id <= checkId' /\ check.mint \in Coins
                        /\ check.id = checkId' /\ paused' \subseteq {NoMint} =>
                             check.mint = field'
      BY <2>s DEF ChecksFit, Heeded
    <3>1. check.id \in Nat /\ checkId \in Nat /\ check.id <= checkId /\ check.mint \in Coins
      BY <1>1 DEF FieldInv, ChecksFit, FieldTypeOK
    <3> QED
      BY <3>1, <2>s DEF Typed
  <2>4. CoinFits' /\ BurnGoesWithCoin'
    BY <2>s DEF CoinFits, BurnGoesWithCoin, ReadyCoin
  <2> QED
    BY <2>1, <2>2, <2>3, <2>4 DEF FieldInv
<1>2. ASSUME FieldInv, NEW mint \in Listed, PickCoin(mint) PROVE FieldInv'
  <2>s. /\ field = NoMint /\ field' = mint /\ mint \in Typed
        /\ paused' = paused /\ known' = known /\ signedIn' = signedIn /\ poolOpen' = poolOpen
        /\ edits < MaxEdits /\ edits' = edits + 1
        /\ BeginCheck(mint, Shown("checking", NoMint))
    BY <1>2 DEF PickCoin, Edit, Typed
  <2>1. paused = {} \/ paused = {NoMint}
    BY <1>2, <2>s DEF FieldInv, PauseFits
  <2>2. /\ edits' \in 0..MaxEdits /\ signedIn \in BOOLEAN /\ poolOpen \in BOOLEAN
        /\ FieldTypeOK
    BY <1>2, <2>s DEF FieldInv, FieldTypeOK
  <2>3. /\ Shown("checking", NoMint) \in [kind : Kinds, mint : Coins \cup {NoMint}]
        /\ Shown("checking", NoMint).kind # "ready"
    BY DEF Shown, Kinds
  <2> QED
    BY <1>2, <2>s, <2>1, <2>2, <2>3, CheckKeepsField
<1>3. ASSUME FieldInv, NEW choice \in Burns, SelectBurn(choice) PROVE FieldInv'
  <2>s. /\ UNCHANGED <<field, coin, checkId, paused, checks, known, signedIn, poolOpen>>
        /\ burn' = choice /\ ReadyCoin \in Burnable
        /\ edits < MaxEdits /\ edits' = edits + 1
    BY <1>3 DEF SelectBurn, Edit, BurnOffered
  <2>1. FieldTypeOK'
    BY <1>3, <2>s DEF FieldInv, FieldTypeOK
  <2>2. PauseFits' /\ ChecksFit' /\ CoinFits'
    BY <1>3, <2>s DEF FieldInv, PauseFits, ChecksFit, CoinFits, Heeded
  <2>3. BurnGoesWithCoin'
    BY <2>s DEF BurnGoesWithCoin, ReadyCoin
  <2> QED
    BY <2>1, <2>2, <2>3 DEF FieldInv
<1> QED
  BY <1>1, <1>2, <1>3 DEF FieldEdits

\* Nor does what happens to it: the pause, the answers, the session, the pool.
LEMMA EventsKeepField == FieldInv /\ FieldEvents => FieldInv'
<1> USE Values, OneValue
<1>1. ASSUME FieldInv, PauseOver PROVE FieldInv'
  <2> PICK value \in paused : BeginCheck(value, coin)
    BY <1>1 DEF PauseOver
  <2>s. /\ paused' = {} /\ field' = field /\ known' = known /\ signedIn' = signedIn
        /\ poolOpen' = poolOpen /\ edits' = edits
    BY <1>1 DEF PauseOver
  <2>1. /\ FieldTypeOK /\ PauseFits /\ CoinFits /\ paused = {value}
        /\ field \in Typed \cup {NoMint} /\ signedIn \in BOOLEAN /\ poolOpen \in BOOLEAN
        /\ edits \in 0..MaxEdits /\ value \in Typed \cup {NoMint}
        /\ coin \in [kind : Kinds, mint : Coins \cup {NoMint}]
    BY <1>1 DEF FieldInv, FieldTypeOK, PauseFits
  <2>2. value # NoMint => value = field
    BY <2>1 DEF PauseFits
  <2>3. coin.kind = "ready" /\ value = NoMint => coin.mint = field
    BY <2>1 DEF CoinFits
  <2> QED
    BY <1>1, <2>s, <2>1, <2>2, <2>3, CheckKeepsField
<1>2. ASSUME FieldInv, NEW check \in checks, CheckAnswers(check) PROVE FieldInv'
  <2>s. /\ checks' = checks \ {check}
        /\ UNCHANGED <<field, checkId, paused, signedIn, poolOpen, edits>>
    BY <1>2 DEF CheckAnswers
  <2>t. /\ check \in [id : Nat, mint : Typed, byAccount : BOOLEAN] /\ check.mint \in Coins
        /\ Heeded(check) /\ paused \subseteq {NoMint} => check.mint = field
        /\ coin \in [kind : Kinds, mint : Coins \cup {NoMint}] /\ burn \in Burns
        /\ known \subseteq Coins /\ checkId \in Nat
    BY <1>2 DEF FieldInv, FieldTypeOK, ChecksFit
  <2>a. \/ /\ Heeded(check) /\ known' = known \cup {check.mint}
           /\ coin' = Shown("ready", check.mint)
           /\ burn' = (IF check.mint \in Burnable THEN burn ELSE 0)
        \/ /\ ~Heeded(check) /\ coin' = coin /\ burn' = burn
           /\ known' \in {known, known \cup {check.mint}}
        \/ /\ coin' \in {Shown("error", NoMint), Shown("signin", NoMint)}
           /\ known' = known /\ burn' = burn
    BY <1>2 DEF CheckAnswers, Found
  <2>1. FieldTypeOK'
    <3>1. coin' \in [kind : Kinds, mint : Coins \cup {NoMint}]
      BY <2>a, <2>t DEF Shown, Kinds
    <3>2. burn' \in Burns /\ known' \subseteq Coins
      BY <2>a, <2>t
    <3> QED
      BY <1>2, <2>s, <3>1, <3>2 DEF FieldInv, FieldTypeOK
  <2>2. PauseFits' /\ ChecksFit'
    BY <1>2, <2>s DEF FieldInv, PauseFits, ChecksFit, Heeded
  <2>3. CoinFits'
    <3> SUFFICES ASSUME coin'.kind = "ready"
                 PROVE  /\ coin'.mint \in Coins
                        /\ paused = {NoMint} => coin'.mint = field
                        /\ paused = {} => \/ coin'.mint = field
                                          \/ \E c \in checks \ {check} : c.id = checkId
      BY <2>s DEF CoinFits, Heeded
    <3>1. CASE Heeded(check) /\ coin' = Shown("ready", check.mint)
      BY <3>1, <2>t DEF Shown
    <3>2. CASE ~Heeded(check) /\ coin' = coin
      BY <3>2, <1>2 DEF FieldInv, CoinFits, Heeded
    <3> QED
      BY <3>1, <3>2, <2>a DEF Shown
  <2>4. BurnGoesWithCoin'
    <3> SUFFICES ASSUME coin'.kind = "ready", coin'.mint \in Coins \ Burnable
                 PROVE  burn' = 0
      BY DEF BurnGoesWithCoin, ReadyCoin
    <3>1. CASE coin' = coin /\ burn' = burn
      BY <3>1, <1>2 DEF FieldInv, BurnGoesWithCoin, ReadyCoin
    <3> QED
      BY <3>1, <2>a DEF Shown
  <2> QED
    BY <2>1, <2>2, <2>3, <2>4 DEF FieldInv
<1>3. ASSUME FieldInv, SessionChanges PROVE FieldInv'
  <2>s. /\ edits < MaxEdits /\ edits' = edits + 1 /\ signedIn' = ~signedIn
        /\ field' = field /\ paused' = paused /\ known' = known /\ poolOpen' = poolOpen
    BY <1>3 DEF SessionChanges, Edit
  <2>t. /\ FieldTypeOK /\ PauseFits /\ field \in Typed \cup {NoMint}
        /\ signedIn' \in BOOLEAN /\ poolOpen \in BOOLEAN /\ edits' \in 0..MaxEdits
    BY <1>3, <2>s DEF FieldInv, FieldTypeOK
  <2>1. CASE field # NoMint /\ BeginCheck(field, Shown("checking", NoMint))
    <3>1. /\ Shown("checking", NoMint) \in [kind : Kinds, mint : Coins \cup {NoMint}]
          /\ Shown("checking", NoMint).kind # "ready"
      BY DEF Shown, Kinds
    <3>2. paused = {} \/ paused = {NoMint} \/ paused = {field}
      BY <2>t DEF PauseFits
    <3> QED
      BY <1>3, <2>1, <2>s, <2>t, <3>1, <3>2, CheckKeepsField
  <2>2. CASE UNCHANGED <<coin, burn, checks, checkId>>
    <3>1. FieldTypeOK'
      BY <2>2, <2>s, <2>t DEF FieldTypeOK
    <3>2. PauseFits' /\ ChecksFit' /\ CoinFits' /\ BurnGoesWithCoin'
      BY <2>2, <1>3, <2>s
         DEF FieldInv, PauseFits, ChecksFit, CoinFits, Heeded, BurnGoesWithCoin, ReadyCoin
    <3> QED
      BY <3>1, <3>2 DEF FieldInv
  <2> QED
    BY <1>3, <2>1, <2>2 DEF SessionChanges
<1>4. ASSUME FieldInv, PoolCloses PROVE FieldInv'
  <2>s. /\ poolOpen' = FALSE
        /\ UNCHANGED <<field, coin, checkId, paused, checks, known, signedIn, burn, edits>>
    BY <1>4 DEF PoolCloses
  <2>1. FieldTypeOK'
    BY <1>4, <2>s DEF FieldInv, FieldTypeOK
  <2>2. PauseFits' /\ ChecksFit' /\ CoinFits' /\ BurnGoesWithCoin'
    BY <1>4, <2>s
       DEF FieldInv, PauseFits, ChecksFit, CoinFits, Heeded, BurnGoesWithCoin, ReadyCoin
  <2> QED
    BY <2>1, <2>2 DEF FieldInv
<1> QED
  BY <1>1, <1>2, <1>3, <1>4 DEF FieldEvents

\* A dialog opens empty, or on a coin of the pool that it asks about.
LEMMA FieldStarts == FieldInit => FieldInv
<1> USE Values, OneValue
<1> SUFFICES ASSUME FieldInit PROVE FieldInv
  OBVIOUS
<1>1. CASE field = NoMint
  BY <1>1 DEF FieldInit, FieldInv, FieldTypeOK, PauseFits, ChecksFit, CoinFits, Heeded,
              BurnGoesWithCoin, ReadyCoin, Shown, Kinds, Typed
<1>2. CASE field # NoMint
  <2>s. /\ field \in Coins /\ coin = [kind |-> "checking", mint |-> NoMint] /\ checkId = 1
        /\ checks = {Asked(1, field, signedIn)} /\ paused = {} /\ known \subseteq Coins
        /\ signedIn \in BOOLEAN /\ poolOpen = TRUE /\ burn = 0 /\ edits = 0
    BY <1>2 DEF FieldInit, Shown
  <2> QED
    BY <2>s DEF FieldInv, FieldTypeOK, PauseFits, ChecksFit, CoinFits, Heeded,
                BurnGoesWithCoin, ReadyCoin, Kinds, Typed, Asked
<1> QED
  BY <1>1, <1>2

-----------------------------------------------------------------------------
(* The flow.                                                               *)

\* The types of the flow's own variables.
FlowTypes ==
  /\ wallet \in [name : Wallets, link : {"none", "off", "on"}]
  /\ dialog \in {"open", "closed", "gone"}
  /\ send \in {"idle", "wallet"}
  /\ attempt \in 0..MaxAttempts
  /\ tries \in [Attempts -> [pc : Stages, mint : Coins \cup {NoMint}, burn : Burns,
                             result : Results]]
  /\ timer \subseteq [attempt : Attempts, retryable : BOOLEAN] /\ Cardinality(timer) <= 1
  /\ hint \in {"none", "wait", "retry"}
  /\ chain \in [Attempts -> {"none", "flying", "landed", "lost"}]
  /\ sent \in 0..attempt
  /\ outcome \in [Attempts -> {"none", "recorded", "confirmed", "unconfirmed"}]
  /\ replacedAt \in [Attempts -> Stages \cup {"never"}]

FlowOK == FlowTypes /\ FlowInv

\* The types of the field and those of the attempts, apart.
LEMMA TypesSplit == TypeOK <=> FieldTypeOK /\ FlowTypes
BY DEF TypeOK, FlowTypes

\* What does not touch the field leaves its invariant alone.
LEMMA FieldStays == FieldInv /\ UNCHANGED fieldVars => FieldInv'
BY DEF fieldVars, FieldInv, FieldTypeOK, PauseFits, ChecksFit, CoinFits, Heeded,
       BurnGoesWithCoin, ReadyCoin

\* An attempt goes from one stage to another, with a prompt or without one.
Steps(a, stage) ==
  /\ GoTo(a, stage)
  /\ tries[a].pc \notin {"unused", "broadcast", "done"}
  /\ UNCHANGED <<dialog, send, attempt, chain, sent, outcome, replacedAt>>
  /\ \/ UNCHANGED <<timer, hint>>
     \/ \E retryable \in BOOLEAN :
          Prompt(a, retryable) /\ (retryable => wallet.name # Sender)
  /\ stage = "broadcast" => a = attempt
  /\ stage = "wallet sends" => wallet.name = Sender
  /\ stage \in {"trust", "reconnect"} => wallet.name # Sender

\* An attempt ends; a signature comes only of a transaction that went out.
Ends(a, result) ==
  /\ Finish(a, result)
  /\ tries[a].pc \notin {"unused", "done"}
  /\ UNCHANGED <<attempt, outcome, replacedAt>>
  /\ \/ chain' = chain
     \/ tries[a].pc = "wallet sends" /\ chain' = [chain EXCEPT ![a] = "flying"]
  /\ result = "quiet" => chain' = chain /\ tries[a].pc # "broadcast"
  /\ result = "sent" => tries[a].pc \in {"broadcast", "wallet sends"}

\* The wallet may come to be connected, and stays the same wallet.
WalletKept ==
  /\ wallet'.name = wallet.name
  /\ wallet' \in [name : Wallets, link : {"none", "off", "on"}]

\* A record of an attempt, with some of its fields changed.
TryType == [pc : Stages, mint : Coins \cup {NoMint}, burn : Burns, result : Results]
\* A changed record of an attempt is one, and only the changed field changes.
LEMMA Records ==
  ASSUME NEW r \in TryType, NEW stage \in Stages, NEW result \in Results
  PROVE  /\ [r EXCEPT !.pc = stage] \in TryType
         /\ [r EXCEPT !.pc = stage].pc = stage
         /\ [r EXCEPT !.pc = stage].result = r.result
         /\ [r EXCEPT !.pc = stage, !.result = result] \in TryType
         /\ [r EXCEPT !.pc = stage, !.result = result].pc = stage
         /\ [r EXCEPT !.pc = stage, !.result = result].result = result
BY DEF TryType

\* A stage that is entered leaves the flow's invariant.
LEMMA StepKeepsFlow ==
  ASSUME FlowOK, NEW a \in Attempts, NEW stage \in Stages \ {"unused", "done"},
         Steps(a, stage), WalletKept
  PROVE  FlowOK'
<1> USE Values
<1>t. FlowTypes /\ AttemptsFit /\ ChainFits /\ SenderFits /\ DialogFits /\ SentIsReported
  BY DEF FlowOK, FlowInv
<1>n. attempt \in Nat /\ a \in Nat /\ \A b \in Attempts : b \in Nat
  BY <1>t DEF FlowTypes, Attempts
<1>u. /\ tries[a].pc \notin {"unused", "broadcast", "done"}
      /\ dialog' = dialog /\ send' = send /\ attempt' = attempt /\ chain' = chain
      /\ sent' = sent /\ outcome' = outcome /\ replacedAt' = replacedAt
      /\ stage = "broadcast" => a = attempt
      /\ stage = "wallet sends" => wallet.name = Sender
      /\ stage \in {"trust", "reconnect"} => wallet.name # Sender
      /\ wallet'.name = wallet.name
      /\ wallet' \in [name : Wallets, link : {"none", "off", "on"}]
  BY DEF Steps, WalletKept
<1>v. \/ timer' = timer /\ hint' = hint
      \/ /\ hint' = "none"
         /\ \E retryable \in BOOLEAN : /\ timer' = {[attempt |-> a, retryable |-> retryable]}
                                       /\ retryable => wallet.name # Sender
  BY DEF Steps, Prompt
<1>r. /\ tries' = [tries EXCEPT ![a] = [tries[a] EXCEPT !.pc = stage]]
      /\ [tries[a] EXCEPT !.pc = stage]
           \in [pc : Stages, mint : Coins \cup {NoMint}, burn : Burns, result : Results]
      /\ [tries[a] EXCEPT !.pc = stage].pc = stage
      /\ [tries[a] EXCEPT !.pc = stage].result = tries[a].result
  <2>1. tries[a] \in TryType
    BY <1>t DEF FlowTypes, TryType
  <2>2. tries' = [tries EXCEPT ![a] = [tries[a] EXCEPT !.pc = stage]]
    BY DEF Steps, GoTo
  <2> QED
    BY <2>1, <2>2, Records DEF TryType
<1>p. /\ tries' \in [Attempts -> [pc : Stages, mint : Coins \cup {NoMint}, burn : Burns,
                                  result : Results]]
      /\ tries'[a].pc = stage /\ tries'[a].result = tries[a].result
      /\ \A b \in Attempts : b # a => tries'[b] = tries[b]
  <2> DEFINE new == [tries[a] EXCEPT !.pc = stage]
  <2>1. tries' = [tries EXCEPT ![a] = new] /\ new.pc = stage /\ new.result = tries[a].result
        /\ new \in [pc : Stages, mint : Coins \cup {NoMint}, burn : Burns, result : Results]
    BY <1>r
  <2> HIDE DEF new
  <2> QED
    BY <2>1, <1>t DEF FlowTypes
<1>1. FlowTypes'
  <2>1. timer' \subseteq [attempt : Attempts, retryable : BOOLEAN] /\ Cardinality(timer') <= 1
    <3>1. CASE timer' = timer
      BY <3>1, <1>t DEF FlowTypes
    <3>2. CASE \E retryable \in BOOLEAN : timer' = {[attempt |-> a, retryable |-> retryable]}
      <4> PICK retryable \in BOOLEAN : timer' = {[attempt |-> a, retryable |-> retryable]}
        BY <3>2
      <4>1. Cardinality(timer') <= 1
        BY OneValue
      <4> QED
        BY <4>1
    <3> QED
      BY <3>1, <3>2, <1>v
  <2>2. hint' \in {"none", "wait", "retry"}
    BY <1>t, <1>v DEF FlowTypes
  <2> QED
    BY <1>t, <1>u, <1>p, <2>1, <2>2 DEF FlowTypes
<1>2. AttemptsFit'
  <2>1. \A b \in Attempts : b > attempt <=> tries'[b].pc = "unused"
    BY <1>t, <1>u, <1>p DEF AttemptsFit, At
  <2>2. send = "idle" => attempt = 0 \/ tries'[attempt].pc = "done"
    <3>1. attempt # 0 => attempt \in Attempts
      BY <1>t DEF FlowTypes, Attempts
    <3> QED
      BY <3>1, <1>t, <1>u, <1>p DEF AttemptsFit, At
  <2>3. \A b \in Attempts : b >= attempt => replacedAt[b] = "never"
    BY <1>t DEF AttemptsFit
  <2> QED
    BY <1>u, <2>1, <2>2, <2>3 DEF AttemptsFit, At
<1>3. ChainFits'
  <2> SUFFICES ASSUME NEW b \in Attempts
               PROVE  /\ chain[b] # "none" => tries'[b].pc \in {"broadcast", "done"}
                      /\ b < attempt /\ tries'[b].pc = "broadcast" => replacedAt[b] = "broadcast"
    BY <1>u DEF ChainFits, At
  <2>1. CASE b = a
    <3>1. chain[a] = "none"
      BY <1>t, <1>u DEF ChainFits, At
    <3> QED
      <4>1. ~(a < a)
        BY <1>n
      <4>2. tries'[a].pc = "broadcast" => a = attempt
        BY <1>u, <1>p
      <4> QED
        BY <2>1, <3>1, <4>1, <4>2
  <2>2. CASE b # a
    BY <2>2, <1>t, <1>p DEF ChainFits, At
  <2> QED
    BY <2>1, <2>2
<1>4. SenderFits'
  <2>1. \A b \in Attempts : tries'[b].pc = "wallet sends" => wallet.name = Sender
    BY <1>t, <1>u, <1>p DEF SenderFits, At
  <2>2. ASSUME wallet.name = Sender
        PROVE  /\ hint' # "retry" /\ \A t \in timer' : ~t.retryable
               /\ \A b \in Attempts : b < attempt => tries'[b].pc = "done"
               /\ \A b \in Attempts : tries'[b].pc \notin {"trust", "reconnect"}
    <3>1. hint' # "retry"
      BY <2>2, <1>t, <1>v DEF SenderFits
    <3>2. ASSUME NEW t \in timer' PROVE ~t.retryable
      BY <2>2, <1>t, <1>v DEF SenderFits
    <3>3. ~(a < attempt)
      BY <2>2, <1>t, <1>u DEF SenderFits, At
    <3> QED
      BY <2>2, <3>1, <3>2, <3>3, <1>t, <1>u, <1>p DEF SenderFits, At
  <2> QED
    BY <1>u, <2>1, <2>2 DEF SenderFits, At
<1>5. DialogFits'
  BY <1>t, <1>u DEF DialogFits
<1>6. SentIsReported'
  <2> SUFFICES ASSUME NEW b \in Attempts, chain[b] # "none", tries'[b].pc = "done"
               PROVE  \/ sent = b \/ tries'[b].result = "error" \/ dialog = "gone"
                      \/ replacedAt[b] = "broadcast"
    BY <1>u DEF SentIsReported, At
  <2>1. b # a
    BY <1>p
  <2> QED
    BY <2>1, <1>t, <1>p DEF SentIsReported, At
<1> QED
  BY <1>1, <1>2, <1>3, <1>4, <1>5, <1>6 DEF FlowOK, FlowInv

\* An end leaves it too: what went out is reported, or the three cases apply.
LEMMA FinishKeepsFlow ==
  ASSUME FlowOK, NEW a \in Attempts, NEW result \in {"sent", "quiet", "error"},
         Ends(a, result), WalletKept
  PROVE  FlowOK'
<1> USE Values
<1>t. FlowTypes /\ AttemptsFit /\ ChainFits /\ SenderFits /\ DialogFits /\ SentIsReported
  BY DEF FlowOK, FlowInv
<1>n. attempt \in Nat /\ a \in Nat /\ a # 0 /\ \A b \in Attempts : b \in Nat /\ b # 0
  BY <1>t DEF FlowTypes, Attempts
<1>u. /\ tries[a].pc \notin {"unused", "done"}
      /\ attempt' = attempt /\ outcome' = outcome /\ replacedAt' = replacedAt
      /\ result = "quiet" => chain' = chain /\ tries[a].pc # "broadcast"
      /\ result = "sent" => tries[a].pc \in {"broadcast", "wallet sends"}
      /\ wallet'.name = wallet.name
      /\ wallet' \in [name : Wallets, link : {"none", "off", "on"}]
  BY DEF Ends, WalletKept
<1>r. /\ tries' = [tries EXCEPT ![a] = [tries[a] EXCEPT !.pc = "done", !.result = result]]
      /\ [tries[a] EXCEPT !.pc = "done", !.result = result]
           \in [pc : Stages, mint : Coins \cup {NoMint}, burn : Burns, result : Results]
      /\ [tries[a] EXCEPT !.pc = "done", !.result = result].pc = "done"
      /\ [tries[a] EXCEPT !.pc = "done", !.result = result].result = result
  <2>1. tries[a] \in TryType /\ "done" \in Stages /\ result \in Results
    BY <1>t DEF FlowTypes, TryType, Stages, Results
  <2>2. tries' = [tries EXCEPT ![a] = [tries[a] EXCEPT !.pc = "done", !.result = result]]
    BY DEF Ends, Finish
  <2> QED
    BY <2>1, <2>2, Records DEF TryType
<1>p. /\ tries' \in [Attempts -> [pc : Stages, mint : Coins \cup {NoMint}, burn : Burns,
                                  result : Results]]
      /\ tries'[a].pc = "done" /\ tries'[a].result = result
      /\ \A b \in Attempts : b # a => tries'[b] = tries[b]
  <2> DEFINE new == [tries[a] EXCEPT !.pc = "done", !.result = result]
  <2>1. tries' = [tries EXCEPT ![a] = new] /\ new.pc = "done" /\ new.result = result
        /\ new \in [pc : Stages, mint : Coins \cup {NoMint}, burn : Burns, result : Results]
    BY <1>r
  <2> HIDE DEF new
  <2> QED
    BY <2>1, <1>t DEF FlowTypes
<1>o. a <= attempt
  <2>1. ~(a > attempt)
    BY <1>t, <1>u DEF AttemptsFit, At
  <2> QED
    BY <2>1, <1>n
<1>c. /\ chain' \in [Attempts -> {"none", "flying", "landed", "lost"}]
      /\ \A b \in Attempts : b # a => chain'[b] = chain[b]
  BY <1>t DEF FlowTypes, Ends
<1>f. \/ a = attempt /\ send' = "idle" /\ timer' = {} /\ hint' = "none"
      \/ /\ a # attempt
         /\ send' = send /\ timer' = timer /\ hint' = hint
  BY DEF Ends, Finish
<1>d. \/ result = "sent" /\ dialog = "open" /\ a = attempt /\ dialog' = "closed" /\ sent' = a
      \/ /\ ~(result = "sent" /\ dialog = "open" /\ a = attempt)
         /\ dialog' = dialog /\ sent' = sent
  BY DEF Ends, Finish
<1>1. FlowTypes'
  <2>1. timer' \subseteq [attempt : Attempts, retryable : BOOLEAN] /\ Cardinality(timer') <= 1
    <3>1. Cardinality({}) <= 1
      BY OneValue
    <3> QED
      BY <3>1, <1>f, <1>t DEF FlowTypes
  <2>2. hint' \in {"none", "wait", "retry"} /\ send' \in {"idle", "wallet"}
    BY <1>f, <1>t DEF FlowTypes
  <2>3. dialog' \in {"open", "closed", "gone"} /\ sent' \in 0..attempt
    BY <1>d, <1>t, <1>n, <1>o DEF FlowTypes
  <2> QED
    BY <1>t, <1>u, <1>p, <1>c, <2>1, <2>2, <2>3 DEF FlowTypes
<1>2. AttemptsFit'
  <2>1. \A b \in Attempts : b > attempt <=> tries'[b].pc = "unused"
    BY <1>t, <1>p, <1>n, <1>o DEF AttemptsFit, At
  <2>2. send' = "idle" => attempt = 0 \/ tries'[attempt].pc = "done"
    <3>1. CASE a = attempt
      BY <3>1, <1>p
    <3>2. CASE a # attempt /\ attempt # 0
      <4>1. attempt \in Attempts
        BY <3>2, <1>t, <1>n DEF FlowTypes, Attempts
      <4> QED
        BY <4>1, <3>2, <1>f, <1>t, <1>p DEF AttemptsFit, At
    <3> QED
      BY <3>1, <3>2
  <2>3. \A b \in Attempts : b >= attempt => replacedAt[b] = "never"
    BY <1>t DEF AttemptsFit
  <2> QED
    BY <1>u, <2>1, <2>2, <2>3 DEF AttemptsFit, At
<1>3. ChainFits'
  <2> SUFFICES ASSUME NEW b \in Attempts
               PROVE  /\ chain'[b] # "none" => tries'[b].pc \in {"broadcast", "done"}
                      /\ b < attempt /\ tries'[b].pc = "broadcast" => replacedAt[b] = "broadcast"
    BY <1>u DEF ChainFits, At
  <2>1. CASE b = a
    BY <2>1, <1>p
  <2>2. CASE b # a
    BY <2>2, <1>t, <1>p, <1>c DEF ChainFits, At
  <2> QED
    BY <2>1, <2>2
<1>4. SenderFits'
  <2>1. \A b \in Attempts : tries'[b].pc = "wallet sends" => wallet.name = Sender
    BY <1>t, <1>p DEF SenderFits, At
  <2>2. ASSUME wallet.name = Sender
        PROVE  /\ hint' # "retry" /\ \A t \in timer' : ~t.retryable
               /\ \A b \in Attempts : b < attempt => tries'[b].pc = "done"
               /\ \A b \in Attempts : tries'[b].pc \notin {"trust", "reconnect"}
    BY <2>2, <1>t, <1>p, <1>f DEF SenderFits, At
  <2> QED
    BY <1>u, <2>1, <2>2 DEF SenderFits, At
<1>5. DialogFits'
  BY <1>t, <1>f, <1>d DEF DialogFits
<1>6. SentIsReported'
  <2>1. ASSUME NEW b \in Attempts, b # a, chain'[b] # "none", tries'[b].pc = "done"
        PROVE  \/ sent' = b \/ tries'[b].result = "error" \/ dialog' = "gone"
               \/ replacedAt[b] = "broadcast"
    <3>1. \/ sent = b \/ tries[b].result = "error" \/ dialog = "gone"
          \/ replacedAt[b] = "broadcast"
      BY <2>1, <1>t, <1>p, <1>c DEF SentIsReported, At
    <3>2. sent = b => sent' = b
      BY <1>d, <1>t, <1>n DEF DialogFits
    <3> QED
      BY <3>1, <3>2, <2>1, <1>d, <1>p
  <2>2. ASSUME chain'[a] # "none"
        PROVE  \/ sent' = a \/ result = "error" \/ dialog' = "gone"
               \/ replacedAt[a] = "broadcast"
    <3>1. CASE result = "quiet"
      BY <3>1, <2>2, <1>u, <1>t DEF ChainFits, At
    <3>2. CASE result = "sent" /\ a = attempt
      <4>1. send # "idle"
        BY <3>2, <1>t, <1>n, <1>u DEF AttemptsFit, At
      <4> QED
        BY <3>2, <4>1, <1>d, <1>t DEF DialogFits, FlowTypes
    <3>3. CASE result = "sent" /\ a # attempt
      <4>1. a < attempt
        BY <3>3, <1>o, <1>n
      <4>2. tries[a].pc # "wallet sends"
        BY <4>1, <1>u, <1>t DEF SenderFits, At
      <4> QED
        BY <3>3, <4>1, <4>2, <1>u, <1>t DEF ChainFits, At
    <3> QED
      BY <3>1, <3>2, <3>3
  <2> QED
    BY <2>1, <2>2, <1>p, <1>u DEF SentIsReported, At
<1> QED
  BY <1>1, <1>2, <1>3, <1>4, <1>5, <1>6 DEF FlowOK, FlowInv

\* A move of the chain leaves the attempts where they are.
LEMMA ChainMoveKeepsFlow ==
  ASSUME FlowOK, NEW a \in Attempts, chain[a] # "none" \/ At(a, "broadcast"),
         NEW fate \in {"flying", "landed", "lost"}, chain' = [chain EXCEPT ![a] = fate],
         UNCHANGED <<wallet, dialog, send, attempt, tries, timer, hint, sent, outcome,
                     replacedAt>>
  PROVE  FlowOK'
<1>t. FlowTypes /\ AttemptsFit /\ ChainFits /\ SenderFits /\ DialogFits /\ SentIsReported
  BY DEF FlowOK, FlowInv
<1>c. /\ chain' \in [Attempts -> {"none", "flying", "landed", "lost"}]
      /\ \A b \in Attempts : b # a => chain'[b] = chain[b]
  BY <1>t DEF FlowTypes
<1>p. At(a, "broadcast") \/ (chain[a] # "none" /\ At(a, "done"))
  BY <1>t DEF ChainFits
<1>1. FlowTypes' /\ AttemptsFit' /\ SenderFits' /\ DialogFits'
  BY <1>t, <1>c DEF FlowTypes, AttemptsFit, SenderFits, DialogFits, At
<1>2. ChainFits'
  BY <1>t, <1>c, <1>p DEF ChainFits, At
<1>3. SentIsReported'
  BY <1>t, <1>c, <1>p DEF SentIsReported, At
<1> QED
  BY <1>1, <1>2, <1>3 DEF FlowOK, FlowInv

\* A press of the button: an attempt begins, and may replace one that waits for its
\* wallet.
LEMMA SubmitKeepsFlow == FlowOK /\ FieldTypeOK /\ Submit => FlowOK'
<1> SUFFICES ASSUME FlowOK, FieldTypeOK, Submit PROVE FlowOK'
  OBVIOUS
<1> USE Values
<1> DEFINE a == attempt + 1
           new == [pc |-> IF wallet.link # "on" THEN "connect"
                          ELSE IF wallet.name = Phantom THEN "trust" ELSE "prepare",
                   mint |-> ReadyCoin, burn |-> BurnToSend, result |-> "none"]
<1>t. FlowTypes /\ AttemptsFit /\ ChainFits /\ SenderFits /\ DialogFits /\ SentIsReported
  BY DEF FlowOK, FlowInv
<1>n. attempt \in Nat /\ a \in Nat /\ a \in Attempts /\ \A b \in Attempts : b \in Nat /\ b # 0
  BY <1>t DEF FlowTypes, Attempts, Submit
<1>u. /\ dialog = "open" /\ dialog' = "open" /\ attempt' = a
      /\ send = "idle" \/ hint = "retry"
      /\ timer' = {} /\ hint' = "none" /\ send' = "wallet"
      /\ tries' = [tries EXCEPT ![a] = new]
      /\ replacedAt' = IF attempt = 0 THEN replacedAt
                       ELSE [replacedAt EXCEPT ![attempt] = tries[attempt].pc]
      /\ wallet' = wallet /\ chain' = chain /\ sent' = sent /\ outcome' = outcome
  BY DEF Submit, CanRetryWallet
<1>m. /\ new \in [pc : Stages, mint : Coins \cup {NoMint}, burn : Burns, result : Results]
      /\ new.pc \in {"connect", "trust", "prepare"}
      /\ wallet.name = Sender => new.pc # "trust"
  <2>1. ReadyCoin \in Coins \cup {NoMint} /\ BurnToSend \in Burns
    BY DEF ReadyCoin, BurnToSend, FieldTypeOK
  <2>2. Phantom # Sender
    BY DEF Phantom, Sender
  <2> QED
    BY <2>1, <2>2 DEF Stages, Results
<1> HIDE DEF new
<1>p. /\ tries' \in [Attempts -> [pc : Stages, mint : Coins \cup {NoMint}, burn : Burns,
                                  result : Results]]
      /\ tries'[a] = new
      /\ \A b \in Attempts : b # a => tries'[b] = tries[b]
  BY <1>t, <1>u, <1>m, <1>n DEF FlowTypes
<1>q. /\ replacedAt' \in [Attempts -> Stages \cup {"never"}]
      /\ attempt # 0 => attempt \in Attempts /\ replacedAt'[attempt] = tries[attempt].pc
      /\ \A b \in Attempts : b # attempt => replacedAt'[b] = replacedAt[b]
  <2>1. CASE attempt = 0
    BY <2>1, <1>t, <1>u DEF FlowTypes
  <2>2. CASE attempt # 0
    <3>1. attempt \in Attempts
      BY <2>2, <1>t, <1>n DEF FlowTypes, Attempts
    <3>2. tries[attempt].pc \in Stages
      BY <3>1, <1>t DEF FlowTypes
    <3> QED
      BY <2>2, <3>1, <3>2, <1>t, <1>u DEF FlowTypes
  <2> QED
    BY <2>1, <2>2
<1>o. /\ tries[a].pc = "unused" /\ a # attempt
      /\ \A b \in Attempts : b < a <=> b < attempt \/ b = attempt
      /\ \A b \in Attempts : b > a <=> b > attempt /\ b # a
      /\ \A b \in Attempts : b >= a => b >= attempt /\ b # attempt
  BY <1>t, <1>n DEF AttemptsFit, At
<1> HIDE DEF a
<1>1. FlowTypes'
  <2>1. timer' \subseteq [attempt : Attempts, retryable : BOOLEAN] /\ Cardinality(timer') <= 1
    <3>1. Cardinality({}) <= 1
      BY OneValue
    <3> QED
      BY <3>1, <1>u
  <2>2. attempt' \in 0..MaxAttempts /\ sent' \in 0..attempt'
    BY <1>t, <1>u, <1>n DEF FlowTypes, Attempts, a
  <2> QED
    BY <1>t, <1>u, <1>p, <1>q, <2>1, <2>2 DEF FlowTypes
<1>2. AttemptsFit'
  <2>1. \A b \in Attempts : b > a <=> tries'[b].pc = "unused"
    BY <1>t, <1>n, <1>p, <1>o, <1>m DEF AttemptsFit, At
  <2>2. \A b \in Attempts : b >= a => replacedAt'[b] = "never"
    BY <1>t, <1>o, <1>q DEF AttemptsFit
  <2> QED
    BY <1>u, <2>1, <2>2 DEF AttemptsFit, At
<1>3. ChainFits'
  <2> SUFFICES ASSUME NEW b \in Attempts
               PROVE  /\ chain[b] # "none" => tries'[b].pc \in {"broadcast", "done"}
                      /\ b < a /\ tries'[b].pc = "broadcast" => replacedAt'[b] = "broadcast"
    BY <1>u DEF ChainFits, At
  <2>1. CASE b = a
    BY <2>1, <1>t, <1>n, <1>p, <1>o, <1>m DEF ChainFits, At
  <2>2. CASE b # a
    BY <2>2, <1>t, <1>n, <1>p, <1>o, <1>q DEF ChainFits, At
  <2> QED
    BY <2>1, <2>2
<1>4. SenderFits'
  <2>1. \A b \in Attempts : tries'[b].pc = "wallet sends" => wallet.name = Sender
    BY <1>t, <1>p, <1>m DEF SenderFits, At
  <2>2. ASSUME wallet.name = Sender
        PROVE  /\ \A b \in Attempts : b < a => tries'[b].pc = "done"
               /\ \A b \in Attempts : tries'[b].pc \notin {"trust", "reconnect"}
    <3>1. attempt = 0 \/ tries[attempt].pc = "done"
      BY <2>2, <1>t, <1>u DEF SenderFits, AttemptsFit, At
    <3>2. ASSUME NEW b \in Attempts, b < a PROVE tries'[b].pc = "done"
      <4>1. b # a /\ (b < attempt \/ b = attempt)
        BY <3>2, <1>o, <1>n
      <4>2. tries[b].pc = "done"
        BY <2>2, <3>1, <4>1, <1>t, <1>n DEF SenderFits, At
      <4> QED
        BY <4>1, <4>2, <1>p
    <3>3. ASSUME NEW b \in Attempts PROVE tries'[b].pc \notin {"trust", "reconnect"}
      BY <2>2, <1>t, <1>p, <1>m DEF SenderFits, At
    <3> QED
      BY <3>2, <3>3
  <2> QED
    BY <1>u, <2>1, <2>2 DEF SenderFits, At
<1>5. DialogFits'
  BY <1>t, <1>u DEF DialogFits
<1>6. SentIsReported'
  <2> SUFFICES ASSUME NEW b \in Attempts, chain[b] # "none", tries'[b].pc = "done"
               PROVE  \/ sent = b \/ tries'[b].result = "error" \/ dialog' = "gone"
                      \/ replacedAt'[b] = "broadcast"
    BY <1>u DEF SentIsReported, At
  <2>1. b # a
    BY <1>p, <1>m
  <2>2. replacedAt[b] = "broadcast" => b # attempt
    BY <1>t, <1>n DEF AttemptsFit
  <2> QED
    BY <2>1, <2>2, <1>t, <1>u, <1>p, <1>q DEF SentIsReported, At
<1> QED
  BY <1>1, <1>2, <1>3, <1>4, <1>5, <1>6 DEF FlowOK, FlowInv

\* A new dialog has no attempt.
LEMMA FlowStarts == Init => FlowOK
<1> SUFFICES ASSUME Init PROVE FlowOK
  OBVIOUS
<1> USE Values
<1>n. \A b \in Attempts : b \in Nat /\ b # 0 /\ b > 0 /\ ~(b < 0)
  BY DEF Attempts
<1>u. /\ tries = [a \in Attempts |-> Unused] /\ chain = [a \in Attempts |-> "none"]
      /\ outcome = [a \in Attempts |-> "none"] /\ replacedAt = [a \in Attempts |-> "never"]
      /\ wallet \in [name : Wallets, link : {"none", "off", "on"}]
      /\ dialog = "open" /\ send = "idle" /\ attempt = 0 /\ timer = {} /\ hint = "none"
      /\ sent = 0
  BY DEF Init
<1>p. /\ \A a \in Attempts : tries[a].pc = "unused"
      /\ tries \in [Attempts -> [pc : Stages, mint : Coins \cup {NoMint}, burn : Burns,
                                 result : Results]]
  BY <1>u DEF Unused, Stages, Results
<1>1. FlowTypes
  <2>1. Cardinality({}) <= 1
    BY OneValue
  <2> QED
    BY <2>1, <1>u, <1>p DEF FlowTypes
<1>2. AttemptsFit /\ ChainFits /\ SenderFits /\ DialogFits /\ SentIsReported
  <2>1. AttemptsFit
    BY <1>n, <1>u, <1>p DEF AttemptsFit, At
  <2>2. ChainFits /\ SentIsReported /\ DialogFits
    BY <1>u, <1>p DEF ChainFits, SentIsReported, DialogFits, At
  <2>3. SenderFits
    BY <1>n, <1>u, <1>p DEF SenderFits, At
  <2> QED
    BY <2>1, <2>2, <2>3
<1> QED
  BY <1>1, <1>2 DEF FlowOK, FlowInv

\* What the dialog does of itself: the timer, the cross, the page.
LEMMA DialogKeepsFlow == FlowOK /\ (TimerFires \/ Close \/ NavigateAway) => FlowOK'
<1> SUFFICES ASSUME FlowOK, TimerFires \/ Close \/ NavigateAway PROVE FlowOK'
  OBVIOUS
<1>t. FlowTypes /\ AttemptsFit /\ ChainFits /\ SenderFits /\ DialogFits /\ SentIsReported
  BY DEF FlowOK, FlowInv
<1>e. Cardinality({}) <= 1
  BY OneValue
<1>1. CASE TimerFires
  <2>u. /\ timer' = {}
        /\ \E t \in timer : hint' = hint \/ hint' = "wait" \/ (hint' = "retry" /\ t.retryable)
        /\ UNCHANGED <<wallet, dialog, send, attempt, tries, chain, sent, outcome, replacedAt>>
    BY <1>1 DEF TimerFires
  <2>1. FlowTypes'
    BY <2>u, <1>t, <1>e DEF FlowTypes
  <2>2. SenderFits'
    BY <2>u, <1>t DEF SenderFits, At
  <2>3. AttemptsFit' /\ ChainFits' /\ DialogFits' /\ SentIsReported'
    BY <2>u, <1>t DEF AttemptsFit, ChainFits, DialogFits, SentIsReported, At
  <2> QED
    BY <2>1, <2>2, <2>3 DEF FlowOK, FlowInv
<1>2. CASE Close
  <2>u. /\ dialog = "open" /\ send = "idle" /\ dialog' = "closed"
        /\ UNCHANGED <<wallet, send, attempt, tries, timer, hint, chain, sent, outcome,
                       replacedAt>>
    BY <1>2 DEF Close
  <2>1. FlowTypes' /\ AttemptsFit' /\ ChainFits' /\ SenderFits' /\ DialogFits'
    BY <2>u, <1>t DEF FlowTypes, AttemptsFit, ChainFits, SenderFits, DialogFits, At
  <2>2. SentIsReported'
    BY <2>u, <1>t DEF SentIsReported, At
  <2> QED
    BY <2>1, <2>2 DEF FlowOK, FlowInv
<1>3. CASE NavigateAway
  <2>u. /\ dialog' = "gone" /\ timer' = {} /\ hint' = "none"
        /\ UNCHANGED <<wallet, send, attempt, tries, chain, sent, outcome, replacedAt>>
    BY <1>3 DEF NavigateAway
  <2>1. FlowTypes'
    BY <2>u, <1>t, <1>e DEF FlowTypes
  <2>2. AttemptsFit' /\ ChainFits' /\ SenderFits' /\ DialogFits' /\ SentIsReported'
    BY <2>u, <1>t DEF AttemptsFit, ChainFits, SenderFits, DialogFits, SentIsReported, At
  <2> QED
    BY <2>1, <2>2 DEF FlowOK, FlowInv
<1> QED
  BY <1>1, <1>2, <1>3

\* Every step of an attempt is a stage entered, an end, a move of the chain or the
\* record of how it settled.
LEMMA AttemptKeepsFlow ==
  ASSUME FlowOK, NEW a \in Attempts, Attempted(a)
  PROVE  FlowOK'
<1>t. FlowTypes /\ AttemptsFit /\ ChainFits /\ SenderFits /\ DialogFits /\ SentIsReported
  BY DEF FlowOK, FlowInv
<1>w. /\ wallet \in [name : Wallets, link : {"none", "off", "on"}]
      /\ UNCHANGED wallet => WalletKept
  BY <1>t DEF FlowTypes, WalletKept
<1>s. \A s \in {"trust", "reconnect", "prepare", "sign", "broadcast", "wallet sends"} :
        s \in Stages \ {"unused", "done"}
  BY DEF Stages
<1>k. Phantom # Sender
  BY DEF Phantom, Sender
<1>1. CASE ConnectAnswers(a)
  <2>u. /\ tries[a].pc = "connect"
        /\ attempt' = attempt /\ chain' = chain /\ outcome' = outcome
        /\ replacedAt' = replacedAt
    BY <1>1 DEF ConnectAnswers, At
  <2>1. WalletKept
    BY <1>1, <1>w DEF ConnectAnswers, WalletKept
  <2>2. \/ Steps(a, "trust") \/ Steps(a, "prepare")
        \/ \E result \in {"sent", "quiet", "error"} : Ends(a, result)
    <3>1. CASE GoTo(a, "trust") /\ UNCHANGED <<send, timer, hint, dialog, sent>>
               /\ wallet.name = Phantom
      BY <3>1, <2>u, <1>k DEF Steps
    <3>2. CASE GoTo(a, "prepare") /\ UNCHANGED <<send, timer, hint, dialog, sent>>
      BY <3>2, <2>u DEF Steps
    <3>3. ASSUME NEW result \in {"quiet", "error"}, Finish(a, result)
          PROVE  \E r \in {"sent", "quiet", "error"} : Ends(a, r)
      <4>1. Ends(a, result)
        BY <3>3, <2>u DEF Ends
      <4> QED
        BY <4>1
    <3> QED
      BY <1>1, <3>1, <3>2, <3>3 DEF ConnectAnswers, AfterConnect, Connected
  <2> QED
    BY <2>1, <2>2, <1>s, StepKeepsFlow, FinishKeepsFlow
<1>2. CASE TrustAnswers(a)
  <2>u. /\ tries[a].pc = "trust" /\ wallet.name # Sender
        /\ attempt' = attempt /\ chain' = chain /\ outcome' = outcome
        /\ replacedAt' = replacedAt
    BY <1>2, <1>t DEF TrustAnswers, At, SenderFits
  <2>1. WalletKept
    BY <1>2, <1>w DEF TrustAnswers
  <2>2. \/ Steps(a, "reconnect") \/ Steps(a, "prepare")
        \/ \E result \in {"sent", "quiet", "error"} : Ends(a, result)
    <3>1. CASE GoTo(a, "reconnect") /\ Prompt(a, TRUE) /\ UNCHANGED <<send, dialog, sent>>
      BY <3>1, <2>u DEF Steps
    <3>2. CASE GoTo(a, "prepare") /\ UNCHANGED <<send, timer, hint, dialog, sent>>
      BY <3>2, <2>u DEF Steps
    <3>3. ASSUME NEW result \in {"quiet", "error"}, Finish(a, result)
          PROVE  \E r \in {"sent", "quiet", "error"} : Ends(a, r)
      <4>1. Ends(a, result)
        BY <3>3, <2>u DEF Ends
      <4> QED
        BY <4>1
    <3> QED
      BY <1>2, <3>1, <3>2, <3>3 DEF TrustAnswers, Connected
  <2> QED
    BY <2>1, <2>2, <1>s, StepKeepsFlow, FinishKeepsFlow
<1>3. CASE ReconnectAnswers(a)
  <2>u. /\ tries[a].pc = "reconnect"
        /\ attempt' = attempt /\ chain' = chain /\ outcome' = outcome
        /\ replacedAt' = replacedAt
    BY <1>3 DEF ReconnectAnswers, At
  <2>1. WalletKept
    BY <1>3, <1>w DEF ReconnectAnswers
  <2>2. \/ Steps(a, "prepare")
        \/ \E result \in {"sent", "quiet", "error"} : Ends(a, result)
    <3>2. CASE GoTo(a, "prepare") /\ UNCHANGED <<send, timer, hint, dialog, sent>>
      BY <3>2, <2>u DEF Steps
    <3>3. ASSUME NEW result \in {"quiet", "error"}, Finish(a, result)
          PROVE  \E r \in {"sent", "quiet", "error"} : Ends(a, r)
      <4>1. Ends(a, result)
        BY <3>3, <2>u DEF Ends
      <4> QED
        BY <4>1
    <3> QED
      BY <1>3, <3>2, <3>3 DEF ReconnectAnswers, Connected
  <2> QED
    BY <2>1, <2>2, <1>s, StepKeepsFlow, FinishKeepsFlow
<1>4. CASE Prepare(a)
  <2>u. /\ tries[a].pc = "prepare"
        /\ attempt' = attempt /\ chain' = chain /\ outcome' = outcome
        /\ replacedAt' = replacedAt
    BY <1>4 DEF Prepare, At
  <2>1. WalletKept
    BY <1>4, <1>w DEF Prepare
  <2>2. CASE AskWallet(a)
    <3>1. CASE wallet.name = Sender
      <4>1. GoTo(a, "wallet sends") /\ Prompt(a, FALSE) /\ UNCHANGED <<send, dialog, sent>>
        BY <2>2, <3>1 DEF AskWallet
      <4>2. Steps(a, "wallet sends")
        BY <3>1, <4>1, <2>u DEF Steps
      <4> QED
        BY <4>2, <2>1, <1>s, StepKeepsFlow
    <3>2. CASE wallet.name # Sender
      <4>1. GoTo(a, "sign") /\ Prompt(a, TRUE) /\ UNCHANGED <<send, dialog, sent>>
        BY <2>2, <3>2 DEF AskWallet
      <4>2. Steps(a, "sign")
        BY <3>2, <4>1, <2>u DEF Steps
      <4> QED
        BY <4>2, <2>1, <1>s, StepKeepsFlow
    <3> QED
      BY <3>1, <3>2
  <2>3. CASE PreflightFails(a)
    <3>1. Ends(a, "error")
      BY <2>3, <2>u DEF PreflightFails, Ends
    <3> QED
      BY <3>1, <2>1, FinishKeepsFlow
  <2> QED
    BY <1>4, <2>2, <2>3 DEF Prepare
<1>5. CASE SignAnswers(a)
  <2>u. /\ tries[a].pc = "sign"
        /\ attempt' = attempt /\ chain' = chain /\ outcome' = outcome
        /\ replacedAt' = replacedAt
    BY <1>5 DEF SignAnswers, At
  <2>1. WalletKept
    BY <1>5, <1>w DEF SignAnswers
  <2>2. \/ Steps(a, "broadcast")
        \/ \E result \in {"sent", "quiet", "error"} : Ends(a, result)
    <3>2. CASE a = attempt /\ GoTo(a, "broadcast")
               /\ UNCHANGED <<send, timer, hint, dialog, sent>>
      BY <3>2, <2>u DEF Steps
    <3>3. ASSUME NEW result \in {"quiet", "error"}, Finish(a, result)
          PROVE  \E r \in {"sent", "quiet", "error"} : Ends(a, r)
      <4>1. Ends(a, result)
        BY <3>3, <2>u DEF Ends
      <4> QED
        BY <4>1
    <3> QED
      BY <1>5, <3>2, <3>3 DEF SignAnswers, Current
  <2> QED
    BY <2>1, <2>2, <1>s, StepKeepsFlow, FinishKeepsFlow
<1>6. CASE NodeTakes(a)
  BY <1>6, ChainMoveKeepsFlow DEF NodeTakes
<1>7. CASE NodeAnswers(a)
  <2>u. /\ tries[a].pc = "broadcast"
        /\ attempt' = attempt /\ chain' = chain /\ outcome' = outcome
        /\ replacedAt' = replacedAt
    BY <1>7 DEF NodeAnswers, At
  <2>1. WalletKept
    BY <1>7, <1>w DEF NodeAnswers
  <2>2. Ends(a, "sent") \/ Ends(a, "error")
    BY <1>7, <2>u DEF NodeAnswers, Ends
  <2> QED
    BY <2>1, <2>2, FinishKeepsFlow
<1>8. CASE WalletSends(a)
  <2>u. /\ tries[a].pc = "wallet sends"
        /\ attempt' = attempt /\ outcome' = outcome /\ replacedAt' = replacedAt
    BY <1>8 DEF WalletSends, At
  <2>1. WalletKept
    BY <1>8, <1>w DEF WalletSends
  <2>2. \E result \in {"sent", "quiet", "error"} : Ends(a, result)
    <3>1. ASSUME NEW result \in {"sent", "error"}, Finish(a, result),
                 chain' = [chain EXCEPT ![a] = "flying"]
          PROVE  Ends(a, result)
      BY <3>1, <2>u DEF Ends
    <3>2. ASSUME NEW result \in {"quiet", "error"}, Finish(a, result), UNCHANGED chain
          PROVE  Ends(a, result)
      BY <3>2, <2>u DEF Ends
    <3> QED
      BY <1>8, <3>1, <3>2 DEF WalletSends
  <2> QED
    BY <2>1, <2>2, FinishKeepsFlow
<1>9. CASE ChainDecides(a)
  BY <1>9, ChainMoveKeepsFlow DEF ChainDecides
<1>10. CASE Settle(a)
  <2>u. /\ outcome' \in [Attempts -> {"none", "recorded", "confirmed", "unconfirmed"}]
        /\ UNCHANGED <<wallet, dialog, send, attempt, tries, timer, hint, chain, sent,
                       replacedAt>>
    BY <1>10, <1>t DEF Settle, FlowTypes
  <2>1. FlowTypes' /\ AttemptsFit' /\ ChainFits'
    BY <2>u, <1>t DEF FlowTypes, AttemptsFit, ChainFits, At
  <2>2. SenderFits' /\ DialogFits' /\ SentIsReported'
    BY <2>u, <1>t DEF SenderFits, DialogFits, SentIsReported, At
  <2> QED
    BY <2>1, <2>2 DEF FlowOK, FlowInv
<1> QED
  BY <1>1, <1>2, <1>3, <1>4, <1>5, <1>6, <1>7, <1>8, <1>9, <1>10 DEF Attempted

\* What does not touch the flow leaves it alone.
LEMMA FlowStays == FlowOK /\ UNCHANGED flowVars => FlowOK'
<1> SUFFICES ASSUME FlowOK, UNCHANGED flowVars PROVE FlowOK'
  OBVIOUS
<1>u. UNCHANGED <<wallet, dialog, send, attempt, tries, timer, hint, chain, sent, outcome,
                  replacedAt>>
  BY DEF flowVars
<1>1. FlowTypes' /\ AttemptsFit' /\ ChainFits'
  BY <1>u DEF FlowOK, FlowInv, FlowTypes, AttemptsFit, ChainFits, At
<1>2. SenderFits' /\ DialogFits' /\ SentIsReported'
  BY <1>u DEF FlowOK, FlowInv, SenderFits, DialogFits, SentIsReported, At
<1> QED
  BY <1>1, <1>2 DEF FlowOK, FlowInv

-----------------------------------------------------------------------------
(* The theorems.                                                           *)

\* Every state of the dialog and of its attempts satisfies the inductive invariant.
THEOREM Invariance == Spec => []IInv
<1>i. IInv <=> FieldInv /\ FlowOK
  BY TypesSplit DEF IInv, FieldInv, FlowOK
<1>1. Init => IInv
  BY <1>i, FieldStarts, FlowStarts DEF Init
<1>2. FieldInv /\ FlowOK /\ [Next]_vars => FieldInv' /\ FlowOK'
  <2> SUFFICES ASSUME FieldInv, FlowOK, [Next]_vars PROVE FieldInv' /\ FlowOK'
    OBVIOUS
  <2>1. CASE Submit
    BY <2>1, SubmitKeepsFlow, FieldStays DEF Submit, FieldInv
  <2>2. CASE TimerFires \/ Close \/ NavigateAway
    BY <2>2, DialogKeepsFlow, FieldStays DEF TimerFires, Close, NavigateAway
  <2>3. CASE Field
    BY <2>3, EditsKeepField, EventsKeepField, FlowStays DEF Field
  <2>4. ASSUME NEW a \in Attempts, Attempted(a) PROVE FieldInv' /\ FlowOK'
    <3>1. UNCHANGED fieldVars
      BY <2>4 DEF Attempted, ConnectAnswers, TrustAnswers, ReconnectAnswers, Prepare,
                  SignAnswers, NodeTakes, NodeAnswers, WalletSends, ChainDecides, Settle
    <3> QED
      BY <3>1, <2>4, FieldStays, AttemptKeepsFlow
  <2>5. CASE UNCHANGED vars
    BY <2>5, FieldStays, FlowStays DEF vars
  <2> QED
    BY <2>1, <2>2, <2>3, <2>4, <2>5 DEF Next
<1>3. (IInv <=> FieldInv /\ FlowOK)'
  BY TypesSplit, <1>i, PTL
<1> QED
  BY <1>1, <1>2, <1>i, <1>3, PTL DEF Spec

\* Type correctness, whatever the coins, the wallets and the presses.
THEOREM TypeCorrect == Spec => []TypeOK
BY Invariance, PTL DEF IInv

\* A coin on offer in a field at rest is the coin in the field.
THEOREM OfferFollowsField == Spec => []OfferedIsField
<1>1. IInv => OfferedIsField
  BY DEF IInv, FieldInv, CoinFits, OfferedIsField, AtRest
<1> QED
  BY <1>1, Invariance, PTL

\* A choice of a burn is gone with the coin that could be burned.
THEOREM BurnFollowsCoin == Spec => []BurnGoesWithCoin
<1>1. IInv => BurnGoesWithCoin
  BY DEF IInv, FieldInv
<1> QED
  BY <1>1, Invariance, PTL

\* What went out without the page being told was answered with an error, or its page
\* was left, or it was replaced during its broadcast.
THEOREM PageIsTold == Spec => []SentIsReported
<1>1. IInv => SentIsReported
  BY DEF IInv, FlowInv
<1> QED
  BY <1>1, Invariance, PTL
=============================================================================
