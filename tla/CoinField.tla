----------------------------- MODULE CoinField -----------------------------
(***************************************************************************)
(* The coin field of the commit dialog: what is typed waits out a pause,   *)
(* then the server is asked about the coin; answers come when they like,   *)
(* in any order.  The choice of a burn hangs on the coin found.            *)
(***************************************************************************)
EXTENDS Naturals, FiniteSets

CONSTANTS
  Coins,           \* the coins the server takes
  Burnable,        \* those the buyer can burn
  Listed,          \* those already in the pool, offered as quick picks
  Junk,            \* what may be typed and is refused without the server
  Burns,           \* the shares that may be burned, zero among them
  MaxEdits         \* bound: what the person does to the field and the session

NoMint == "no mint"
ASSUME FieldAssumption ==
  /\ Burnable \subseteq Coins /\ Listed \subseteq Coins
  /\ Coins \cap Junk = {} /\ NoMint \notin Coins \cup Junk
  /\ Burns \subseteq Nat /\ 0 \in Burns /\ MaxEdits \in Nat

VARIABLES
  field,           \* mintInput
  coin,            \* the dialog's CoinState
  checkId,
  paused,          \* what the pause holds back, an empty set or one value
  checks,          \* the requests not answered yet, and whether an account made each
  known,           \* checkedCoins, kept by the service
  signedIn,
  poolOpen,
  burn,
  edits

fieldVars == <<field, coin, checkId, paused, checks, known, signedIn, poolOpen,
               burn, edits>>

Typed == Coins \cup Junk
Kinds == {"empty", "checking", "ready", "error", "signin"}
Shown(kind, mint) == [kind |-> kind, mint |-> mint]
ReadyCoin == IF coin.kind = "ready" THEN coin.mint ELSE NoMint

Asked(id, mint, byAccount) == [id |-> id, mint |-> mint, byAccount |-> byAccount]

FieldInit ==
  /\ field \in {NoMint} \cup Listed
  /\ known \in SUBSET Listed
  /\ signedIn \in BOOLEAN
  /\ coin = IF field = NoMint THEN Shown("empty", NoMint) ELSE Shown("checking", NoMint)
  /\ checkId = IF field = NoMint THEN 0 ELSE 1
  /\ checks = IF field = NoMint THEN {} ELSE {Asked(1, field, signedIn)}
  /\ paused = {}
  /\ poolOpen = TRUE
  /\ burn = 0
  /\ edits = 0

FieldTypeOK ==
  /\ field \in Typed \cup {NoMint}
  /\ coin \in [kind : Kinds, mint : Coins \cup {NoMint}]
  /\ checkId \in Nat
  /\ paused \subseteq Typed \cup {NoMint} /\ Cardinality(paused) <= 1
  /\ checks \subseteq [id : Nat, mint : Typed, byAccount : BOOLEAN]
  /\ known \subseteq Coins
  /\ signedIn \in BOOLEAN /\ poolOpen \in BOOLEAN
  /\ burn \in Burns
  /\ edits \in 0..MaxEdits

-----------------------------------------------------------------------------
Edit == edits < MaxEdits /\ edits' = edits + 1

\* checkCoin's answer for a coin the server takes: a coin that cannot be burned
\* takes the choice with it.
Found(mint) ==
  /\ coin' = Shown("ready", mint)
  /\ burn' = IF mint \in Burnable THEN burn ELSE 0

\* checkCoin: a coin already looked up is answered at once, and so is what is no
\* address; until the server answers, the dialog shows what it showed.  An empty
\* value only counts.
BeginCheck(value, meanwhile) ==
  /\ checkId' = checkId + 1
  /\ CASE value = NoMint  -> coin' = meanwhile /\ UNCHANGED <<burn, checks>>
       [] value \in known -> Found(value) /\ UNCHANGED checks
       [] value \in Junk  -> coin' = Shown("error", NoMint) /\ UNCHANGED <<burn, checks>>
       [] OTHER -> /\ checks' = checks \cup {Asked(checkId + 1, value, signedIn')}
                   /\ coin' = meanwhile
                   /\ UNCHANGED burn

\* onMintInput: the coin is not the shown one any more, the check waits for the
\* pause.  Clearing the field drops the answers under way.
TypeMint(value) ==
  /\ Edit
  /\ field' = value
  /\ coin' = Shown(IF value = NoMint THEN "empty" ELSE "checking", NoMint)
  /\ checkId' = IF value = NoMint THEN checkId + 1 ELSE checkId
  /\ paused' = {value}
  /\ UNCHANGED <<checks, known, signedIn, poolOpen, burn>>

\* debounceTime: the last value held back goes on.
PauseOver ==
  /\ paused # {} /\ paused' = {}
  /\ UNCHANGED <<field, known, signedIn, poolOpen, edits>>
  /\ \E value \in paused : BeginCheck(value, coin)

\* pickCoin: only over an empty field, and with no pause.
PickCoin(mint) ==
  /\ Edit
  /\ poolOpen /\ coin.kind = "empty" /\ field = NoMint
  /\ field' = mint
  /\ UNCHANGED <<paused, known, signedIn, poolOpen>>
  /\ BeginCheck(mint, Shown("checking", NoMint))

\* Mutant of Heeded: whatever comes is shown.
HeededAlways(check) == TRUE

\* An answer to anything but the last check begun is dropped.
Heeded(check) == check.id = checkId

\* The service remembers a coin also when the dialog no longer wants the answer.
\* The server checks coins for an account only, whoever is signed in by the time it
\* answers; a refusal asks to sign in if it is for that and nobody is now.
CheckAnswers(check) ==
  /\ checks' = checks \ {check}
  /\ \/ /\ check.byAccount
        /\ known' = known \cup {check.mint}
        /\ IF Heeded(check) THEN Found(check.mint) ELSE UNCHANGED <<coin, burn>>
     \/ /\ IF Heeded(check)
           THEN coin' \in {Shown(kind, NoMint) :
                             kind \in {"error"} \cup (IF signedIn THEN {} ELSE {"signin"})}
           ELSE UNCHANGED coin
        /\ UNCHANGED <<known, burn>>
  /\ UNCHANGED <<field, checkId, paused, signedIn, poolOpen, edits>>

\* The session comes or goes while the dialog is open; a coin that waits for an
\* account is checked now.
SessionChanges ==
  /\ Edit
  /\ signedIn' = ~signedIn
  /\ IF signedIn' /\ coin.kind = "signin" /\ field # NoMint
     THEN BeginCheck(field, Shown("checking", NoMint))
     ELSE UNCHANGED <<coin, burn, checks, checkId>>
  /\ UNCHANGED <<field, paused, known, poolOpen>>

\* A snapshot of the pool that is no longer open.
PoolCloses ==
  /\ poolOpen
  /\ poolOpen' = FALSE
  /\ UNCHANGED <<field, coin, checkId, paused, checks, known, signedIn, burn,
                 edits>>

BurnOffered == ReadyCoin \in Burnable /\ poolOpen
BurnToSend == IF BurnOffered THEN burn ELSE 0

SelectBurn(choice) ==
  /\ Edit
  /\ BurnOffered
  /\ burn' = choice
  /\ UNCHANGED <<field, coin, checkId, paused, checks, known, signedIn, poolOpen>>

\* What the person does while the dialog is not sending: the inputs are
\* disabled otherwise.
FieldEdits ==
  \/ \E value \in Typed \cup {NoMint} : TypeMint(value)
  \/ \E mint \in Listed : PickCoin(mint)
  \/ \E choice \in Burns : SelectBurn(choice)

\* What happens to it in any case.
FieldEvents ==
  \/ PauseOver
  \/ \E check \in checks : CheckAnswers(check)
  \/ SessionChanges
  \/ PoolCloses

-----------------------------------------------------------------------------
(* Once the field has come to rest (nothing held back by the pause, no     *)
(* answer to the last check outstanding), the coin offered for the commit  *)
(* is the coin in the field, in whatever order the server answered: a slow *)
(* answer about an earlier coin never takes the place of a later one.      *)
AtRest == paused = {} /\ ~\E check \in checks : Heeded(check)
OfferedIsField == AtRest /\ coin.kind = "ready" => coin.mint = field

(* A burn chosen for one coin does not survive a coin that cannot be       *)
(* burned: with such a coin on screen, the choice kept is none.            *)
BurnGoesWithCoin == ReadyCoin \in Coins \ Burnable => burn = 0
=============================================================================
