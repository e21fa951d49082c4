----------------------------- MODULE CommitFlow -----------------------------
(***************************************************************************)
(* The commit dialog from the press of the button to the page that waits   *)
(* for the commit: the attempts of one dialog (a stalled one may be        *)
(* replaced), the wallet each of them waits on, the network it sends       *)
(* through, and what the page is told.  Every await of CommitService.send  *)
(* is a step of its own; a wallet may never answer.                        *)
(***************************************************************************)
EXTENDS CoinField

CONSTANTS
  Wallets,         \* the wallet in use: of Phantom, Signer, Sender
  MaxAttempts      \* bound: presses of the button

Phantom == "phantom"    \* signs, and is asked to confirm the connection
Signer == "signer"      \* signs
Sender == "sender"      \* can only sign and send

ASSUME FlowAssumption ==
  /\ Wallets \subseteq {Phantom, Signer, Sender} /\ MaxAttempts \in Nat

VARIABLES
  wallet,          \* its name, and what the page's copy says of the connection
  dialog,          \* open, closed, or gone with the page it stood on
  send,
  attempt,         \* which attempt is current
  tries,           \* every attempt: where it is, what it commits, how it ended
  timer,           \* walletTimer: no one or one
  hint,            \* walletStalled and stalledRetryable
  chain,           \* what became of each attempt's transaction
  sent,            \* the attempt whose SentCommit the page received, or 0
  outcome,         \* how settle ended
  replacedAt       \* history: where an attempt was when the next one began

flowVars == <<wallet, dialog, send, attempt, tries, timer, hint, chain, sent,
              outcome, replacedAt>>
vars == <<fieldVars, flowVars>>

Attempts == 1..MaxAttempts
Stages == {"unused", "connect", "trust", "reconnect", "prepare", "sign",
           "broadcast", "wallet sends", "done"}
Results == {"none", "sent", "quiet", "error"}
Unused == [pc |-> "unused", mint |-> NoMint, burn |-> 0, result |-> "none"]

Init ==
  /\ FieldInit
  /\ wallet \in [name : Wallets, link : {"none", "off", "on"}]
  /\ dialog = "open"
  /\ send = "idle"
  /\ attempt = 0
  /\ tries = [a \in Attempts |-> Unused]
  /\ timer = {}
  /\ hint = "none"
  /\ chain = [a \in Attempts |-> "none"]
  /\ sent = 0
  /\ outcome = [a \in Attempts |-> "none"]
  /\ replacedAt = [a \in Attempts |-> "never"]

TypeOK ==
  /\ FieldTypeOK
  /\ wallet \in [name : Wallets, link : {"none", "off", "on"}]
  /\ dialog \in {"open", "closed", "gone"}
  /\ send \in {"idle", "wallet"}
  /\ attempt \in 0..MaxAttempts
  /\ tries \in [Attempts -> [pc : Stages, mint : Coins \cup {NoMint}, burn : Burns,
                             result : Results]]
  /\ timer \subseteq [attempt : Attempts, retryable : BOOLEAN] /\ Cardinality(timer) <= 1
  /\ hint \in {"none", "wait", "retry"}
  /\ chain \in [Attempts -> {"none", "flying", "landed", "lost"}]
  /\ sent \in 0..attempt
  /\ outcome \in [Attempts -> {"none", "recorded", "confirmed", "unconfirmed"}]
  /\ replacedAt \in [Attempts -> Stages \cup {"never"}]

-----------------------------------------------------------------------------
(* What the steps of an attempt are made of.                               *)

At(a, stage) == tries[a].pc = stage
GoTo(a, stage) == tries' = [tries EXCEPT ![a].pc = stage]

\* Mutant of Current: no attempt is ever taken for a replaced one.
CurrentAlways(a) == TRUE

\* isCurrent.
Current(a) == a = attempt

\* onWalletPrompt: startWalletTimer stops whatever timer there was.
Prompt(a, retryable) ==
  /\ timer' = {[attempt |-> a, retryable |-> retryable]}
  /\ hint' = "none"

\* send returns or throws; the answer of a replaced attempt is dropped, and a
\* dialog that is gone has no one to answer.
Finish(a, result) ==
  /\ tries' = [tries EXCEPT ![a].pc = "done", ![a].result = result]
  /\ IF a = attempt
     THEN /\ send' = "idle" /\ timer' = {} /\ hint' = "none"
          /\ IF result = "sent" /\ dialog = "open"
             THEN dialog' = "closed" /\ sent' = a
             ELSE UNCHANGED <<dialog, sent>>
     ELSE UNCHANGED <<send, timer, hint, dialog, sent>>

\* The wallet is connected: a replaced attempt stops here.
Connected(a) ==
  IF Current(a)
  THEN GoTo(a, "prepare") /\ UNCHANGED <<send, timer, hint, dialog, sent>>
  ELSE Finish(a, "quiet")

AfterConnect(a) ==
  IF wallet.name = Phantom
  THEN GoTo(a, "trust") /\ UNCHANGED <<send, timer, hint, dialog, sent>>
  ELSE Connected(a)

-----------------------------------------------------------------------------
(* The dialog.                                                             *)

CanRetryWallet == send = "wallet" /\ hint = "retry"

Submit ==
  /\ dialog = "open" /\ attempt < MaxAttempts
  /\ send = "idle" \/ CanRetryWallet
  /\ poolOpen /\ signedIn /\ ReadyCoin # NoMint
  /\ attempt' = attempt + 1
  /\ timer' = {} /\ hint' = "none"
  /\ send' = "wallet"
  /\ tries' = [tries EXCEPT ![attempt + 1] =
       [pc |-> IF wallet.link # "on" THEN "connect"
               ELSE IF wallet.name = Phantom THEN "trust" ELSE "prepare",
        mint |-> ReadyCoin, burn |-> BurnToSend, result |-> "none"]]
  /\ replacedAt' = IF attempt = 0 THEN replacedAt
                   ELSE [replacedAt EXCEPT ![attempt] = tries[attempt].pc]
  /\ UNCHANGED <<wallet, dialog, chain, sent, outcome, fieldVars>>

\* WALLET_WINDOW_HINT_MS without an answer.
TimerFires ==
  /\ timer # {}
  /\ \E t \in timer :
       hint' = IF t.attempt # attempt \/ send # "wallet" THEN hint
               ELSE IF t.retryable THEN "retry" ELSE "wait"
  /\ timer' = {}
  /\ UNCHANGED <<wallet, dialog, send, attempt, tries, chain, sent, outcome,
                 replacedAt, fieldVars>>

\* The cross, the backdrop, Escape.
Close ==
  /\ dialog = "open" /\ send = "idle"
  /\ dialog' = "closed"
  /\ UNCHANGED <<wallet, send, attempt, tries, timer, hint, chain, sent, outcome,
                 replacedAt, fieldVars>>

\* The page is left, by a link or by the session watchdog: its dialogs close.
NavigateAway ==
  /\ dialog = "open"
  /\ dialog' = "gone"
  /\ timer' = {} /\ hint' = "none"
  /\ UNCHANGED <<wallet, send, attempt, tries, chain, sent, outcome, replacedAt,
                 fieldVars>>

-----------------------------------------------------------------------------
(* One attempt: CommitService.send.                                        *)

\* wallet.connect opened the wallet's window, or the list of wallets first.
ConnectAnswers(a) ==
  /\ At(a, "connect")
  /\ \/ AfterConnect(a) /\ wallet' = [wallet EXCEPT !.link = "on"]
     \/ Finish(a, IF wallet.link = "none" THEN "quiet" ELSE "error") /\ UNCHANGED wallet
  /\ UNCHANGED <<attempt, chain, outcome, replacedAt, fieldVars>>

\* confirmPhantomSession: an answer, silence for five seconds, or no trust.
TrustAnswers(a) ==
  /\ At(a, "trust")
  /\ \/ Connected(a)
     \/ Finish(a, "error")
     \/ GoTo(a, "reconnect") /\ Prompt(a, TRUE) /\ UNCHANGED <<send, dialog, sent>>
  /\ UNCHANGED <<wallet, attempt, chain, outcome, replacedAt, fieldVars>>

ReconnectAnswers(a) ==
  /\ At(a, "reconnect")
  /\ Connected(a) \/ Finish(a, "error")
  /\ UNCHANGED <<wallet, attempt, chain, outcome, replacedAt, fieldVars>>

\* signAndSend up to the wallet: who can sign is asked to, and may be replaced.
AskWallet(a) ==
  /\ GoTo(a, IF wallet.name = Sender THEN "wallet sends" ELSE "sign")
  /\ Prompt(a, wallet.name # Sender)
  /\ UNCHANGED <<send, dialog, sent>>

\* The pool is not found, or the simulation fails: the wallet is not asked.
PreflightFails(a) == Finish(a, "error")

Prepare(a) ==
  /\ At(a, "prepare")
  /\ PreflightFails(a) \/ AskWallet(a)
  /\ UNCHANGED <<wallet, attempt, chain, outcome, replacedAt, fieldVars>>

\* A signature that comes for a replaced attempt is dropped.
SignAnswers(a) ==
  /\ At(a, "sign")
  /\ \/ IF Current(a)
        THEN GoTo(a, "broadcast") /\ UNCHANGED <<send, timer, hint, dialog, sent>>
        ELSE Finish(a, "quiet")
     \/ Finish(a, "quiet")
     \/ Finish(a, "error")
  /\ UNCHANGED <<wallet, attempt, chain, outcome, replacedAt, fieldVars>>

\* sendRawTransaction reaches the node.
NodeTakes(a) ==
  /\ At(a, "broadcast") /\ chain[a] = "none"
  /\ chain' = [chain EXCEPT ![a] = "flying"]
  /\ UNCHANGED <<wallet, dialog, send, attempt, tries, timer, hint, sent, outcome,
                 replacedAt, fieldVars>>

\* The node's answer; it may refuse, and it may be lost.
NodeAnswers(a) ==
  /\ At(a, "broadcast")
  /\ \/ chain[a] # "none" /\ Finish(a, "sent")
     \/ Finish(a, "error")
  /\ UNCHANGED <<wallet, attempt, chain, outcome, replacedAt, fieldVars>>

\* signAndSendTransaction: the wallet broadcasts, and may return no signature.
WalletSends(a) ==
  /\ At(a, "wallet sends")
  /\ \/ /\ \E result \in {"sent", "error"} : Finish(a, result)
        /\ chain' = [chain EXCEPT ![a] = "flying"]
     \/ /\ \E result \in {"quiet", "error"} : Finish(a, result)
        /\ UNCHANGED chain
  /\ UNCHANGED <<wallet, attempt, outcome, replacedAt, fieldVars>>

ChainDecides(a) ==
  /\ chain[a] = "flying"
  /\ \E fate \in {"landed", "lost"} : chain' = [chain EXCEPT ![a] = fate]
  /\ UNCHANGED <<wallet, dialog, send, attempt, tries, timer, hint, sent, outcome,
                 replacedAt, fieldVars>>

\* settle: the confirmation is waited for a minute and a half, then the backend
\* is asked to record the commit.  It runs also for an answer that is dropped.
Settle(a) ==
  /\ tries[a].result = "sent" /\ outcome[a] = "none"
  /\ \E end \in {"unconfirmed"} \cup
                (IF chain[a] = "landed" THEN {"recorded", "confirmed"} ELSE {}) :
       outcome' = [outcome EXCEPT ![a] = end]
  /\ UNCHANGED <<wallet, dialog, send, attempt, tries, timer, hint, chain, sent,
                 replacedAt, fieldVars>>

Attempted(a) ==
  \/ ConnectAnswers(a) \/ TrustAnswers(a) \/ ReconnectAnswers(a) \/ Prepare(a)
  \/ SignAnswers(a) \/ NodeTakes(a) \/ NodeAnswers(a) \/ WalletSends(a)
  \/ ChainDecides(a) \/ Settle(a)

\* The inputs are disabled while an attempt is under way.
Field ==
  /\ dialog = "open"
  /\ (send = "idle" /\ FieldEdits) \/ FieldEvents
  /\ UNCHANGED flowVars

Next ==
  \/ Submit \/ TimerFires \/ Close \/ NavigateAway \/ Field
  \/ \E a \in Attempts : Attempted(a)

Spec == Init /\ [][Next]_vars

-----------------------------------------------------------------------------
(* A transaction that went out without the page being told of it: the      *)
(* answer was a lost one, the page was left, or the attempt was replaced   *)
(* between the signature and the node's answer.  There is no fourth way,   *)
(* whatever the wallet does with the requests it is still showing: one     *)
(* that is approved after its attempt was replaced goes nowhere.           *)
SentIsReported ==
  \A a \in Attempts :
    chain[a] # "none" /\ At(a, "done") =>
      \/ sent = a
      \/ tries[a].result = "error"
      \/ dialog = "gone"
      \/ replacedAt[a] = "broadcast"

(* "the wallet only signs and we broadcast, so a signature that turns up   *)
(* for a replaced attempt is simply never sent", says CommitRequest, "so   *)
(* one click is one commit".                                               *)
ReplacedNeverLands ==
  \A a \in Attempts : replacedAt[a] \notin {"never", "done"} => chain[a] # "landed"
=============================================================================
