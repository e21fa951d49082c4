--------------------------- MODULE WalletSession ---------------------------
(***************************************************************************)
(* Who is signed in, and with which wallet: the session token and the      *)
(* linked address in the browser's storage, the address the wallet service *)
(* publishes, the sign-in with a wallet, the switch of wallets, and the    *)
(* watchdog that closes a session whose wallet became another one.         *)
(***************************************************************************)
EXTENDS Naturals, FiniteSets

CONSTANTS
  Addresses,       \* the accounts of the person's wallets
  MaxEvents        \* bound: what the person does to session and wallet

None == "none"
Mail == "mail"     \* the account with an email
ASSUME SessionAssumption ==
  /\ None \notin Addresses /\ Mail \notin Addresses /\ MaxEvents \in Nat

VARIABLES
  user,            \* whose token is in storage
  tokenOk,         \* whether it is still good
  linked,          \* the linked address in storage
  linkedSeen,      \* the watchdog has seen the linked wallet connected
  storeAuth,       \* the store's isAuthenticated
  address,         \* walletAddress$
  chosen,          \* currentProvider is set: its events are listened to
  flow,            \* a wallet sign-in under way
  blind,           \* history: the wallet changed while the watchdog was not looking
  events

sessionVars == <<user, tokenOk, linked, linkedSeen, storeAuth, address,
                 chosen, flow, blind, events>>

Users == Addresses \cup {Mail}
Idle == [at |-> "idle", for |-> None, switch |-> FALSE]

\* A page with or without a session, its wallet restored or not.
SessionInit ==
  /\ user \in Users \cup {None}
  /\ linked = IF user = Mail THEN None ELSE user
  /\ storeAuth = (user # None) /\ tokenOk = (user # None)
  /\ address \in {None, linked}
  /\ chosen = (address # None) /\ linkedSeen = chosen
  /\ flow = Idle
  /\ blind = FALSE
  /\ events = 0

SessionTypeOK ==
  /\ user \in Users \cup {None} /\ linked \in Addresses \cup {None}
  /\ address \in Addresses \cup {None}
  /\ {tokenOk, linkedSeen, storeAuth, chosen, blind} \subseteq BOOLEAN
  /\ flow \in [at : {"idle", "signing", "verifying"}, for : Addresses \cup {None},
               switch : BOOLEAN]
  /\ events \in 0..MaxEvents

-----------------------------------------------------------------------------
Event == events < MaxEvents /\ events' = events + 1

Watched == user # None /\ linked # None
Mismatch(next) == IF next = None THEN linkedSeen ELSE next # linked

\* Mutant of MustLogOut: only a wallet that disconnects closes the session.
MustLogOutOnNone(next) == Watched /\ next = None /\ linkedSeen

\* The watchdog: the session's wallet became another one, or left after it had
\* been seen.
MustLogOut(next) == Watched /\ Mismatch(next)

\* walletAddress$ says `next`: the watchdog of the app, silent during a switch.
\* forceWalletLogout clears the storage and the store.
Publish(next) ==
  /\ address' = next
  /\ IF flow.switch
     THEN UNCHANGED <<user, tokenOk, linked, linkedSeen, storeAuth>>
     ELSE IF MustLogOut(next)
     THEN /\ user' = None /\ tokenOk' = FALSE /\ linked' = None
          /\ storeAuth' = FALSE /\ linkedSeen' = FALSE
     ELSE /\ linkedSeen' = (Watched /\ (linkedSeen \/ next = linked))
          /\ UNCHANGED <<user, tokenOk, linked, storeAuth>>

Unchanged == UNCHANGED <<user, tokenOk, linked, linkedSeen, storeAuth, address>>

\* completeSignIn.
SignedIn(who) == user' = who /\ tokenOk' = TRUE /\ storeAuth' = TRUE

-----------------------------------------------------------------------------
\* The dialog offers a sign-in to who has no session that still holds.
NeedsSignIn == user = None \/ ~tokenOk

SignInWithEmail ==
  /\ Event /\ NeedsSignIn /\ flow = Idle
  /\ SignedIn(Mail)
  /\ UNCHANGED <<linked, linkedSeen, address, chosen, flow, blind>>

\* signInWithWallet: the list of wallets, the connection, the nonce.
SignInWithWallet(account) ==
  /\ Event /\ NeedsSignIn /\ flow = Idle
  /\ Publish(account) /\ chosen' = TRUE
  /\ flow' = [at |-> "signing", for |-> account, switch |-> FALSE]
  /\ UNCHANGED blind

\* changeWallet of the commit dialog: one whole action for the watchdog, with a
\* new sign-in when the session is tied to another address.
ChangeWallet(account) ==
  /\ Event /\ flow = Idle
  /\ address' = account /\ chosen' = TRUE
  /\ UNCHANGED <<user, tokenOk, linked, linkedSeen, storeAuth>>
  /\ flow' = IF linked \in {None, account} THEN Idle
             ELSE [at |-> "signing", for |-> account, switch |-> TRUE]
  /\ blind' = (blind \/ flow' # Idle)

\* The wallet's answer to signMessage; a rejection, or an interruption, ends the
\* sign-in and with it the switch.
SignatureAnswers ==
  /\ flow.at = "signing"
  /\ flow' \in {[flow EXCEPT !.at = "verifying"], Idle}
  /\ Unchanged /\ UNCHANGED <<chosen, blind, events>>

\* The server's answer about the signature: the wallet is remembered, the
\* session is the new one.
VerifyAnswers ==
  /\ flow.at = "verifying"
  /\ \/ /\ linked' = flow.for
        /\ SignedIn(flow.for)
        /\ UNCHANGED <<linkedSeen, address>>
        /\ blind' = (address # flow.for)
     \/ Unchanged /\ UNCHANGED blind
  /\ flow' = Idle
  /\ UNCHANGED <<chosen, events>>

\* restoreWalletSession of the main page: the silent reconnect publishes an
\* address, which then becomes the linked one.
RestoreWallet(account) ==
  /\ Event /\ flow = Idle
  /\ user # None /\ tokenOk /\ linked # None /\ address = None
  /\ address' = account /\ chosen' = TRUE
  /\ IF MustLogOut(account)
     THEN /\ user' = None /\ tokenOk' = FALSE /\ storeAuth' = FALSE
          /\ linkedSeen' = FALSE
     ELSE linkedSeen' = TRUE /\ UNCHANGED <<user, tokenOk, storeAuth>>
  /\ linked' = account
  /\ UNCHANGED <<flow, blind>>

\* The extension's own events: accountChanged, connect, disconnect.
WalletEvent(account) ==
  /\ Event /\ chosen
  /\ Publish(account)
  /\ UNCHANGED <<chosen, flow, blind>>

\* The header's sign-out: the wallet first, then the storage and the store.
SignOut ==
  /\ Event /\ storeAuth /\ flow = Idle
  /\ user' = None /\ tokenOk' = FALSE /\ linked' = None /\ storeAuth' = FALSE
  /\ address' = None /\ chosen' = FALSE
  /\ linkedSeen' = FALSE
  /\ UNCHANGED <<flow, blind>>

TokenExpires ==
  /\ Event /\ tokenOk
  /\ tokenOk' = FALSE
  /\ UNCHANGED <<user, linked, linkedSeen, storeAuth, address, chosen, flow, blind>>

SessionNext ==
  \/ SignInWithEmail \/ SignatureAnswers \/ VerifyAnswers \/ SignOut \/ TokenExpires
  \/ \E account \in Addresses :
       \/ SignInWithWallet(account) \/ ChangeWallet(account) \/ RestoreWallet(account)
       \/ WalletEvent(account)
  \/ WalletEvent(None)

-----------------------------------------------------------------------------
(* A session signed for by one wallet does not stand while another one is  *)
(* connected and would pay, unless the change came while the watchdog was  *)
(* not looking: during a switch, or between the signature of a sign-in and *)
(* the server's answer.                                                    *)
SessionFollowsWallet ==
  user \in Addresses /\ address # None /\ ~blind => address = linked /\ linked = user
=============================================================================
