-------------------------- MODULE ChatSessionProofs -------------------------
(***************************************************************************)
(* Proofs about the session and the chat panel on top of it: a session     *)
(* follows its wallet, a message is stored once for a sender, and it is    *)
(* stored under its writer's name.                                         *)
(***************************************************************************)
EXTENDS ChatSession, TLAPS

-----------------------------------------------------------------------------
(* The inductive invariant.                                                *)

\* A wallet's session is tied to that wallet; the watchdog looks away only during
\* a switch, and then the history says so.
SessionFits ==
  /\ user \in Addresses => linked = user
  /\ flow.switch => blind
  /\ flow.at # "idle" => flow.for \in Addresses
  /\ storeAuth = (user # None)

\* The chat says what the store says, and unless the session has changed hands
\* behind its back the socket carries the session's name or none.
SocketFits ==
  /\ chatAuth = storeAuth
  /\ ~unnoticed => socket.name \in {user, None}

\* A timer runs for a message that waits; the one to retry has failed; one whose
\* picture uploads is a picture.
PendingFits ==
  /\ \A c \in Messages : pending[c].timer # "none" => pending[c].state = "queued"
  /\ failedMessage \in Messages => failedMessage = None \/ pending[failedMessage].state = "failed"
  /\ \A c \in Messages : pending[c].state = "uploading" => pending[c].picture

\* What waits without a picture is the present session's; what has been sent was
\* written by somebody, and goes under the writer's name or none, or is a picture.
AuthorsFit ==
  /\ \A m \in wire \cup stored : pending[m.msg].state # "unwritten"
  /\ ~unnoticed =>
       /\ \A c \in Messages :
            pending[c].state \in {"queued", "failed"} /\ ~pending[c].picture =>
              chatAuth /\ pending[c].author = user
       /\ \A m \in wire : ~pending[m.msg].picture => m.name \in {None, pending[m.msg].author}

SessionInv == SessionTypeOK /\ SessionFits /\ SessionFollowsWallet
ChatInv == SocketFits /\ PendingFits /\ AuthorsFit /\ StoredOnce /\ NameIsTheWriters
IInv == SessionInv /\ TypeOK /\ ChatInv

-----------------------------------------------------------------------------
(* The session.                                                            *)

\* The signed-out state and the accounts are told apart.
LEMMA Accounts ==
  /\ None # Mail /\ \A a \in Addresses : a # None /\ a # Mail
  /\ MaxEvents \in Nat
BY SessionAssumption DEF None, Mail

\* A page opens with a session that fits its wallet.
LEMMA SessionStarts == SessionInit => SessionInv
<1> SUFFICES ASSUME SessionInit PROVE SessionInv
  OBVIOUS
<1>1. /\ user \in Addresses \cup {Mail, None} /\ linked \in Addresses \cup {None}
      /\ user # Mail => linked = user
      /\ address \in {None, linked} /\ storeAuth = (user # None) /\ tokenOk = (user # None)
      /\ chosen = (address # None) /\ linkedSeen = chosen /\ flow = Idle /\ blind = FALSE
      /\ events = 0
  BY DEF SessionInit, Users
<1>2. SessionTypeOK
  <2>1. flow \in [at : {"idle", "signing", "verifying"}, for : Addresses \cup {None},
                  switch : BOOLEAN]
    BY <1>1 DEF Idle
  <2>2. {tokenOk, linkedSeen, storeAuth, chosen, blind} \subseteq BOOLEAN
    BY <1>1
  <2>3. events \in 0..MaxEvents
    BY <1>1, Accounts
  <2> QED
    BY <1>1, <2>1, <2>2, <2>3 DEF SessionTypeOK, Users
<1>3. SessionFits
  BY <1>1, Accounts DEF SessionFits, Idle
<1>4. SessionFollowsWallet
  BY <1>1, Accounts DEF SessionFollowsWallet
<1> QED
  BY <1>2, <1>3, <1>4 DEF SessionInv

\* What the watchdog does with an address: outside a switch the session that
\* stands afterwards is the linked wallet's.
LEMMA PublishFits ==
  ASSUME SessionInv, NEW next \in Addresses \cup {None}, Publish(next)
  PROVE  /\ address' = next
         /\ user' \in {user, None} /\ linked' \in {linked, None}
         /\ tokenOk' \in BOOLEAN /\ linkedSeen' \in BOOLEAN /\ storeAuth' = (user' # None)
         /\ user' = user => linked' = linked \/ user = None
         /\ ~flow.switch /\ user' \in Addresses /\ next # None => next = linked' /\ linked' = user'
<1>1. /\ linked \in Addresses \cup {None} /\ {tokenOk, linkedSeen, storeAuth} \subseteq BOOLEAN
      /\ user \in Addresses => linked = user
      /\ storeAuth = (user # None)
  BY DEF SessionInv, SessionTypeOK, SessionFits
<1>2. CASE flow.switch
  BY <1>1, <1>2 DEF Publish
<1>3. CASE ~flow.switch /\ MustLogOut(next)
  BY <1>1, <1>3, Accounts DEF Publish, MustLogOut, Watched
<1>4. CASE ~flow.switch /\ ~MustLogOut(next)
  <2>1. /\ address' = next /\ linkedSeen' \in BOOLEAN
        /\ UNCHANGED <<user, tokenOk, linked, storeAuth>>
    BY <1>1, <1>4 DEF Publish
  <2>2. user \in Addresses /\ next # None => next = linked
    BY <1>1, <1>4, Accounts DEF MustLogOut, Watched, Mismatch
  <2> QED
    BY <1>1, <2>1, <2>2
<1> QED
  BY <1>2, <1>3, <1>4

\* A step of the person, the wallet or the server keeps the session in order.
LEMMA SessionSteps == SessionInv /\ [SessionNext]_sessionVars => SessionInv'
<1> SUFFICES ASSUME SessionInv, [SessionNext]_sessionVars PROVE SessionInv'
  OBVIOUS
<1>1. /\ user \in Users \cup {None} /\ linked \in Addresses \cup {None}
      /\ address \in Addresses \cup {None}
      /\ tokenOk \in BOOLEAN /\ linkedSeen \in BOOLEAN /\ storeAuth \in BOOLEAN
      /\ chosen \in BOOLEAN /\ blind \in BOOLEAN
      /\ flow \in [at : {"idle", "signing", "verifying"}, for : Addresses \cup {None},
                   switch : BOOLEAN]
      /\ events \in 0..MaxEvents
  BY DEF SessionInv, SessionTypeOK
<1>2. /\ user \in Addresses => linked = user
      /\ flow.switch => blind
      /\ flow.at # "idle" => flow.for \in Addresses
      /\ storeAuth = (user # None)
      /\ user \in Addresses /\ address # None /\ ~blind => address = linked /\ linked = user
  BY DEF SessionInv, SessionFits, SessionFollowsWallet
<1>e. Event => events' \in 0..MaxEvents
  BY <1>1, Accounts DEF Event
<1>i. Idle \in [at : {"idle", "signing", "verifying"}, for : Addresses \cup {None}, switch : BOOLEAN]
      /\ Idle.switch = FALSE /\ Idle.at = "idle"
  BY DEF Idle
<1>s. \A account \in Addresses, switch \in BOOLEAN :
        [at |-> "signing", for |-> account, switch |-> switch]
          \in [at : {"idle", "signing", "verifying"}, for : Addresses \cup {None}, switch : BOOLEAN]
  OBVIOUS
<1>t. ASSUME user' \in Users \cup {None}, linked' \in Addresses \cup {None},
             address' \in Addresses \cup {None},
             tokenOk' \in BOOLEAN, linkedSeen' \in BOOLEAN, chosen' \in BOOLEAN, blind' \in BOOLEAN,
             flow' \in [at : {"idle", "signing", "verifying"}, for : Addresses \cup {None},
                        switch : BOOLEAN],
             events' \in 0..MaxEvents,
             user' \in Addresses => linked' = user',
             flow'.switch => blind',
             flow'.at # "idle" => flow'.for \in Addresses,
             storeAuth' = (user' # None),
             user' \in Addresses /\ address' # None /\ ~blind' => address' = linked'
      PROVE  SessionInv'
  BY <1>t DEF SessionInv, SessionTypeOK, SessionFits, SessionFollowsWallet
<1>3. CASE SignInWithEmail
  <2>1. UNCHANGED <<linked, linkedSeen, address, chosen, flow, blind>> /\ Event
        /\ user' = Mail /\ tokenOk' = TRUE /\ storeAuth' = TRUE
    BY <1>3 DEF SignInWithEmail, SignedIn
  <2> QED
    BY <1>1, <1>2, <1>e, <1>t, <2>1, Accounts DEF Users
<1>4. CASE SignatureAnswers
  <2>1. /\ UNCHANGED <<user, tokenOk, linked, linkedSeen, storeAuth, address, chosen, blind, events>>
        /\ flow' \in {[flow EXCEPT !.at = "verifying"], Idle} /\ flow.at = "signing"
    BY <1>4 DEF SignatureAnswers, Unchanged
  <2>2. /\ flow' \in [at : {"idle", "signing", "verifying"}, for : Addresses \cup {None},
                      switch : BOOLEAN]
        /\ flow'.switch => flow.switch
        /\ flow'.at # "idle" => flow'.for \in Addresses
    BY <1>1, <1>2, <1>i, <2>1
  <2> QED
    BY <1>1, <1>2, <1>t, <2>1, <2>2
<1>5. CASE VerifyAnswers
  <2>1. flow.for \in Addresses /\ flow' = Idle /\ UNCHANGED <<chosen, events>>
    BY <1>2, <1>5 DEF VerifyAnswers
  <2>2. CASE /\ linked' = flow.for
             /\ SignedIn(flow.for)
             /\ UNCHANGED <<linkedSeen, address>>
             /\ blind' = (address # flow.for)
    BY <1>1, <1>2, <1>i, <1>t, <2>1, <2>2, Accounts DEF SignedIn, Users
  <2>3. CASE Unchanged /\ UNCHANGED blind
    BY <1>1, <1>2, <1>i, <1>t, <2>1, <2>3 DEF Unchanged
  <2> QED
    BY <1>5, <2>2, <2>3 DEF VerifyAnswers
<1>6. CASE SignOut
  BY <1>1, <1>2, <1>6, <1>e, <1>t, Accounts DEF SignOut
<1>7. CASE TokenExpires
  BY <1>1, <1>2, <1>7, <1>e, <1>t DEF TokenExpires
<1>8. ASSUME NEW account \in Addresses, SignInWithWallet(account) PROVE SessionInv'
  <2>1. /\ Event /\ flow = Idle /\ Publish(account) /\ chosen' = TRUE
        /\ flow' = [at |-> "signing", for |-> account, switch |-> FALSE] /\ blind' = blind
    BY <1>8 DEF SignInWithWallet
  <2>2. /\ address' = account
        /\ user' \in {user, None} /\ linked' \in {linked, None}
        /\ tokenOk' \in BOOLEAN /\ linkedSeen' \in BOOLEAN /\ storeAuth' = (user' # None)
        /\ user' \in Addresses => account = linked' /\ linked' = user'
    BY <1>i, <2>1, PublishFits, Accounts
  <2> QED
    BY <1>1, <1>2, <1>e, <1>s, <1>t, <2>1, <2>2
<1>9. ASSUME NEW account \in Addresses, ChangeWallet(account) PROVE SessionInv'
  <2>1. /\ Event /\ address' = account /\ chosen' = TRUE
        /\ UNCHANGED <<user, tokenOk, linked, linkedSeen, storeAuth>>
    BY <1>9 DEF ChangeWallet
  <2>2. CASE linked \in {None, account}
    <3>1. flow' = Idle /\ blind' = blind
      BY <1>1, <1>9, <2>2 DEF ChangeWallet
    <3> QED
      BY <1>1, <1>2, <1>e, <1>i, <1>t, <2>1, <2>2, <3>1, Accounts
  <2>3. CASE linked \notin {None, account}
    <3>1. flow' = [at |-> "signing", for |-> account, switch |-> TRUE] /\ blind' = TRUE
      BY <1>9, <2>3 DEF ChangeWallet, Idle
    <3> QED
      BY <1>1, <1>2, <1>e, <1>s, <1>t, <2>1, <3>1
  <2> QED
    BY <2>2, <2>3
<1>10. ASSUME NEW account \in Addresses, RestoreWallet(account) PROVE SessionInv'
  <2>1. /\ Event /\ flow = Idle /\ linked # None /\ user # None
        /\ address' = account /\ chosen' = TRUE /\ linked' = account
        /\ UNCHANGED <<flow, blind>>
    BY <1>10 DEF RestoreWallet
  <2>2. CASE MustLogOut(account)
    <3>1. user' = None /\ tokenOk' = FALSE /\ storeAuth' = FALSE /\ linkedSeen' = FALSE
      BY <1>10, <2>2 DEF RestoreWallet
    <3> QED
      BY <1>1, <1>2, <1>e, <1>t, <2>1, <3>1, Accounts
  <2>3. CASE ~MustLogOut(account)
    <3>1. linkedSeen' = TRUE /\ UNCHANGED <<user, tokenOk, storeAuth>>
      BY <1>10, <2>3 DEF RestoreWallet
    <3>2. linked = account
      BY <2>1, <2>3, Accounts DEF MustLogOut, Watched, Mismatch
    <3> QED
      BY <1>1, <1>2, <1>e, <1>t, <2>1, <3>1, <3>2
  <2> QED
    BY <2>2, <2>3
<1>11. ASSUME NEW account \in Addresses \cup {None}, WalletEvent(account) PROVE SessionInv'
  <2>1. Event /\ Publish(account) /\ UNCHANGED <<chosen, flow, blind>>
    BY <1>11 DEF WalletEvent
  <2>2. /\ address' = account
        /\ user' \in {user, None} /\ linked' \in {linked, None}
        /\ tokenOk' \in BOOLEAN /\ linkedSeen' \in BOOLEAN /\ storeAuth' = (user' # None)
        /\ user' = user => linked' = linked \/ user = None
        /\ ~flow.switch /\ user' \in Addresses /\ account # None =>
             account = linked' /\ linked' = user'
    BY <2>1, PublishFits
  <2>3. user' \in Addresses => linked' = user'
    BY <1>2, <2>2, Accounts
  <2> QED
    BY <1>1, <1>2, <1>e, <1>t, <2>1, <2>2, <2>3
<1>12. CASE UNCHANGED sessionVars
  BY <1>1, <1>2, <1>12, <1>t DEF sessionVars
<1> QED
  BY <1>3, <1>4, <1>5, <1>6, <1>7, <1>8, <1>9, <1>10, <1>11, <1>12 DEF SessionNext

-----------------------------------------------------------------------------
(* The chat.                                                               *)

Pendings == [state : States, attempts : 0..MaxSendAttempts, timer : Timers, author : Names,
             picture : BOOLEAN]
Sendings == [msg : Messages, try : 1..MaxSendAttempts, name : Names, socket : {0, 1}]
Answers == [msg : Messages, ok : BOOLEAN]
Copies == [msg : Messages, name : Users, try : 1..MaxSendAttempts]
Sockets == [id : {0, 1}, name : Names, state : {"connecting", "open", "closed"}]

\* The types of the chat, apart from the session's.
ChatTypes ==
  /\ panel \in BOOLEAN /\ chatAuth \in BOOLEAN /\ reconnect \in BOOLEAN /\ unnoticed \in BOOLEAN
  /\ socket \in Sockets
  /\ pending \in [Messages -> Pendings]
  /\ failedMessage \in Messages \cup {None}
  /\ isUploadingGif \in BOOLEAN
  /\ wire \subseteq Sendings
  /\ answers \subseteq Answers
  /\ stored \subseteq Copies
  /\ retries \in 0..MaxRetries

\* They are what the type invariant says of the chat.
LEMMA TypesSplit == TypeOK <=> SessionTypeOK /\ ChatTypes
BY DEF TypeOK, ChatTypes, Pendings, Sendings, Answers, Copies, Sockets

\* One pending message from one state to the next: its author and picture stay
\* once it is written, it is written by the present session, and only what waits
\* has a timer.
Carried(p, q) ==
  /\ q.timer # "none" => q.state = "queued"
  /\ q.state = "uploading" => q.picture
  /\ p.state # "unwritten" =>
       /\ q.state # "unwritten" /\ q.author = p.author /\ q.picture = p.picture
       /\ q.state \in {"queued", "failed"} /\ ~q.picture => p.state \in {"queued", "failed"}
  /\ p.state = "unwritten" => q = p \/ (chatAuth /\ q.author = user /\ q.state # "unwritten")

\* What every step of the chat under one session has to show.
LEMMA ChatStep ==
  ASSUME IInv, ChatTypes',
         UNCHANGED <<sessionVars, chatAuth, unnoticed>>,
         \A c \in Messages : Carried(pending[c], pending'[c]),
         failedMessage' \in Messages =>
           failedMessage' = None \/ pending'[failedMessage'].state = "failed",
         \A m \in wire' : m \in wire
           \/ (m.name = socket.name /\ pending'[m.msg].state = "queued"),
         socket'.name \in {socket.name, user, None},
         \A s \in stored' : s \in stored
           \/ \E m \in wire : /\ s.msg = m.msg /\ s.name = m.name /\ m.name # None
                              /\ pending[m.msg].picture => pending[m.msg].author = m.name,
         StoredOnce'
  PROVE  IInv'
<1>1. UNCHANGED <<user, tokenOk, linked, linkedSeen, storeAuth, address, chosen, flow, blind, events>>
  BY DEF sessionVars
<1>2. SessionInv'
  BY <1>1 DEF IInv, SessionInv, SessionTypeOK, SessionFits, SessionFollowsWallet
<1>3. TypeOK'
  BY <1>2 DEF SessionInv, TypeOK, ChatTypes, Pendings, Sendings, Answers, Copies, Sockets
<1>4. ChatTypes
  BY TypesSplit DEF IInv
<1>5. SocketFits'
  BY <1>1 DEF IInv, ChatInv, SocketFits
<1>6. PendingFits'
  BY DEF PendingFits, Carried
<1>7. \A c \in Messages : pending[c] \in Pendings /\ pending'[c] \in Pendings
  BY <1>4 DEF ChatTypes
<1>8. \A m \in wire \cup stored : m.msg \in Messages /\ pending[m.msg].state # "unwritten"
  BY <1>4 DEF ChatTypes, Sendings, Copies, IInv, ChatInv, AuthorsFit
<1>9. \A m \in wire' : m.msg \in Messages
  BY DEF ChatTypes, Sendings
<1>10. ASSUME ~unnoticed, NEW c \in Messages,
              pending'[c].state \in {"queued", "failed"}, ~pending'[c].picture
       PROVE  chatAuth /\ pending'[c].author = user
  <2>1. CASE pending[c].state = "unwritten" /\ pending'[c] # pending[c]
    BY <2>1 DEF Carried
  <2>2. CASE pending[c].state # "unwritten"
    <3>1. pending[c].state \in {"queued", "failed"} /\ ~pending[c].picture
          /\ pending'[c].author = pending[c].author
      BY <1>10, <2>2 DEF Carried
    <3> QED
      BY <1>10, <3>1 DEF IInv, ChatInv, AuthorsFit
  <2>3. CASE pending[c].state = "unwritten" /\ pending'[c] = pending[c]
    BY <1>10, <2>3
  <2> QED
    BY <2>1, <2>2, <2>3
<1>11. ASSUME ~unnoticed, NEW m \in wire', ~pending'[m.msg].picture
       PROVE  m.name \in {None, pending'[m.msg].author}
  <2>1. CASE m \in wire
    <3>1. m.msg \in Messages /\ pending[m.msg].state # "unwritten"
      BY <1>8, <2>1
    <3>2. pending'[m.msg].author = pending[m.msg].author
          /\ pending'[m.msg].picture = pending[m.msg].picture
      BY <3>1 DEF Carried
    <3> QED
      BY <1>11, <2>1, <3>2 DEF IInv, ChatInv, AuthorsFit
  <2>2. CASE m.name = socket.name /\ pending'[m.msg].state = "queued"
    <3>1. pending'[m.msg].author = user
      BY <1>9, <1>10, <1>11, <2>2
    <3>2. socket.name \in {user, None}
      BY <1>11 DEF IInv, ChatInv, SocketFits
    <3> QED
      BY <2>2, <3>1, <3>2
  <2> QED
    BY <2>1, <2>2
<1>12. \A m \in wire' \cup stored' : pending'[m.msg].state # "unwritten"
  <2>1. ASSUME NEW m \in wire' \cup stored' PROVE pending'[m.msg].state # "unwritten"
    <3>1. \/ pending'[m.msg].state = "queued"
          \/ m.msg \in Messages /\ pending[m.msg].state # "unwritten"
      BY <1>8
    <3> QED
      BY <3>1 DEF Carried
  <2> QED
    BY <2>1
<1>13. AuthorsFit'
  BY <1>1, <1>10, <1>11, <1>12 DEF AuthorsFit
<1>14. NameIsTheWriters'
  <2> SUFFICES ASSUME ~unnoticed, NEW s \in stored' PROVE s.name = pending'[s.msg].author
    BY DEF NameIsTheWriters
  <2>1. CASE s \in stored
    <3>1. s.name = pending[s.msg].author /\ s.msg \in Messages /\ pending[s.msg].state # "unwritten"
      BY <1>8, <2>1 DEF IInv, ChatInv, NameIsTheWriters
    <3> QED
      BY <3>1 DEF Carried
  <2>2. CASE \E m \in wire : /\ s.msg = m.msg /\ s.name = m.name /\ m.name # None
                             /\ pending[m.msg].picture => pending[m.msg].author = m.name
    <3>1. PICK m \in wire : /\ s.msg = m.msg /\ s.name = m.name /\ m.name # None
                            /\ pending[m.msg].picture => pending[m.msg].author = m.name
      BY <2>2
    <3>2. m.msg \in Messages /\ pending[m.msg].state # "unwritten"
      BY <1>8
    <3>3. m.name = pending[m.msg].author
      BY <3>1 DEF IInv, ChatInv, AuthorsFit
    <3>4. pending'[m.msg].author = pending[m.msg].author
      BY <3>2 DEF Carried
    <3> QED
      BY <3>1, <3>3, <3>4
  <2> QED
    BY <2>1, <2>2
<1> QED
  BY <1>2, <1>3, <1>5, <1>6, <1>13, <1>14 DEF IInv, ChatInv

\* What goes out over the open socket: those out of attempts fail, the others wait
\* for the acknowledgement and are on the wire under the socket's name.
LEMMA TrySendFits ==
  ASSUME NEW waiting \in [Messages -> Pendings], NEW set \in SUBSET Messages,
         \A c \in set : waiting[c].state = "queued",
         ChatTypes, TrySend(waiting, set)
  PROVE  /\ pending' \in [Messages -> Pendings]
         /\ \A c \in Messages \ set : pending'[c] = waiting[c]
         /\ \A c \in set :
              /\ pending'[c].state \in {"queued", "failed"}
              /\ pending'[c].timer # "none" => pending'[c].state = "queued"
              /\ pending'[c].author = waiting[c].author /\ pending'[c].picture = waiting[c].picture
         /\ wire' \subseteq Sendings
         /\ \A m \in wire' : m \in wire
              \/ (m.name = socket.name /\ m.msg \in set /\ pending'[m.msg].state = "queued")
         /\ failedMessage' = failedMessage
              \/ (failedMessage' \in set /\ pending'[failedMessage'].state = "failed")
         /\ failedMessage' \in Messages \cup {None}
<1> DEFINE spent == {c \in set : Exhausted(waiting[c])}
<1>0. MaxSendAttempts \in Nat \ {0}
  BY ChatAssumption
<1>1. \A c \in Messages : waiting[c] \in Pendings
  OBVIOUS
<1>2. /\ pending' = [c \in Messages |->
           IF c \in spent THEN Failed(waiting[c])
           ELSE IF c \in set THEN Sent(waiting[c]) ELSE waiting[c]]
      /\ wire' = wire \cup {OnWire(c, waiting[c]) : c \in set \ spent}
      /\ failedMessage' \in IF spent = {} THEN {failedMessage} ELSE spent
  BY DEF TrySend
<1>3. ASSUME NEW c \in spent
      PROVE  /\ Failed(waiting[c]) \in Pendings
             /\ Failed(waiting[c]).state = "failed" /\ Failed(waiting[c]).timer = "none"
             /\ Failed(waiting[c]).author = waiting[c].author
             /\ Failed(waiting[c]).picture = waiting[c].picture
  BY <1>1 DEF Failed, Pendings, States, Timers
<1>4. ASSUME NEW c \in set \ spent
      PROVE  /\ Sent(waiting[c]) \in Pendings
             /\ Sent(waiting[c]).state = "queued"
             /\ Sent(waiting[c]).author = waiting[c].author
             /\ Sent(waiting[c]).picture = waiting[c].picture
             /\ OnWire(c, waiting[c]) \in Sendings
             /\ OnWire(c, waiting[c]).name = socket.name /\ OnWire(c, waiting[c]).msg = c
  <2>1. waiting[c].attempts \in 0..MaxSendAttempts /\ ~(waiting[c].attempts >= MaxSendAttempts)
    BY <1>1, <1>4 DEF Pendings, Exhausted
  <2>2. waiting[c].attempts + 1 \in 1..MaxSendAttempts
    BY <1>0, <2>1
  <2>3. socket.name \in Names /\ socket.id \in {0, 1}
    BY DEF ChatTypes, Sockets
  <2>4. c \in Messages /\ waiting[c] \in Pendings /\ waiting[c].state = "queued"
    BY <1>1, <1>4
  <2>5. /\ Sent(waiting[c]) \in Pendings
        /\ Sent(waiting[c]).state = "queued"
        /\ Sent(waiting[c]).author = waiting[c].author
        /\ Sent(waiting[c]).picture = waiting[c].picture
    <3>1. waiting[c].attempts + 1 \in 0..MaxSendAttempts
      BY <1>0, <2>2
    <3> QED
      BY <2>4, <3>1 DEF Sent, Pendings, Timers
  <2>6. /\ OnWire(c, waiting[c]) \in Sendings
        /\ OnWire(c, waiting[c]).name = socket.name /\ OnWire(c, waiting[c]).msg = c
    BY <2>2, <2>3, <2>4 DEF OnWire, Sendings
  <2> QED
    BY <2>5, <2>6
<1>5. \A c \in Messages :
        pending'[c] = IF c \in spent THEN Failed(waiting[c])
                      ELSE IF c \in set THEN Sent(waiting[c]) ELSE waiting[c]
  BY <1>2
<1>6. pending' \in [Messages -> Pendings]
  <2>1. \A c \in Messages : (IF c \in spent THEN Failed(waiting[c])
                             ELSE IF c \in set THEN Sent(waiting[c]) ELSE waiting[c]) \in Pendings
    BY <1>1, <1>3, <1>4
  <2> QED
    BY <1>2, <2>1
<1>7. \A c \in spent : c \in set /\ c \in Messages
  OBVIOUS
<1> HIDE DEF spent
<1>8. \A c \in set :
        /\ pending'[c].state \in {"queued", "failed"}
        /\ pending'[c].timer # "none" => pending'[c].state = "queued"
        /\ pending'[c].author = waiting[c].author /\ pending'[c].picture = waiting[c].picture
        /\ c \in spent <=> pending'[c].state = "failed"
  BY <1>3, <1>4, <1>5
<1>9. wire' \subseteq Sendings
  BY <1>2, <1>4 DEF ChatTypes
<1>10. \A m \in wire' : m \in wire
         \/ (m.name = socket.name /\ m.msg \in set /\ pending'[m.msg].state = "queued")
  BY <1>2, <1>4, <1>5
<1>11. failedMessage' = failedMessage
         \/ (failedMessage' \in set /\ pending'[failedMessage'].state = "failed")
  BY <1>2, <1>7, <1>8
<1>12. failedMessage' \in Messages \cup {None}
  BY <1>2, <1>7 DEF ChatTypes
<1> QED
  BY <1>5, <1>6, <1>7, <1>8, <1>9, <1>10, <1>11, <1>12

\* What stays as it is, and what only loses its timer, fits.
LEMMA StaysCarried ==
  ASSUME IInv, NEW c \in Messages
  PROVE  /\ pending[c] \in Pendings
         /\ Carried(pending[c], pending[c])
         /\ Quiet(pending[c]) \in Pendings /\ Carried(pending[c], Quiet(pending[c]))
         /\ Quiet(pending[c]).state = pending[c].state
         /\ Quiet(pending[c]).author = pending[c].author
         /\ Quiet(pending[c]).picture = pending[c].picture
<1>1. pending[c] \in Pendings
  BY TypesSplit DEF IInv, ChatTypes
<1>2. /\ pending[c].timer # "none" => pending[c].state = "queued"
      /\ pending[c].state = "uploading" => pending[c].picture
  BY DEF IInv, ChatInv, PendingFits
<1>3. /\ Quiet(pending[c]) \in Pendings /\ Quiet(pending[c]).timer = "none"
      /\ Quiet(pending[c]).state = pending[c].state
      /\ Quiet(pending[c]).author = pending[c].author
      /\ Quiet(pending[c]).picture = pending[c].picture
  BY <1>1 DEF Quiet, Pendings, Timers
<1>4. Carried(pending[c], pending[c])
  BY <1>2 DEF Carried
<1>5. Carried(pending[c], Quiet(pending[c]))
  <2>1. pending[c].picture \in BOOLEAN
    BY <1>1 DEF Pendings
  <2>2. pending[c].timer = "none" => Quiet(pending[c]) = pending[c]
    BY <1>1 DEF Quiet, Pendings
  <2> QED
    BY <1>2, <1>3, <2>1, <2>2 DEF Carried
<1> QED
  BY <1>1, <1>3, <1>4, <1>5

\* The person writes a message, which goes out under the socket's name.
LEMMA SendMessageKeepsIInv ==
  ASSUME IInv, NEW c \in Messages, SendMessage(c)
  PROVE  IInv'
<1> DEFINE waiting == [pending EXCEPT ![c].state = "queued", ![c].author = user]
<1>1. /\ chatAuth /\ pending[c].state = "unwritten" /\ TrySend(waiting, {c})
      /\ UNCHANGED <<sessionVars, panel, chatAuth, socket, reconnect, isUploadingGif,
                     answers, stored, unnoticed, retries>>
  BY DEF SendMessage, Writable
<1>2. ChatTypes /\ user \in Users \cup {None} /\ pending \in [Messages -> Pendings]
  BY TypesSplit DEF IInv, ChatTypes, SessionInv, SessionTypeOK
<1>3. /\ waiting \in [Messages -> Pendings] /\ waiting[c].state = "queued"
      /\ waiting[c].author = user /\ \A d \in Messages \ {c} : waiting[d] = pending[d]
  BY <1>2 DEF Pendings, States, Names
<1> HIDE DEF waiting
<1>4. /\ pending' \in [Messages -> Pendings]
      /\ \A d \in Messages \ {c} : pending'[d] = waiting[d]
      /\ pending'[c].state \in {"queued", "failed"}
      /\ pending'[c].timer # "none" => pending'[c].state = "queued"
      /\ pending'[c].author = waiting[c].author
      /\ wire' \subseteq Sendings
      /\ \A m \in wire' : m \in wire
           \/ (m.name = socket.name /\ m.msg \in {c} /\ pending'[m.msg].state = "queued")
      /\ failedMessage' = failedMessage
           \/ (failedMessage' \in {c} /\ pending'[failedMessage'].state = "failed")
      /\ failedMessage' \in Messages \cup {None}
  BY <1>1, <1>2, <1>3, TrySendFits
<1>5. ChatTypes'
  BY <1>1, <1>2, <1>4 DEF ChatTypes
<1>6. \A d \in Messages : Carried(pending[d], pending'[d])
  <2>1. Carried(pending[c], pending'[c])
    BY <1>1, <1>3, <1>4 DEF Carried
  <2> QED
    BY <1>3, <1>4, <2>1, StaysCarried
<1>7. failedMessage' \in Messages =>
        failedMessage' = None \/ pending'[failedMessage'].state = "failed"
  BY <1>1, <1>3, <1>4 DEF IInv, ChatInv, PendingFits
<1>8. StoredOnce'
  BY <1>1 DEF IInv, ChatInv, StoredOnce
<1> QED
  BY <1>1, <1>4, <1>5, <1>6, <1>7, <1>8, ChatStep

\* A picture goes up first; it waits under its author's name.
LEMMA PastePictureKeepsIInv ==
  ASSUME IInv, NEW c \in Messages, PastePicture(c)
  PROVE  IInv'
<1>1. /\ chatAuth /\ pending[c].state = "unwritten" /\ isUploadingGif' = TRUE
      /\ pending' = [pending EXCEPT ![c].state = "uploading", ![c].author = user,
                                    ![c].picture = TRUE]
      /\ UNCHANGED <<sessionVars, panel, chatAuth, socket, reconnect, failedMessage, wire,
                     answers, stored, unnoticed, retries>>
  BY DEF PastePicture, Writable
<1>2. ChatTypes /\ user \in Users \cup {None} /\ pending \in [Messages -> Pendings]
      /\ pending[c].timer = "none"
  BY <1>1, TypesSplit DEF IInv, ChatTypes, SessionInv, SessionTypeOK, ChatInv, PendingFits
<1>3. /\ pending' \in [Messages -> Pendings]
      /\ pending'[c].state = "uploading" /\ pending'[c].author = user
      /\ pending'[c].picture = TRUE /\ pending'[c].timer = "none"
      /\ \A d \in Messages \ {c} : pending'[d] = pending[d]
  <2> DEFINE p == [pending[c] EXCEPT !.state = "uploading", !.author = user, !.picture = TRUE]
  <2>1. pending' = [pending EXCEPT ![c] = p]
    BY <1>1, <1>2
  <2>2. pending[c] \in Pendings /\ user \in Names
    BY <1>2 DEF Names
  <2>3. /\ p \in Pendings /\ p.state = "uploading" /\ p.author = user
        /\ p.picture = TRUE /\ p.timer = "none"
    BY <1>2, <2>2 DEF Pendings, States
  <2> HIDE DEF p
  <2> QED
    BY <1>2, <2>1, <2>3
<1>4. ChatTypes'
  BY <1>1, <1>2, <1>3 DEF ChatTypes
<1>5. \A d \in Messages : Carried(pending[d], pending'[d])
  <2>1. Carried(pending[c], pending'[c])
    BY <1>1, <1>3 DEF Carried
  <2> QED
    BY <1>3, <2>1, StaysCarried
<1>6. failedMessage' \in Messages =>
        failedMessage' = None \/ pending'[failedMessage'].state = "failed"
  BY <1>1, <1>3 DEF IInv, ChatInv, PendingFits
<1>7. StoredOnce'
  BY <1>1 DEF IInv, ChatInv, StoredOnce
<1> QED
  BY <1>1, <1>3, <1>4, <1>5, <1>6, <1>7, ChatStep

\* The upload's answer queues the message whoever is signed in by now.
LEMMA UploadAnswersKeepsIInv ==
  ASSUME IInv, NEW c \in Messages, UploadAnswers(c)
  PROVE  IInv'
<1> DEFINE written == [pending EXCEPT ![c].state = "queued"]
<1>1. /\ pending[c].state = "uploading" /\ isUploadingGif' = FALSE
      /\ UNCHANGED <<sessionVars, panel, chatAuth, socket, reconnect, answers, stored,
                     unnoticed, retries>>
  BY DEF UploadAnswers
<1>2. ChatTypes /\ pending \in [Messages -> Pendings]
  BY <1>1, TypesSplit DEF IInv, ChatTypes
<1>3. pending[c].state = "uploading" /\ pending[c].picture = TRUE
      /\ pending[c].timer = "none"
  <2>1. pending[c].picture \in BOOLEAN
    BY <1>2 DEF Pendings
  <2> QED
    BY <1>1, <1>2, <2>1 DEF IInv, ChatInv, PendingFits
<1>4. /\ written \in [Messages -> Pendings]
      /\ written[c].state = "queued" /\ written[c].timer = "none"
      /\ written[c].author = pending[c].author
      /\ written[c].picture = pending[c].picture
      /\ \A d \in Messages \ {c} : written[d] = pending[d]
  BY <1>2, <1>3 DEF Pendings, States
<1> HIDE DEF written
<1>5. /\ pending' \in [Messages -> Pendings]
      /\ \A d \in Messages \ {c} : pending'[d] = pending[d]
      /\ pending'[c].state \in {"queued", "failed", "over"}
      /\ pending'[c].timer # "none" => pending'[c].state = "queued"
      /\ pending'[c].author = pending[c].author
      /\ pending'[c].picture = TRUE
      /\ wire' \subseteq Sendings
      /\ \A m \in wire' : m \in wire
           \/ (m.name = socket.name /\ pending'[m.msg].state = "queued")
      /\ failedMessage' = failedMessage
           \/ (failedMessage' = c /\ pending'[failedMessage'].state = "failed")
      /\ failedMessage' \in Messages \cup {None}
  <2>1. CASE IsOpen /\ TrySend(written, {c})
    BY <2>1, <1>2, <1>3, <1>4, TrySendFits
  <2>2. CASE pending' = written /\ UNCHANGED <<wire, failedMessage>>
    BY <2>2, <1>2, <1>3, <1>4 DEF ChatTypes
  <2>3. CASE pending' = [pending EXCEPT ![c].state = "over"] /\ UNCHANGED <<wire, failedMessage>>
    <3>1. /\ pending' \in [Messages -> Pendings]
          /\ \A d \in Messages \ {c} : pending'[d] = pending[d]
          /\ pending'[c].state = "over" /\ pending'[c].timer = "none"
          /\ pending'[c].author = pending[c].author
          /\ pending'[c].picture = TRUE
      BY <2>3, <1>2, <1>3 DEF Pendings, States
    <3> QED
      BY <2>3, <3>1, <1>2 DEF ChatTypes
  <2> QED
    BY <2>1, <2>2, <2>3 DEF UploadAnswers, written
<1>6. ChatTypes'
  BY <1>1, <1>2, <1>5 DEF ChatTypes
<1>7. \A d \in Messages : Carried(pending[d], pending'[d])
  <2>1. Carried(pending[c], pending'[c])
    BY <1>3, <1>5 DEF Carried
  <2> QED
    BY <1>5, <2>1, StaysCarried
<1>8. failedMessage' \in Messages =>
        failedMessage' = None \/ pending'[failedMessage'].state = "failed"
  BY <1>3, <1>5 DEF IInv, ChatInv, PendingFits
<1>9. StoredOnce'
  BY <1>1 DEF IInv, ChatInv, StoredOnce
<1> QED
  BY <1>1, <1>5, <1>6, <1>7, <1>8, <1>9, ChatStep

\* A retry starts the attempts again.
LEMMA RetryKeepsIInv ==
  ASSUME IInv, RetryFailedMessage
  PROVE  IInv'
<1> DEFINE c == failedMessage
           again == [pending[c] EXCEPT !.attempts = 0, !.state = "queued"]
<1>1. /\ retries < MaxRetries /\ c # None /\ failedMessage' = None /\ retries' = retries + 1
      /\ pending' = [pending EXCEPT ![c] = Sent(again)]
      /\ wire' = wire \cup {OnWire(c, again)}
      /\ UNCHANGED <<sessionVars, panel, chatAuth, socket, reconnect, isUploadingGif,
                     answers, stored, unnoticed>>
  BY DEF RetryFailedMessage
<1>2. ChatTypes /\ pending \in [Messages -> Pendings] /\ c \in Messages /\ pending[c] \in Pendings
      /\ MaxSendAttempts \in Nat \ {0} /\ MaxRetries \in Nat
  BY <1>1, TypesSplit, ChatAssumption DEF IInv, ChatTypes
<1>3. pending[c].state = "failed"
  BY <1>1, <1>2 DEF IInv, ChatInv, PendingFits
<1>4. /\ again \in Pendings /\ again.attempts = 0 /\ again.state = "queued"
      /\ again.author = pending[c].author /\ again.picture = pending[c].picture
  <2>1. 0 \in 0..MaxSendAttempts /\ pending[c] \in Pendings
    BY <1>2
  <2> QED
    BY <2>1 DEF Pendings, States
<1> HIDE DEF again
<1>5. /\ Sent(again) \in Pendings /\ Sent(again).state = "queued"
      /\ Sent(again).author = pending[c].author /\ Sent(again).picture = pending[c].picture
  <2>1. again.attempts + 1 \in 0..MaxSendAttempts
    BY <1>2, <1>4
  <2> QED
    BY <1>4, <2>1 DEF Sent, Pendings, Timers
<1>6. /\ OnWire(c, again) \in Sendings
      /\ OnWire(c, again).name = socket.name /\ OnWire(c, again).msg = c
  <2>1. again.attempts + 1 \in 1..MaxSendAttempts
    BY <1>2, <1>4
  <2> QED
    BY <1>2, <2>1 DEF OnWire, Sendings, ChatTypes, Sockets
<1>7. /\ pending' \in [Messages -> Pendings] /\ pending'[c] = Sent(again)
      /\ \A d \in Messages \ {c} : pending'[d] = pending[d]
  BY <1>1, <1>2, <1>5
<1>8. ChatTypes'
  <2>1. retries' \in 0..MaxRetries
    BY <1>1, <1>2 DEF ChatTypes
  <2> QED
    BY <1>1, <1>2, <1>6, <1>7, <2>1 DEF ChatTypes
<1>9. \A d \in Messages : Carried(pending[d], pending'[d])
  <2>1. Carried(pending[c], pending'[c])
    BY <1>3, <1>5, <1>7 DEF Carried
  <2> QED
    BY <1>7, <2>1, StaysCarried
<1>10. \A m \in wire' : m \in wire \/ (m.name = socket.name /\ pending'[m.msg].state = "queued")
  BY <1>1, <1>5, <1>6, <1>7
<1>11. StoredOnce'
  BY <1>1 DEF IInv, ChatInv, StoredOnce
<1> QED
  BY <1>1, <1>8, <1>9, <1>10, <1>11, ChatStep

\* What a step leaves alone still fits: the message to retry, where it stays failed.
LEMMA MarkStays ==
  ASSUME IInv,
         \A c \in Messages : pending[c].state = "failed" => pending'[c].state = "failed",
         UNCHANGED failedMessage
  PROVE  failedMessage' \in Messages =>
           failedMessage' = None \/ pending'[failedMessage'].state = "failed"
BY DEF IInv, ChatInv, PendingFits

\* The panel closes, or a socket drops: timers stop, nothing goes out.
LEMMA QuietKeepsIInv ==
  ASSUME IInv, ClosePanel \/ Drops
  PROVE  IInv'
<1>1. /\ socket' = [socket EXCEPT !.state = "closed"]
      /\ answers' = {} /\ panel' \in BOOLEAN /\ reconnect' \in BOOLEAN
      /\ UNCHANGED <<sessionVars, chatAuth, failedMessage, isUploadingGif, wire, stored,
                     unnoticed, retries>>
      /\ \/ pending' = [c \in Messages |-> Quiet(pending[c])]
         \/ pending' = [c \in Messages |-> IF c \in Queued THEN Quiet(pending[c]) ELSE pending[c]]
  BY DEF ClosePanel, Drops
<1>2. ChatTypes
  BY TypesSplit DEF IInv
<1>3. socket' \in Sockets /\ socket'.name = socket.name
  BY <1>1, <1>2 DEF ChatTypes, Sockets
<1>4. \A c \in Messages : /\ pending'[c] \in {pending[c], Quiet(pending[c])}
                          /\ pending'[c] \in Pendings
                          /\ Carried(pending[c], pending'[c])
                          /\ pending'[c].state = pending[c].state
  BY <1>1, StaysCarried
<1>5. pending' \in [Messages -> Pendings]
  BY <1>1, <1>4
<1>6. ChatTypes'
  BY <1>1, <1>2, <1>3, <1>5 DEF ChatTypes
<1>7. StoredOnce'
  BY <1>1 DEF IInv, ChatInv, StoredOnce
<1> QED
  BY <1>1, <1>3, <1>4, <1>6, <1>7, MarkStays, ChatStep

\* A socket that opens sends again what waits.
LEMMA OpensKeepsIInv ==
  ASSUME IInv, Opens
  PROVE  IInv'
<1> DEFINE waiting == [c \in Messages |-> IF c \in Queued THEN Quiet(pending[c]) ELSE pending[c]]
<1>1. /\ socket' = [socket EXCEPT !.state = "open"] /\ TrySend(waiting, Queued)
      /\ UNCHANGED <<sessionVars, panel, chatAuth, reconnect, isUploadingGif, answers,
                     stored, unnoticed, retries>>
  BY DEF Opens, Resend
<1>2. ChatTypes
  BY TypesSplit DEF IInv
<1>3. socket' \in Sockets /\ socket'.name = socket.name
  BY <1>1, <1>2 DEF ChatTypes, Sockets
<1>4. /\ waiting \in [Messages -> Pendings]
      /\ \A c \in Queued : waiting[c] = Quiet(pending[c])
      /\ \A c \in Messages \ Queued : waiting[c] = pending[c]
  BY StaysCarried DEF Queued
<1> HIDE DEF waiting
<1>5. Queued \in SUBSET Messages /\ \A c \in Queued : waiting[c].state = "queued"
  BY <1>4, StaysCarried DEF Queued
<1>6. /\ pending' \in [Messages -> Pendings]
      /\ \A c \in Messages \ Queued : pending'[c] = waiting[c]
      /\ \A c \in Queued :
           /\ pending'[c].state \in {"queued", "failed"}
           /\ pending'[c].timer # "none" => pending'[c].state = "queued"
           /\ pending'[c].author = waiting[c].author /\ pending'[c].picture = waiting[c].picture
      /\ wire' \subseteq Sendings
      /\ \A m \in wire' : m \in wire
           \/ (m.name = socket.name /\ m.msg \in Queued /\ pending'[m.msg].state = "queued")
      /\ failedMessage' = failedMessage
           \/ (failedMessage' \in Queued /\ pending'[failedMessage'].state = "failed")
      /\ failedMessage' \in Messages \cup {None}
  BY <1>1, <1>2, <1>4, <1>5, TrySendFits
<1>7. ChatTypes'
  BY <1>1, <1>2, <1>3, <1>6 DEF ChatTypes
<1>8. ASSUME NEW c \in Messages PROVE Carried(pending[c], pending'[c])
  <2>1. CASE c \in Queued
    <3>1. /\ pending[c].state = "queued" /\ waiting[c].author = pending[c].author
          /\ waiting[c].picture = pending[c].picture
      BY <2>1, <1>4, StaysCarried DEF Queued
    <3> QED
      BY <2>1, <3>1, <1>6 DEF Carried
  <2>2. CASE c \notin Queued
    BY <2>2, <1>4, <1>6, StaysCarried
  <2> QED
    BY <2>1, <2>2
<1>9. \A c \in Messages :
        pending[c].state = "failed" => pending'[c].state = "failed"
  BY <1>4, <1>6 DEF Queued
<1>10. failedMessage' \in Messages =>
         failedMessage' = None \/ pending'[failedMessage'].state = "failed"
  BY <1>6, <1>9 DEF IInv, ChatInv, PendingFits
<1>11. StoredOnce'
  BY <1>1 DEF IInv, ChatInv, StoredOnce
<1> QED
  BY <1>1, <1>3, <1>6, <1>7, <1>8, <1>10, <1>11, ChatStep

\* A new socket carries the token of the moment.
LEMMA ReconnectsKeepsIInv ==
  ASSUME IInv, Reconnects
  PROVE  IInv'
<1> DEFINE name == IF chatAuth THEN TokenUser ELSE None
<1>1. /\ reconnect' = FALSE /\ OpenSocket(name)
      /\ UNCHANGED <<sessionVars, panel, chatAuth, pending, failedMessage,
                     isUploadingGif, stored, unnoticed, retries>>
  BY DEF Reconnects
<1>2. ChatTypes /\ user \in Users \cup {None}
  BY TypesSplit DEF IInv, SessionInv, SessionTypeOK
<1>3. name \in {user, None} /\ name \in Names
  BY <1>2 DEF TokenUser, Names
<1>4. /\ socket' \in Sockets /\ socket'.name = name /\ wire' \subseteq wire /\ answers' = {}
  BY <1>1, <1>2, <1>3 DEF OpenSocket, NewSocket, ChatTypes, Sockets
<1>5. ChatTypes'
  BY <1>1, <1>2, <1>4 DEF ChatTypes
<1>6. StoredOnce'
  BY <1>1 DEF IInv, ChatInv, StoredOnce
<1> HIDE DEF name
<1> QED
  BY <1>1, <1>3, <1>4, <1>5, <1>6, StaysCarried, MarkStays, ChatStep

\* A timer fires: the message fails, waits longer, or goes out again.
LEMMA TimerKeepsIInv ==
  ASSUME IInv, NEW c \in Messages, AckTimeout(c) \/ RetryTimer(c)
  PROVE  IInv'
<1>1. /\ pending[c].timer # "none"
      /\ UNCHANGED <<sessionVars, panel, chatAuth, socket, reconnect, isUploadingGif,
                     answers, stored, unnoticed, retries>>
  BY DEF AckTimeout, RetryTimer
<1>2. ChatTypes /\ pending \in [Messages -> Pendings] /\ pending[c] \in Pendings
      /\ pending[c].state = "queued" /\ pending[c].picture \in BOOLEAN
  BY <1>1, TypesSplit DEF IInv, ChatTypes, ChatInv, PendingFits, Pendings
<1>3. /\ pending' \in [Messages -> Pendings]
      /\ \A d \in Messages \ {c} : pending'[d] = pending[d]
      /\ pending'[c].state \in {"queued", "failed"}
      /\ pending'[c].timer # "none" => pending'[c].state = "queued"
      /\ pending'[c].author = pending[c].author
      /\ pending'[c].picture = pending[c].picture
      /\ wire' \subseteq Sendings
      /\ \A m \in wire' : m \in wire
           \/ (m.name = socket.name /\ pending'[m.msg].state = "queued")
      /\ failedMessage' = failedMessage
           \/ (failedMessage' = c /\ pending'[c].state = "failed")
      /\ failedMessage' \in Messages \cup {None}
  <2>1. CASE pending' = [pending EXCEPT ![c] = Failed(@)] /\ failedMessage' = c /\ wire' = wire
    <3>1. /\ Failed(pending[c]) \in Pendings
          /\ Failed(pending[c]).state = "failed" /\ Failed(pending[c]).timer = "none"
          /\ Failed(pending[c]).author = pending[c].author
          /\ Failed(pending[c]).picture = pending[c].picture
      BY <1>2 DEF Failed, Pendings, States, Timers
    <3> QED
      BY <1>2, <2>1, <3>1 DEF ChatTypes
  <2>2. CASE pending' = [pending EXCEPT ![c].timer = "retry"] /\ UNCHANGED <<failedMessage, wire>>
    <3>1. /\ pending' \in [Messages -> Pendings]
          /\ pending'[c].state = "queued" /\ pending'[c].author = pending[c].author
          /\ pending'[c].picture = pending[c].picture
          /\ \A d \in Messages \ {c} : pending'[d] = pending[d]
      BY <1>2, <2>2 DEF Pendings, Timers
    <3> QED
      BY <1>2, <2>2, <3>1 DEF ChatTypes
  <2>3. CASE RetryTimer(c)
    <3> DEFINE waiting == [pending EXCEPT ![c] = Quiet(@)]
    <3>1. /\ Quiet(pending[c]) \in Pendings
          /\ Quiet(pending[c]).state = "queued"
          /\ Quiet(pending[c]).author = pending[c].author
          /\ Quiet(pending[c]).picture = pending[c].picture
      BY <1>2, StaysCarried
    <3>2. /\ waiting \in [Messages -> Pendings] /\ waiting[c] = Quiet(pending[c])
          /\ \A d \in Messages \ {c} : waiting[d] = pending[d]
      BY <1>2, <3>1
    <3>3. \/ TrySend(waiting, {c})
          \/ pending' = waiting /\ UNCHANGED <<wire, failedMessage>>
      BY <2>3 DEF RetryTimer
    <3> HIDE DEF waiting
    <3>4. CASE TrySend(waiting, {c})
      BY <1>2, <3>1, <3>2, <3>4, TrySendFits
    <3>5. CASE pending' = waiting /\ UNCHANGED <<wire, failedMessage>>
      BY <1>2, <3>1, <3>2, <3>5 DEF ChatTypes
    <3> QED
      BY <3>3, <3>4, <3>5
  <2>4. AckTimeout(c) =>
          \/ pending' = [pending EXCEPT ![c] = Failed(@)] /\ failedMessage' = c /\ wire' = wire
          \/ pending' = [pending EXCEPT ![c].timer = "retry"] /\ UNCHANGED <<failedMessage, wire>>
    BY DEF AckTimeout
  <2> QED
    BY <2>1, <2>2, <2>3, <2>4
<1>4. ChatTypes'
  BY <1>1, <1>2, <1>3 DEF ChatTypes
<1>5. \A d \in Messages : Carried(pending[d], pending'[d])
  <2>1. Carried(pending[c], pending'[c])
    BY <1>2, <1>3 DEF Carried
  <2> QED
    BY <1>3, <2>1, StaysCarried
<1>6. failedMessage' \in Messages =>
        failedMessage' = None \/ pending'[failedMessage'].state = "failed"
  BY <1>1, <1>2, <1>3 DEF IInv, ChatInv, PendingFits
<1>7. StoredOnce'
  BY <1>1 DEF IInv, ChatInv, StoredOnce
<1> QED
  BY <1>1, <1>3, <1>4, <1>5, <1>6, <1>7, ChatStep

\* The server stores a message it does not know, under the socket's name, and a
\* picture only for its uploader; or what was under way is lost.
LEMMA ServerKeepsIInv ==
  ASSUME IInv, NEW m \in wire, ServerReads(m) \/ Lost(m)
  PROVE  IInv'
<1> DEFINE copy == [msg |-> m.msg, name |-> m.name, try |-> m.try]
<1>1. /\ wire' = wire \ {m}
      /\ UNCHANGED <<sessionVars, panel, chatAuth, socket, reconnect, pending,
                     failedMessage, isUploadingGif, unnoticed, retries>>
      /\ \/ stored' = stored
         \/ /\ stored' = stored \cup {copy}
            /\ m.name # None /\ ~Known(m) /\ ~PictureIsForeign(m)
      /\ \/ answers' = answers
         \/ \E ok \in BOOLEAN : answers' = answers \cup {[msg |-> m.msg, ok |-> ok]}
  BY DEF ServerReads, Lost, Answer
<1>2. ChatTypes
  BY TypesSplit DEF IInv
<1>3. m.msg \in Messages /\ m.name \in Names /\ m.try \in 1..MaxSendAttempts
  BY <1>2 DEF ChatTypes, Sendings
<1>4. m.name # None => copy \in Copies
  BY <1>3 DEF Copies, Names
<1>5. /\ copy.msg = m.msg /\ copy.name = m.name
      /\ \A ok \in BOOLEAN : [msg |-> m.msg, ok |-> ok] \in Answers
  BY <1>3 DEF Answers
<1> HIDE DEF copy
<1>6. answers' \subseteq Answers /\ stored' \subseteq Copies
  BY <1>1, <1>2, <1>4, <1>5 DEF ChatTypes
<1>7. ChatTypes'
  BY <1>1, <1>2, <1>6 DEF ChatTypes
<1>8. StoredOnce'
  <2> SUFFICES ASSUME NEW s \in stored', NEW t \in stored', s.msg = t.msg, s.name = t.name
               PROVE  s = t
    BY DEF StoredOnce
  <2>1. CASE s \in stored /\ t \in stored
    BY <2>1 DEF IInv, ChatInv, StoredOnce
  <2>2. CASE s \notin stored \/ t \notin stored
    BY <1>1, <1>5, <2>2 DEF Known
  <2> QED
    BY <2>1, <2>2
<1>9. \A s \in stored' : s \in stored
        \/ \E n \in wire : /\ s.msg = n.msg /\ s.name = n.name /\ n.name # None
                           /\ pending[n.msg].picture => pending[n.msg].author = n.name
  BY <1>1, <1>5 DEF PictureIsForeign
<1> QED
  BY <1>1, <1>7, <1>8, <1>9, StaysCarried, MarkStays, ChatStep

\* The page reads an answer about a message that waits or has failed.
LEMMA PageKeepsIInv ==
  ASSUME IInv, NEW m \in answers, PageReads(m)
  PROVE  IInv'
<1> DEFINE c == m.msg
<1>1. /\ answers' = answers \ {m}
      /\ UNCHANGED <<sessionVars, panel, chatAuth, socket, reconnect, isUploadingGif,
                     wire, stored, unnoticed, retries>>
  BY DEF PageReads
<1>2. ChatTypes /\ pending \in [Messages -> Pendings] /\ c \in Messages /\ pending[c] \in Pendings
      /\ pending[c].picture \in BOOLEAN
  BY TypesSplit DEF IInv, ChatTypes, Answers, Pendings
<1> HIDE DEF c
<1>3. CASE UNCHANGED <<pending, failedMessage>>
  <2>1. ChatTypes'
    BY <1>1, <1>2, <1>3 DEF ChatTypes
  <2>2. StoredOnce'
    BY <1>1 DEF IInv, ChatInv, StoredOnce
  <2> QED
    BY <1>1, <1>3, <2>1, <2>2, StaysCarried, MarkStays, ChatStep
<1>4. CASE /\ pending[c].state \in {"queued", "failed"}
           /\ \/ /\ pending' = [pending EXCEPT ![c].state = "over", ![c].timer = "none"]
                 /\ failedMessage' = IF failedMessage = c THEN None ELSE failedMessage
              \/ pending' = [pending EXCEPT ![c] = Failed(@)] /\ failedMessage' = c
  <2>1. /\ pending' \in [Messages -> Pendings]
        /\ \A d \in Messages \ {c} : pending'[d] = pending[d]
        /\ pending'[c].timer = "none" /\ pending'[c].state \in {"over", "failed"}
        /\ pending'[c].author = pending[c].author /\ pending'[c].picture = pending[c].picture
        /\ failedMessage' # c => failedMessage' \in {failedMessage, None}
        /\ failedMessage' = c => pending'[c].state = "failed" \/ c = None
    <3>1. CASE /\ pending' = [pending EXCEPT ![c].state = "over", ![c].timer = "none"]
               /\ failedMessage' = IF failedMessage = c THEN None ELSE failedMessage
      <4>1. /\ pending' \in [Messages -> Pendings]
            /\ \A d \in Messages \ {c} : pending'[d] = pending[d]
            /\ pending'[c].timer = "none" /\ pending'[c].state = "over"
            /\ pending'[c].author = pending[c].author /\ pending'[c].picture = pending[c].picture
        BY <1>2, <3>1 DEF Pendings, States, Timers
      <4> QED
        BY <3>1, <4>1
    <3>2. CASE pending' = [pending EXCEPT ![c] = Failed(@)] /\ failedMessage' = c
      <4>1. /\ Failed(pending[c]) \in Pendings
            /\ Failed(pending[c]).state = "failed" /\ Failed(pending[c]).timer = "none"
            /\ Failed(pending[c]).author = pending[c].author
            /\ Failed(pending[c]).picture = pending[c].picture
        BY <1>2 DEF Failed, Pendings, States, Timers
      <4> QED
        BY <1>2, <3>2, <4>1
    <3> QED
      BY <1>4, <3>1, <3>2
  <2>2. ChatTypes'
    BY <1>1, <1>2, <2>1 DEF ChatTypes
  <2>3. \A d \in Messages : Carried(pending[d], pending'[d])
    <3>1. Carried(pending[c], pending'[c])
      BY <1>2, <1>4, <2>1 DEF Carried
    <3> QED
      BY <2>1, <3>1, StaysCarried
  <2>4. failedMessage' \in Messages =>
          failedMessage' = None \/ pending'[failedMessage'].state = "failed"
    BY <1>1, <1>4, <2>1 DEF IInv, ChatInv, PendingFits
  <2>5. StoredOnce'
    BY <1>1 DEF IInv, ChatInv, StoredOnce
  <2> QED
    BY <1>1, <2>2, <2>3, <2>4, <2>5, ChatStep
<1> QED
  BY <1>3, <1>4 DEF PageReads, c

\* A change of the session the store tells of ends what was unsent and opens a
\* socket for the new one; one it does not tell of is remembered as such.
LEMMA SessionKeepsIInv ==
  ASSUME IInv, Session
  PROVE  IInv'
<1>1. SessionInv' /\ SessionInv
  BY SessionSteps DEF Session, IInv
<1>2. ChatTypes
  BY TypesSplit DEF IInv
<1>3. /\ storeAuth' = (user' # None) /\ chatAuth = storeAuth /\ storeAuth = (user # None)
      /\ user' \in Users \cup {None} /\ user \in Users \cup {None}
  BY <1>1 DEF SessionInv, SessionFits, SessionTypeOK, IInv, ChatInv, SocketFits
<1>4. CASE storeAuth' = storeAuth
  <2>1. /\ unnoticed' = (unnoticed \/ user' # user)
        /\ UNCHANGED <<panel, chatAuth, socket, reconnect, pending, failedMessage,
                       isUploadingGif, wire, answers, stored, retries>>
    BY <1>4 DEF Session, FollowStore
  <2>2. ChatTypes'
    BY <1>2, <2>1 DEF ChatTypes
  <2>3. TypeOK'
    BY <1>1, <2>2 DEF SessionInv, TypeOK, ChatTypes, Pendings, Sendings, Answers, Copies, Sockets
  <2>4. SocketFits'
    BY <1>4, <2>1 DEF IInv, ChatInv, SocketFits
  <2>5. PendingFits' /\ StoredOnce' /\ NameIsTheWriters'
    BY <2>1 DEF IInv, ChatInv, PendingFits, StoredOnce, NameIsTheWriters
  <2>6. AuthorsFit'
    BY <2>1 DEF IInv, ChatInv, AuthorsFit
  <2> QED
    BY <1>1, <2>3, <2>4, <2>5, <2>6 DEF IInv, ChatInv
<1>5. CASE storeAuth' # storeAuth
  <2> DEFINE name == IF storeAuth' /\ tokenOk' THEN user' ELSE None
  <2>1. /\ chatAuth' = storeAuth' /\ OpenSocket(name) /\ reconnect' = FALSE
        /\ UNCHANGED <<panel, isUploadingGif, stored, retries, unnoticed>>
        /\ IF storeAuth' THEN UNCHANGED <<pending, failedMessage>> ELSE Reset
    BY <1>3, <1>5 DEF Session, FollowStore
  <2>2. name \in {user', None} /\ name \in Names
    BY <1>3 DEF Names
  <2>3. /\ socket' \in Sockets /\ socket'.name = name /\ wire' \subseteq wire /\ answers' = {}
    BY <1>2, <2>1, <2>2 DEF OpenSocket, NewSocket, ChatTypes, Sockets
  <2> HIDE DEF name
  <2>4. /\ pending' \in [Messages -> Pendings]
        /\ failedMessage' \in {failedMessage, None}
        /\ \A c \in Messages :
             /\ pending'[c].author = pending[c].author /\ pending'[c].picture = pending[c].picture
             /\ pending'[c].timer # "none" => pending'[c].state = "queued"
             /\ pending'[c].state = "unwritten" => pending[c].state = "unwritten"
             /\ pending'[c].state = pending[c].state \/ pending'[c].state = "over"
             /\ pending[c].state = "uploading" => pending'[c].state = "uploading"
             /\ ~storeAuth' => pending'[c].state \notin {"queued", "failed"}
             /\ storeAuth' => pending'[c] = pending[c]
        /\ storeAuth' => failedMessage' = failedMessage
        /\ ~storeAuth' => failedMessage' = None
    <3>1. CASE storeAuth'
      BY <1>2, <2>1, <3>1 DEF ChatTypes, IInv, ChatInv, PendingFits
    <3>2. CASE ~storeAuth'
      <4>1. /\ pending' = [c \in Messages |->
                             IF pending[c].state \in {"queued", "failed"}
                             THEN [pending[c] EXCEPT !.state = "over", !.timer = "none"]
                             ELSE pending[c]]
            /\ failedMessage' = None
        BY <2>1, <3>2 DEF Reset
      <4>2. ASSUME NEW c \in Messages, pending[c].state \in {"queued", "failed"}
            PROVE  /\ pending'[c] = [pending[c] EXCEPT !.state = "over", !.timer = "none"]
                   /\ pending'[c] \in Pendings
                   /\ pending'[c].state = "over" /\ pending'[c].timer = "none"
                   /\ pending'[c].author = pending[c].author
                   /\ pending'[c].picture = pending[c].picture
        <5>1. pending[c] \in Pendings
          BY <1>2 DEF ChatTypes
        <5>2. pending'[c] = [pending[c] EXCEPT !.state = "over", !.timer = "none"]
          BY <4>1, <4>2
        <5> QED
          BY <5>1, <5>2 DEF Pendings, States, Timers
      <4>3. ASSUME NEW c \in Messages, pending[c].state \notin {"queued", "failed"}
            PROVE  /\ pending'[c] = pending[c] /\ pending[c] \in Pendings
                   /\ pending[c].timer # "none" => pending[c].state = "queued"
        BY <1>2, <4>1, <4>3 DEF ChatTypes, IInv, ChatInv, PendingFits
      <4>4. pending' \in [Messages -> Pendings]
        <5>1. \A c \in Messages : pending'[c] \in Pendings
          BY <4>2, <4>3
        <5> QED
          BY <4>1, <5>1
      <4> QED
        BY <3>2, <4>1, <4>2, <4>3, <4>4
    <3> QED
      BY <1>3, <3>1, <3>2
  <2>5. failedMessage' \in Messages \cup {None}
    BY <1>2, <2>4 DEF ChatTypes
  <2>6. ChatTypes'
    BY <1>2, <1>3, <2>1, <2>3, <2>4, <2>5 DEF ChatTypes
  <2>7. TypeOK'
    BY <1>1, <2>6 DEF SessionInv, TypeOK, ChatTypes, Pendings, Sendings, Answers, Copies, Sockets
  <2>8. SocketFits'
    BY <2>1, <2>2, <2>3 DEF SocketFits
  <2>9. PendingFits'
    BY <2>1, <2>4 DEF IInv, ChatInv, PendingFits
  <2>10. StoredOnce'
    BY <2>1 DEF IInv, ChatInv, StoredOnce
  <2>11. \A m \in wire \cup stored : m.msg \in Messages
    BY <1>2 DEF ChatTypes, Sendings, Copies
  <2>12. AuthorsFit'
    <3>1. \A m \in wire' \cup stored' : pending'[m.msg].state # "unwritten"
      BY <2>1, <2>3, <2>4, <2>11 DEF IInv, ChatInv, AuthorsFit
    <3>2. ASSUME ~unnoticed, NEW c \in Messages
          PROVE  ~(pending'[c].state \in {"queued", "failed"} /\ ~pending'[c].picture)
      <4>1. CASE ~storeAuth'
        BY <2>4, <4>1
      <4>2. CASE storeAuth'
        BY <1>3, <1>5, <2>4, <3>2, <4>2 DEF IInv, ChatInv, AuthorsFit
      <4> QED
        BY <1>3, <4>1, <4>2
    <3>3. ASSUME ~unnoticed, NEW m \in wire', ~pending'[m.msg].picture
          PROVE  m.name \in {None, pending'[m.msg].author}
      BY <2>3, <2>4, <2>11, <3>3 DEF IInv, ChatInv, AuthorsFit
    <3> QED
      BY <2>1, <3>1, <3>2, <3>3 DEF AuthorsFit
  <2>13. NameIsTheWriters'
    BY <2>1, <2>4, <2>11 DEF IInv, ChatInv, NameIsTheWriters
  <2> QED
    BY <1>1, <2>7, <2>8, <2>9, <2>10, <2>12, <2>13 DEF IInv, ChatInv
<1> QED
  BY <1>4, <1>5

-----------------------------------------------------------------------------
(* The theorems.                                                           *)

\* The panel opens with nothing written.
LEMMA InitIInv == Init => IInv
<1> SUFFICES ASSUME Init PROVE IInv
  OBVIOUS
<1>1. SessionInv
  BY SessionStarts DEF Init
<1>2. /\ panel = TRUE /\ chatAuth = storeAuth /\ reconnect = FALSE /\ unnoticed = FALSE
      /\ socket = NewSocket(0, TokenUser)
      /\ pending = [c \in Messages |-> Unwritten]
      /\ failedMessage = None /\ isUploadingGif = FALSE
      /\ wire = {} /\ answers = {} /\ stored = {} /\ retries = 0
      /\ user \in Users \cup {None} /\ storeAuth \in BOOLEAN
  BY <1>1 DEF Init, SessionInv, SessionTypeOK
<1>3. TokenUser \in {user, None} /\ TokenUser \in Names
  BY <1>2 DEF TokenUser, Names
<1>4. /\ Unwritten \in Pendings /\ Unwritten.state = "unwritten" /\ Unwritten.timer = "none"
  <2>1. 0 \in 0..MaxSendAttempts
    BY ChatAssumption
  <2> QED
    BY <2>1 DEF Unwritten, Pendings, States, Timers, Names
<1>5. ChatTypes
  <2>1. 0 \in 0..MaxRetries
    BY ChatAssumption
  <2>2. socket \in Sockets
    BY <1>2, <1>3 DEF NewSocket, Sockets
  <2>3. pending \in [Messages -> Pendings]
    BY <1>2, <1>4
  <2> QED
    BY <1>2, <2>1, <2>2, <2>3 DEF ChatTypes
<1>6. TypeOK
  BY <1>1, <1>5, TypesSplit DEF SessionInv
<1>7. SocketFits
  BY <1>2, <1>3 DEF SocketFits, NewSocket
<1>8. PendingFits
  BY <1>2, <1>4 DEF PendingFits
<1>9. AuthorsFit /\ StoredOnce /\ NameIsTheWriters
  BY <1>2, <1>4 DEF AuthorsFit, StoredOnce, NameIsTheWriters
<1> QED
  BY <1>1, <1>6, <1>7, <1>8, <1>9 DEF IInv, ChatInv

\* Every step of session, panel, socket and server keeps the inductive invariant.
LEMMA NextIInv == IInv /\ [Next]_vars => IInv'
<1> SUFFICES ASSUME IInv, [Next]_vars PROVE IInv'
  OBVIOUS
<1>1. CASE Session
  BY <1>1, SessionKeepsIInv
<1>2. CASE Person
  BY <1>2, SendMessageKeepsIInv, PastePictureKeepsIInv, RetryKeepsIInv, QuietKeepsIInv DEF Person
<1>3. CASE Uploads \/ Opens \/ Drops \/ Reconnects
  BY <1>3, UploadAnswersKeepsIInv, OpensKeepsIInv, QuietKeepsIInv, ReconnectsKeepsIInv
     DEF Uploads
<1>4. CASE Timer
  BY <1>4, TimerKeepsIInv DEF Timer
<1>5. CASE Server
  BY <1>5, ServerKeepsIInv, PageKeepsIInv DEF Server
<1>6. CASE UNCHANGED vars
  <2>1. UNCHANGED <<sessionVars, panel, chatAuth, socket, reconnect, pending,
                    failedMessage, isUploadingGif, wire, answers, stored, unnoticed,
                    retries>>
    BY <1>6 DEF vars, chatVars
  <2>2. ChatTypes'
    BY <2>1, TypesSplit DEF IInv, ChatTypes
  <2>3. StoredOnce'
    BY <2>1 DEF IInv, ChatInv, StoredOnce
  <2> QED
    BY <2>1, <2>2, <2>3, StaysCarried, MarkStays, ChatStep
<1> QED
  BY <1>1, <1>2, <1>3, <1>4, <1>5, <1>6 DEF Next

\* Session, socket, messages and their copies fit each other throughout.
THEOREM Invariance == Spec => []IInv
BY InitIInv, NextIInv, PTL DEF Spec

\* The state keeps its types: no message makes more than MaxSendAttempts attempts.
THEOREM TypeCorrect == Spec => []TypeOK
<1>1. IInv => TypeOK
  BY DEF IInv
<1> QED
  BY <1>1, Invariance, PTL

\* The server keeps one copy of a message for a sender, however often it went out.
THEOREM OneCopyForASender == Spec => []StoredOnce
<1>1. IInv => StoredOnce
  BY DEF IInv, ChatInv
<1> QED
  BY <1>1, Invariance, PTL

\* What a person wrote is kept under that person's name, as long as the store says
\* that the session has changed hands.
THEOREM WritersKeepTheirNames == Spec => []NameIsTheWriters
<1>1. IInv => NameIsTheWriters
  BY DEF IInv, ChatInv
<1> QED
  BY <1>1, Invariance, PTL

\* A session does not stand while another wallet than its own is connected, unless
\* the wallet changed while the watchdog was not looking.
THEOREM WatchdogFollows == Spec => []SessionFollowsWallet
<1>1. IInv => SessionFollowsWallet
  BY DEF IInv, SessionInv
<1> QED
  BY <1>1, Invariance, PTL
=============================================================================
