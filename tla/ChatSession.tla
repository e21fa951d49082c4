---------------------------- MODULE ChatSession ----------------------------
(***************************************************************************)
(* The chat panel: its socket, which carries the name it was opened under, *)
(* the messages that wait for an acknowledgement and are sent again, the   *)
(* picture uploaded before its message is, and the session under it all.   *)
(* The server keeps a message once for a sender and a client id.           *)
(***************************************************************************)
EXTENDS WalletSession

CONSTANTS
  Messages,        \* what the person writes
  MaxSendAttempts,
  MaxRetries       \* bound: presses of "retry"

ASSUME ChatAssumption == MaxSendAttempts \in Nat \ {0} /\ MaxRetries \in Nat

VARIABLES
  panel,           \* whether the component lives
  chatAuth,        \* isAuthenticated of the component
  socket,          \* the current socket
  reconnect,       \* reconnectTimer is set
  pending,         \* the messages, by client id
  failedMessage,   \* the one that can be retried
  isUploadingGif,  \* an upload's answer is waited for
  wire,            \* messages sent and not yet read by the server
  answers,         \* what the server answered over the open socket, not read yet
  stored,          \* the messages the server keeps
  unnoticed,       \* history: the session changed hands and the store did not say
  retries

chatVars == <<panel, chatAuth, socket, reconnect, pending, failedMessage, isUploadingGif,
              wire, answers, stored, unnoticed, retries>>
vars == <<sessionVars, chatVars>>

Names == Users \cup {None}
States == {"unwritten", "uploading", "queued", "failed", "over"}
Timers == {"none", "ack", "retry"}
Unwritten == [state |-> "unwritten", attempts |-> 0, timer |-> "none", author |-> None,
              picture |-> FALSE]

\* The token the socket's subprotocol carries, as the server reads it.
TokenUser == IF tokenOk THEN user ELSE None
NewSocket(id, name) == [id |-> id, name |-> name, state |-> "connecting"]

Init ==
  /\ SessionInit
  /\ panel = TRUE
  /\ chatAuth = storeAuth
  /\ socket = NewSocket(0, TokenUser)
  /\ reconnect = FALSE
  /\ pending = [c \in Messages |-> Unwritten]
  /\ failedMessage = None
  /\ isUploadingGif = FALSE
  /\ wire = {}
  /\ answers = {}
  /\ stored = {}
  /\ unnoticed = FALSE
  /\ retries = 0

TypeOK ==
  /\ SessionTypeOK
  /\ {panel, chatAuth, reconnect, isUploadingGif, unnoticed} \subseteq BOOLEAN
  /\ socket \in [id : {0, 1}, name : Names, state : {"connecting", "open", "closed"}]
  /\ pending \in [Messages -> [state : States, attempts : 0..MaxSendAttempts,
                               timer : Timers, author : Names, picture : BOOLEAN]]
  /\ failedMessage \in Messages \cup {None}
  /\ wire \subseteq [msg : Messages, try : 1..MaxSendAttempts, name : Names, socket : {0, 1}]
  /\ answers \subseteq [msg : Messages, ok : BOOLEAN]
  /\ stored \subseteq [msg : Messages, name : Users, try : 1..MaxSendAttempts]
  /\ retries \in 0..MaxRetries

-----------------------------------------------------------------------------
(* What the handlers do to one pending message.                            *)

IsOpen == panel /\ socket.state = "open"
Queued == {c \in Messages : pending[c].state = "queued"}
Quiet(p) == [p EXCEPT !.timer = "none"]
Failed(p) == [p EXCEPT !.state = "failed", !.timer = "none"]

\* MAX_SEND_ATTEMPTS are made.
Exhausted(p) == p.attempts >= MaxSendAttempts
Sent(p) == [p EXCEPT !.attempts = @ + 1, !.timer = "ack"]
OnWire(c, p) == [msg |-> c, try |-> p.attempts + 1, name |-> socket.name, socket |-> socket.id]

\* trySendPendingMessage over an open socket, for some of the messages: those that
\* are out of attempts fail, the others go out and wait for the acknowledgement.
TrySend(waiting, set) ==
  LET spent == {c \in set : Exhausted(waiting[c])}
  IN /\ pending' = [c \in Messages |->
           IF c \in spent THEN Failed(waiting[c])
           ELSE IF c \in set THEN Sent(waiting[c]) ELSE waiting[c]]
     /\ wire' = wire \cup {OnWire(c, waiting[c]) : c \in set \ spent}
     /\ failedMessage' \in IF spent = {} THEN {failedMessage} ELSE spent

\* openSocket, in place of the one there was: what an older one still had under
\* way is forgotten.
OpenSocket(name) ==
  LET id == 1 - socket.id
  IN /\ socket' = NewSocket(id, name)
     /\ wire' = {m \in wire : m.socket # id}
     /\ answers' = {}

\* Mutant of Reset: what was unsent is kept for whoever signs in next.
ResetKept == UNCHANGED <<pending, failedMessage>>

\* A sign-out: what is unsent belongs to the session that ends.
Reset ==
  /\ pending' = [c \in Messages |->
                   IF pending[c].state \in {"queued", "failed"}
                   THEN [pending[c] EXCEPT !.state = "over", !.timer = "none"]
                   ELSE pending[c]]
  /\ failedMessage' = None

\* watchAuthState: the store said something else than the chat had.
FollowStore ==
  IF storeAuth' # storeAuth /\ storeAuth' # chatAuth
  THEN /\ chatAuth' = storeAuth'
       /\ IF storeAuth' THEN UNCHANGED <<pending, failedMessage>> ELSE Reset
       /\ OpenSocket(IF storeAuth' /\ tokenOk' THEN user' ELSE None)
       /\ reconnect' = FALSE
       /\ UNCHANGED <<panel, isUploadingGif, stored, retries>>
       /\ UNCHANGED unnoticed
  ELSE /\ unnoticed' = (unnoticed \/ user' # user)
       /\ UNCHANGED <<panel, chatAuth, socket, reconnect, pending, failedMessage,
                      isUploadingGif, wire, answers, stored, retries>>

\* With the panel closed the chat no longer depends on the session.
Session == panel /\ SessionNext /\ FollowStore

-----------------------------------------------------------------------------
(* The person.                                                             *)

Writable(c) == panel /\ chatAuth /\ IsOpen /\ pending[c].state = "unwritten"

\* A message waits for the picture that uploads.
SendMessage(c) ==
  /\ Writable(c) /\ ~isUploadingGif
  /\ TrySend([pending EXCEPT ![c].state = "queued", ![c].author = user], {c})
  /\ UNCHANGED <<sessionVars, panel, chatAuth, socket, reconnect, isUploadingGif,
                 answers, stored, unnoticed, retries>>

\* A picture does not: a second may be on its way beside the first.
PastePicture(c) ==
  /\ Writable(c)
  /\ pending' = [pending EXCEPT ![c].state = "uploading", ![c].author = user,
                                ![c].picture = TRUE]
  /\ isUploadingGif' = TRUE
  /\ UNCHANGED <<sessionVars, panel, chatAuth, socket, reconnect, failedMessage, wire,
                 answers, stored, unnoticed, retries>>

\* The upload's answer: the message is queued whoever is signed in by now, and the
\* composer is free, though another upload may still be on its way.
UploadAnswers(c) ==
  /\ pending[c].state = "uploading"
  /\ LET written == [pending EXCEPT ![c].state = "queued"]
     IN \/ IF IsOpen THEN TrySend(written, {c})
           ELSE pending' = written /\ UNCHANGED <<wire, failedMessage>>
        \/ /\ pending' = [pending EXCEPT ![c].state = "over"]
           /\ UNCHANGED <<wire, failedMessage>>
  /\ isUploadingGif' = FALSE
  /\ UNCHANGED <<sessionVars, panel, chatAuth, socket, reconnect, answers, stored,
                 unnoticed, retries>>

RetryFailedMessage ==
  /\ retries < MaxRetries /\ failedMessage # None /\ IsOpen
  /\ LET c == failedMessage
         again == [pending[c] EXCEPT !.attempts = 0, !.state = "queued"]
     IN /\ pending' = [pending EXCEPT ![c] = Sent(again)]
        /\ wire' = wire \cup {OnWire(c, again)}
  /\ failedMessage' = None
  /\ retries' = retries + 1
  /\ UNCHANGED <<sessionVars, panel, chatAuth, socket, reconnect, isUploadingGif,
                 answers, stored, unnoticed>>

\* The panel closes and its component goes; the server may still read what it sent.
ClosePanel ==
  /\ panel
  /\ panel' = FALSE /\ reconnect' = FALSE
  /\ socket' = [socket EXCEPT !.state = "closed"]
  /\ pending' = [c \in Messages |-> Quiet(pending[c])]
  /\ answers' = {}
  /\ UNCHANGED <<sessionVars, chatAuth, failedMessage, isUploadingGif, wire, stored,
                 unnoticed, retries>>

-----------------------------------------------------------------------------
(* The socket and the timers.                                              *)

\* Mutant of Resend: the reconnected socket leaves the waiting ones alone.
ResendNothing == UNCHANGED <<pending, wire, failedMessage>>

\* retryPendingMessages.
Resend == TrySend([c \in Messages |-> IF c \in Queued THEN Quiet(pending[c]) ELSE pending[c]],
                  Queued)

Opens ==
  /\ panel /\ socket.state = "connecting"
  /\ socket' = [socket EXCEPT !.state = "open"]
  /\ Resend
  /\ UNCHANGED <<sessionVars, panel, chatAuth, reconnect, isUploadingGif, answers,
                 stored, unnoticed, retries>>

\* onclose: the timers of the waiting messages stop, a reconnect is scheduled.
Drops ==
  /\ panel /\ socket.state # "closed"
  /\ socket' = [socket EXCEPT !.state = "closed"]
  /\ pending' = [c \in Messages |-> IF c \in Queued THEN Quiet(pending[c]) ELSE pending[c]]
  /\ reconnect' = TRUE
  /\ answers' = {}
  /\ UNCHANGED <<sessionVars, panel, chatAuth, failedMessage, isUploadingGif, wire,
                 stored, unnoticed, retries>>

Reconnects ==
  /\ reconnect
  /\ reconnect' = FALSE
  /\ OpenSocket(IF chatAuth THEN TokenUser ELSE None)
  /\ UNCHANGED <<sessionVars, panel, chatAuth, pending, failedMessage, isUploadingGif,
                 stored, unnoticed, retries>>

\* ACK_TIMEOUT_MS without an acknowledgement.
AckTimeout(c) ==
  /\ pending[c].timer = "ack"
  /\ IF Exhausted(pending[c])
     THEN pending' = [pending EXCEPT ![c] = Failed(@)] /\ failedMessage' = c
     ELSE pending' = [pending EXCEPT ![c].timer = "retry"] /\ UNCHANGED failedMessage
  /\ UNCHANGED <<sessionVars, panel, chatAuth, socket, reconnect, isUploadingGif, wire,
                 answers, stored, unnoticed, retries>>

RetryTimer(c) ==
  /\ pending[c].timer = "retry"
  /\ IF IsOpen THEN TrySend([pending EXCEPT ![c] = Quiet(@)], {c})
     ELSE pending' = [pending EXCEPT ![c] = Quiet(@)] /\ UNCHANGED <<wire, failedMessage>>
  /\ UNCHANGED <<sessionVars, panel, chatAuth, socket, reconnect, isUploadingGif,
                 answers, stored, unnoticed, retries>>

-----------------------------------------------------------------------------
(* The server, and the way back.                                           *)

\* Mutant of Known: every copy is a new message.
KnownNever(m) == FALSE

\* _create_message looks for the sender's earlier copy first.
Known(m) == \E s \in stored : s.msg = m.msg /\ s.name = m.name

\* A picture is its uploader's.
PictureIsForeign(m) == pending[m.msg].picture /\ pending[m.msg].author # m.name

Live(id) == IsOpen /\ socket.id = id

\* An answer over a socket that was replaced, or is closed, is not listened to.
Answer(m, ok) ==
  answers' = IF Live(m.socket) THEN answers \cup {[msg |-> m.msg, ok |-> ok]} ELSE answers

\* A stranger's message gets an error that names no message; a rate limit or a
\* blocked account one that does.
ServerReads(m) ==
  /\ wire' = wire \ {m}
  /\ IF m.name = None THEN UNCHANGED <<stored, answers>>
     ELSE IF Known(m) THEN Answer(m, TRUE) /\ UNCHANGED stored
     ELSE \/ /\ ~PictureIsForeign(m)
             /\ stored' = stored \cup {[msg |-> m.msg, name |-> m.name, try |-> m.try]}
             /\ Answer(m, TRUE)
          \/ Answer(m, FALSE) /\ UNCHANGED stored
  /\ UNCHANGED <<sessionVars, panel, chatAuth, socket, reconnect, pending,
                 failedMessage, isUploadingGif, unnoticed, retries>>

\* What was under way on a socket that is no more may be lost.
Lost(m) ==
  /\ ~Live(m.socket)
  /\ wire' = wire \ {m}
  /\ UNCHANGED <<sessionVars, panel, chatAuth, socket, reconnect, pending,
                 failedMessage, isUploadingGif, answers, stored, unnoticed, retries>>

\* handleSocketEvent.
PageReads(m) ==
  /\ answers' = answers \ {m}
  /\ IF pending[m.msg].state \notin {"queued", "failed"}
     THEN UNCHANGED <<pending, failedMessage>>
     ELSE IF m.ok
     THEN /\ pending' = [pending EXCEPT ![m.msg].state = "over", ![m.msg].timer = "none"]
          /\ failedMessage' = IF failedMessage = m.msg THEN None ELSE failedMessage
     ELSE /\ pending' = [pending EXCEPT ![m.msg] = Failed(@)]
          /\ failedMessage' = m.msg
  /\ UNCHANGED <<sessionVars, panel, chatAuth, socket, reconnect, isUploadingGif, wire,
                 stored, unnoticed, retries>>

-----------------------------------------------------------------------------
Server == (\E m \in wire : ServerReads(m) \/ Lost(m)) \/ (\E m \in answers : PageReads(m))
Timer == \E c \in Messages : AckTimeout(c) \/ RetryTimer(c)
Person ==
  \/ \E c \in Messages : SendMessage(c) \/ PastePicture(c)
  \/ RetryFailedMessage \/ ClosePanel

Uploads == \E c \in Messages : UploadAnswers(c)

Next == Session \/ Person \/ Uploads \/ Opens \/ Drops \/ Reconnects \/ Timer \/ Server

Spec == Init /\ [][Next]_vars

\* The browser's timers fire, requests end, and a socket that is opened again and
\* again gets through at last.  Nothing is assumed of the person or the server.
FairSpec ==
  /\ Spec
  /\ WF_vars(Timer) /\ WF_vars(Reconnects) /\ WF_vars(Uploads)
  /\ SF_vars(Opens)

-----------------------------------------------------------------------------
(* A message sent again after a lost acknowledgement is kept once: no      *)
(* sender has two copies of it, however many went out over however many    *)
(* sockets.                                                                *)
StoredOnce ==
  \A s, t \in stored : s.msg = t.msg /\ s.name = t.name => s = t

(* "Anything unsent belongs to the previous session": what a person wrote  *)
(* is not kept under another name, whatever happens to sockets, sign-ins   *)
(* and uploads in between - as long as the store tells the chat that the   *)
(* session has changed hands.                                              *)
NameIsTheWriters ==
  ~unnoticed => \A s \in stored : s.name = pending[s.msg].author

(* A message does not wait for ever: it is acknowledged, dropped with its  *)
(* session, or shown as failed, unless the panel is closed.                *)
PendingEnds ==
  \A c \in Messages : pending[c].state = "queued" ~> pending[c].state # "queued" \/ ~panel
=============================================================================
