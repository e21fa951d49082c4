--------------------------- MODULE MCChatSession ---------------------------
(***************************************************************************)
(* Two wallets and the account with an email, two events of session or     *)
(* wallet, and one message sent twice before it fails and retried once:    *)
(* its copies may be on their way over two sockets, under two names.  The  *)
(* history of one's commits, which the session is of as well, is evaluated *)
(* over every four events.                                                 *)
(***************************************************************************)
EXTENDS ChatSession
-----------------------------------------------------------------------------
Mine == INSTANCE MyCommits

UpToFour == UNION {[1..n -> Mine!Events] : n \in 0..4}

ASSUME HistoryIsAnswered == \A past \in UpToFour : Mine!LoadedWasAnswered(past)
ASSUME HistoryIsOnesOwn == \A past \in UpToFour : Mine!OwnAndFresh(past)
ASSUME HistoryStays == \A past \in UpToFour : Mine!StaysThroughSignIn(past)
ASSUME HistoryIsRefreshed == \A past \in UpToFour : Mine!RefreshIsOnesOwn(past)
=============================================================================
