------------------------------ MODULE MyCommits ------------------------------
(***************************************************************************)
(* MyCommitsService: the history of whoever is signed in, held by one      *)
(* service for the pool page, the archive and the personal page.           *)
(*                                                                         *)
(* Whatever happens is an event; After gives what is so once a       *)
(* sequence of them has happened, on the server (who is signed in, how     *)
(* many commits each person has), on the wire (the request under way and   *)
(* its answer), and in the service (what it shows).                        *)
(***************************************************************************)
EXTENDS Naturals, Sequences, SequencesExt

Persons == {"ann", "bob"}
Nobody == "nobody"

Empty == [of |-> Nobody, commits |-> 0, loaded |-> FALSE, signedOut |-> FALSE]
NoRequest == [at |-> "none", answer |-> Empty]

Start == [who |-> "ann", made |-> [p \in Persons |-> 0],
          request |-> NoRequest, shown |-> Empty]

\* fetch, at the server: the history of whoever asks; without a session it is
\* refused, which is an answer too.
History(now) ==
  IF now.who = Nobody THEN [Empty EXCEPT !.loaded = TRUE, !.signedOut = TRUE]
  ELSE [of |-> now.who, commits |-> now.made[now.who], loaded |-> TRUE, signedOut |-> FALSE]

\* refresh: asks, or joins the request under way.
Refresh(now) ==
  IF now.request.at # "none" THEN now
  ELSE [now EXCEPT !.request.at = "asked"]

\* load: only while there is no history.
Load(now) == IF now.shown.loaded THEN now ELSE Refresh(now)

Served(now) ==
  IF now.request.at # "asked" THEN now
  ELSE [now EXCEPT !.request.at = "served", !.request.answer = History(now)]

\* The answer arrives: what is shown, until the next.
Received(now) ==
  IF now.request.at # "served" THEN now
  ELSE [now EXCEPT !.shown = now.request.answer, !.request = NoRequest]

\* Any other failure is thrown to the page, and leaves what is shown.
Failed(now) == [now EXCEPT !.request = NoRequest]

\* signOut, and signIn as somebody: nothing calls clear.
Signs(now, person) == [now EXCEPT !.who = person]

Commits(now) == IF now.who = Nobody THEN now ELSE [now EXCEPT !.made[now.who] = @ + 1]

Events == {"load", "refresh", "served", "received", "failed", "commits", "signs out",
           "ann signs in", "bob signs in"}

Step(event, now) ==
  CASE event = "load"         -> Load(now)
    [] event = "refresh"      -> Refresh(now)
    [] event = "served"       -> Served(now)
    [] event = "received"     -> Received(now)
    [] event = "failed"       -> Failed(now)
    [] event = "commits"      -> Commits(now)
    [] event = "signs out"    -> Signs(now, Nobody)
    [] event = "ann signs in" -> Signs(now, "ann")
    [] event = "bob signs in" -> Signs(now, "bob")

After(events) == FoldLeft(LAMBDA now, event : Step(event, now), Start, events)

\* roundFor, and the personal page: what the person at the screen is shown.
ShownTo(now) == IF now.shown.loaded /\ ~now.shown.signedOut THEN now.shown.of ELSE Nobody
-----------------------------------------------------------------------------
(* Promises.                                                               *)

Happened(events, kinds) == \E i \in DOMAIN events : events[i] \in kinds
SignsIn == {"signs out", "ann signs in", "bob signs in"}

(* A history that is empty and one nobody asked for are told apart: what   *)
(* is shown as loaded was answered.                                        *)
LoadedWasAnswered(events) ==
  After(events).shown.loaded => Happened(events, {"received"}) /\ Happened(events, {"served"})

(* Until the session changes, what is shown is one's own, and a commit     *)
(* made is in it once a refresh that did not join an older request is      *)
(* answered.                                                               *)
OwnAndFresh(events) ==
  ~Happened(events, SignsIn) =>
    LET before == After(events)
        after  == After(events \o <<"refresh", "served", "received">>)
    IN /\ ShownTo(before) \in {"ann", Nobody}
       /\ before.request.at # "served" => after.shown.commits = before.made["ann"]
       /\ before.request.at = "served" => after.shown.commits = before.request.answer.commits

(* "On sign-out it belongs to somebody else" (my-commits.service.ts:103),  *)
(* yet nothing forgets it: once loaded, a history stays through every      *)
(* change of person until somebody refreshes, whatever else is loaded.     *)
StaysThroughSignIn(events) ==
  LET before == After(events)
      after  == After(events \o <<"signs out", "bob signs in", "load", "served", "received">>)
  IN before.shown.loaded /\ before.request.at = "none" => after.shown = before.shown

(* A refresh of its own brings the new person's history.                   *)
RefreshIsOnesOwn(events) ==
  After(events).request.at = "none" =>
    ShownTo(After(events \o <<"bob signs in", "refresh", "served", "received">>)) = "bob"
=============================================================================
