--------------------------- MODULE UnifiedSearch ----------------------------
(***************************************************************************)
(* connectors/unified-search: one GET /search fans out to every source at  *)
(* once, each under a time-out of its own, and answers when all of them    *)
(* have an outcome.  Web sources take one request; the mail source is an   *)
(* IMAP session whose `finally` logs out, also when it is cancelled.       *)
(*                                                                         *)
(* Time is counted from the request, in ticks; a deadline that is reached  *)
(* is served before time goes on.                                          *)
(***************************************************************************)
EXTENDS Naturals

CONSTANTS
    Web,           \* matrix, seafile, vikunja
    Mail,          \* grommunio
    Timeout,       \* SEARCH_TIMEOUT_MS
    ImapTimeout,   \* GROMMUNIO_IMAP_TIMEOUT_SECONDS, the limit of each command
    MaxHits,       \* bound: results of a source
    MaxTime        \* bound: the clock, beyond any time a request takes

Source == Web \cup Mail

ASSUME SourceAssumption == Web \cap Mail = {}
ASSUME TimeAssumption ==
    /\ Timeout \in Nat /\ ImapTimeout \in Nat /\ MaxHits \in Nat
    /\ MaxTime \in Nat /\ MaxTime > Timeout + ImapTimeout

VARIABLES
    now,           \* ticks since the request
    stage,         \* where a source's coroutine is
    unfetched,     \* messages the mail search found and has not fetched yet
    found,         \* results a source has collected
    end,           \* the outcome a source ends with once logged out
    since,         \* when the log-out was asked for
    session,       \* mail sources whose server greeted: a session to log out of
    asked,         \* mail sources that were sent a LOGOUT
    responded      \* whether the request has its answer

vars == <<now, stage, unfetched, found, end, since, session, asked, responded>>

Stage == {"calling", "searching", "fetching", "logout", "done"}
End == {"none", "ok", "error", "timeout"}

Init ==
    /\ now = 0
    /\ stage = [s \in Source |-> "calling"]
    /\ unfetched = [s \in Source |-> 0]
    /\ found = [s \in Source |-> 0]
    /\ end = [s \in Source |-> "none"]
    /\ since = [s \in Source |-> 0]
    /\ session = {}
    /\ asked = {}
    /\ responded = FALSE

Finish(s, e) ==
    /\ stage' = [stage EXCEPT ![s] = "done"]
    /\ end' = [end EXCEPT ![s] = e]

\* The `finally` block: the session is logged out of before the coroutine ends.
StartLogout(s, e) ==
    /\ stage' = [stage EXCEPT ![s] = "logout"]
    /\ end' = [end EXCEPT ![s] = e]
    /\ since' = [since EXCEPT ![s] = now]
    /\ asked' = asked \cup {s}
-----------------------------------------------------------------------------
(* The sources *)

\* The one request of matrix.py, seafile.py or vikunja.py is answered with
\* results; an error status, a body that does not parse and a broken connection
\* are failures, below.
WebAnswer(s, n) ==
    /\ s \in Web /\ stage[s] = "calling"
    /\ Finish(s, "ok")
    /\ found' = [found EXCEPT ![s] = n]
    /\ UNCHANGED <<now, unfetched, since, session, asked, responded>>

\* A web source fails, or the mail server does not greet: there is no session
\* yet, and nothing to log out of.
CallFails(s) ==
    /\ stage[s] = "calling"
    /\ Finish(s, "error")
    /\ UNCHANGED <<now, unfetched, found, since, session, asked, responded>>

Greeting(s) ==
    /\ s \in Mail /\ stage[s] = "calling"
    /\ stage' = [stage EXCEPT ![s] = "searching"]
    /\ session' = session \cup {s}
    /\ UNCHANGED <<now, unfetched, found, end, since, asked, responded>>

\* AUTHENTICATE, SELECT and SEARCH succeed and n messages match.
MailMatches(s, n) ==
    /\ stage[s] = "searching"
    /\ unfetched' = [unfetched EXCEPT ![s] = n]
    /\ IF n = 0 THEN StartLogout(s, "ok")
       ELSE /\ stage' = [stage EXCEPT ![s] = "fetching"]
            /\ UNCHANGED <<end, since, asked>>
    /\ UNCHANGED <<now, found, session, responded>>

\* One FETCH; a refused one is skipped.
Fetch(s, ok) ==
    /\ stage[s] = "fetching"
    /\ unfetched' = [unfetched EXCEPT ![s] = @ - 1]
    /\ found' = IF ok THEN [found EXCEPT ![s] = @ + 1] ELSE found
    /\ IF unfetched[s] = 1 THEN StartLogout(s, "ok")
       ELSE UNCHANGED <<stage, end, since, asked>>
    /\ UNCHANGED <<now, session, responded>>

\* A command is refused, times out, or the connection breaks.
SessionFails(s) ==
    /\ stage[s] \in {"searching", "fetching"}
    /\ StartLogout(s, "error")
    /\ UNCHANGED <<now, unfetched, found, session, responded>>

\* The server says BYE, or the log-out fails, which is ignored.
LoggedOut(s) ==
    /\ stage[s] = "logout"
    /\ Finish(s, end[s])
    /\ UNCHANGED <<now, unfetched, found, since, session, asked, responded>>
-----------------------------------------------------------------------------
(* The time-outs *)

\* Faulty variant: only the mail source runs under wait_for().
ExpiredMail(s) ==
    s \in Mail /\ now >= Timeout /\ stage[s] # "done" /\ end[s] # "timeout"

\* Faulty variant: the time-out of a source that has ended is not taken back.
ExpiredThoughDone(s) == now >= Timeout /\ end[s] # "timeout"

\* The coroutine is cancelled once, when its own time-out elapses.
Expired(s) == now >= Timeout /\ stage[s] # "done" /\ end[s] # "timeout"

\* Faulty variant: a cancelled session is dropped as it is.
DropsSession(s) == {"calling", "searching", "fetching", "logout"}

\* Faulty variant: the greeting is awaited inside the `try`.
GreetingInTry(s) == {"logout"} \cup (IF s \in Web THEN {"calling"} ELSE {})

\* The stages a cancellation ends at once; in the others it runs the `finally`.
EndsAtOnce(s) == {"calling", "logout"}

Expire(s) ==
    /\ Expired(s)
    /\ IF stage[s] \in EndsAtOnce(s)
       THEN Finish(s, "timeout") /\ UNCHANGED <<since, asked>>
       ELSE StartLogout(s, "timeout")
    /\ UNCHANGED <<now, unfetched, found, session, responded>>

\* Faulty variant: a log-out without a limit of its own.
LogoutNeverOver(s) == FALSE

LogoutOver(s) == stage[s] = "logout" /\ now >= since[s] + ImapTimeout

LogoutTimesOut(s) ==
    /\ LogoutOver(s)
    /\ Finish(s, end[s])
    /\ UNCHANGED <<now, unfetched, found, since, session, asked, responded>>

Tick ==
    /\ now < MaxTime
    /\ ~responded
    /\ \E s \in Source : stage[s] # "done"
    /\ \A s \in Source : ~Expired(s) /\ ~LogoutOver(s)
    /\ now' = now + 1
    /\ UNCHANGED <<stage, unfetched, found, end, since, session, asked, responded>>

\* Faulty variant: whatever a source had collected is reported.
Collected(s) == found[s]

\* _run_one(): a source that did not end well has no results.
Results(s) == IF end[s] = "ok" THEN found[s] ELSE 0

\* gather(): every source has its outcome.
Respond ==
    /\ ~responded
    /\ \A s \in Source : stage[s] = "done"
    /\ responded' = TRUE
    /\ UNCHANGED <<now, stage, unfetched, found, end, since, session, asked>>

SourceStep(s) ==
    \/ \E n \in 0..MaxHits : WebAnswer(s, n)
    \/ CallFails(s)
    \/ Greeting(s)
    \/ \E n \in 0..MaxHits : MailMatches(s, n)
    \/ \E ok \in BOOLEAN : Fetch(s, ok)
    \/ SessionFails(s)
    \/ LoggedOut(s)

Next ==
    \/ \E s \in Source : SourceStep(s)
    \/ \E s \in Source : Expire(s)
    \/ \E s \in Source : LogoutTimesOut(s)
    \/ Tick
    \/ Respond

Spec == Init /\ [][Next]_vars

\* The event loop serves its timers and resumes what is ready; no source is
\* assumed to answer.
FairSpec ==
    /\ Spec
    /\ WF_vars(Tick)
    /\ WF_vars(Respond)
    /\ \A s \in Source : WF_vars(Expire(s)) /\ WF_vars(LogoutTimesOut(s))
-----------------------------------------------------------------------------
(* Properties *)

\* Every variable holds a value of its type.
TypeOK ==
    /\ now \in Nat
    /\ stage \in [Source -> Stage]
    /\ unfetched \in [Source -> 0..MaxHits]
    /\ found \in [Source -> 0..MaxHits]
    /\ end \in [Source -> End]
    /\ since \in [Source -> Nat]
    /\ session \subseteq Mail
    /\ asked \subseteq session
    /\ responded \in BOOLEAN

\* Past the search's time-out nothing is waited for but a mail session's
\* log-out: no source's stall delays another one's outcome.
OnlyLogoutDelays ==
    \A s \in Source :
        now > Timeout => stage[s] = "done" \/ (s \in Mail /\ stage[s] = "logout")

\* A mailbox is reported whole or not at all: whatever the cancellation cut,
\* no result of a session that did not go through its messages is shown.
WholeOrNothing ==
    responded => \A s \in Source : Results(s) > 0 => end[s] = "ok" /\ unfetched[s] = 0

\* A session the server opened was asked to close before the answer is sent,
\* whether it succeeded, failed or was cancelled in the middle of a command.
SessionsLoggedOut == responded => session \subseteq asked

\* Every request is answered, even if no source ever is heard from.
EventuallyResponds == <>responded

\* The request, seen from the portal: one answer, in time, that no source's
\* late time-out, failure or log-out changes once it is given.
Reported == {s \in Source : responded /\ end[s] = "ok"}

Promise == INSTANCE SearchPromise WITH
    Bound <- Timeout + ImapTimeout, age <- now, answered <- responded,
    reported <- Reported

KeepsPromise == Promise!Spec
=============================================================================
