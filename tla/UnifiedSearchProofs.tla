------------------------- MODULE UnifiedSearchProofs -------------------------
(***************************************************************************)
(* Proofs about UnifiedSearch, for any sources and any values of the two   *)
(* time-outs.                                                              *)
(***************************************************************************)
EXTENDS UnifiedSearch, TLAPS

\* What is known of a source at each stage.  A coroutine that has not begun to
\* end is younger than its time-out; a log-out began before it, and lasts no
\* longer than a command may.
SourceInv(s) ==
    /\ stage[s] = "calling" => s \notin session /\ found[s] = 0 /\ unfetched[s] = 0
    /\ stage[s] = "searching" => s \in session /\ found[s] = 0
    /\ stage[s] = "fetching" =>
          s \in session /\ unfetched[s] > 0 /\ found[s] + unfetched[s] <= MaxHits
    /\ stage[s] = "logout" =>
          s \in asked /\ since[s] <= Timeout /\ now <= since[s] + ImapTimeout
    /\ stage[s] \in {"calling", "searching", "fetching"} =>
          now <= Timeout /\ end[s] = "none"
    /\ s \in session => s \in asked \/ stage[s] \in {"searching", "fetching"}
    /\ end[s] = "ok" => unfetched[s] = 0

SearchInv ==
    /\ TypeOK
    /\ now <= Timeout + ImapTimeout
    /\ \A s \in Source : SourceInv(s)

\* A step of one source concerns no other one.
LEMMA OtherSources ==
    ASSUME SearchInv, NEW s \in Source, TypeOK', SourceInv(s)', now' = now,
           \A t \in Source \ {s} :
               /\ stage'[t] = stage[t] /\ unfetched'[t] = unfetched[t]
               /\ found'[t] = found[t] /\ end'[t] = end[t] /\ since'[t] = since[t]
               /\ t \in session' <=> t \in session
               /\ t \in asked' <=> t \in asked
    PROVE  SearchInv'
<1>1. ASSUME NEW t \in Source \ {s} PROVE SourceInv(t)'
  BY DEF SearchInv, SourceInv
<1>2. QED
  BY <1>1 DEF SearchInv

\* The invariant holds when the request arrives.
LEMMA SearchInit == Init => SearchInv
<1> SUFFICES ASSUME Init PROVE SearchInv
  OBVIOUS
<1>1. TypeOK
  <2>1. responded \in BOOLEAN
    BY DEF Init
  <2>2. QED
    BY <2>1, TimeAssumption DEF Init, TypeOK, Stage, End
<1>2. \A s \in Source : SourceInv(s)
  BY TimeAssumption DEF Init, SourceInv
<1>3. QED
  BY <1>1, <1>2, TimeAssumption DEF Init, SearchInv

\* A web source ends with its results.
LEMMA WebAnswerOK ==
    ASSUME SearchInv, NEW s \in Source, NEW n \in 0..MaxHits, WebAnswer(s, n)
    PROVE  SearchInv'
<1> USE SourceAssumption, TimeAssumption DEF Source
<1>1. TypeOK /\ SourceInv(s) /\ now <= Timeout + ImapTimeout
  BY DEF SearchInv
<1>2. TypeOK'
  <2>1. responded' \in BOOLEAN
    BY <1>1 DEF WebAnswer, Finish, TypeOK
  <2>2. QED
    BY <1>1, <2>1 DEF WebAnswer, Finish, TypeOK, SourceInv, Stage, End
<1>3. SourceInv(s)'
  BY <1>1 DEF WebAnswer, Finish, TypeOK, SourceInv, Stage
<1>4. \A t \in Source \ {s} :
         /\ stage'[t] = stage[t] /\ unfetched'[t] = unfetched[t]
         /\ found'[t] = found[t] /\ end'[t] = end[t] /\ since'[t] = since[t]
         /\ t \in session' <=> t \in session
         /\ t \in asked' <=> t \in asked
  BY <1>1 DEF WebAnswer, Finish, TypeOK
<1>5. now' = now
  BY DEF WebAnswer, Finish
<1>6. QED
  BY <1>2, <1>3, <1>4, <1>5, OtherSources

\* A source that fails before a session exists has none to log out of.
LEMMA CallFailsOK ==
    ASSUME SearchInv, NEW s \in Source, CallFails(s)
    PROVE  SearchInv'
<1> USE SourceAssumption, TimeAssumption DEF Source
<1>1. TypeOK /\ SourceInv(s) /\ now <= Timeout + ImapTimeout
  BY DEF SearchInv
<1>2. TypeOK'
  <2>1. responded' \in BOOLEAN
    BY <1>1 DEF CallFails, Finish, TypeOK
  <2>2. QED
    BY <1>1, <2>1 DEF CallFails, Finish, TypeOK, SourceInv, Stage, End
<1>3. SourceInv(s)'
  BY <1>1 DEF CallFails, Finish, TypeOK, SourceInv, Stage
<1>4. \A t \in Source \ {s} :
         /\ stage'[t] = stage[t] /\ unfetched'[t] = unfetched[t]
         /\ found'[t] = found[t] /\ end'[t] = end[t] /\ since'[t] = since[t]
         /\ t \in session' <=> t \in session
         /\ t \in asked' <=> t \in asked
  BY <1>1 DEF CallFails, Finish, TypeOK
<1>5. now' = now
  BY DEF CallFails, Finish
<1>6. QED
  BY <1>2, <1>3, <1>4, <1>5, OtherSources

\* A greeting opens the session.
LEMMA GreetingOK ==
    ASSUME SearchInv, NEW s \in Source, Greeting(s)
    PROVE  SearchInv'
<1> USE SourceAssumption, TimeAssumption DEF Source
<1>1. TypeOK /\ SourceInv(s) /\ now <= Timeout + ImapTimeout
  BY DEF SearchInv
<1>2. TypeOK'
  <2>1. responded' \in BOOLEAN
    BY <1>1 DEF Greeting, TypeOK
  <2>2. QED
    BY <1>1, <2>1 DEF Greeting, TypeOK, SourceInv, Stage, End
<1>3. SourceInv(s)'
  BY <1>1 DEF Greeting, TypeOK, SourceInv, Stage
<1>4. \A t \in Source \ {s} :
         /\ stage'[t] = stage[t] /\ unfetched'[t] = unfetched[t]
         /\ found'[t] = found[t] /\ end'[t] = end[t] /\ since'[t] = since[t]
         /\ t \in session' <=> t \in session
         /\ t \in asked' <=> t \in asked
  BY <1>1 DEF Greeting, TypeOK
<1>5. now' = now
  BY DEF Greeting
<1>6. QED
  BY <1>2, <1>3, <1>4, <1>5, OtherSources

\* A search leaves at most MaxHits messages to fetch.
LEMMA MailMatchesOK ==
    ASSUME SearchInv, NEW s \in Source, NEW n \in 0..MaxHits, MailMatches(s, n)
    PROVE  SearchInv'
<1> USE SourceAssumption, TimeAssumption DEF Source
<1>1. TypeOK /\ SourceInv(s) /\ now <= Timeout + ImapTimeout
  BY DEF SearchInv
<1>2. TypeOK'
  <2>1. responded' \in BOOLEAN
    BY <1>1 DEF MailMatches, StartLogout, TypeOK
  <2>2. QED
    BY <1>1, <2>1 DEF MailMatches, StartLogout, TypeOK, SourceInv, Stage, End
<1>3. SourceInv(s)'
  BY <1>1 DEF MailMatches, StartLogout, TypeOK, SourceInv, Stage
<1>4. \A t \in Source \ {s} :
         /\ stage'[t] = stage[t] /\ unfetched'[t] = unfetched[t]
         /\ found'[t] = found[t] /\ end'[t] = end[t] /\ since'[t] = since[t]
         /\ t \in session' <=> t \in session
         /\ t \in asked' <=> t \in asked
  BY <1>1 DEF MailMatches, StartLogout, TypeOK
<1>5. now' = now
  BY DEF MailMatches, StartLogout
<1>6. QED
  BY <1>2, <1>3, <1>4, <1>5, OtherSources

\* A fetch moves one message from the list to the results, if at all.
LEMMA FetchOK ==
    ASSUME SearchInv, NEW s \in Source, NEW ok \in BOOLEAN, Fetch(s, ok)
    PROVE  SearchInv'
<1> USE SourceAssumption, TimeAssumption DEF Source
<1>1. TypeOK /\ SourceInv(s) /\ now <= Timeout + ImapTimeout
  BY DEF SearchInv
<1>2. TypeOK'
  <2>1. responded' \in BOOLEAN
    BY <1>1 DEF Fetch, StartLogout, TypeOK
  <2>2. QED
    BY <1>1, <2>1 DEF Fetch, StartLogout, TypeOK, SourceInv, Stage, End
<1>3. SourceInv(s)'
  BY <1>1 DEF Fetch, StartLogout, TypeOK, SourceInv, Stage
<1>4. \A t \in Source \ {s} :
         /\ stage'[t] = stage[t] /\ unfetched'[t] = unfetched[t]
         /\ found'[t] = found[t] /\ end'[t] = end[t] /\ since'[t] = since[t]
         /\ t \in session' <=> t \in session
         /\ t \in asked' <=> t \in asked
  BY <1>1 DEF Fetch, StartLogout, TypeOK
<1>5. now' = now
  BY DEF Fetch, StartLogout
<1>6. QED
  BY <1>2, <1>3, <1>4, <1>5, OtherSources

\* A failure in the session leads to the log-out.
LEMMA SessionFailsOK ==
    ASSUME SearchInv, NEW s \in Source, SessionFails(s)
    PROVE  SearchInv'
<1> USE SourceAssumption, TimeAssumption DEF Source
<1>1. TypeOK /\ SourceInv(s) /\ now <= Timeout + ImapTimeout
  BY DEF SearchInv
<1>2. TypeOK'
  <2>1. responded' \in BOOLEAN
    BY <1>1 DEF SessionFails, StartLogout, TypeOK
  <2>2. QED
    BY <1>1, <2>1 DEF SessionFails, StartLogout, TypeOK, SourceInv, Stage, End
<1>3. SourceInv(s)'
  BY <1>1 DEF SessionFails, StartLogout, TypeOK, SourceInv, Stage
<1>4. \A t \in Source \ {s} :
         /\ stage'[t] = stage[t] /\ unfetched'[t] = unfetched[t]
         /\ found'[t] = found[t] /\ end'[t] = end[t] /\ since'[t] = since[t]
         /\ t \in session' <=> t \in session
         /\ t \in asked' <=> t \in asked
  BY <1>1 DEF SessionFails, StartLogout, TypeOK
<1>5. now' = now
  BY DEF SessionFails, StartLogout
<1>6. QED
  BY <1>2, <1>3, <1>4, <1>5, OtherSources

\* A log-out ends the source.
LEMMA LoggedOutOK ==
    ASSUME SearchInv, NEW s \in Source, LoggedOut(s)
    PROVE  SearchInv'
<1> USE SourceAssumption, TimeAssumption DEF Source
<1>1. TypeOK /\ SourceInv(s) /\ now <= Timeout + ImapTimeout
  BY DEF SearchInv
<1>2. TypeOK'
  <2>1. responded' \in BOOLEAN
    BY <1>1 DEF LoggedOut, Finish, TypeOK
  <2>2. QED
    BY <1>1, <2>1 DEF LoggedOut, Finish, TypeOK, SourceInv, Stage, End
<1>3. SourceInv(s)'
  BY <1>1 DEF LoggedOut, Finish, TypeOK, SourceInv, Stage
<1>4. \A t \in Source \ {s} :
         /\ stage'[t] = stage[t] /\ unfetched'[t] = unfetched[t]
         /\ found'[t] = found[t] /\ end'[t] = end[t] /\ since'[t] = since[t]
         /\ t \in session' <=> t \in session
         /\ t \in asked' <=> t \in asked
  BY <1>1 DEF LoggedOut, Finish, TypeOK
<1>5. now' = now
  BY DEF LoggedOut, Finish
<1>6. QED
  BY <1>2, <1>3, <1>4, <1>5, OtherSources

\* A cancellation ends the source or leads to its log-out, at its time-out.
LEMMA ExpireOK ==
    ASSUME SearchInv, NEW s \in Source, Expire(s)
    PROVE  SearchInv'
<1> USE SourceAssumption, TimeAssumption DEF Source
<1>1. TypeOK /\ SourceInv(s) /\ now <= Timeout + ImapTimeout
  BY DEF SearchInv
<1>2. TypeOK'
  <2>1. responded' \in BOOLEAN
    BY <1>1 DEF Expire, Expired, EndsAtOnce, Finish, StartLogout, TypeOK
  <2>2. QED
    BY <1>1, <2>1 DEF Expire, Expired, EndsAtOnce, Finish, StartLogout, TypeOK, SourceInv, Stage, End
<1>3. SourceInv(s)'
  BY <1>1 DEF Expire, Expired, EndsAtOnce, Finish, StartLogout, TypeOK, SourceInv, Stage
<1>4. \A t \in Source \ {s} :
         /\ stage'[t] = stage[t] /\ unfetched'[t] = unfetched[t]
         /\ found'[t] = found[t] /\ end'[t] = end[t] /\ since'[t] = since[t]
         /\ t \in session' <=> t \in session
         /\ t \in asked' <=> t \in asked
  BY <1>1 DEF Expire, Expired, EndsAtOnce, Finish, StartLogout, TypeOK
<1>5. now' = now
  BY DEF Expire, Expired, EndsAtOnce, Finish, StartLogout
<1>6. QED
  BY <1>2, <1>3, <1>4, <1>5, OtherSources

\* The limit of the log-out ends the source.
LEMMA LogoutTimesOutOK ==
    ASSUME SearchInv, NEW s \in Source, LogoutTimesOut(s)
    PROVE  SearchInv'
<1> USE SourceAssumption, TimeAssumption DEF Source
<1>1. TypeOK /\ SourceInv(s) /\ now <= Timeout + ImapTimeout
  BY DEF SearchInv
<1>2. TypeOK'
  <2>1. responded' \in BOOLEAN
    BY <1>1 DEF LogoutTimesOut, LogoutOver, Finish, TypeOK
  <2>2. QED
    BY <1>1, <2>1 DEF LogoutTimesOut, LogoutOver, Finish, TypeOK, SourceInv, Stage, End
<1>3. SourceInv(s)'
  BY <1>1 DEF LogoutTimesOut, LogoutOver, Finish, TypeOK, SourceInv, Stage
<1>4. \A t \in Source \ {s} :
         /\ stage'[t] = stage[t] /\ unfetched'[t] = unfetched[t]
         /\ found'[t] = found[t] /\ end'[t] = end[t] /\ since'[t] = since[t]
         /\ t \in session' <=> t \in session
         /\ t \in asked' <=> t \in asked
  BY <1>1 DEF LogoutTimesOut, LogoutOver, Finish, TypeOK
<1>5. now' = now
  BY DEF LogoutTimesOut, LogoutOver, Finish
<1>6. QED
  BY <1>2, <1>3, <1>4, <1>5, OtherSources

\* Time only goes on while every deadline lies ahead.
LEMMA TickOK ==
    ASSUME SearchInv, Tick
    PROVE  SearchInv'
<1> USE TimeAssumption
<1>1. TypeOK'
  <2>1. responded' \in BOOLEAN
    BY DEF SearchInv, TypeOK, Tick
  <2>2. QED
    BY <2>1 DEF SearchInv, TypeOK, Tick
<1>2. ASSUME NEW s \in Source
      PROVE  SourceInv(s)' /\ (stage[s] # "done" => now' <= Timeout + ImapTimeout)
  <2>1. SourceInv(s) /\ ~Expired(s) /\ ~LogoutOver(s) /\ TypeOK
    BY DEF SearchInv, Tick
  <2>2. QED
    BY <2>1 DEF SourceInv, Expired, LogoutOver, TypeOK, Tick, Stage
<1>3. \E s \in Source : stage[s] # "done"
  BY DEF Tick
<1>4. QED
  BY <1>1, <1>2, <1>3 DEF SearchInv

LEMMA SearchInvariant == Spec => []SearchInv
<1>1. SearchInv /\ [Next]_vars => SearchInv'
  <2> SUFFICES ASSUME SearchInv, [Next]_vars
               PROVE  SearchInv'
    OBVIOUS
  <2>1. ASSUME NEW s \in Source, SourceStep(s) PROVE SearchInv'
    BY <2>1, WebAnswerOK, CallFailsOK, GreetingOK, MailMatchesOK, FetchOK,
       SessionFailsOK, LoggedOutOK
       DEF SourceStep
  <2>2. ASSUME NEW s \in Source, Expire(s) PROVE SearchInv'
    BY <2>2, ExpireOK
  <2>3. ASSUME NEW s \in Source, LogoutTimesOut(s) PROVE SearchInv'
    BY <2>3, LogoutTimesOutOK
  <2>4. CASE Tick
    BY <2>4, TickOK
  <2>5. CASE Respond
    BY <2>5 DEF Respond, SearchInv, SourceInv, TypeOK
  <2>6. CASE UNCHANGED vars
    BY <2>6 DEF vars, SearchInv, SourceInv, TypeOK
  <2>7. QED
    BY <2>1, <2>2, <2>3, <2>4, <2>5, <2>6 DEF Next
<1>2. QED
  BY <1>1, SearchInit, PTL DEF Spec

\* Type correctness, for any sources and bounds.
THEOREM SearchTypeCorrect == Spec => []TypeOK
<1>1. SearchInv => TypeOK
  BY DEF SearchInv
<1>2. QED
  BY <1>1, SearchInvariant, PTL

\* Past the time-out, only a mail source's log-out is waited for.
THEOREM IsolationSafety == Spec => []OnlyLogoutDelays
<1>1. SearchInv => OnlyLogoutDelays
  BY SourceAssumption, TimeAssumption
     DEF SearchInv, SourceInv, OnlyLogoutDelays, TypeOK, Stage, Source
<1>2. QED
  BY <1>1, SearchInvariant, PTL

\* Only a mail source that went through its messages has results to show.
THEOREM WholeSafety == Spec => []WholeOrNothing
<1>1. SearchInv => WholeOrNothing
  BY DEF SearchInv, SourceInv, WholeOrNothing, Results
<1>2. QED
  BY <1>1, SearchInvariant, PTL

\* Once the request is answered, every source has come to its end.
AllDone == responded => \A s \in Source : stage[s] = "done"

\* A source that has ended takes no step any more, so that what is true when
\* the answer is given stays true.
LEMMA DoneInvariant == Spec => []AllDone
<1>1. Init => AllDone
  BY DEF Init, AllDone
<1>2. SearchInv /\ AllDone /\ [Next]_vars => AllDone'
  BY DEF AllDone, SearchInv, TypeOK, Next, SourceStep, WebAnswer, CallFails,
     Greeting, MailMatches, Fetch, SessionFails, LoggedOut, Expire, Expired,
     LogoutTimesOut, LogoutOver, Tick, Respond, Finish, StartLogout, vars
<1>3. QED
  BY <1>1, <1>2, SearchInvariant, PTL DEF Spec

\* Every session is asked to close before the request is answered.
THEOREM LogoutSafety == Spec => []SessionsLoggedOut
<1>1. SearchInv /\ AllDone => SessionsLoggedOut
  BY DEF SearchInv, SourceInv, SessionsLoggedOut, AllDone, TypeOK, Source
<1>2. QED
  BY <1>1, DoneInvariant, SearchInvariant, PTL

\* A step of the request after its answer would be a step of a source that has
\* ended: there is none.
LEMMA NoStepAfterAnswer ==
    ASSUME SearchInv, AllDone, NEW s \in Source,
           SourceStep(s) \/ Expire(s) \/ LogoutTimesOut(s)
    PROVE  ~responded /\ responded' = responded /\ now' = now
BY DEF AllDone, SearchInv, TypeOK, SourceStep, WebAnswer, CallFails, Greeting,
   MailMatches, Fetch, SessionFails, LoggedOut, Expire, Expired, LogoutTimesOut,
   LogoutOver

\* The search implements the promise made to the portal: one answer, in time,
\* and final.
THEOREM SearchKeepsPromise == Spec => KeepsPromise
<1>1. Init => Promise!Init
  BY DEF Init, Promise!Init, Reported
<1>2. ASSUME SearchInv, SearchInv', AllDone, [Next]_vars
      PROVE  [Promise!Next]_<<now, responded, Reported>>
  <2>1. CASE \E s \in Source : SourceStep(s) \/ Expire(s) \/ LogoutTimesOut(s)
    <3>1. ~responded /\ responded' = responded /\ now' = now
      BY <1>2, <2>1, NoStepAfterAnswer
    <3>2. Reported' = Reported
      BY <3>1 DEF Reported
    <3>3. QED
      BY <3>1, <3>2
  <2>2. CASE Tick
    <3>1. ~responded /\ now' = now + 1 /\ responded' = responded /\ Reported' = Reported
      BY <2>2 DEF Tick, Reported
    <3>2. now < Timeout + ImapTimeout
      BY <1>2, <3>1, TimeAssumption DEF SearchInv, TypeOK
    <3>3. Promise!Wait
      BY <3>1, <3>2 DEF Promise!Wait
    <3>4. QED
      BY <3>3 DEF Promise!Next
  <2>3. CASE Respond
    <3>1. Promise!Answer
      BY <2>3 DEF Respond, Promise!Answer, Reported
    <3>2. QED
      BY <3>1 DEF Promise!Next
  <2>4. CASE UNCHANGED vars
    BY <2>4 DEF vars, Reported
  <2>5. QED
    BY <1>2, <2>1, <2>2, <2>3, <2>4 DEF Next
<1>3. QED
  BY <1>1, <1>2, SearchInvariant, DoneInvariant, PTL
     DEF Spec, KeepsPromise, Promise!Spec
=============================================================================
