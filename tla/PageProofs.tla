----------------------------- MODULE PageProofs -----------------------------
(***************************************************************************)
(* Proofs about the two pages users look at: Banner, for any queries and   *)
(* any number of requests, and Dashboard, for any components,              *)
(* feeds, titles and number of failures.                                   *)
(***************************************************************************)
EXTENDS Banner, Dashboard, SequencesExt, SequenceTheorems, TLAPS

\* The step of one part of the banner, as Next combines them.
SignOn ==
    \/ \E error \in BOOLEAN : FrameAnswers(error)
    \/ SsoTimesOut
    \/ \E ok \in BOOLEAN : Exchange(ok)
    \/ \E p \in Part, ok \in BOOLEAN : PartLoads(p, ok)
-----------------------------------------------------------------------------
(* Types *)

\* The banner starts with its types.
LEMMA TypeInit == Init => TypeOK
<1> SUFFICES ASSUME Init PROVE TypeOK
  OBVIOUS
<1>1. polled \in [Display -> 0..MaxPolls]
  BY BannerBoundAssumption DEF Init
<1>2. \A d \in Display : polling[d] \subseteq 1..polled[d] /\ display[d] \in 0..polled[d]
  BY DEF Init
<1>4. polling \in [Display -> SUBSET (1..MaxPolls)] /\ display \in [Display -> 0..MaxPolls]
  BY BannerBoundAssumption DEF Init
<1>3. sent \in 0..MaxSearches
  BY BannerBoundAssumption DEF Init
<1> QED BY <1>1, <1>2, <1>3, <1>4 DEF Init, TypeOK, Part

\* Signing on, and the parts that load, touch neither box nor polls.
LEMMA TypeSignOn == TypeOK /\ SignOn => TypeOK'
<1> SUFFICES ASSUME TypeOK, SignOn PROVE TypeOK'
  OBVIOUS
<1>1. UNCHANGED <<text, timer, sent, searching, panel, polled, polling, display, crossed>>
  BY DEF SignOn, FrameAnswers, SsoTimesOut, Exchange, PartLoads, boxVars, pollVars
<1>2. sso' \in {"asking", "exchanging", "ready", "degraded"} /\ (sso = "ready" => sso' = "ready")
  BY DEF SignOn, FrameAnswers, SsoTimesOut, Exchange, PartLoads, TypeOK
<1>3. part' \in [Part -> {"off", "loading", "on"}]
  BY DEF SignOn, FrameAnswers, SsoTimesOut, Exchange, PartLoads, TypeOK
<1> QED BY <1>1, <1>2, <1>3 DEF TypeOK

\* An input keeps the types: what the timer waits with is what the box holds.
LEMMA TypeInput == ASSUME TypeOK, NEW q \in Query \cup {Nothing}, Type(q) PROVE TypeOK'
<1>1. UNCHANGED <<sso, part, sent, searching, polled, polling, display>> /\ sso = "ready"
  BY DEF Type, startVars, pollVars
<1>2. text' = q /\ timer' = q /\ panel' \in Query \cup {Nothing} /\ crossed' \subseteq Display \cup {"box"}
  BY DEF Type, TimerFor, TypeOK
<1> QED BY <1>1, <1>2 DEF TypeOK

\* A search that is sent has the next number and the query of the timer.
LEMMA SearchSent ==
    ASSUME TypeOK, Debounced
    PROVE  /\ searching' = searching \cup {<<sent + 1, text>>} /\ text \in Query
           /\ sent' = sent + 1 /\ sent' \in 0..MaxSearches /\ timer' = Nothing
           /\ UNCHANGED <<sso, part, text, panel, polled, polling, display>>
<1>1. timer = text /\ text \in Query
  BY DEF Debounced, TypeOK
<1> QED BY <1>1, BannerBoundAssumption DEF Debounced, TypeOK, startVars, pollVars

\* Sending it keeps the types.
LEMMA TypeSend == TypeOK /\ Debounced => TypeOK'
<1> SUFFICES ASSUME TypeOK, Debounced PROVE TypeOK'
  OBVIOUS
<1>1. searching' \subseteq (1..sent') \X Query
  <2>1. sent \in Nat
    BY BannerBoundAssumption DEF TypeOK
  <2>2. 1..sent \subseteq 1..(sent + 1) /\ sent + 1 \in 1..(sent + 1)
    BY <2>1
  <2> QED BY <2>2, SearchSent DEF TypeOK
<1>2. crossed' \subseteq Display \cup {"box"}
  BY DEF Debounced, TypeOK
<1>3. sso = "ready"
  BY DEF Debounced, TypeOK
<1> QED BY <1>1, <1>2, <1>3, SearchSent DEF TypeOK

\* What the end of a search changes: the panel, for better or worse.
LEMMA SearchOver ==
    ASSUME TypeOK, NEW s \in Request, NEW outcome \in {"results", "none", "failure"},
           SearchEnds(s, outcome)
    PROVE  /\ s \in searching /\ searching' = searching \ {s}
           /\ panel' \in {s[2], Nothing}
           /\ UNCHANGED <<sso, part, text, timer, sent, polled, polling, display, crossed>>
BY DEF SearchEnds, PanelAfterFailure, startVars, pollVars

\* The end of a search keeps the types.
LEMMA TypeAnswer ==
    ASSUME TypeOK, NEW s \in Request, NEW outcome \in {"results", "none", "failure"},
           SearchEnds(s, outcome)
    PROVE  TypeOK'
<1>1. s[2] \in Query /\ sso = "ready"
  BY SearchOver DEF TypeOK
<1> QED BY <1>1, SearchOver DEF TypeOK

\* A poll that begins takes the next number.
LEMMA PollBegun ==
    ASSUME TypeOK, NEW d \in Display, Poll(d)
    PROVE  /\ polled'[d] = polled[d] + 1 /\ polling'[d] = polling[d] \cup {polled[d] + 1}
           /\ polled' \in [Display -> 0..MaxPolls]
           /\ \A e \in Display \ {d} : polled'[e] = polled[e] /\ polling'[e] = polling[e]
           /\ UNCHANGED <<sso, part, text, timer, sent, searching, panel, display>>
<1>1. polled[d] \in Nat /\ polled[d] < MaxPolls /\ polled[d] + 1 \in 0..MaxPolls
  BY BannerBoundAssumption DEF Poll, TypeOK
<1>2. polled' \in [Display -> 0..MaxPolls] /\ polled'[d] = polled[d] + 1
      /\ \A e \in Display \ {d} : polled'[e] = polled[e]
  BY <1>1 DEF Poll, TypeOK
<1>3. polling'[d] = polling[d] \cup {polled[d] + 1} /\ \A e \in Display \ {d} : polling'[e] = polling[e]
  BY DEF Poll, TypeOK
<1> QED BY <1>2, <1>3 DEF Poll, startVars, boxVars

\* It keeps the types.
LEMMA TypePoll == ASSUME TypeOK, NEW d \in Display, Poll(d) PROVE TypeOK'
<1>1. polled[d] \in Nat /\ polled[d] + 1 \in 1..MaxPolls
  BY BannerBoundAssumption DEF Poll, TypeOK
<1>2. polling' \in [Display -> SUBSET (1..MaxPolls)]
  BY <1>1 DEF Poll, TypeOK
<1>3. ASSUME NEW e \in Display
      PROVE  polling'[e] \subseteq 1..polled'[e] /\ display'[e] \in 0..polled'[e]
  <2>1. CASE e = d
    <3>1. 1..polled[d] \subseteq 1..(polled[d] + 1) /\ 0..polled[d] \subseteq 0..(polled[d] + 1)
          /\ polled[d] + 1 \in 1..(polled[d] + 1)
      BY <1>1
    <3> QED BY <2>1, <3>1, PollBegun DEF TypeOK
  <2>2. CASE e # d
    BY <2>2, PollBegun DEF TypeOK
  <2> QED BY <2>1, <2>2
<1>4. crossed' \subseteq Display \cup {"box"}
  BY DEF Poll, TypeOK
<1> QED BY <1>2, <1>3, <1>4, PollBegun DEF TypeOK

\* What the end of a poll changes: the display shows it, or keeps what it has,
\* or, the badge refused by Novu, nothing.
LEMMA PollOver ==
    ASSUME TypeOK, NEW d \in Display, NEW n \in 1..MaxPolls,
           NEW outcome \in {"value", "refused", "failure"}, PollEnds(d, n, outcome)
    PROVE  /\ n \in polling[d] /\ polling'[d] = polling[d] \ {n}
           /\ display'[d] = n \/ display'[d] = display[d] \/ (d = "badge" /\ display'[d] = 0)
           /\ \A e \in Display \ {d} : polling'[e] = polling[e] /\ display'[e] = display[e]
           /\ UNCHANGED <<sso, part, text, timer, sent, searching, panel, polled, crossed>>
<1>1. display'[d] = IF outcome = "value" THEN n ELSE LeftBy(d, outcome)
  BY DEF PollEnds, TypeOK
<1>2. display'[d] = n \/ display'[d] = display[d] \/ (d = "badge" /\ display'[d] = 0)
  BY <1>1 DEF LeftBy
<1>3. \A e \in Display \ {d} : polling'[e] = polling[e] /\ display'[e] = display[e]
  BY DEF PollEnds, TypeOK
<1>4. n \in polling[d] /\ polling'[d] = polling[d] \ {n}
  BY DEF PollEnds, TypeOK
<1> QED BY <1>2, <1>3, <1>4 DEF PollEnds, startVars, boxVars

\* The end of a poll keeps the types.
LEMMA TypePolled ==
    ASSUME TypeOK, NEW d \in Display, NEW n \in 1..MaxPolls,
           NEW outcome \in {"value", "refused", "failure"}, PollEnds(d, n, outcome)
    PROVE  TypeOK'
<1>1. polling[d] \subseteq 1..polled[d] /\ polled[d] \in Nat /\ n \in polling[d]
  BY PollOver, BannerBoundAssumption DEF TypeOK
<1>2. n \in 0..polled[d] /\ 0 \in 0..polled[d] /\ n \in 0..MaxPolls /\ 0 \in 0..MaxPolls
  BY <1>1, BannerBoundAssumption
<1>3. display'[d] \in 0..polled[d] /\ display'[d] \in 0..MaxPolls
  BY <1>2, PollOver DEF TypeOK
<1>4. polling' \in [Display -> SUBSET (1..MaxPolls)]
  BY DEF PollEnds, TypeOK
<1>5. display' \in [Display -> 0..MaxPolls]
  <2>1. display' = [display EXCEPT ![d] = display'[d]]
    BY DEF PollEnds, TypeOK
  <2> QED BY <1>3, <2>1 DEF TypeOK
<1>6. ASSUME NEW e \in Display
      PROVE  polling'[e] \subseteq 1..polled'[e] /\ display'[e] \in 0..polled'[e]
  BY <1>3, PollOver DEF TypeOK
<1> QED BY <1>4, <1>5, <1>6, PollOver DEF TypeOK

\* Every step is one of these.
LEMMA Steps ==
    ASSUME TypeOK, [Next]_vars
    PROVE  \/ SignOn
           \/ \E q \in Query \cup {Nothing} : Type(q)
           \/ Debounced
           \/ \E s \in Request, outcome \in {"results", "none", "failure"} : SearchEnds(s, outcome)
           \/ \E d \in Display : Poll(d)
           \/ \E d \in Display, n \in 1..MaxPolls, outcome \in {"value", "refused", "failure"} :
                 PollEnds(d, n, outcome)
           \/ UNCHANGED vars
BY DEF Next, SignOn, EndOfSearch, EndOfPoll

\* Every step keeps the types.
LEMMA TypeStep == TypeOK /\ [Next]_vars => TypeOK'
<1> SUFFICES ASSUME TypeOK, [Next]_vars PROVE TypeOK'
  OBVIOUS
<1>1. CASE UNCHANGED vars
  BY <1>1 DEF vars, TypeOK
<1> QED BY <1>1, Steps, TypeSignOn, TypeInput, TypeSend, TypeAnswer, TypePoll, TypePolled

\* Types, and that nothing is asked for before there is a token.
THEOREM BannerTypeCorrect == Spec => []TypeOK
BY TypeInit, TypeStep, PTL DEF Spec
-----------------------------------------------------------------------------
(* The search box *)

\* As long as no two searches met, and the box was not emptied under one: one
\* search is in flight at most, and when no timer runs it is for the text, as
\* what is shown is.
BoxInv ==
    "box" \notin crossed =>
        /\ \A s, t \in searching : s = t
        /\ timer = Nothing =>
              /\ \A s \in searching : s[2] = text
              /\ searching = {} => panel \in {text, Nothing}

\* A step that leaves the box alone keeps it.
LEMMA BoxFrame ==
    ASSUME BoxInv, UNCHANGED <<text, timer, searching, panel>>, crossed \subseteq crossed'
    PROVE  BoxInv'
BY DEF BoxInv

\* Every step keeps it.
LEMMA BoxStep == TypeOK /\ BoxInv /\ [Next]_vars => BoxInv'
<1> SUFFICES ASSUME TypeOK, BoxInv, [Next]_vars PROVE BoxInv'
  OBVIOUS
<1>1. CASE SignOn
  <2>1. UNCHANGED <<text, timer, searching, panel, crossed>>
    BY <1>1 DEF SignOn, FrameAnswers, SsoTimesOut, Exchange, PartLoads, boxVars
  <2> QED BY <2>1, BoxFrame
<1>2. ASSUME NEW q \in Query \cup {Nothing}, Type(q) PROVE BoxInv'
  <2>1. /\ text' = q /\ timer' = q /\ searching' = searching /\ crossed \subseteq crossed'
        /\ q = Nothing => panel' = Nothing
        /\ q = Nothing /\ searching # {} => "box" \in crossed'
    BY <1>2 DEF Type, TimerFor
  <2> QED BY <2>1 DEF BoxInv
<1>3. CASE Debounced
  <2>1. crossed \subseteq crossed' /\ (searching # {} => "box" \in crossed')
    BY <1>3 DEF Debounced
  <2>2. ASSUME "box" \notin crossed' PROVE searching' = {<<sent + 1, text>>}
    BY <1>3, <2>1, <2>2, SearchSent
  <2>3. text' = text /\ <<sent + 1, text>>[2] = text
    BY <1>3, SearchSent
  <2> QED BY <2>2, <2>3 DEF BoxInv
<1>4. ASSUME NEW s \in Request, NEW outcome \in {"results", "none", "failure"},
             SearchEnds(s, outcome)
      PROVE  BoxInv'
  BY <1>4, SearchOver DEF BoxInv
<1>5. ASSUME NEW d \in Display, Poll(d) PROVE BoxInv'
  <2>1. crossed \subseteq crossed'
    BY <1>5 DEF Poll
  <2> QED BY <1>5, <2>1, PollBegun, BoxFrame
<1>6. ASSUME NEW d \in Display, NEW n \in 1..MaxPolls,
             NEW outcome \in {"value", "refused", "failure"}, PollEnds(d, n, outcome)
      PROVE  BoxInv'
  BY <1>6, PollOver, BoxFrame
<1>7. CASE UNCHANGED vars
  BY <1>7, BoxFrame DEF vars
<1> QED BY <1>1, <1>2, <1>3, <1>4, <1>5, <1>6, <1>7, Steps

\* A box at rest shows the results of its text, unless requests crossed.
THEOREM RestSafety == Spec => []RestsOnItsText
<1>1. Init => BoxInv
  BY DEF Init, BoxInv
<1>2. BoxInv => RestsOnItsText
  BY DEF BoxInv, RestsOnItsText
<1> QED BY <1>1, <1>2, TypeInit, TypeStep, BoxStep, PTL DEF Spec
-----------------------------------------------------------------------------
(* The polls *)

\* As long as no two polls of a display met, the one in flight is the last.
PollInv == \A d \in Display : d \notin crossed => polling[d] \subseteq {polled[d]}

\* Every step keeps it.
LEMMA PollStep == TypeOK /\ PollInv /\ [Next]_vars => PollInv'
<1> SUFFICES ASSUME TypeOK, PollInv, [Next]_vars PROVE PollInv'
  OBVIOUS
<1>1. CASE SignOn
  BY <1>1 DEF SignOn, FrameAnswers, SsoTimesOut, Exchange, PartLoads, pollVars, PollInv
<1>2. ASSUME NEW q \in Query \cup {Nothing}, Type(q) PROVE PollInv'
  BY <1>2 DEF Type, pollVars, PollInv
<1>3. CASE Debounced
  BY <1>3 DEF Debounced, pollVars, PollInv
<1>4. ASSUME NEW s \in Request, NEW outcome \in {"results", "none", "failure"},
             SearchEnds(s, outcome)
      PROVE  PollInv'
  BY <1>4, SearchOver DEF PollInv
<1>5. ASSUME NEW d \in Display, Poll(d) PROVE PollInv'
  <2>1. crossed \subseteq crossed' /\ (polling[d] # {} => d \in crossed')
    BY <1>5 DEF Poll
  <2> QED BY <1>5, <2>1, PollBegun DEF PollInv
<1>6. ASSUME NEW d \in Display, NEW n \in 1..MaxPolls,
             NEW outcome \in {"value", "refused", "failure"}, PollEnds(d, n, outcome)
      PROVE  PollInv'
  BY <1>6, PollOver DEF PollInv
<1>7. CASE UNCHANGED vars
  BY <1>7 DEF vars, PollInv
<1> QED BY <1>1, <1>2, <1>3, <1>4, <1>5, <1>6, <1>7, Steps

\* A display that a step takes back to an older poll was crossed, or refused.
BackOnlyByCrossing ==
    \A d \in Display : display'[d] < display[d] =>
        d \in crossed \/ (d = "badge" /\ display'[d] = 0)

\* A display goes back only where polls crossed, or Novu refused the badge.
THEOREM DisplaySafety == Spec => GoesBackByCrossing
<1>1. Init => PollInv
  BY DEF Init, PollInv
<1>2. TypeOK /\ PollInv /\ [Next]_vars => [BackOnlyByCrossing]_vars
  <2> SUFFICES ASSUME TypeOK, PollInv, [Next]_vars PROVE BackOnlyByCrossing
    OBVIOUS
  <2>1. CASE UNCHANGED display
    <3>1. \A d \in Display : display[d] \in Nat
      BY DEF TypeOK
    <3> QED BY <2>1, <3>1 DEF BackOnlyByCrossing
  <2>2. ASSUME NEW d \in Display, NEW n \in 1..MaxPolls,
               NEW outcome \in {"value", "refused", "failure"}, PollEnds(d, n, outcome)
        PROVE  BackOnlyByCrossing
    <3>1. \A e \in Display : display[e] \in 0..polled[e] /\ polled[e] \in Nat
      BY BannerBoundAssumption DEF TypeOK
    <3>2. ASSUME NEW e \in Display, e # d PROVE ~(display'[e] < display[e])
      <4>1. display'[e] = display[e] /\ display[e] \in Nat
        BY <2>2, <3>1, <3>2, PollOver
      <4> QED BY <4>1
    <3>3. ASSUME display'[d] < display[d], d \notin crossed PROVE d = "badge" /\ display'[d] = 0
      <4>1. CASE display'[d] = n
        <5>1. n = polled[d]
          BY <2>2, <3>3, PollOver DEF PollInv
        <5>2. PICK older \in Nat : older = display[d] /\ older <= n
          BY <3>1, <5>1
        <5> QED BY <3>3, <4>1, <5>2
      <4>2. CASE display'[d] = display[d]
        <5>1. display[d] \in Nat
          BY <3>1
        <5> QED BY <3>3, <4>2, <5>1
      <4> QED BY <4>1, <4>2, <2>2, PollOver
    <3> QED BY <3>2, <3>3 DEF BackOnlyByCrossing
  <2>3. CASE SignOn
    BY <2>1, <2>3 DEF SignOn, FrameAnswers, SsoTimesOut, Exchange, PartLoads, pollVars
  <2>4. ASSUME NEW q \in Query \cup {Nothing}, Type(q) PROVE BackOnlyByCrossing
    BY <2>1, <2>4 DEF Type, pollVars
  <2>5. CASE Debounced
    BY <2>1, <2>5, SearchSent
  <2>6. ASSUME NEW s \in Request, NEW outcome \in {"results", "none", "failure"},
               SearchEnds(s, outcome)
        PROVE  BackOnlyByCrossing
    BY <2>1, <2>6, SearchOver
  <2>7. ASSUME NEW d \in Display, Poll(d) PROVE BackOnlyByCrossing
    BY <2>1, <2>7, PollBegun
  <2>8. CASE UNCHANGED vars
    BY <2>1, <2>8 DEF vars
  <2> QED BY <2>2, <2>3, <2>4, <2>5, <2>6, <2>7, <2>8, Steps
<1> QED BY <1>1, <1>2, TypeInit, TypeStep, PollStep, PTL
        DEF Spec, GoesBackByCrossing, BackOnlyByCrossing
-----------------------------------------------------------------------------
(* The dashboard *)

\* What is left of a list of different elements once its head is taken.
LEMMA TakeHead ==
    ASSUME NEW S, NEW q \in Seq(S), q # <<>>, IsInjective(q)
    PROVE  /\ Tail(q) \in Seq(S) /\ IsInjective(Tail(q)) /\ Head(q) \in S
           /\ ToSet(Tail(q)) = ToSet(q) \ {Head(q)}
<1>1. /\ Len(q) \in Nat /\ Len(q) >= 1 /\ Head(q) = q[1] /\ DOMAIN q = 1..Len(q)
      /\ \A i \in 1..Len(q) : q[i] \in S
  BY EmptySeq, ElementOfSeq
<1>2. /\ Tail(q) \in Seq(S) /\ Len(Tail(q)) = Len(q) - 1
      /\ \A i \in 1..Len(Tail(q)) : Tail(q)[i] = q[i + 1]
  BY HeadTailProperties
<1>3. DOMAIN Tail(q) = 1..(Len(q) - 1)
  BY <1>2
<1>4. IsInjective(Tail(q))
  BY <1>1, <1>2, <1>3 DEF IsInjective
<1>5. ASSUME NEW x \in ToSet(Tail(q)) PROVE x \in ToSet(q) /\ x # Head(q)
  <2>1. PICK i \in 1..(Len(q) - 1) : x = Tail(q)[i]
    BY <1>3 DEF ToSet
  <2>2. i + 1 \in 1..Len(q) /\ i + 1 # 1 /\ 1 \in 1..Len(q) /\ x = q[i + 1]
    BY <1>1, <1>2, <2>1
  <2> QED BY <1>1, <2>2 DEF ToSet, IsInjective
<1>6. ASSUME NEW x \in ToSet(q), x # Head(q) PROVE x \in ToSet(Tail(q))
  <2>1. PICK i \in 1..Len(q) : x = q[i]
    BY <1>1 DEF ToSet
  <2>2. i - 1 \in 1..(Len(q) - 1) /\ (i - 1) + 1 = i
    BY <1>1, <1>6, <2>1
  <2>3. Tail(q)[i - 1] = x
    BY <1>2, <2>1, <2>2
  <2> QED BY <1>3, <2>2, <2>3 DEF ToSet
<1> QED BY <1>1, <1>2, <1>4, <1>5, <1>6

\* Two lists of different elements, with none in common, one after the other.
LEMMA OneAfterTheOther ==
    ASSUME NEW S, NEW q \in Seq(S), NEW r \in Seq(S), IsInjective(q), IsInjective(r),
           ToSet(q) \cap ToSet(r) = {}
    PROVE  /\ q \o r \in Seq(S) /\ IsInjective(q \o r)
           /\ ToSet(q \o r) = ToSet(q) \cup ToSet(r)
<1>1. /\ q \o r \in Seq(S) /\ Len(q \o r) = Len(q) + Len(r)
      /\ \A i \in 1..(Len(q) + Len(r)) :
            (q \o r)[i] = IF i <= Len(q) THEN q[i] ELSE r[i - Len(q)]
  BY ConcatProperties
<1>2. Len(q) \in Nat /\ Len(r) \in Nat /\ DOMAIN q = 1..Len(q) /\ DOMAIN r = 1..Len(r)
  OBVIOUS
<1>3. DOMAIN (q \o r) = 1..(Len(q) + Len(r))
  BY <1>1
<1>4. ASSUME NEW i \in 1..(Len(q) + Len(r))
      PROVE  \/ i \in DOMAIN q /\ (q \o r)[i] = q[i]
             \/ /\ i - Len(q) \in DOMAIN r /\ i > Len(q)
                /\ (q \o r)[i] = r[i - Len(q)]
  BY <1>1, <1>2
<1>5. IsInjective(q \o r)
  <2> SUFFICES ASSUME NEW i \in 1..(Len(q) + Len(r)), NEW j \in 1..(Len(q) + Len(r)),
                      (q \o r)[i] = (q \o r)[j]
               PROVE  i = j
    BY <1>3 DEF IsInjective
  <2>1. CASE i \in DOMAIN q /\ (q \o r)[i] = q[i] /\ j \in DOMAIN q /\ (q \o r)[j] = q[j]
    BY <2>1 DEF IsInjective
  <2>2. CASE /\ i - Len(q) \in DOMAIN r /\ (q \o r)[i] = r[i - Len(q)]
             /\ j - Len(q) \in DOMAIN r /\ (q \o r)[j] = r[j - Len(q)]
    <3>1. i - Len(q) = j - Len(q)
      BY <2>2 DEF IsInjective
    <3> QED BY <1>2, <3>1
  <2>3. CASE i \in DOMAIN q /\ (q \o r)[i] = q[i] /\ j - Len(q) \in DOMAIN r /\ (q \o r)[j] = r[j - Len(q)]
    BY <2>3 DEF ToSet
  <2>4. CASE j \in DOMAIN q /\ (q \o r)[j] = q[j] /\ i - Len(q) \in DOMAIN r /\ (q \o r)[i] = r[i - Len(q)]
    BY <2>4 DEF ToSet
  <2> QED BY <1>4, <2>1, <2>2, <2>3, <2>4
<1>6. ToSet(q \o r) \subseteq ToSet(q) \cup ToSet(r)
  BY <1>3, <1>4 DEF ToSet
<1>7. ToSet(q) \subseteq ToSet(q \o r)
  <2> SUFFICES ASSUME NEW i \in DOMAIN q PROVE q[i] \in ToSet(q \o r)
    BY DEF ToSet
  <2>1. i \in 1..(Len(q) + Len(r)) /\ (q \o r)[i] = q[i]
    BY <1>1, <1>2
  <2> QED BY <1>3, <2>1 DEF ToSet
<1>8. ToSet(r) \subseteq ToSet(q \o r)
  <2> SUFFICES ASSUME NEW i \in DOMAIN r PROVE r[i] \in ToSet(q \o r)
    BY DEF ToSet
  <2> DEFINE k == Len(q) + i
  <2>1. k \in 1..(Len(q) + Len(r)) /\ ~(k <= Len(q)) /\ k - Len(q) = i
    BY <1>2
  <2>2. (q \o r)[k] = r[i]
    BY <1>1, <2>1
  <2> QED BY <1>3, <2>1, <2>2 DEF ToSet
<1> QED BY <1>1, <1>5, <1>6, <1>7, <1>8

\* What a page may say of a component, and a run of a list.
RowValue == Title \cup {"not yet", "unknown"}
ListValue == {"not yet", "unavailable", "empty", "some"}

\* Types, of which PageTypeOK shows what the properties need.
ReportTypes ==
    /\ releases \in [Followed -> Title]
    /\ running \in BOOLEAN /\ credentials \in BOOLEAN /\ late \in BOOLEAN
    /\ todo \in Seq(Source) /\ IsInjective(todo)
    /\ DOMAIN shown = Source
    /\ notes \subseteq Source /\ nothing \subseteq Source
    /\ breaks \in 0..MaxBreaks
    /\ seen \in [Followed -> SUBSET Title]
    /\ page.missing \in {Source, {}}
    /\ \A c \in Component : page.rows[c] \in RowValue

\* What a run knows of one source: nothing before its turn, and after it a value
\* that is the source's own, or a gap that can be explained.
ReportOf(s) ==
    /\ s \in GitHub => shown[s] \in ListValue
    /\ s \in Component => shown[s] \in RowValue
    /\ running =>
          /\ shown[s] = "not yet" <=> s \in ToSet(todo)
          /\ s \in notes => shown[s] = Gap(s)
          /\ shown[s] = Gap(s) =>
                 s \in notes \cup nothing \/ s \in Component \ Followed
          /\ s \in Component /\ shown[s] \in Title =>
                 s \in Followed /\ shown[s] \in seen[s]
          /\ s \in Followed => releases[s] \in seen[s]

\* The inductive invariant: sources do not interfere with one another, because
\* each comes once in the order of a run.
ReportInv == ReportTypes /\ \A s \in Source : ReportOf(s)

\* The components are those of the order, each in it once, and none is a list.
LEMMA OrderFacts ==
    /\ Order \in Seq(Component) /\ IsInjective(Order) /\ ToSet(Order) = Component
    /\ Followed \subseteq Component /\ Component \cap GitHub = {}
    /\ MaxBreaks \in Nat
BY OrderAssumption, TitleAssumption DEF Component

\* GitHub's three lists are different.
LEMMA ListsFacts ==
    /\ GitHub = {"alerts", "issues", "acceptance"}
    /\ Lists \in Seq(GitHub) /\ IsInjective(Lists)
    /\ ToSet(Lists) = GitHub
<1>1. Lists = <<"alerts", "issues", "acceptance">>
  BY DEF Lists
<1>2. DOMAIN Lists = 1..3
  BY <1>1
<1>3. ToSet(Lists) = GitHub
  BY DEF GitHub
<1>4. GitHub = {"alerts", "issues", "acceptance"}
  <2>1. GitHub = {Lists[i] : i \in 1..3}
    BY <1>2, <1>3 DEF ToSet
  <2>2. 1..3 = {1, 2, 3}
    OBVIOUS
  <2> QED BY <1>1, <2>1, <2>2
<1> QED BY <1>1, <1>2, <1>3, <1>4 DEF IsInjective

\* A gap is neither a title nor the mark of a source that was not asked.
LEMMA GapFacts ==
    ASSUME NEW s \in Source
    PROVE  /\ Gap(s) # "not yet" /\ Gap(s) \notin Title
           /\ s \in GitHub => Gap(s) \in ListValue
           /\ s \in Component => Gap(s) \in RowValue /\ s \notin GitHub
           /\ "not yet" \notin Title /\ "unavailable" \notin Title /\ "unknown" \notin Title
BY TitleAssumption, OrderFacts DEF Gap, ListValue, RowValue

\* The page says nothing of any source before the first one is published.
LEMMA ReportInit == PageInit => ReportInv
<1> SUFFICES ASSUME PageInit PROVE ReportInv
  OBVIOUS
<1>1. /\ shown = [s \in Source |-> "not yet"]
      /\ page = [rows |-> [c \in Component |-> "not yet"], missing |-> Source]
  <2>1. shown = Blank /\ page = Rendered(Blank)
    BY DEF PageInit
  <2>2. \A s \in Source : Blank[s] = "not yet"
    BY DEF Blank
  <2>3. \A c \in Component : Blank[c] = "not yet"
    BY <2>2 DEF Source
  <2>4. Cell("not yet") = "not yet"
    BY DEF Cell
  <2> QED BY <2>1, <2>2, <2>3, <2>4 DEF Blank, Rendered
<1>2. todo \in Seq(Source) /\ IsInjective(todo)
  <2>1. todo = <<>>
    BY DEF PageInit
  <2> QED BY <2>1 DEF IsInjective
<1>3. breaks \in 0..MaxBreaks
  BY OrderFacts DEF PageInit
<1>4. ReportTypes
  <2>1. /\ DOMAIN shown = Source
        /\ page.missing = Source
        /\ \A c \in Component : page.rows[c] = "not yet"
    BY <1>1
  <2>2. seen \in [Followed -> SUBSET Title]
    BY DEF PageInit
  <2> QED BY <1>2, <1>3, <2>1, <2>2 DEF PageInit, ReportTypes, RowValue
<1>5. \A s \in Source : ReportOf(s)
  BY <1>1 DEF PageInit, ReportOf, ListValue, RowValue
<1> QED BY <1>4, <1>5 DEF ReportInv

\* A release only adds to what the feed has had.
LEMMA ReleaseKeeps ==
    ASSUME ReportInv, NEW c \in Followed, NEW t \in Title,
           Release(c, t)
    PROVE  ReportInv'
<1>1. /\ releases' = [releases EXCEPT ![c] = t]
      /\ seen' = IF running THEN [seen EXCEPT ![c] = seen[c] \cup {t}] ELSE seen
      /\ UNCHANGED <<running, credentials, todo, shown, notes, page, late, breaks, nothing>>
  BY DEF Release
<1>2. releases \in [Followed -> Title] /\ seen \in [Followed -> SUBSET Title]
  BY DEF ReportInv, ReportTypes
<1>3. releases' \in [Followed -> Title] /\ seen' \in [Followed -> SUBSET Title]
  BY <1>1, <1>2
<1>4. ReportTypes'
  BY <1>1, <1>3 DEF ReportInv, ReportTypes
<1>5. running => \A s \in Followed :
          seen[s] \subseteq seen'[s] /\ (releases[s] \in seen[s] => releases'[s] \in seen'[s])
  BY <1>1, <1>2
<1>6. ASSUME NEW s \in Source PROVE ReportOf(s)'
  <2>1. ReportOf(s)
    BY DEF ReportInv
  <2> QED BY <1>1, <1>5, <2>1 DEF ReportOf
<1> QED BY <1>4, <1>6 DEF ReportInv

\* A run begins with each source ahead of it once, or with GitHub's noted.
LEMMA StartKeeps ==
    ASSUME ReportInv, NEW given \in BOOLEAN, Start(given)
    PROVE  ReportInv'
<1>1. /\ running' = TRUE /\ credentials' = given
      /\ todo' = IF given THEN Order \o Lists ELSE Order
      /\ shown' = [s \in Source |-> AtStart(s, given)]
      /\ notes' = IF given THEN {} ELSE GitHub
      /\ seen' = [c \in Followed |-> {releases[c]}]
      /\ nothing' = {}
      /\ UNCHANGED <<releases, page, late, breaks>>
  BY DEF Start
<1>2. /\ Order \in Seq(Component) /\ IsInjective(Order)
      /\ ToSet(Order) = Component
      /\ Component \cap GitHub = {} /\ Followed \subseteq Component
  BY OrderFacts
<1>3. /\ Lists \in Seq(GitHub) /\ IsInjective(Lists)
      /\ ToSet(Lists) = GitHub
  BY ListsFacts
<1>4. Order \in Seq(Source) /\ Lists \in Seq(Source)
  BY <1>2, <1>3 DEF Source
<1>5. /\ todo' \in Seq(Source) /\ IsInjective(todo')
      /\ ToSet(todo') = IF given THEN Source ELSE Component
  <2>1. /\ Order \o Lists \in Seq(Source) /\ IsInjective(Order \o Lists)
        /\ ToSet(Order \o Lists) = Source
    BY <1>2, <1>3, <1>4, OneAfterTheOther DEF Source
  <2> QED BY <1>1, <1>2, <1>4, <2>1
<1>6. ReportTypes'
  <2>1. notes' \subseteq Source
    BY <1>1 DEF Source
  <2>2. seen' \in [Followed -> SUBSET Title]
    BY <1>1 DEF ReportInv, ReportTypes
  <2> QED BY <1>1, <1>5, <2>1, <2>2 DEF ReportInv, ReportTypes
<1>7. ASSUME NEW s \in Source PROVE ReportOf(s)'
  <2>1. shown'[s] = AtStart(s, given)
    BY <1>1
  <2>2. s \in Followed => releases'[s] \in seen'[s]
    BY <1>1
  <2>3. s \in GitHub \/ (s \in Component /\ s \notin GitHub)
    BY <1>2 DEF Source
  <2>4. CASE s \in GitHub /\ ~given
    <3>1. /\ shown'[s] = "unavailable" /\ s \in notes' /\ s \notin ToSet(todo')
          /\ Gap(s) = "unavailable" /\ s \notin Component
      BY <1>1, <1>2, <1>5, <2>1, <2>4 DEF AtStart, Gap
    <3> QED BY <1>1, <1>2, <2>4, <3>1 DEF ReportOf, ListValue
  <2>5. CASE ~(s \in GitHub /\ ~given)
    <3>1. shown'[s] = "not yet" /\ s \notin notes' /\ s \in ToSet(todo')
      BY <1>1, <1>5, <2>1, <2>3, <2>5 DEF AtStart
    <3> QED BY <1>1, <2>2, <3>1, GapFacts DEF ReportOf, ListValue, RowValue
  <2> QED BY <2>4, <2>5
<1> QED BY <1>6, <1>7 DEF ReportInv

\* A source's turn takes it off the list and changes what is known of it alone.
LEMMA TurnTaken ==
    ASSUME ReportInv, NEW s \in Source, NEW v, Turn(s), Collected(s, v)
    PROVE  /\ running /\ s \in ToSet(todo)
           /\ todo' \in Seq(Source) /\ IsInjective(todo')
           /\ ToSet(todo') = ToSet(todo) \ {s}
           /\ DOMAIN shown' = Source /\ shown'[s] = v
           /\ \A r \in Source \ {s} : shown'[r] = shown[r]
<1>1. running /\ todo # <<>> /\ s = Head(todo)
  BY DEF Turn
<1>2. todo' = Tail(todo) /\ shown' = [shown EXCEPT ![s] = v]
  BY DEF Collected
<1>3. todo \in Seq(Source) /\ IsInjective(todo) /\ DOMAIN shown = Source
  BY DEF ReportInv, ReportTypes
<1>4. /\ Tail(todo) \in Seq(Source) /\ IsInjective(Tail(todo))
      /\ ToSet(Tail(todo)) = ToSet(todo) \ {Head(todo)}
  BY <1>1, <1>3, TakeHead
<1>5. s \in ToSet(todo)
  <2>1. 1 \in DOMAIN todo /\ todo[1] = Head(todo)
    BY <1>1, <1>3, EmptySeq
  <2> QED BY <1>1, <2>1 DEF ToSet
<1>6. /\ DOMAIN shown' = Source /\ shown'[s] = v
      /\ \A r \in Source \ {s} : shown'[r] = shown[r]
  BY <1>2, <1>3
<1> QED BY <1>1, <1>2, <1>4, <1>5, <1>6

\* A turn that shows something of its source, explained if it is a gap, keeps
\* the invariant.
LEMMA TurnKeeps ==
    ASSUME ReportInv, NEW s \in Source, NEW v, Turn(s), Collected(s, v),
           UNCHANGED <<releases, running, credentials, page, late, breaks, seen>>,
           notes' \in {notes, notes \cup {s}}, nothing' \in {nothing, nothing \cup {s}},
           ReportOf(s)'
    PROVE  ReportInv'
<1>1. /\ todo' \in Seq(Source) /\ IsInjective(todo')
      /\ ToSet(todo') = ToSet(todo) \ {s}
      /\ DOMAIN shown' = Source
      /\ \A r \in Source \ {s} : shown'[r] = shown[r]
  BY TurnTaken
<1>2. notes' \subseteq Source /\ nothing' \subseteq Source
  BY DEF ReportInv, ReportTypes
<1>3. ReportTypes'
  BY <1>1, <1>2 DEF ReportInv, ReportTypes
<1>4. ASSUME NEW r \in Source, r # s PROVE ReportOf(r)'
  <2>1. ReportOf(r)
    BY DEF ReportInv
  <2>2. /\ shown'[r] = shown[r]
        /\ r \in ToSet(todo') <=> r \in ToSet(todo)
        /\ r \in notes' <=> r \in notes
        /\ r \in nothing' <=> r \in nothing
    BY <1>1, <1>4
  <2> QED BY <2>1, <2>2 DEF ReportOf
<1> QED BY <1>3, <1>4 DEF ReportInv

\* A source is a component or a list, and never both.
LEMMA SourceKinds ==
    ASSUME NEW s \in Source
    PROVE  \/ s \in Component /\ s \notin GitHub
           \/ s \in GitHub /\ s \notin Component /\ s \notin Followed
BY OrderFacts DEF Source

\* A component without a feed shows a gap that needs no explanation.
LEMMA SkipKeeps ==
    ASSUME ReportInv, NEW s \in Source, Skip(s)
    PROVE  ReportInv'
<1>1. /\ Turn(s) /\ s \in Component \ Followed
      /\ Collected(s, Gap(s))
      /\ UNCHANGED <<releases, running, credentials, notes, page, late, breaks, seen, nothing>>
  BY DEF Skip
<1>2. running /\ shown'[s] = Gap(s) /\ s \notin ToSet(todo')
  BY <1>1, TurnTaken
<1>3. ReportOf(s)'
  BY <1>1, <1>2, GapFacts, SourceKinds DEF ReportOf
<1> QED BY <1>1, <1>3, TurnKeeps

\* A source that answers shows its own title, or that there is something.
LEMMA AnswersKeeps ==
    ASSUME ReportInv, NEW s \in Source, Answers(s)
    PROVE  ReportInv'
<1> DEFINE v == IF s \in Followed THEN releases[s] ELSE "some"
<1>1. /\ Turn(s) /\ s \in Followed \cup GitHub
      /\ Collected(s, v)
      /\ UNCHANGED <<releases, running, credentials, notes, page, late, breaks, seen, nothing>>
  BY DEF Answers
<1>2. running /\ shown'[s] = v /\ s \notin ToSet(todo')
  BY <1>1, TurnTaken
<1>3. /\ running => (s \in notes => shown[s] = Gap(s))
      /\ running => (shown[s] = "not yet" <=> s \in ToSet(todo))
      /\ running => (s \in Followed => releases[s] \in seen[s])
  BY DEF ReportInv, ReportOf
<1>4. s \in ToSet(todo) /\ s \notin notes
  BY <1>1, <1>2, <1>3, TurnTaken, GapFacts
<1>5. ReportOf(s)'
  <2>1. CASE s \in Followed
    <3>1. v = releases[s] /\ v \in Title /\ v \in seen[s]
      BY <1>2, <1>3, <2>1 DEF ReportInv, ReportTypes
    <3>2. v # "not yet" /\ v # Gap(s)
      BY <3>1, GapFacts
    <3>3. s \in Component /\ s \notin GitHub
      BY <2>1, OrderFacts
    <3> HIDE DEF v
    <3> QED BY <1>1, <1>2, <1>4, <2>1, <3>1, <3>2, <3>3 DEF ReportOf, RowValue
  <2>2. CASE s \notin Followed
    <3>1. s \in GitHub /\ s \notin Component /\ v = "some"
      BY <1>1, <2>2, OrderFacts
    <3>2. Gap(s) = "unavailable"
      BY <3>1 DEF Gap
    <3> QED BY <1>1, <1>2, <1>4, <2>2, <3>1, <3>2 DEF ReportOf, ListValue
  <2> QED BY <2>1, <2>2
<1> QED BY <1>1, <1>5, TurnKeeps

\* One that answers with nothing is among those the gap is explained by.
LEMMA AnswersNothingKeeps ==
    ASSUME ReportInv, NEW s \in Source, AnswersNothing(s)
    PROVE  ReportInv'
<1>1. /\ Turn(s) /\ s \in Followed \cup GitHub
      /\ Collected(s, OfEmpty(s))
      /\ nothing' = nothing \cup {s}
      /\ UNCHANGED <<releases, running, credentials, notes, page, late, breaks, seen>>
  BY DEF AnswersNothing
<1>2. running /\ shown'[s] = OfEmpty(s) /\ s \notin ToSet(todo')
  BY <1>1, TurnTaken
<1>3. /\ running => (s \in notes => shown[s] = Gap(s))
      /\ running => (shown[s] = "not yet" <=> s \in ToSet(todo))
      /\ running => (s \in Followed => releases[s] \in seen[s])
  BY DEF ReportInv, ReportOf
<1>4. s \notin notes
  BY <1>1, <1>2, <1>3, TurnTaken, GapFacts
<1>5. /\ OfEmpty(s) # "not yet" /\ OfEmpty(s) \notin Title
      /\ s \in GitHub => OfEmpty(s) \in ListValue
      /\ s \in Component => OfEmpty(s) \in RowValue
  <2>1. CASE OfEmpty(s) = Gap(s)
    BY <2>1, GapFacts
  <2>2. CASE s \notin Component /\ OfEmpty(s) = "empty"
    <3>1. "empty" \notin Title
      BY TitleAssumption
    <3> QED BY <2>2, <3>1 DEF ListValue
  <2> QED BY <2>1, <2>2 DEF OfEmpty
<1>6. ReportOf(s)'
  BY <1>1, <1>2, <1>3, <1>4, <1>5 DEF ReportOf
<1> QED BY <1>1, <1>6, TurnKeeps

\* One that is unreachable shows a gap, and is noted.
LEMMA UnreachableKeeps ==
    ASSUME ReportInv, NEW s \in Source, Unreachable(s)
    PROVE  ReportInv'
<1>1. /\ Turn(s) /\ Collected(s, Gap(s))
      /\ notes' = notes \cup {s}
      /\ UNCHANGED <<releases, running, credentials, page, late, breaks, seen, nothing>>
  <2>1. "unreachable" \in Caught
    BY DEF Caught
  <2> QED BY <2>1 DEF Unreachable, Noted
<1>2. running /\ shown'[s] = Gap(s) /\ s \notin ToSet(todo')
  BY <1>1, TurnTaken
<1>3. running => (s \in Followed => releases[s] \in seen[s])
  BY DEF ReportInv, ReportOf
<1>4. ReportOf(s)'
  BY <1>1, <1>2, <1>3, GapFacts DEF ReportOf
<1> QED BY <1>1, <1>4, TurnKeeps

\* A run that ends leaves nothing behind, but for the page.
LEMMA EndKeeps ==
    ASSUME ReportInv, RunEnds, UNCHANGED releases,
           late' \in BOOLEAN, breaks' \in 0..MaxBreaks,
           page'.missing \in {Source, {}},
           \A c \in Component : page'.rows[c] \in RowValue
    PROVE  ReportInv'
<1>1. /\ running' = FALSE /\ credentials' = FALSE /\ todo' = <<>>
      /\ shown' = [s \in Source |-> "not yet"]
      /\ notes' = {} /\ nothing' = {} /\ seen' = [c \in Followed |-> {}]
  BY DEF RunEnds, Blank
<1>2. todo' \in Seq(Source) /\ IsInjective(todo')
  <2>1. <<>> \in Seq(Source) /\ IsInjective(<<>>)
    BY DEF IsInjective
  <2> QED BY <1>1, <2>1
<1>3. seen' \in [Followed -> SUBSET Title]
  BY <1>1
<1>4. DOMAIN shown' = Source
  BY <1>1
<1>5. ReportTypes'
  BY <1>1, <1>2, <1>3, <1>4 DEF ReportInv, ReportTypes
<1>6. \A s \in Source : ReportOf(s)'
  BY <1>1 DEF ReportOf, ListValue, RowValue
<1> QED BY <1>5, <1>6 DEF ReportInv

\* An answer no handler catches ends the run and leaves the page alone.
LEMMA BreaksKeeps ==
    ASSUME ReportInv, NEW s \in Source, Breaks(s)
    PROVE  ReportInv'
<1>1. /\ RunEnds /\ UNCHANGED releases
      /\ late' = TRUE /\ page' = page /\ breaks < MaxBreaks /\ breaks' = breaks + 1
  BY DEF Breaks, PageAfterFailure
<1>2. breaks' \in 0..MaxBreaks
  BY <1>1, OrderFacts DEF ReportInv, ReportTypes
<1>3. /\ page'.missing \in {Source, {}}
      /\ \A c \in Component : page'.rows[c] \in RowValue
  BY <1>1 DEF ReportInv, ReportTypes
<1> QED BY <1>1, <1>2, <1>3, EndKeeps

\* What is published is whole: a run that has asked every source misses none.
LEMMA WholePage ==
    ASSUME ReportInv, running, todo = <<>>
    PROVE  /\ Rendered(shown).missing = {}
           /\ \A c \in Component : /\ Rendered(shown).rows[c] = Cell(shown[c])
                                  /\ Cell(shown[c]) \in Title \cup {"unknown"}
<1>1. /\ Rendered(shown).missing = {s \in Source : shown[s] = "not yet"}
      /\ \A c \in Component : Rendered(shown).rows[c] = Cell(shown[c])
  BY DEF Rendered
<1>2. ToSet(todo) = {}
  BY DEF ToSet
<1>3. \A s \in Source : shown[s] # "not yet"
  BY <1>2 DEF ReportInv, ReportOf
<1>4. \A c \in Component : shown[c] \in RowValue
  BY DEF ReportInv, ReportOf, Source
<1>5. \A c \in Component : shown[c] \in Title \cup {"unknown"}
  BY <1>3, <1>4 DEF Source, RowValue
<1>6. \A c \in Component : Cell(shown[c]) \in Title \cup {"unknown"}
  BY <1>5 DEF Cell
<1> QED BY <1>1, <1>3, <1>6

\* Publishing shows the page of a whole run, or, if the deployment fails, the
\* one before.
LEMMA PublishKeeps ==
    ASSUME ReportInv, NEW deployed \in BOOLEAN, Publish(deployed)
    PROVE  ReportInv'
<1>1. /\ running /\ todo = <<>> /\ RunEnds /\ UNCHANGED releases
      /\ deployed \/ breaks < MaxBreaks
      /\ breaks' = IF deployed THEN breaks ELSE breaks + 1
      /\ page' = IF deployed THEN Rendered(shown) ELSE page
      /\ late' = ~deployed
  BY DEF Publish
<1>2. breaks' \in 0..MaxBreaks
  BY <1>1, OrderFacts DEF ReportInv, ReportTypes
<1>3. late' \in BOOLEAN
  BY <1>1
<1>4. /\ page'.missing \in {Source, {}}
      /\ \A c \in Component : page'.rows[c] \in RowValue
  <2>1. CASE deployed
    BY <1>1, <2>1, WholePage DEF RowValue
  <2>2. CASE ~deployed
    BY <1>1, <2>2 DEF ReportInv, ReportTypes
  <2> QED BY <2>1, <2>2
<1> QED BY <1>1, <1>2, <1>3, <1>4, EndKeeps

\* Every step keeps the invariant.
LEMMA ReportStep ==
    ReportInv /\ [PageNext]_pageVars => ReportInv'
<1> SUFFICES ASSUME ReportInv, [PageNext]_pageVars
             PROVE  ReportInv'
  OBVIOUS
<1>1. ASSUME NEW c \in Followed, NEW t \in Title, Release(c, t) PROVE ReportInv'
  BY <1>1, ReleaseKeeps
<1>2. ASSUME NEW given \in BOOLEAN, Start(given) PROVE ReportInv'
  BY <1>2, StartKeeps
<1>3. ASSUME NEW s \in Source, Ask(s) PROVE ReportInv'
  BY <1>3, SkipKeeps, AnswersKeeps, AnswersNothingKeeps, UnreachableKeeps, BreaksKeeps
     DEF Ask
<1>4. ASSUME NEW deployed \in BOOLEAN, Publish(deployed) PROVE ReportInv'
  BY <1>4, PublishKeeps
<1>5. CASE UNCHANGED pageVars
  BY <1>5 DEF pageVars, ReportInv, ReportTypes, ReportOf, Gap
<1> QED BY <1>1, <1>2, <1>3, <1>4, <1>5 DEF PageNext

\* What the dashboard's page is built from is what TypeOK says: a run shows
\* something of exactly the sources it is done with, and a published page is whole.
THEOREM ReportTypeCorrect ==
    PageSpec => []PageTypeOK
<1>1. ReportInv => PageTypeOK
  <2> SUFFICES ASSUME ReportInv PROVE PageTypeOK
    OBVIOUS
  <2>1. \A s \in GitHub : shown[s] \in {"not yet", "unavailable", "empty", "some"}
    BY DEF ReportInv, ReportOf, ListValue, Source
  <2>2. \A c \in Component :
            {shown[c], page.rows[c]} \subseteq Title \cup {"not yet", "unknown"}
    BY DEF ReportInv, ReportTypes, ReportOf, RowValue, Source
  <2>3. running => Asked = {s \in Source : shown[s] # "not yet"}
    BY DEF ReportInv, ReportOf, Asked
  <2> QED BY <2>1, <2>2, <2>3 DEF ReportInv, ReportTypes, PageTypeOK
<1> QED BY <1>1, ReportInit, ReportStep, PTL DEF PageSpec

\* A row is about its own component, during this run: what it says of a version
\* follows from a title that component's own feed had since the run began.
THEOREM RowSafety ==
    PageSpec => []RowIsOwn
<1>1. ReportInv => RowIsOwn
  <2> SUFFICES ASSUME ReportInv, NEW c \in Asked \cap Component,
                      Status(c) # "unknown"
               PROVE  /\ c \in Followed /\ shown[c] \in seen[c]
                      /\ Status(c) = "up to date"
                         => \E t \in seen[c] : Plain[t] = Plain[Current[c]]
    BY DEF RowIsOwn
  <2>1. running /\ c \in Source
    BY DEF Asked, Source
  <2>2. shown[c] \in Title
    BY DEF Status
  <2>3. c \in Followed /\ shown[c] \in seen[c]
    BY <2>1, <2>2 DEF ReportInv, ReportOf
  <2>4. Status(c) = "up to date" => Plain[Current[c]] = Plain[shown[c]]
    BY DEF Status
  <2> QED BY <2>3, <2>4
<1> QED BY <1>1, ReportInit, ReportStep, PTL DEF PageSpec

\* A gap of the page is explained, and a source whose failure is noted shows one.
THEOREM GapSafety ==
    PageSpec => []GapExplained
<1>1. ReportInv => GapExplained
  <2> SUFFICES ASSUME ReportInv, NEW s \in Asked
               PROVE  /\ shown[s] = Gap(s) =>
                             s \in notes \cup nothing \/ s \in Component \ Followed
                      /\ s \in notes => shown[s] = Gap(s)
    BY DEF GapExplained
  <2>1. running /\ s \in Source
    BY DEF Asked
  <2> QED BY <2>1 DEF ReportInv, ReportOf
<1> QED BY <1>1, ReportInit, ReportStep, PTL DEF PageSpec

\* A step that changes the published page puts a whole one there.
PageIsWhole ==
    page' # page => /\ page'.missing = {}
                    /\ \A c \in Component : page'.rows[c] \in Title \cup {"unknown"}

\* The page that is published changes only to that of a run that has asked every
\* source: a failure halfway, or of the deployment, leaves the page before.
THEOREM PublishedWhole ==
    PageSpec => [][PageIsWhole]_pageVars
<1>1. ReportInv /\ [PageNext]_pageVars => PageIsWhole
  <2> SUFFICES ASSUME ReportInv, [PageNext]_pageVars, page' # page
               PROVE  /\ page'.missing = {}
                      /\ \A c \in Component : page'.rows[c] \in Title \cup {"unknown"}
    BY DEF PageIsWhole
  <2>1. PICK deployed \in BOOLEAN : Publish(deployed)
    <3>1. ASSUME NEW c \in Followed, NEW t \in Title, Release(c, t) PROVE FALSE
      BY <3>1 DEF Release
    <3>2. ASSUME NEW given \in BOOLEAN, Start(given) PROVE FALSE
      BY <3>2 DEF Start
    <3>3. ASSUME NEW s \in Source, Ask(s) PROVE FALSE
      BY <3>3 DEF Ask, Skip, Answers, AnswersNothing,
                  Unreachable, Breaks, PageAfterFailure
    <3>4. CASE UNCHANGED pageVars
      BY <3>4 DEF pageVars
    <3> QED BY <3>1, <3>2, <3>3, <3>4 DEF PageNext
  <2>2. running /\ todo = <<>> /\ page' = Rendered(shown)
    BY <2>1 DEF Publish
  <2> QED BY <2>2, WholePage
<1> QED BY <1>1, ReportInit, ReportStep, PTL DEF PageSpec
=============================================================================
