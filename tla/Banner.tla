------------------------------- MODULE Banner -------------------------------
(***************************************************************************)
(* banner.js, the bar injected into every application: it obtains a token  *)
(* once, through a hidden frame, and then runs a search box, a menu, a     *)
(* bell with its badge and a presence dot, each on requests of its own     *)
(* whose answers come back in any order.                                   *)
(***************************************************************************)
EXTENDS Naturals, FiniteSets

CONSTANTS
    Query,         \* what a user can type
    Nothing,       \* an empty box, no pending request, a hidden panel
    MaxSearches,   \* bound: requests the box sends
    MaxPolls       \* bound: polls of the badge, and of the dot

ASSUME QueryAssumption == Nothing \notin Query
ASSUME BannerBoundAssumption == MaxSearches \in Nat /\ MaxPolls \in Nat

Part == {"menu", "bell"}
Display == {"dot", "badge"}

VARIABLES
    sso,           \* "asking", "exchanging", "ready" or "degraded"
    part,          \* the menu and the bell: "off", "loading" or "on"
    text,          \* what the box holds
    timer,         \* the query whose debounce timer runs
    sent,          \* searches sent so far
    searching,     \* searches in flight, by number and query
    panel,         \* the query whose results are visible
    polled,        \* polls begun, for each display
    polling,       \* polls in flight
    display,       \* the poll a display shows, 0 before the first and for none
    crossed        \* history: where a request met another one under way

vars == <<sso, part, text, timer, sent, searching, panel,
          polled, polling, display, crossed>>

startVars == <<sso, part>>
boxVars == <<text, timer, sent, searching, panel>>
pollVars == <<polled, polling, display>>

Init ==
    /\ sso = "asking"
    /\ part = [p \in Part |-> "off"]
    /\ text = Nothing
    /\ timer = Nothing
    /\ sent = 0
    /\ searching = {}
    /\ panel = Nothing
    /\ polled = [d \in Display |-> 0]
    /\ polling = [d \in Display |-> {}]
    /\ display = [d \in Display |-> 0]
    /\ crossed = {}
-----------------------------------------------------------------------------
(* Silent sign-on *)

\* The first message of the page's own origin ends the wait, whoever posted
\* it: the callback page with a code, or with an error, or the application.
FrameAnswers(error) ==
    /\ sso = "asking"
    /\ sso' = IF error THEN "degraded" ELSE "exchanging"
    /\ UNCHANGED <<part, boxVars, pollVars, crossed>>

\* Eight seconds without a message.
SsoTimesOut ==
    /\ sso = "asking"
    /\ sso' = "degraded"
    /\ UNCHANGED <<part, boxVars, pollVars, crossed>>

\* The code buys the token, and every part starts with it, or it does not,
\* because it is no code, or the request fails: the banner stays a shell.
Exchange(ok) ==
    /\ sso = "exchanging"
    /\ sso' = IF ok THEN "ready" ELSE "degraded"
    /\ part' = IF ok THEN [p \in Part |-> "loading"] ELSE part
    /\ UNCHANGED <<boxVars, pollVars, crossed>>

\* The menu's request, or the bell's two, end.
PartLoads(p, ok) ==
    /\ part[p] = "loading"
    /\ part' = [part EXCEPT ![p] = IF ok THEN "on" ELSE "off"]
    /\ UNCHANGED <<sso, boxVars, pollVars, crossed>>
-----------------------------------------------------------------------------
(* The search box *)

\* Faulty variant: an emptied box returns before it stops its timer.
TimerKept(q) == IF q = Nothing THEN timer ELSE q

\* Every input stops the timer; only a query starts another one.
TimerFor(q) == q

\* An input event; the box is enabled with the token.
Type(q) ==
    /\ sso = "ready"
    /\ text' = q
    /\ timer' = TimerFor(q)
    /\ panel' = IF q = Nothing THEN Nothing ELSE panel
    /\ crossed' = IF q = Nothing /\ searching # {} THEN crossed \cup {"box"} ELSE crossed
    /\ UNCHANGED <<startVars, sent, searching, pollVars>>

\* 300 ms without an input: the request is sent.
Debounced ==
    /\ timer # Nothing
    /\ sent < MaxSearches
    /\ timer' = Nothing
    /\ sent' = sent + 1
    /\ searching' = searching \cup {<<sent + 1, timer>>}
    /\ crossed' = IF searching # {} THEN crossed \cup {"box"} ELSE crossed
    /\ UNCHANGED <<startVars, text, panel, pollVars>>

\* Faulty variant: a failure leaves the panel as it was.
PanelKept == panel

\* A failed request hides the panel.
PanelAfterFailure == Nothing

\* A search ends: with results, whatever the box holds by then; with none, or
\* an error status, which reads as none (the token is never renewed, so once it
\* expires every search ends so); or with a broken connection.
SearchEnds(s, outcome) ==
    /\ s \in searching
    /\ searching' = searching \ {s}
    /\ panel' = CASE outcome = "results" -> s[2]
                  [] outcome = "none" -> Nothing
                  [] outcome = "failure" -> PanelAfterFailure
    /\ UNCHANGED <<startVars, text, timer, sent, pollVars, crossed>>
-----------------------------------------------------------------------------
(* The polls *)

\* The dot is polled every 15 s from the start, the badge every 30 s once the
\* bell works; a poll does not wait for the one before it.
Poll(d) ==
    /\ IF d = "dot" THEN sso = "ready" ELSE part["bell"] = "on"
    /\ polled[d] < MaxPolls
    /\ polled' = [polled EXCEPT ![d] = @ + 1]
    /\ polling' = [polling EXCEPT ![d] = @ \cup {polled[d] + 1}]
    /\ crossed' = IF polling[d] # {} THEN crossed \cup {d} ELSE crossed
    /\ UNCHANGED <<startVars, boxVars, display>>

\* Faulty variant: a dot that could not be polled is reset too.
ClearedBy(d, outcome) == IF outcome = "value" THEN display[d] ELSE 0

\* What a display shows when it has no new value: an error status counts as
\* nothing unseen; the dot keeps what it has, and so do both when the
\* connection breaks.
LeftBy(d, outcome) == IF d = "badge" /\ outcome = "refused" THEN 0 ELSE display[d]

PollEnds(d, n, outcome) ==
    /\ n \in polling[d]
    /\ polling' = [polling EXCEPT ![d] = @ \ {n}]
    /\ display' = [display EXCEPT ![d] =
           IF outcome = "value" THEN n ELSE LeftBy(d, outcome)]
    /\ UNCHANGED <<startVars, boxVars, polled, crossed>>
-----------------------------------------------------------------------------
Request == (1..MaxSearches) \X Query

EndOfSearch ==
    \E s \in Request, outcome \in {"results", "none", "failure"} : SearchEnds(s, outcome)
EndOfPoll ==
    \E d \in Display, n \in 1..MaxPolls, outcome \in {"value", "refused", "failure"} :
        PollEnds(d, n, outcome)

Next ==
    \/ \E error \in BOOLEAN : FrameAnswers(error)
    \/ SsoTimesOut
    \/ \E ok \in BOOLEAN : Exchange(ok)
    \/ \E p \in Part, ok \in BOOLEAN : PartLoads(p, ok)
    \/ \E q \in Query \cup {Nothing} : Type(q)
    \/ Debounced
    \/ EndOfSearch
    \/ \E d \in Display : Poll(d)
    \/ EndOfPoll

Spec == Init /\ [][Next]_vars
-----------------------------------------------------------------------------
(* Properties *)

\* Every variable holds a value of its type; nothing is asked without a token,
\* and a display shows no poll that has not begun.
TypeOK ==
    /\ sso \in {"asking", "exchanging", "ready", "degraded"}
    /\ part \in [Part -> {"off", "loading", "on"}]
    /\ text \in Query \cup {Nothing}
    /\ timer \in {Nothing, text}
    /\ sent \in 0..MaxSearches
    /\ searching \subseteq (1..sent) \X Query
    /\ panel \in Query \cup {Nothing}
    /\ polled \in [Display -> 0..MaxPolls]
    /\ polling \in [Display -> SUBSET (1..MaxPolls)]
    /\ display \in [Display -> 0..MaxPolls]
    /\ \A d \in Display : polling[d] \subseteq 1..polled[d] /\ display[d] \in 0..polled[d]
    /\ crossed \subseteq Display \cup {"box"}
    /\ sso # "ready" => timer = Nothing /\ panel = Nothing /\ searching = {}

\* When the box has come to rest, the results it shows are those of its text,
\* unless a search was sent, or the box emptied, with another search in
\* flight: that is all the lack of a cancellation can do.
RestsOnItsText ==
    "box" \notin crossed /\ timer = Nothing /\ searching = {} => panel \in {text, Nothing}

\* A display goes back to an older poll only where two polls were under way
\* at once; the badge also when Novu refuses one, never because one is lost.
GoesBackByCrossing ==
    [][\A d \in Display :
          display'[d] < display[d] =>
              d \in crossed \/ (d = "badge" /\ display'[d] = 0)]_vars
=============================================================================
