----------------------------- MODULE Dashboard -----------------------------
(***************************************************************************)
(* build_dashboard.py and its workflow: once a day a run asks the release  *)
(* feed of each component and three lists of GitHub's, one after the other, *)
(* writes one page and publishes it; a run that raises publishes nothing.  *)
(***************************************************************************)
EXTENDS Naturals, SequencesExt

CONSTANTS
    Order,         \* the components of platform.yaml that have a version, sorted
    Followed,      \* those with a release feed
    Title,         \* titles of releases, "" among them for an entry with an empty one
    Current,       \* the version of each component in platform.yaml
    Plain,         \* titles and versions without their case and leading "v"
    MaxBreaks      \* bound: answers no handler catches, and failed deployments

Component == ToSet(Order)
Lists == <<"alerts", "issues", "acceptance">>
GitHub == ToSet(Lists)
Source == Component \cup GitHub

ASSUME OrderAssumption ==
    /\ Order \in Seq(Component) /\ IsInjective(Order)   \* sorted keys: each once
    /\ Followed \subseteq Component
    /\ Component \cap GitHub = {}
ASSUME TitleAssumption ==
    /\ DOMAIN Current = Component
    /\ DOMAIN Plain = Title \cup {Current[c] : c \in Component}
    /\ Title \cap {"unknown", "unavailable", "not yet", "empty", "some"} = {}
    /\ MaxBreaks \in Nat

VARIABLES
    releases,      \* the first title of each component's feed, by now
    running,       \* whether a run is under way
    credentials,   \* whether it has a token and a repository
    todo,          \* the sources it has still to ask, in their order
    shown,         \* what it shall show of each source
    notes,         \* the sources whose failure it shall note
    page,          \* what is published
    late,          \* whether the last run ended without publishing
    breaks,
    seen,          \* history: the titles of each feed since the run began
    nothing        \* history: the sources that answered, with nothing to show

pageVars == <<releases, running, credentials, todo, shown, notes, page, late,
              breaks, seen, nothing>>

Blank == [s \in Source |-> "not yet"]

\* An empty title reads as "unknown", though its label is not (Status, below).
Cell(value) == IF value = "" THEN "unknown" ELSE value

\* What the page says of the components, and the sources it says nothing of.
Rendered(view) ==
    [rows |-> [c \in Component |-> Cell(view[c])], missing |-> {s \in Source : view[s] = "not yet"}]

PageInit ==
    /\ releases \in [Followed -> Title]
    /\ running = FALSE
    /\ credentials = FALSE
    /\ todo = <<>>
    /\ shown = Blank
    /\ notes = {}
    /\ page = Rendered(Blank)
    /\ late = TRUE
    /\ breaks = 0
    /\ seen = [c \in Followed |-> {}]
    /\ nothing = {}
-----------------------------------------------------------------------------
\* A project publishes a release; its feed begins with another title.
Release(c, t) ==
    /\ t # releases[c]
    /\ releases' = [releases EXCEPT ![c] = t]
    /\ seen' = IF running THEN [seen EXCEPT ![c] = @ \cup {t}] ELSE seen
    /\ UNCHANGED <<running, credentials, todo, shown, notes, page, late, breaks, nothing>>

\* A list counts as unavailable until it is there.
AtStart(s, given) == IF s \in GitHub /\ ~given THEN "unavailable" ELSE "not yet"

\* The workflow starts, once at a time; without credentials GitHub's lists
\* are not asked for, and one note says so.
Start(given) ==
    /\ ~running
    /\ running' = TRUE
    /\ credentials' = given
    /\ todo' = IF given THEN Order \o Lists ELSE Order
    /\ shown' = [s \in Source |-> AtStart(s, given)]
    /\ notes' = IF given THEN {} ELSE GitHub
    /\ seen' = [c \in Followed |-> {releases[c]}]
    /\ nothing' = {}
    /\ UNCHANGED <<releases, page, late, breaks>>

\* The process ends, and what it had gathered is gone.
RunEnds ==
    /\ running' = FALSE
    /\ credentials' = FALSE
    /\ todo' = <<>>
    /\ shown' = Blank
    /\ notes' = {}
    /\ seen' = [c \in Followed |-> {}]
    /\ nothing' = {}

\* Faulty variant: the loop's variable keeps the title of the component before.
KeptFromBefore(s) ==
    IF s \in GitHub THEN "unavailable"
    ELSE IF s = Head(Order) THEN "unknown"
    ELSE shown[Order[CHOOSE i \in 1..Len(Order) : Order[i + 1] = s]]

\* What is shown of a source that gave nothing.
Gap(s) == IF s \in GitHub THEN "unavailable" ELSE "unknown"

\* What is shown of a list that is empty: no run of the acceptance workflow
\* reads as if it could not be fetched.
OfEmpty(s) == IF s \in Component \cup {"acceptance"} THEN Gap(s) ELSE "empty"

\* Faulty variant: the note is made only if none was made before.
NoteOnce(s) == IF notes = {} THEN {s} ELSE notes

\* Each failure that is caught is noted.
Noted(s) == notes \cup {s}

Collected(s, value) ==
    /\ todo' = Tail(todo)
    /\ shown' = [shown EXCEPT ![s] = value]

Turn(s) == running /\ todo # <<>> /\ s = Head(todo)

\* A component without a feed is not asked about.
Skip(c) ==
    /\ Turn(c)
    /\ c \in Component \ Followed
    /\ Collected(c, Gap(c))
    /\ UNCHANGED <<releases, running, credentials, notes, page, late, breaks, seen, nothing>>

\* The source answers: with its first title, or with a list that has entries.
Answers(s) ==
    /\ Turn(s)
    /\ s \in Followed \cup GitHub
    /\ Collected(s, IF s \in Followed THEN releases[s] ELSE "some")
    /\ UNCHANGED <<releases, running, credentials, notes, page, late, breaks, seen, nothing>>

\* It answers with an empty feed, an entry without a title, or an empty list.
AnswersNothing(s) ==
    /\ Turn(s)
    /\ s \in Followed \cup GitHub
    /\ Collected(s, OfEmpty(s))
    /\ nothing' = nothing \cup {s}
    /\ UNCHANGED <<releases, running, credentials, notes, page, late, breaks, seen>>

\* Faulty variant: an error status is not handled either.
NothingCaught == {}

\* The failures some handler catches: a source that refuses the connection or
\* answers an error status; and, for the feeds, one that stalls or is no XML.
\* What GitHub does not answer in time, and any body cut short, is not caught.
Caught == {"unreachable"}

Unreachable(s) ==
    /\ Turn(s)
    /\ s \in Followed \cup GitHub
    /\ IF "unreachable" \in Caught
       THEN /\ Collected(s, Gap(s))
            /\ notes' = Noted(s)
            /\ UNCHANGED <<running, credentials, late, seen, nothing>>
       ELSE RunEnds /\ late' = TRUE
    /\ UNCHANGED <<releases, page, breaks>>

\* Faulty variant: what there is so far is published all the same.
PartialPage == Rendered(shown)

\* The build has failed, and the deployment needs it.
PageAfterFailure == page

\* An answer no handler catches ends the run.
Breaks(s) ==
    /\ Turn(s)
    /\ s \in Followed \cup GitHub
    /\ breaks < MaxBreaks
    /\ breaks' = breaks + 1
    /\ RunEnds
    /\ late' = TRUE
    /\ page' = PageAfterFailure
    /\ UNCHANGED releases

\* The page is written, uploaded and deployed, or its deployment fails.
Publish(deployed) ==
    /\ running /\ todo = <<>>
    /\ deployed \/ breaks < MaxBreaks
    /\ breaks' = IF deployed THEN breaks ELSE breaks + 1
    /\ RunEnds
    /\ page' = IF deployed THEN Rendered(shown) ELSE page
    /\ late' = ~deployed
    /\ UNCHANGED releases

\* The label of a component's row.
Status(c) ==
    IF shown[c] \notin Title THEN "unknown"
    ELSE IF Plain[Current[c]] = Plain[shown[c]] THEN "up to date" ELSE "check needed"
-----------------------------------------------------------------------------
Ask(s) == Skip(s) \/ Answers(s) \/ AnswersNothing(s) \/ Unreachable(s) \/ Breaks(s)

PageNext ==
    \/ \E c \in Followed, t \in Title : Release(c, t)
    \/ \E given \in BOOLEAN : Start(given)
    \/ \E s \in Source : Ask(s)
    \/ \E deployed \in BOOLEAN : Publish(deployed)

PageSpec == PageInit /\ [][PageNext]_pageVars

\* The schedule starts runs; a request ends, or its time-out ends it.  Nothing
\* has to be released, and no source ever has to answer.
FairSpec ==
    /\ PageSpec
    /\ WF_pageVars(\E given \in BOOLEAN : Start(given))
    /\ WF_pageVars(\E s \in Source : Ask(s))
    /\ WF_pageVars(\E deployed \in BOOLEAN : Publish(deployed))
-----------------------------------------------------------------------------
(* Properties *)

Asked == {s \in Source : running /\ s \notin ToSet(todo)}

\* Every variable holds a value of its type, and a run shows something of
\* exactly the sources it is done with; once a page is published, it is a whole
\* one.
PageTypeOK ==
    /\ releases \in [Followed -> Title]
    /\ {running, credentials, late} \subseteq BOOLEAN
    /\ \A s \in GitHub : shown[s] \in {"not yet", "unavailable", "empty", "some"}
    /\ \A c \in Component : {shown[c], page.rows[c]} \subseteq Title \cup {"not yet", "unknown"}
    /\ page.missing \in {Source, {}}
    /\ notes \subseteq Source /\ nothing \subseteq Source
    /\ breaks \in 0..MaxBreaks
    /\ running => Asked = {s \in Source : shown[s] # "not yet"}

\* A row is about its own component, during this run: it says "up to date", or
\* asks for a check, because of a title its own feed had since the run began,
\* however the feeds before it ended and whatever is released meanwhile.
RowIsOwn ==
    \A c \in Asked \cap Component : Status(c) # "unknown" =>
        /\ c \in Followed /\ shown[c] \in seen[c]
        /\ Status(c) = "up to date" => \E t \in seen[c] : Plain[t] = Plain[Current[c]]

\* A gap of the page is explained: its source's failure is noted ("see errors
\* below"), or there was nothing to ask for, or it answered with nothing; and a
\* source that is noted shows no data.
GapExplained ==
    \A s \in Asked :
        /\ shown[s] = Gap(s) => s \in notes \cup nothing \/ s \in Component \ Followed
        /\ s \in notes => shown[s] = Gap(s)

\* A source that is unreachable, even for good, or all of them, does not keep
\* the page from being published again and again.
PageKeepsComing == []<>(~running /\ ~late)
=============================================================================
