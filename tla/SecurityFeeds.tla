---------------------------- MODULE SecurityFeeds ----------------------------
(***************************************************************************)
(* scripts/security_feeds.py, run every day and by hand by                 *)
(* .github/workflows/security-feeds.yml: a run reads the components'       *)
(* feeds, keeps the latest recent entries of each, and opens a GitHub      *)
(* issue for every entry that a search for its marker does not find.       *)
(* Nothing else is remembered, nothing keeps two runs apart, and GitHub's  *)
(* search finds an issue some time after it was opened.                    *)
(***************************************************************************)
EXTENDS Naturals, FiniteSets

CONSTANTS
    Entry,         \* entries the feeds publish
    NFeeds,        \* the length of FEEDS
    FeedOf,        \* [Entry -> Feed]
    Dated,         \* entries with a date that _parse_date() reads
    Run,           \* workflow runs that can be under way at a time
    Scheduled,     \* the one of them that the schedule starts
    Day,           \* ticks from one scheduled time to the next
    Drift,         \* how late the schedule may start a run, in ticks
    Window,        \* --since-days
    MaxPerFeed,    \* --max-per-feed
    MaxFaults,     \* bound: failures of a run and times without one
    MaxIssues      \* bound: issues of an entry told apart

Feed == 1..NFeeds

\* timedelta(days=since_days), in ticks
Span == Window * Day

ASSUME EntryAssumption ==
    IsFiniteSet(Entry) /\ Dated \subseteq Entry /\ FeedOf \in [Entry -> Feed]
ASSUME RunAssumption == Scheduled \in Run
ASSUME ClockAssumption == Day \in Nat /\ Drift \in Nat /\ Drift < Day
ASSUME FeedBoundAssumption ==
    /\ {Window, MaxPerFeed, MaxFaults, MaxIssues} \subseteq Nat
    /\ NFeeds \in Nat \ {0} /\ MaxIssues > 1

VARIABLES
    born,          \* the rank of an entry in the order of publication, 0 before it
    age,           \* ticks since a dated entry was published, up to Span + 1
    issues,        \* issues opened for an entry, up to MaxIssues
    searchable,    \* entries with an issue that the search finds
    left,          \* feeds a run has still to read
    entries,       \* entries a run has collected and not dealt with
    absent,        \* the entry a run has just not found, if it is to create its issue
    stage,         \* "idle", "collecting" or "reporting", for each run
    phase,         \* ticks since the last scheduled time that is served or skipped
    fails,         \* failures that kept an entry from being reported, up to Window
    faults,
    calm           \* no run has started beside another or ahead of the search index

vars == <<born, age, issues, searchable, left, entries, absent, stage, phase, fails,
          faults, calm>>

Init ==
    /\ born = [e \in Entry |-> 0]
    /\ age = [e \in Entry |-> 0]
    /\ issues = [e \in Entry |-> 0]
    /\ searchable = {}
    /\ left = [r \in Run |-> {}]
    /\ entries = [r \in Run |-> {}]
    /\ absent = [r \in Run |-> {}]
    /\ stage = [r \in Run |-> "idle"]
    /\ phase = 0
    /\ fails = [e \in Entry |-> 0]
    /\ faults = 0
    /\ calm = TRUE

Published == {e \in Entry : born[e] > 0}

UpTo(bound, n) == IF n > bound THEN bound ELSE n

Fail(S) ==
    /\ faults < MaxFaults
    /\ faults' = faults + 1
    /\ fails' = [e \in Entry |-> IF e \in S THEN UpTo(Window, fails[e] + 1) ELSE fails[e]]
-----------------------------------------------------------------------------
(* What a run looks at *)

\* Latest first, entries without a date after all the others.
Before(d, e) ==
    /\ FeedOf[d] = FeedOf[e]
    /\ \/ d \in Dated /\ e \notin Dated
       \/ (d \in Dated <=> e \in Dated) /\ born[d] > born[e]

\* A run computes its cutoff once, when it starts.
Recent(e) == e \in Dated => age[e] <= Span

\* recent[:max_per_feed]
Selected(f) ==
    LET recent == {e \in Published : FeedOf[e] = f /\ Recent(e)}
    IN  {e \in recent : Cardinality({d \in recent : Before(d, e)}) < MaxPerFeed}

\* The order of FEEDS, then the order of each feed.
IsNext(r, e) ==
    /\ e \in entries[r]
    /\ \A d \in entries[r] : FeedOf[d] >= FeedOf[e] /\ ~Before(d, e)
-----------------------------------------------------------------------------
(* A run *)

Begin(r) ==
    /\ stage[r] = "idle"
    /\ stage' = [stage EXCEPT ![r] = "collecting"]
    /\ left' = [left EXCEPT ![r] = Feed]
    /\ calm' = (/\ calm
                /\ \A s \in Run : stage[s] = "idle"
                /\ \A e \in Entry : issues[e] > 0 => e \in searchable)
    /\ UNCHANGED <<born, age, issues, searchable, entries, absent, fails, faults>>

\* The schedule starts its run at the scheduled time or up to Drift later.
StartScheduled ==
    /\ phase >= Day
    /\ phase' = phase - Day
    /\ Begin(Scheduled)

\* workflow_dispatch
StartByHand(r) ==
    /\ r # Scheduled
    /\ Begin(r)
    /\ UNCHANGED phase

\* Faulty variant: a run goes on after its last entry.
AlwaysReporting(rest) == "reporting"

\* main() returns when it has nothing (more) to report.
StageFor(rest) == IF rest = {} THEN "idle" ELSE "reporting"

\* The next feed is read, with what it holds now, or skipped with a warning.
Collect(r, f, found) ==
    /\ stage[r] = "collecting"
    /\ f \in left[r] /\ \A g \in left[r] : g >= f
    /\ left' = [left EXCEPT ![r] = @ \ {f}]
    /\ entries' = [entries EXCEPT ![r] = @ \cup found]
    /\ stage' = [stage EXCEPT ![r] =
           IF left[r] = {f} THEN StageFor(entries[r] \cup found) ELSE "collecting"]
    /\ UNCHANGED <<born, age, issues, searchable, absent, phase, calm>>

Fetch(r, f) ==
    /\ Collect(r, f, Selected(f))
    /\ UNCHANGED <<fails, faults>>

\* Faulty variant: a feed that fails is the last one that is read.
FailureEndsReading(r, f) ==
    /\ stage[r] = "collecting"
    /\ f \in left[r] /\ \A g \in left[r] : g >= f
    /\ left' = [left EXCEPT ![r] = {}]
    /\ stage' = [stage EXCEPT ![r] = StageFor(entries[r])]
    /\ Fail({e \in Entry : FeedOf[e] = f})
    /\ UNCHANGED <<born, age, issues, searchable, entries, absent, phase, calm>>

FetchFails(r, f) ==
    /\ Collect(r, f, {})
    /\ Fail({e \in Entry : FeedOf[e] = f})

\* Faulty variant: a marker that depends on the day it is computed on.
MarkerOfTheDay(e) == e \in searchable /\ age[e] < Day

\* issue_already_exists()
IssueExists(e) == e \in searchable

\* The run is done with an entry.
Drop(r, e) ==
    /\ entries' = [entries EXCEPT ![r] = @ \ {e}]
    /\ absent' = [absent EXCEPT ![r] = {}]
    /\ stage' = [stage EXCEPT ![r] = StageFor(entries[r] \ {e})]

SearchFinds(r, e) ==
    /\ stage[r] = "reporting" /\ absent[r] = {}
    /\ IsNext(r, e)
    /\ IssueExists(e)
    /\ Drop(r, e)
    /\ UNCHANGED <<born, age, issues, searchable, left, phase, fails, faults, calm>>

SearchFindsNothing(r, e) ==
    /\ stage[r] = "reporting" /\ absent[r] = {}
    /\ IsNext(r, e)
    /\ ~IssueExists(e)
    /\ absent' = [absent EXCEPT ![r] = {e}]
    /\ UNCHANGED <<born, age, issues, searchable, left, entries, stage, phase, fails,
                   faults, calm>>

Open(e) == issues' = [issues EXCEPT ![e] = UpTo(MaxIssues, @ + 1)]

Create(r, e) ==
    /\ e \in absent[r]
    /\ Open(e)
    /\ Drop(r, e)
    /\ UNCHANGED <<born, age, searchable, left, phase, fails, faults, calm>>

\* GitHub cannot be reached or answers with an error status, with or without
\* having opened the issue: a warning, and the run goes on.
RequestFails(r, e) ==
    /\ stage[r] = "reporting"
    /\ IsNext(r, e)
    /\ Drop(r, e)
    /\ \/ UNCHANGED issues
       \/ e \in absent[r] /\ Open(e)
    /\ Fail({e})
    /\ UNCHANGED <<born, age, searchable, left, phase, calm>>

\* The job is cancelled, or an exception leaves main(): a time-out or a closed
\* connection after the request was sent is neither of the two it expects.
RunDies(r) ==
    /\ stage[r] # "idle"
    /\ stage' = [stage EXCEPT ![r] = "idle"]
    /\ left' = [left EXCEPT ![r] = {}]
    /\ entries' = [entries EXCEPT ![r] = {}]
    /\ absent' = [absent EXCEPT ![r] = {}]
    /\ \/ UNCHANGED issues
       \/ \E e \in absent[r] : Open(e)
    /\ Fail(entries[r] \cup {e \in Entry : FeedOf[e] \in left[r]})
    /\ UNCHANGED <<born, age, searchable, phase, calm>>
-----------------------------------------------------------------------------
(* The feeds, the search index and the clock *)

Publish(e) ==
    /\ born[e] = 0
    /\ born' = [born EXCEPT ![e] = Cardinality(Published) + 1]
    /\ UNCHANGED <<age, issues, searchable, left, entries, absent, stage, phase, fails,
                   faults, calm>>

Index(e) ==
    /\ issues[e] > 0
    /\ e \notin searchable
    /\ searchable' = searchable \cup {e}
    /\ UNCHANGED <<born, age, issues, left, entries, absent, stage, phase, fails, faults, calm>>

\* The schedule drops a run.
SkipRun ==
    /\ phase >= Day
    /\ phase' = phase - Day
    /\ Fail(Entry)
    /\ UNCHANGED <<born, age, issues, searchable, left, entries, absent, stage, calm>>

\* What happens between two ticks happens at one time, a run included.
Tick ==
    /\ phase < Day + Drift
    /\ \A r \in Run : stage[r] = "idle"
    /\ phase' = phase + 1
    /\ age' = [e \in Entry |->
           IF e \in Published \cap Dated THEN UpTo(Span + 1, age[e] + 1) ELSE 0]
    /\ UNCHANGED <<born, issues, searchable, left, entries, absent, stage, fails, faults, calm>>

Next ==
    \/ StartScheduled
    \/ \E r \in Run : StartByHand(r) \/ RunDies(r)
    \/ \E r \in Run, f \in Feed : Fetch(r, f) \/ FetchFails(r, f)
    \/ \E r \in Run, e \in Entry :
          \/ SearchFinds(r, e)
          \/ SearchFindsNothing(r, e)
          \/ Create(r, e)
          \/ RequestFails(r, e)
    \/ \E e \in Entry : Publish(e) \/ Index(e)
    \/ SkipRun
    \/ Tick

Spec == Init /\ [][Next]_vars
-----------------------------------------------------------------------------
(* Properties *)

\* Every variable holds a value of its type; a run that is over holds nothing,
\* one that reports has something to report.
TypeOK ==
    /\ born \in [Entry -> 0..Cardinality(Entry)]
    /\ age \in [Entry -> 0..(Span + 1)]
    /\ issues \in [Entry -> 0..MaxIssues]
    /\ searchable \subseteq {e \in Entry : issues[e] > 0}
    /\ left \in [Run -> SUBSET Feed]
    /\ entries \in [Run -> SUBSET Entry]
    /\ absent \in [Run -> SUBSET Entry]
    /\ stage \in [Run -> {"idle", "collecting", "reporting"}]
    /\ phase \in 0..(Day + Drift) /\ calm \in BOOLEAN
    /\ fails \in [Entry -> 0..Window]
    /\ faults \in 0..MaxFaults
    /\ \A r \in Run :
          /\ absent[r] \subseteq entries[r]
          /\ stage[r] = "idle" => entries[r] = {}
          /\ stage[r] = "reporting" => entries[r] # {}
          /\ stage[r] = "collecting" <=> left[r] # {}

\* Runs that start one after the other, each when the search has caught up,
\* open one issue for an entry, even when a response is lost or a run dies
\* between opening an issue and hearing of it.
CalmMeansOneIssue == calm => \A e \in Entry : issues[e] <= 1

\* Entries that are taken before this one, now or when it was still recent.
Crowded(e) == Cardinality({d \in Published : Before(d, e)}) >= MaxPerFeed

\* The scheduled runs that are sure to start while an entry is recent: a late
\* start can cost the last day of the window.
Chances == IF Drift = 0 THEN Window ELSE Window - 1

\* A dated entry older than the window that has no issue was crowded out by its
\* own feed, or as many failures concerned it as there were sure chances: a run that
\* did not start, its own feed or its own request, or the end of a run that had
\* it, or its feed, still before it.  Whatever else went wrong cost it nothing.
MissedOnlyByOutage ==
    \A e \in Published :
        age[e] > Span /\ issues[e] = 0 => Crowded(e) \/ fails[e] >= Chances

\* Header of the workflow: it "opens a GitHub Issue for each new entry not
\* already reported".  A dated entry past the window is not looked at again, so
\* one without an issue by then, that no failure concerned, is never reported.
NewEntryReported ==
    \A e \in Published :
        age[e] > Span /\ issues[e] = 0 => fails[e] > 0
=============================================================================
