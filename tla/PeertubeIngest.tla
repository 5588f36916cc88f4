--------------------------- MODULE PeertubeIngest ---------------------------
(***************************************************************************)
(* connectors/peertube-ingest: uploads recordings from the object store to *)
(* PeerTube.  Two modes share ingest_object(): the daily batch lists the   *)
(* recordings bucket and takes what was modified in the last Window hours; *)
(* the webhook takes one object for each `create` event of the filer,      *)
(* which is configured to notify the staging bucket only.  Neither mode    *)
(* remembers what it uploaded.                                             *)
(*                                                                         *)
(* Time advances by Tick; ages are counted up to a cap beyond the window.  *)
(***************************************************************************)
EXTENDS Naturals, FiniteSets

CONSTANTS
    Recorded,      \* objects that appear in the recordings bucket (batch)
    Staged,        \* objects that appear in the staging bucket (webhook)
    Video,         \* those whose name has a video extension
    Period,        \* hours between two scheduled batch runs (24)
    Drift,         \* the scheduler starts a run at most this late
    Window,        \* hours a batch run looks back (25)
    MaxVideos,     \* bound: copies of an object counted on PeerTube
    MaxFaults      \* bound: failures, outages and crashes

Object == Recorded \cup Staged

ASSUME ObjectAssumption == Recorded \cap Staged = {} /\ Video \subseteq Object
ASSUME ScheduleAssumption ==
    /\ Period \in Nat \ {0} /\ Drift \in Nat /\ Window \in Nat
    /\ Drift < Period
ASSUME BoundAssumption == MaxVideos \in Nat /\ MaxFaults \in Nat

VARIABLES
    stored,        \* objects present in the store
    age,           \* hours since an object was last modified, up to MaxAge
    videos,        \* copies of an object on PeerTube, up to MaxVideos
    events,        \* create events the filer has still to see acknowledged
    handling,      \* events a webhook request is working on
    refused,       \* staged objects whose only upload attempt failed
    phase,         \* hours since the last schedule time that was used
    sinceStart,    \* hours since the last batch run listed the bucket
    batch,         \* "idle" or "running"
    todo,          \* the candidates the running batch has still to ingest
    failed,        \* the candidates of this run that failed
    exit,          \* exit code of the last batch run
    healthy,       \* history: no run was missed, and each one exited with 0
    faults

vars == <<stored, age, videos, events, handling, refused, phase, sinceStart,
          batch, todo, failed, exit, healthy, faults>>

webhookVars == <<events, handling, refused>>
batchVars == <<batch, todo, failed, exit, healthy>>
clockVars == <<phase, sinceStart>>

MaxAge == Window + 1
Later(n, cap) == IF n < cap THEN n + 1 ELSE cap

Init ==
    /\ stored = {}
    /\ age = [o \in Object |-> 0]
    /\ videos = [o \in Object |-> 0]
    /\ events = {}
    /\ handling = {}
    /\ refused = {}
    /\ phase = 0
    /\ sinceStart = 0
    /\ batch = "idle"
    /\ todo = {}
    /\ failed = {}
    /\ exit = 0
    /\ healthy = TRUE
    /\ faults = 0
-----------------------------------------------------------------------------
(* The store and the clock *)

\* LiveKit Egress writes an object; the filer records a create event for the
\* buckets it is configured to notify.
Store(o) ==
    /\ o \notin stored
    /\ stored' = stored \cup {o}
    /\ events' = IF o \in Staged THEN events \cup {o} ELSE events
    /\ UNCHANGED <<age, videos, handling, refused, faults>>
    /\ UNCHANGED <<batchVars, clockVars>>

\* An hour passes; a run that is due starts (or is missed) before the
\* scheduler's drift is exceeded.
Tick ==
    /\ phase < Period + Drift
    /\ age' = [o \in Object |-> IF o \in stored \cap Recorded THEN Later(age[o], MaxAge) ELSE 0]
    /\ phase' = phase + 1
    /\ sinceStart' = Later(sinceStart, MaxAge)
    /\ UNCHANGED <<stored, videos, faults, webhookVars, batchVars>>
-----------------------------------------------------------------------------
(* One object *)

\* A PeerTube upload ends well; or fails with nothing stored; or the response
\* to an accepted upload is lost, which ingest_object() reports as a failure.
Uploaded(o) == videos' = [videos EXCEPT ![o] = Later(@, MaxVideos)]

UploadOutcome(o, ok) ==
    \/ /\ ok
       /\ Uploaded(o)
       /\ UNCHANGED faults
    \/ /\ ~ok
       /\ faults < MaxFaults
       /\ faults' = faults + 1
       /\ Uploaded(o) \/ UNCHANGED videos
-----------------------------------------------------------------------------
(* The batch *)

\* Faulty variant: the window of a run without margin.
RecentUnmargined(o) == age[o] <= Period

\* list_recent_objects(): modified at or after now - Window.  (A run by hand may
\* be given another moment with --since; the scheduled one is not.)
Recent(o) == age[o] <= Window

\* Faulty variant: everything in the bucket.
CandidatesOfAnyAge == stored \cap Recorded \cap Video

\* list_recent_objects(), then filter_video_objects().
Candidates == {o \in stored \cap Recorded : Recent(o)} \cap Video

\* The scheduler starts a run; it lists the bucket and filters the videos.
StartBatch ==
    /\ batch = "idle"
    /\ phase >= Period
    /\ phase' = phase - Period
    /\ sinceStart' = 0
    /\ batch' = "running"
    /\ todo' = Candidates
    /\ failed' = {}
    /\ UNCHANGED <<stored, age, videos, exit, healthy, faults, webhookVars>>

\* The run that is due is never started, or its listing fails, which ends it
\* with a fatal error and exit code 1.
MissBatch ==
    /\ batch = "idle"
    /\ phase >= Period
    /\ faults < MaxFaults
    /\ faults' = faults + 1
    /\ phase' = phase - Period
    /\ exit' \in {exit, 1}
    /\ healthy' = FALSE
    /\ UNCHANGED <<stored, age, videos, sinceStart, batch, todo, failed, webhookVars>>

\* ingest_all(): one candidate after the other; a failure does not stop it.
BatchIngest(o, ok) ==
    /\ o \in todo
    /\ UploadOutcome(o, ok)
    /\ todo' = todo \ {o}
    /\ failed' = IF ok THEN failed ELSE failed \cup {o}
    /\ UNCHANGED <<stored, age, batch, exit, healthy, webhookVars, clockVars>>

\* Faulty variant: main() returns 0 whatever happened to the candidates.
AlwaysZero == 0

\* main(): 1 as soon as one candidate is not uploaded.
ExitCode == IF failed = {} THEN 0 ELSE 1

FinishBatch ==
    /\ batch = "running"
    /\ todo = {}
    /\ batch' = "idle"
    /\ exit' = ExitCode
    /\ healthy' = (healthy /\ ExitCode = 0)
    /\ failed' = {}
    /\ UNCHANGED <<stored, age, videos, todo, faults, webhookVars, clockVars>>

\* The process dies; the upload it was making may have been accepted.
BatchCrash ==
    /\ batch = "running"
    /\ faults < MaxFaults
    /\ faults' = faults + 1
    /\ UNCHANGED videos \/ \E o \in todo : Uploaded(o)
    /\ batch' = "idle"
    /\ todo' = {}
    /\ failed' = {}
    /\ exit' = 1
    /\ healthy' = FALSE
    /\ UNCHANGED <<stored, age, webhookVars, clockVars>>
-----------------------------------------------------------------------------
(* The webhook *)

\* Faulty variant: the answer is sent first and the object ingested afterwards.
AnsweredFirst(o) == events \ {o}

\* The answer waits for ingest_all(): until then the filer holds the event.
HeldWhileIngesting(o) == events

\* The filer posts a create event; a request that is not a video is answered
\* with nothing processed.
Deliver(o) ==
    /\ o \in events \ handling
    /\ IF o \in Video
       THEN handling' = handling \cup {o} /\ events' = HeldWhileIngesting(o)
       ELSE events' = events \ {o} /\ UNCHANGED handling
    /\ UNCHANGED <<stored, age, videos, refused, faults, batchVars, clockVars>>

\* handle_seaweedfs_webhook(): ingests, then answers 200 whether or not the
\* upload succeeded, so the filer drops the event.
WebhookIngest(o, ok) ==
    /\ o \in handling
    /\ UploadOutcome(o, ok)
    /\ handling' = handling \ {o}
    /\ events' = events \ {o}
    /\ refused' = IF ok THEN refused ELSE refused \cup {o}
    /\ UNCHANGED <<stored, age, batchVars, clockVars>>

\* The answer is lost, or the process dies after or before the upload: the
\* filer keeps the event and posts it again.
WebhookCrash(o) ==
    /\ o \in handling
    /\ faults < MaxFaults
    /\ faults' = faults + 1
    /\ Uploaded(o) \/ UNCHANGED videos
    /\ handling' = handling \ {o}
    /\ UNCHANGED <<stored, age, events, refused, batchVars, clockVars>>

Next ==
    \/ \E o \in Object : Store(o)
    \/ Tick
    \/ StartBatch
    \/ MissBatch
    \/ \E o \in Object, ok \in BOOLEAN : BatchIngest(o, ok)
    \/ FinishBatch
    \/ BatchCrash
    \/ \E o \in Object : Deliver(o)
    \/ \E o \in Object, ok \in BOOLEAN : WebhookIngest(o, ok)
    \/ \E o \in Object : WebhookCrash(o)

Spec == Init /\ [][Next]_vars

\* Time passes, the scheduler starts the runs, started work goes on, and the
\* filer keeps posting the events it holds.
FairSpec ==
    /\ Spec
    /\ WF_vars(Tick)
    /\ WF_vars(StartBatch)
    /\ WF_vars(\E o \in Object, ok \in BOOLEAN : BatchIngest(o, ok))
    /\ WF_vars(FinishBatch)
    /\ WF_vars(\E o \in Object : Deliver(o))
    /\ WF_vars(\E o \in Object, ok \in BOOLEAN : WebhookIngest(o, ok))
-----------------------------------------------------------------------------
(* Properties *)

\* Every variable holds a value of its type, and the counters respect their
\* bounds.
TypeOK ==
    /\ stored \subseteq Object
    /\ age \in [Object -> 0..MaxAge]
    /\ videos \in [Object -> 0..MaxVideos]
    /\ events \subseteq Staged /\ events \subseteq stored
    /\ handling \subseteq events
    /\ refused \subseteq Staged
    /\ phase \in 0..(Period + Drift)
    /\ sinceStart \in 0..MaxAge
    /\ batch \in {"idle", "running"}
    /\ todo \subseteq Recorded \cap Video \cap stored
    /\ failed \subseteq Recorded
    /\ batch = "idle" => todo = {} /\ failed = {}
    /\ exit \in {0, 1}
    /\ healthy \in BOOLEAN
    /\ faults \in 0..MaxFaults

\* The object was there when the last run listed the bucket.
BeforeLastRun(o) == o \in stored /\ age[o] > sinceStart

\* The margin covers the scheduler's drift: while every scheduled run takes
\* place and exits with 0, no recording falls between two runs, however late
\* each run starts and whatever the exit code has to account for.
NoCoverageGap ==
    healthy =>
        \A o \in Recorded \cap Video :
            BeforeLastRun(o) => videos[o] > 0 \/ o \in todo \/ o \in failed

\* The overlap of two windows is all that repeats an upload: with nothing
\* failing, a recording is uploaded at most twice, however the runs drift.
AtMostTwice == faults = 0 => \A o \in Recorded : videos[o] <= 2

\* A staged video that is not on PeerTube is still announced by the filer, or
\* its upload failed behind a 200: a crash or a lost answer alone loses none.
StagedNotLost ==
    \A o \in stored \cap Staged \cap Video :
        videos[o] > 0 \/ o \in events \/ o \in refused

\* With failures that stop, every staged video reaches PeerTube unless its
\* upload failed once.
StagedReachesPeertube ==
    \A o \in Staged \cap Video :
        o \in stored ~> videos[o] > 0 \/ o \in refused

\* Seen from the filer, the webhook keeps the promise of a hand-off: an event
\* is dropped only when the video is on PeerTube or its upload has failed,
\* whatever crashes or answers are lost, and batches run, in between.
Handed == stored \cap Staged \cap Video

Filer == INSTANCE Handoff WITH
    Item <- Staged \cap Video, offered <- Handed, held <- events \cap Video,
    done <- {o \in Handed : videos[o] > 0}, spoiled <- refused

WebhookKeepsHold == Filer!Spec
=============================================================================
