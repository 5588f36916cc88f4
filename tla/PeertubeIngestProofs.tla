------------------------ MODULE PeertubeIngestProofs ------------------------
(***************************************************************************)
(* Proofs about PeertubeIngest, for any objects, schedule and number of    *)
(* failures.                                                               *)
(***************************************************************************)
EXTENDS PeertubeIngest, TLAPS

\* A capped counter stays within its cap and never goes back.
LEMMA LaterType ==
    ASSUME NEW cap \in Nat, NEW n \in 0..cap
    PROVE  Later(n, cap) \in 0..cap /\ Later(n, cap) >= n /\ Later(n, cap) <= n + 1
BY DEF Later

\* One more copy of an object is a well-formed count.
LEMMA UploadedType ==
    ASSUME NEW o \in Object, videos \in [Object -> 0..MaxVideos], Uploaded(o)
    PROVE  /\ videos' \in [Object -> 0..MaxVideos]
           /\ \A x \in Object : videos'[x] >= videos[x]
           /\ MaxVideos > 0 => videos'[o] > 0
<1>1. \A x \in Object : videos[x] \in 0..MaxVideos
  OBVIOUS
<1>2. /\ Later(videos[o], MaxVideos) \in 0..MaxVideos
      /\ Later(videos[o], MaxVideos) >= videos[o]
  BY <1>1, LaterType, BoundAssumption
<1>3. MaxVideos > 0 => Later(videos[o], MaxVideos) > 0
  BY <1>1, BoundAssumption DEF Later
<1>4. videos' = [videos EXCEPT ![o] = Later(videos[o], MaxVideos)]
  BY DEF Uploaded
<1>5. videos' \in [Object -> 0..MaxVideos]
  BY <1>2, <1>4
<1>6. \A x \in Object : videos'[x] >= videos[x]
  BY <1>1, <1>2, <1>4
<1>7. QED
  BY <1>3, <1>4, <1>5, <1>6

\* However an upload ends, no copy disappears; a success leaves one.
LEMMA OutcomeType ==
    ASSUME NEW o \in Object, NEW ok \in BOOLEAN,
           videos \in [Object -> 0..MaxVideos], faults \in 0..MaxFaults,
           UploadOutcome(o, ok)
    PROVE  /\ videos' \in [Object -> 0..MaxVideos]
           /\ faults' \in 0..MaxFaults
           /\ \A x \in Object : videos'[x] >= videos[x]
           /\ ok /\ MaxVideos > 0 => videos'[o] > 0
<1>1. faults' \in 0..MaxFaults
  BY BoundAssumption DEF UploadOutcome
<1>2. CASE Uploaded(o)
  BY <1>1, <1>2, UploadedType
<1>3. CASE ~ok /\ UNCHANGED videos
  <2>1. \A x \in Object : videos[x] \in 0..MaxVideos
    OBVIOUS
  <2>2. \A x \in Object : videos[x] >= videos[x]
    BY <2>1, BoundAssumption
  <2>3. QED
    BY <1>1, <1>3, <2>2
<1>4. QED
  BY <1>2, <1>3 DEF UploadOutcome

LEMMA MaxAgeType == MaxAge \in Nat
BY ScheduleAssumption DEF MaxAge

\* Type correctness: the batch only ever holds videos of the recordings
\* bucket, a request only works on an event the filer still holds, and
\* nothing is left over from a run that ended.
THEOREM IngestTypeCorrect == Spec => []TypeOK
<1>1. Init => TypeOK
  BY MaxAgeType, BoundAssumption, ScheduleAssumption DEF Init, TypeOK
<1>2. TypeOK /\ [Next]_vars => TypeOK'
  <2> SUFFICES ASSUME TypeOK, [Next]_vars
               PROVE  TypeOK'
    OBVIOUS
  <2> USE ObjectAssumption DEF TypeOK, Object, batchVars, webhookVars, clockVars
  <2>1. ASSUME NEW o \in Object, Store(o) PROVE TypeOK'
    <3>1. stored' \subseteq Object /\ stored \subseteq stored'
      BY <2>1 DEF Store
    <3>2. events' \subseteq Staged /\ events' \subseteq stored' /\ events \subseteq events'
      BY <2>1 DEF Store
    <3>3. /\ UNCHANGED <<age, videos, handling, refused, faults, phase, sinceStart>>
          /\ UNCHANGED <<batch, todo, failed, exit, healthy>>
      BY <2>1 DEF Store
    <3>4. /\ handling' \subseteq events' /\ todo' \subseteq Recorded \cap Video \cap stored'
          /\ healthy' \in BOOLEAN
      BY <3>1, <3>2, <3>3
    <3>5. QED
      BY <3>1, <3>2, <3>3, <3>4
  <2>2. CASE Tick
    <3>1. age' \in [Object -> 0..MaxAge]
      <4>1. ASSUME NEW o \in Object
            PROVE (IF o \in stored \cap Recorded THEN Later(age[o], MaxAge) ELSE 0) \in 0..MaxAge
        <5>1. age[o] \in 0..MaxAge
          OBVIOUS
        <5>2. Later(age[o], MaxAge) \in 0..MaxAge
          BY <5>1, MaxAgeType, LaterType
        <5>3. QED
          BY <5>2, MaxAgeType
      <4>2. QED
        BY <2>2, <4>1 DEF Tick
    <3>2. sinceStart' \in 0..MaxAge
      BY <2>2, MaxAgeType, LaterType DEF Tick
    <3>3. phase' \in 0..(Period + Drift)
      BY <2>2, ScheduleAssumption DEF Tick
    <3>4. QED
      BY <2>2, <3>1, <3>2, <3>3 DEF Tick
  <2>3. CASE StartBatch
    <3>1. phase' \in 0..(Period + Drift) /\ sinceStart' \in 0..MaxAge
      BY <2>3, ScheduleAssumption, MaxAgeType DEF StartBatch
    <3>2. todo' \subseteq Recorded \cap Video \cap stored
      BY <2>3 DEF StartBatch, Candidates
    <3>3. QED
      BY <2>3, <3>1, <3>2 DEF StartBatch
  <2>4. CASE MissBatch
    <3>1. phase' \in 0..(Period + Drift) /\ faults' \in 0..MaxFaults
      BY <2>4, ScheduleAssumption, BoundAssumption DEF MissBatch
    <3>2. QED
      BY <2>4, <3>1 DEF MissBatch
  <2>5. ASSUME NEW o \in Object, NEW ok \in BOOLEAN, BatchIngest(o, ok)
        PROVE TypeOK'
    <3>1. videos' \in [Object -> 0..MaxVideos] /\ faults' \in 0..MaxFaults
      BY <2>5, OutcomeType DEF BatchIngest
    <3>2. todo' \subseteq todo /\ failed' \subseteq Recorded
      BY <2>5 DEF BatchIngest
    <3>3. batch = "running" /\ batch' = batch
      BY <2>5 DEF BatchIngest
    <3>4. QED
      BY <2>5, <3>1, <3>2, <3>3 DEF BatchIngest
  <2>6. CASE FinishBatch
    BY <2>6 DEF FinishBatch, ExitCode
  <2>7. CASE BatchCrash
    <3>1. faults' \in 0..MaxFaults
      BY <2>7, BoundAssumption DEF BatchCrash
    <3>2. healthy' \in BOOLEAN
      BY <2>7 DEF BatchCrash
    <3>3. videos' \in [Object -> 0..MaxVideos]
      BY <2>7, UploadedType DEF BatchCrash
    <3>4. QED
      BY <2>7, <3>1, <3>2, <3>3 DEF BatchCrash
  <2>8. ASSUME NEW o \in Object, Deliver(o) PROVE TypeOK'
    BY <2>8 DEF Deliver, HeldWhileIngesting
  <2>9. ASSUME NEW o \in Object, NEW ok \in BOOLEAN, WebhookIngest(o, ok)
        PROVE TypeOK'
    <3>1. videos' \in [Object -> 0..MaxVideos] /\ faults' \in 0..MaxFaults
      BY <2>9, OutcomeType DEF WebhookIngest
    <3>2. QED
      BY <2>9, <3>1 DEF WebhookIngest
  <2>10. ASSUME NEW o \in Object, WebhookCrash(o) PROVE TypeOK'
    <3>1. videos' \in [Object -> 0..MaxVideos]
      BY <2>10, UploadedType DEF WebhookCrash
    <3>2. QED
      BY <2>10, <3>1, BoundAssumption DEF WebhookCrash
  <2>11. CASE UNCHANGED vars
    BY <2>11 DEF vars
  <2>12. QED
    BY <2>1, <2>2, <2>3, <2>4, <2>5, <2>6, <2>7, <2>8, <2>9, <2>10, <2>11 DEF Next
<1>3. QED
  BY <1>1, <1>2, PTL DEF Spec
-----------------------------------------------------------------------------
(* The batch leaves no gap *)

\* Nothing is left to do about a recording: it is on PeerTube, or the running
\* batch still has it on its list, or has it among its failures.
Handled(o) == videos[o] > 0 \/ o \in todo \/ o \in failed

\* The inductive invariant: as long as no run was missed, the last one is at
\* most one period and its drift old, so that its window and the next overlap.
CoverageInv ==
    /\ TypeOK
    /\ \A o \in Object \ stored : age[o] = 0
    /\ healthy => sinceStart <= phase
    /\ healthy => \A o \in Recorded \cap Video : BeforeLastRun(o) => Handled(o)

\* A step that takes nothing off the lists of a healthy batch but what it
\* uploads, and lets no time pass, preserves the invariant.
LEMMA HandledKept ==
    ASSUME CoverageInv, TypeOK', UNCHANGED <<stored, age, phase, sinceStart>>,
           healthy' => healthy,
           healthy' => \A o \in Recorded \cap Video : Handled(o) => Handled(o)'
    PROVE  CoverageInv'
BY DEF CoverageInv, BeforeLastRun

\* A new run's list holds every recording that no healthy run handled before.
LEMMA StartCovers ==
    ASSUME CoverageInv, TypeOK', StartBatch, Period + Drift <= Window
    PROVE  CoverageInv'
<1> USE ScheduleAssumption, ObjectAssumption DEF CoverageInv, TypeOK, Object
<1>1. ASSUME healthy, NEW o \in Recorded \cap Video, BeforeLastRun(o)'
      PROVE  Handled(o)'
  <2>1. o \in stored /\ age[o] \in 0..MaxAge /\ videos' = videos
    BY <1>1 DEF StartBatch, BeforeLastRun
  <2>2. CASE age[o] <= sinceStart
    <3>1. age[o] <= Window
      BY <1>1, <2>1, <2>2, MaxAgeType
    <3>2. o \in todo'
      BY <1>1, <2>1, <3>1 DEF StartBatch, Candidates, Recent
    <3>3. QED
      BY <3>2 DEF Handled
  <2>3. CASE age[o] > sinceStart
    <3>1. Handled(o)
      BY <1>1, <2>1, <2>3 DEF BeforeLastRun
    <3>2. o \notin todo /\ o \notin failed
      BY DEF StartBatch
    <3>3. QED
      BY <2>1, <3>1, <3>2 DEF Handled
  <2>4. QED
    BY <1>1, <2>1, <2>2, <2>3, MaxAgeType
<1>2. healthy' = healthy /\ sinceStart' = 0 /\ phase' \in Nat
  BY DEF StartBatch
<1>3. stored' = stored /\ age' = age
  BY DEF StartBatch
<1>4. healthy' => sinceStart' <= phase'
  BY <1>2
<1>5. \A o \in Object \ stored' : age'[o] = 0
  BY <1>3
<1>6. healthy' => \A o \in Recorded \cap Video : BeforeLastRun(o)' => Handled(o)'
  BY <1>1, <1>2
<1>7. QED
  BY <1>4, <1>5, <1>6

\* Time does not bring an object before a run that had not seen it.
LEMMA TickCovers ==
    ASSUME CoverageInv, TypeOK', Tick
    PROVE  CoverageInv'
<1> USE ScheduleAssumption, ObjectAssumption DEF CoverageInv, TypeOK, Object
<1>1. /\ stored' = stored /\ videos' = videos /\ todo' = todo
      /\ failed' = failed /\ healthy' = healthy
  BY DEF Tick, batchVars
<1>2. sinceStart' = Later(sinceStart, MaxAge) /\ phase' = phase + 1
  BY DEF Tick
<1>3. ASSUME NEW o \in Object
      PROVE  age'[o] = IF o \in stored \cap Recorded THEN Later(age[o], MaxAge) ELSE 0
  BY <1>3 DEF Tick
<1>4. healthy' => sinceStart' <= phase'
  BY <1>1, <1>2, MaxAgeType, LaterType
<1>5. \A o \in Object \ stored' : age'[o] = 0
  BY <1>1, <1>3
<1>6. ASSUME healthy', NEW o \in Recorded \cap Video, BeforeLastRun(o)'
      PROVE  Handled(o)'
  <2>1. o \in stored /\ age'[o] = Later(age[o], MaxAge) /\ age'[o] > sinceStart'
    BY <1>1, <1>3, <1>6 DEF BeforeLastRun
  <2>2. age[o] \in 0..MaxAge /\ sinceStart \in 0..MaxAge
    OBVIOUS
  <2>3. age[o] > sinceStart
    BY <1>2, <2>1, <2>2, MaxAgeType DEF Later
  <2>4. Handled(o)
    BY <1>1, <1>6, <2>1, <2>3 DEF BeforeLastRun
  <2>5. QED
    BY <1>1, <2>4 DEF Handled
<1>7. QED
  BY <1>4, <1>5, <1>6

\* While every run takes place and exits with 0, no recording falls between
\* two runs, provided the window is as long as a period and its drift.
THEOREM CoverageSafety ==
    ASSUME Period + Drift <= Window, MaxVideos > 0
    PROVE  Spec => []NoCoverageGap
<1>1. Init => CoverageInv
  <2> SUFFICES ASSUME Init PROVE CoverageInv
    OBVIOUS
  <2>1. TypeOK
    BY MaxAgeType, BoundAssumption, ScheduleAssumption DEF Init, TypeOK
  <2>2. QED
    BY <2>1 DEF Init, CoverageInv, BeforeLastRun
<1>2. CoverageInv /\ TypeOK' /\ [Next]_vars => CoverageInv'
  <2> SUFFICES ASSUME CoverageInv, TypeOK', [Next]_vars
               PROVE  CoverageInv'
    OBVIOUS
  <2>0. TypeOK
    BY DEF CoverageInv
  <2> USE ObjectAssumption DEF batchVars, webhookVars, clockVars, Object
  <2>1. ASSUME NEW o \in Object, Store(o) PROVE CoverageInv'
    BY <2>0, <2>1, ScheduleAssumption, MaxAgeType
       DEF Store, CoverageInv, TypeOK, BeforeLastRun, Handled
  <2>2. CASE Tick
    BY <2>2, TickCovers
  <2>3. CASE StartBatch
    BY <2>3, StartCovers
  <2>4. CASE MissBatch
    BY <2>4 DEF MissBatch, CoverageInv
  <2>5. ASSUME NEW o \in Object, NEW ok \in BOOLEAN, BatchIngest(o, ok)
        PROVE CoverageInv'
    <3>1. /\ \A x \in Object : videos'[x] >= videos[x]
          /\ ok => videos'[o] > 0
          /\ videos' \in [Object -> 0..MaxVideos]
      BY <2>0, <2>5, OutcomeType DEF BatchIngest, TypeOK
    <3>2. \A x \in Recorded \cap Video : Handled(x) => Handled(x)'
      BY <2>0, <2>5, <3>1, BoundAssumption DEF BatchIngest, Handled, TypeOK
    <3>3. QED
      BY <2>5, <3>2, HandledKept DEF BatchIngest
  <2>6. CASE FinishBatch
    <3>0. ExitCode = 0 => failed = {}
      BY DEF ExitCode
    <3>1. healthy' => healthy /\ failed = {}
      BY <2>6, <3>0, Zenon DEF FinishBatch
    <3>2. healthy' => \A x \in Recorded \cap Video : Handled(x) => Handled(x)'
      BY <2>6, <3>1 DEF FinishBatch, Handled
    <3>3. QED
      BY <2>6, <3>1, <3>2, HandledKept DEF FinishBatch
  <2>7. CASE BatchCrash
    BY <2>7 DEF BatchCrash, CoverageInv
  <2>8. ASSUME NEW o \in Object, Deliver(o) PROVE CoverageInv'
    BY <2>8, HandledKept DEF Deliver, Handled
  <2>9. ASSUME NEW o \in Object, NEW ok \in BOOLEAN, WebhookIngest(o, ok)
        PROVE CoverageInv'
    <3>1. /\ \A x \in Object : videos'[x] >= videos[x]
          /\ videos' \in [Object -> 0..MaxVideos]
      BY <2>0, <2>9, OutcomeType DEF WebhookIngest, TypeOK
    <3>2. \A x \in Recorded \cap Video : Handled(x) => Handled(x)'
      BY <2>0, <2>9, <3>1, BoundAssumption DEF WebhookIngest, Handled, TypeOK
    <3>3. QED
      BY <2>9, <3>2, HandledKept DEF WebhookIngest
  <2>10. ASSUME NEW o \in Object, WebhookCrash(o) PROVE CoverageInv'
    <3>1. \A x \in Object : videos'[x] >= videos[x]
      <4>1. CASE Uploaded(o)
        BY <2>0, <4>1, UploadedType DEF TypeOK
      <4>2. CASE UNCHANGED videos
        BY <2>0, <4>2, BoundAssumption DEF TypeOK
      <4>3. QED
        BY <2>10, <4>1, <4>2 DEF WebhookCrash
    <3>2. \A x \in Recorded \cap Video : Handled(x) => Handled(x)'
      BY <2>0, <2>10, <3>1, BoundAssumption DEF WebhookCrash, Handled, TypeOK, CoverageInv
    <3>3. QED
      BY <2>10, <3>2, HandledKept DEF WebhookCrash
  <2>11. CASE UNCHANGED vars
    BY <2>11, HandledKept DEF vars, Handled
  <2>12. QED
    BY <2>1, <2>2, <2>3, <2>4, <2>5, <2>6, <2>7, <2>8, <2>9, <2>10, <2>11 DEF Next
<1>3. CoverageInv => NoCoverageGap
  BY DEF CoverageInv, NoCoverageGap, Handled
<1>4. QED
  BY <1>1, <1>2, <1>3, IngestTypeCorrect, PTL DEF Spec
-----------------------------------------------------------------------------
(* The webhook hands off *)

\* What the webhook works on are staged videos of the store, and nothing is on
\* PeerTube that the store never had.
HoldInv ==
    /\ TypeOK
    /\ handling \subseteq Video
    /\ refused \subseteq Handed
    /\ \A o \in Object \ stored : videos[o] = 0
    /\ StagedNotLost

\* Uploading a stored object concerns no other one.
LEMMA UploadsStored ==
    ASSUME NEW o \in stored, NEW ok \in BOOLEAN, videos \in [Object -> 0..MaxVideos],
           stored \subseteq Object,
           UploadOutcome(o, ok) \/ Uploaded(o) \/ UNCHANGED videos
    PROVE  \A x \in Object : x # o => videos'[x] = videos[x]
BY DEF UploadOutcome, Uploaded

\* The webhook's own steps and the store's keep its invariant.
LEMMA WebhookHolds ==
    ASSUME HoldInv, TypeOK', MaxVideos > 0, NEW o \in Object,
           \/ Store(o)
           \/ Deliver(o)
           \/ \E ok \in BOOLEAN : WebhookIngest(o, ok)
           \/ WebhookCrash(o)
    PROVE  HoldInv'
<1> USE ObjectAssumption DEF Object
<1>1. TypeOK /\ handling \subseteq Staged /\ handling \subseteq stored
  BY DEF HoldInv, TypeOK
<1>2. CASE Store(o)
  BY <1>2 DEF HoldInv, Store, Handed, StagedNotLost
<1>3. CASE Deliver(o)
  BY <1>3 DEF HoldInv, Deliver, HeldWhileIngesting, Handed, StagedNotLost
<1>4. ASSUME NEW ok \in BOOLEAN, WebhookIngest(o, ok) PROVE HoldInv'
  <2>1. o \in handling /\ o \in stored /\ o \in Staged /\ o \in Video
    BY <1>1, <1>4 DEF WebhookIngest, HoldInv
  <2>2. /\ \A x \in Object : videos'[x] >= videos[x]
        /\ ok => videos'[o] > 0
        /\ videos' \in [Object -> 0..MaxVideos]
    BY <1>1, <1>4, OutcomeType DEF WebhookIngest, TypeOK
  <2>3. \A x \in Object : x # o => videos'[x] = videos[x]
    BY <1>1, <1>4, <2>1, UploadsStored DEF WebhookIngest, TypeOK
  <2>4. /\ stored' = stored /\ handling' = handling \ {o} /\ events' = events \ {o}
        /\ refused' = IF ok THEN refused ELSE refused \cup {o}
    BY <1>4 DEF WebhookIngest
  <2>5. handling' \subseteq Video /\ refused' \subseteq Handed'
    BY <2>1, <2>4 DEF HoldInv, Handed
  <2>6. \A x \in Object \ stored' : videos'[x] = 0
    BY <2>1, <2>3, <2>4 DEF HoldInv
  <2>7. StagedNotLost'
    BY <2>1, <2>2, <2>3, <2>4 DEF HoldInv, StagedNotLost
  <2>8. QED
    BY <2>5, <2>6, <2>7 DEF HoldInv
<1>5. CASE WebhookCrash(o)
  <2>1. o \in handling /\ o \in stored
    BY <1>1, <1>5 DEF WebhookCrash
  <2>2. \A x \in Object : x # o => videos'[x] = videos[x]
    BY <1>1, <1>5, <2>1, UploadsStored DEF WebhookCrash, TypeOK
  <2>3. /\ stored' = stored /\ handling' = handling \ {o} /\ events' = events
        /\ refused' = refused
    BY <1>5 DEF WebhookCrash
  <2>4. o \in events
    BY <1>1, <2>1 DEF TypeOK
  <2>5. StagedNotLost'
    BY <2>2, <2>3, <2>4 DEF HoldInv, StagedNotLost
  <2>6. QED
    BY <2>1, <2>2, <2>3, <2>5 DEF HoldInv, Handed
<1>6. QED
  BY <1>2, <1>3, <1>4, <1>5

\* Time and the batch touch neither the filer's events nor a staged video.
BatchStep ==
    \/ Tick \/ StartBatch \/ MissBatch \/ FinishBatch \/ BatchCrash
    \/ \E o \in Object, ok \in BOOLEAN : BatchIngest(o, ok)

LEMMA BatchAside ==
    ASSUME TypeOK, BatchStep
    PROVE  /\ UNCHANGED <<stored, webhookVars>>
           /\ \A x \in Staged \cup (Object \ stored) : videos'[x] = videos[x]
<1> USE ObjectAssumption DEF Object
<1>1. UNCHANGED <<stored, webhookVars>>
  BY DEF BatchStep, Tick, StartBatch, MissBatch, FinishBatch, BatchCrash, BatchIngest
<1>2. \/ UNCHANGED videos
      \/ \E o \in todo : Uploaded(o)
      \/ \E o \in todo, ok \in BOOLEAN : UploadOutcome(o, ok)
  BY DEF BatchStep, Tick, StartBatch, MissBatch, FinishBatch, BatchCrash, BatchIngest
<1>3. todo \subseteq Recorded /\ todo \subseteq stored
  BY DEF TypeOK
<1>4. ASSUME NEW o \in todo, NEW ok \in BOOLEAN, UploadOutcome(o, ok) \/ Uploaded(o)
      PROVE  \A x \in Staged \cup (Object \ stored) : videos'[x] = videos[x]
  <2>1. \A x \in Object : x # o => videos'[x] = videos[x]
    BY <1>3, <1>4, UploadsStored DEF TypeOK
  <2>2. QED
    BY <1>3, <2>1
<1>5. \A x \in Staged \cup (Object \ stored) : videos'[x] = videos[x]
  BY <1>2, <1>4
<1>6. QED
  BY <1>1, <1>5

\* The webhook's invariant is kept by every step.
LEMMA HoldInvariant ==
    ASSUME MaxVideos > 0
    PROVE  Spec => []HoldInv
<1>1. ASSUME Init, TypeOK PROVE HoldInv
  BY <1>1 DEF Init, HoldInv, Handed, StagedNotLost
<1>2. ASSUME HoldInv, TypeOK', [Next]_vars PROVE HoldInv'
  <2>1. CASE \E o \in Object : \/ Store(o) \/ Deliver(o) \/ WebhookCrash(o)
                               \/ \E ok \in BOOLEAN : WebhookIngest(o, ok)
    BY <1>2, <2>1, WebhookHolds
  <2>2. CASE BatchStep
    <3>1. TypeOK
      BY <1>2 DEF HoldInv
    <3>2. /\ UNCHANGED <<stored, webhookVars>>
          /\ \A x \in Staged \cup (Object \ stored) : videos'[x] = videos[x]
      BY <2>2, <3>1, BatchAside
    <3>3. StagedNotLost' /\ \A o \in Object \ stored' : videos'[o] = 0
      BY <1>2, <3>2, ObjectAssumption DEF HoldInv, StagedNotLost, webhookVars
    <3>4. QED
      BY <1>2, <3>2, <3>3 DEF HoldInv, Handed, webhookVars
  <2>3. CASE UNCHANGED vars
    BY <1>2, <2>3 DEF vars, HoldInv, Handed, StagedNotLost
  <2>4. QED
    BY <1>2, <2>1, <2>2, <2>3 DEF Next, BatchStep
<1>3. QED
  BY <1>1, <1>2, IngestTypeCorrect, PTL DEF Spec

\* For any objects, faults and schedule: a staged video that is not on PeerTube
\* is still announced, or its upload has failed.
THEOREM StagedSafety ==
    ASSUME MaxVideos > 0
    PROVE  Spec => []StagedNotLost
<1>1. HoldInv => StagedNotLost
  BY DEF HoldInv
<1>2. QED
  BY <1>1, HoldInvariant, PTL

OnPeertube == {o \in Handed : videos[o] > 0}
Announced == events \cap Video

\* A step of the store or the webhook is an offer, work, or nothing to a filer.
LEMMA WebhookStepHandsOff ==
    ASSUME HoldInv, HoldInv', MaxVideos > 0, NEW o \in Object,
           \/ Store(o)
           \/ Deliver(o)
           \/ \E ok \in BOOLEAN : WebhookIngest(o, ok)
           \/ WebhookCrash(o)
    PROVE  [Filer!Offer \/ Filer!Work]_<<Handed, Announced, OnPeertube, refused>>
<1> USE ObjectAssumption DEF Object
<1>1. TypeOK /\ handling \subseteq Staged \cap Video /\ handling \subseteq stored
  BY DEF HoldInv, TypeOK
<1>2. CASE Store(o)
  <2> DEFINE new == {o} \cap Staged \cap Video
  <2>1. o \notin stored /\ videos[o] = 0 /\ UNCHANGED <<videos, refused>>
    BY <1>2 DEF Store, HoldInv
  <2>2. Handed' = Handed \cup new /\ new \in SUBSET ((Staged \cap Video) \ Handed)
    BY <1>2, <2>1 DEF Store, Handed
  <2>3. Announced' = Announced \cup new
    BY <1>2 DEF Store, Announced
  <2>4. OnPeertube' = OnPeertube
    BY <2>1, <2>2 DEF OnPeertube
  <2>5. Filer!Offer
    BY <2>1, <2>2, <2>3, <2>4 DEF Filer!Offer, Announced, OnPeertube
  <2>6. QED
    BY <2>5
<1>3. CASE Deliver(o)
  <2>1. UNCHANGED <<stored, videos, refused>>
    BY <1>3 DEF Deliver
  <2>2. Announced' = Announced
    BY <1>3 DEF Deliver, HeldWhileIngesting, Announced
  <2>3. QED
    BY <2>1, <2>2 DEF Handed, OnPeertube
<1>4. CASE WebhookCrash(o) \/ \E ok \in BOOLEAN : WebhookIngest(o, ok)
  <2>1. o \in handling /\ o \in stored /\ o \in Staged /\ o \in Video
    BY <1>1, <1>4 DEF WebhookCrash, WebhookIngest
  <2>2. /\ \A x \in Object : videos'[x] >= videos[x]
        /\ videos' \in [Object -> 0..MaxVideos]
    <3>1. CASE WebhookCrash(o)
      <4>1. CASE Uploaded(o)
        BY <1>1, <4>1, UploadedType DEF TypeOK
      <4>2. CASE UNCHANGED videos
        BY <1>1, <4>2, BoundAssumption DEF TypeOK
      <4>3. QED
        BY <3>1, <4>1, <4>2 DEF WebhookCrash
    <3>2. ASSUME NEW ok \in BOOLEAN, WebhookIngest(o, ok)
          PROVE  /\ \A x \in Object : videos'[x] >= videos[x]
                 /\ videos' \in [Object -> 0..MaxVideos]
      BY <1>1, <3>2, OutcomeType DEF WebhookIngest, TypeOK
    <3>3. QED
      BY <1>4, <3>1, <3>2
  <2>3. /\ stored' = stored /\ events' \subseteq events
        /\ refused \subseteq refused'
    BY <1>4 DEF WebhookCrash, WebhookIngest
  <2>4. Handed' = Handed /\ Announced' \in SUBSET Announced /\ refused' \in SUBSET Handed
    BY <2>3 DEF Handed, Announced, HoldInv
  <2>5. OnPeertube' \in SUBSET Handed /\ OnPeertube \subseteq OnPeertube'
    <3>1. ASSUME NEW x \in Handed, videos[x] > 0 PROVE videos'[x] > 0
      <4>1. x \in Object /\ videos[x] \in Nat /\ videos'[x] \in Nat
        BY <1>1, <2>2 DEF TypeOK, Handed
      <4>2. QED
        BY <2>2, <3>1, <4>1
    <3>2. QED
      BY <2>4, <3>1 DEF OnPeertube
  <2>6. Announced \ Announced' \subseteq OnPeertube' \cup refused'
    BY <1>1, <2>3, <2>4 DEF HoldInv, TypeOK, StagedNotLost, Announced, OnPeertube, Handed
  <2>7. Filer!Work
    BY <2>3, <2>4, <2>5, <2>6 DEF Filer!Work, Announced, OnPeertube
  <2>8. QED
    BY <2>7
<1>5. QED
  BY <1>2, <1>3, <1>4

\* The webhook implements a hand-off, for any objects, faults and schedule of
\* the batch that runs beside it.
THEOREM WebhookHandsOff ==
    ASSUME MaxVideos > 0
    PROVE  Spec => WebhookKeepsHold
<1>1. Init => Filer!Init
  BY DEF Init, Filer!Init, Handed
<1>2. ASSUME HoldInv, HoldInv', [Next]_vars
      PROVE  [Filer!Offer \/ Filer!Work]_<<Handed, Announced, OnPeertube, refused>>
  <2>1. CASE \E o \in Object : \/ Store(o) \/ Deliver(o) \/ WebhookCrash(o)
                               \/ \E ok \in BOOLEAN : WebhookIngest(o, ok)
    BY <1>2, <2>1, WebhookStepHandsOff
  <2>2. CASE BatchStep
    <3>1. TypeOK
      BY <1>2 DEF HoldInv
    <3>2. /\ UNCHANGED <<stored, webhookVars>>
          /\ \A x \in Staged \cup (Object \ stored) : videos'[x] = videos[x]
      BY <2>2, <3>1, BatchAside
    <3>3. Handed' = Handed /\ Announced' = Announced /\ refused' = refused
      BY <3>2 DEF Handed, Announced, webhookVars
    <3>4. OnPeertube' = OnPeertube
      BY <3>2, <3>3 DEF OnPeertube, Handed
    <3>5. QED
      BY <3>3, <3>4
  <2>3. CASE UNCHANGED vars
    BY <2>3 DEF vars, Handed, Announced, OnPeertube
  <2>4. QED
    BY <1>2, <2>1, <2>2, <2>3 DEF Next, BatchStep
<1>3. Spec => [][Filer!Offer \/ Filer!Work]_<<Handed, Announced, OnPeertube, refused>>
  BY <1>2, HoldInvariant, PTL DEF Spec
<1>4. QED
  BY <1>1, <1>3, PTL DEF Spec, WebhookKeepsHold, Filer!Spec, Announced, OnPeertube
-----------------------------------------------------------------------------
(* Two uploads at most *)

\* The runs that took a recording: those that uploaded it, and the one that has
\* it on its list.
Takes(o) == videos[o] + (IF o \in todo THEN 1 ELSE 0)

\* An age that is too great for the next run, or at least a reference time
\* less the drift.
OldAs(o, t) == age[o] > Window \/ age[o] + Drift >= t

\* A recording that was taken once is as old as the schedule time that run
\* used; one that was taken twice is a period older.
TakenInv(o) ==
    /\ Takes(o) <= 2
    /\ Takes(o) >= 1 => o \in stored \cap Video /\ OldAs(o, phase)
    /\ Takes(o) >= 2 => OldAs(o, Period + phase)

TwiceInv == faults = 0 => \A o \in Recorded : TakenInv(o)

\* A step that takes nothing and lets no time pass keeps the invariant.
LEMMA TakenKept ==
    ASSUME TypeOK, TypeOK', TwiceInv, UNCHANGED <<age, phase>>, stored \subseteq stored',
           faults' = 0 => faults = 0,
           faults' = 0 => \A o \in Recorded : Takes(o)' <= Takes(o)
    PROVE  TwiceInv'
<1> SUFFICES ASSUME faults' = 0, NEW o \in Recorded
             PROVE  TakenInv(o)'
  BY DEF TwiceInv
<1>1. TakenInv(o) /\ Takes(o)' <= Takes(o)
  BY DEF TwiceInv
<1>2. PICK n \in Nat : Takes(o) = n
  BY ObjectAssumption, BoundAssumption DEF Takes, TypeOK, Object
<1>3. PICK m \in Nat : Takes(o)' = m
  BY ObjectAssumption, BoundAssumption DEF Takes, TypeOK, Object
<1>4. OldAs(o, phase)' = OldAs(o, phase) /\ OldAs(o, Period + phase)' = OldAs(o, Period + phase)
  BY DEF OldAs
<1>5. QED
  BY <1>1, <1>2, <1>3, <1>4 DEF TakenInv

\* A run only takes what is young enough, and so nothing for the third time.
LEMMA StartTakes ==
    ASSUME TypeOK, TwiceInv, StartBatch, Window < 2 * Period - Drift
    PROVE  TwiceInv'
<1> USE ScheduleAssumption, ObjectAssumption, BoundAssumption DEF Object
<1> SUFFICES ASSUME faults = 0, NEW o \in Recorded
             PROVE  TakenInv(o)'
  BY DEF TwiceInv, StartBatch
<1>1. /\ UNCHANGED <<stored, age, videos>> /\ todo' = Candidates /\ o \notin todo
      /\ phase' = phase - Period /\ phase >= Period
  BY DEF StartBatch, TypeOK
<1>2. /\ age[o] \in Nat /\ videos[o] \in Nat /\ phase \in Nat /\ phase <= Period + Drift
  BY MaxAgeType DEF TypeOK
<1>3. PICK v \in Nat, a \in Nat, f \in Nat :
          v = videos[o] /\ a = age[o] /\ f = phase /\ f <= Period + Drift /\ f >= Period
  BY <1>1, <1>2
<1>4. /\ v <= 2
      /\ v >= 1 => o \in stored \cap Video /\ (a > Window \/ a + Drift >= f)
      /\ v >= 2 => a > Window \/ a + Drift >= Period + f
  <2>1. TakenInv(o) /\ Takes(o) = v
    BY <1>1, <1>3 DEF TwiceInv, Takes
  <2>2. QED
    BY <1>3, <2>1 DEF TakenInv, OldAs
<1>5. CASE o \in Candidates
  <2>1. a <= Window /\ o \in stored \cap Video
    BY <1>3, <1>5 DEF Candidates, Recent
  <2>2. ~(v >= 2)
    BY <1>3, <1>4, <2>1
  <2>3. Takes(o)' = v + 1
    BY <1>1, <1>3, <1>5 DEF Takes
  <2>4. a + Drift >= f - Period
    BY <1>3
  <2>5. v >= 1 => a + Drift >= Period + (f - Period)
    BY <1>3, <1>4, <2>1
  <2>6. OldAs(o, phase)' /\ (v >= 1 => OldAs(o, Period + phase)')
    BY <1>1, <1>3, <2>4, <2>5 DEF OldAs
  <2>7. v + 1 <= 2 /\ (v + 1 >= 2 => v >= 1)
    BY <2>2
  <2>8. QED
    BY <1>1, <2>1, <2>3, <2>6, <2>7 DEF TakenInv
<1>6. CASE o \notin Candidates
  <2>1. Takes(o)' = v
    BY <1>1, <1>3, <1>6 DEF Takes
  <2>2. v >= 1 => a > Window
    BY <1>3, <1>4, <1>6 DEF Candidates, Recent
  <2>3. v >= 1 => OldAs(o, phase)' /\ OldAs(o, Period + phase)'
    BY <1>1, <1>3, <2>2 DEF OldAs
  <2>4. v >= 2 => v >= 1
    OBVIOUS
  <2>5. QED
    BY <1>1, <1>4, <2>1, <2>3, <2>4 DEF TakenInv
<1>7. QED
  BY <1>5, <1>6

\* Recordings grow older as fast as the schedule time does.
LEMMA TickTakes ==
    ASSUME TypeOK, TwiceInv, Tick
    PROVE  TwiceInv'
<1> USE ScheduleAssumption, ObjectAssumption, BoundAssumption DEF Object
<1> SUFFICES ASSUME faults = 0, NEW o \in Recorded
             PROVE  TakenInv(o)'
  BY DEF TwiceInv, Tick
<1>1. /\ UNCHANGED <<stored, videos, todo>> /\ phase' = phase + 1
      /\ age' = [x \in Object |-> IF x \in stored \cap Recorded
                                  THEN Later(age[x], MaxAge) ELSE 0]
  BY DEF Tick, batchVars
<1>2. PICK n \in Nat : Takes(o) = n
  BY DEF Takes, TypeOK
<1>3. Takes(o)' = n
  BY <1>1, <1>2 DEF Takes
<1>4. TakenInv(o)
  BY DEF TwiceInv
<1>5. ASSUME o \in stored, NEW t \in Nat, OldAs(o, t)
      PROVE  age'[o] > Window \/ age'[o] + Drift >= t + 1
  <2>1. PICK a \in Nat : a = age[o] /\ a <= MaxAge
    BY MaxAgeType DEF TypeOK
  <2>2. age'[o] = Later(a, MaxAge)
    BY <1>1, <1>5, <2>1
  <2>3. QED
    BY <1>5, <2>1, <2>2 DEF OldAs, Later, MaxAge
<1>6. phase \in Nat
  BY DEF TypeOK
<1>7. n >= 1 => o \in stored \cap Video /\ OldAs(o, phase)'
  BY <1>1, <1>2, <1>4, <1>5, <1>6 DEF TakenInv, OldAs
<1>8. n >= 2 => OldAs(o, Period + phase)'
  <2>1. n >= 2 => OldAs(o, Period + phase) /\ o \in stored
    BY <1>2, <1>4 DEF TakenInv
  <2>2. Period + phase \in Nat /\ Period + phase + 1 = Period + (phase + 1)
    BY <1>6
  <2>3. QED
    BY <1>1, <1>5, <2>1, <2>2 DEF OldAs
<1>9. QED
  BY <1>1, <1>2, <1>3, <1>4, <1>7, <1>8 DEF TakenInv

\* An upload that succeeds makes a copy of what was on the list.
LEMMA IngestTakes ==
    ASSUME TypeOK, TypeOK', TwiceInv, NEW o \in Object, NEW ok \in BOOLEAN,
           BatchIngest(o, ok)
    PROVE  TwiceInv'
<1> USE ObjectAssumption, BoundAssumption DEF Object
<1>1. UNCHANGED <<age, phase, stored>> /\ o \in todo /\ todo' = todo \ {o}
  BY DEF BatchIngest, clockVars
<1>2. CASE ok
  <2>1. faults' = faults /\ videos' = [videos EXCEPT ![o] = Later(videos[o], MaxVideos)]
    BY <1>2 DEF BatchIngest, UploadOutcome, Uploaded
  <2>2. ASSUME NEW x \in Recorded PROVE Takes(x)' <= Takes(x)
    <3>1. PICK v \in Nat : v = videos[x]
      BY DEF TypeOK
    <3>2. CASE x = o
      <4>1. Later(v, MaxVideos) \in Nat /\ Later(v, MaxVideos) <= v + 1
        <5>1. v \in 0..MaxVideos
          BY <3>1 DEF TypeOK
        <5>2. QED
          BY <5>1, LaterType
      <4>2. Takes(x) = v + 1
        BY <1>1, <3>1, <3>2 DEF Takes
      <4>3. Takes(x)' = Later(v, MaxVideos) + 0
        BY <1>1, <2>1, <3>1, <3>2 DEF Takes, TypeOK
      <4>4. QED
        BY <3>1, <4>1, <4>2, <4>3
    <3>3. CASE x # o
      <4>1. Takes(x)' = Takes(x)
        BY <1>1, <2>1, <3>3 DEF Takes, TypeOK
      <4>2. Takes(x) \in Nat
        BY <3>1 DEF Takes
      <4>3. QED
        BY <4>1, <4>2
    <3>4. QED
      BY <3>2, <3>3
  <2>3. QED
    BY <1>1, <2>1, <2>2, TakenKept
<1>3. CASE ~ok
  <2>1. faults' = faults + 1 /\ faults \in Nat
    BY <1>3 DEF BatchIngest, UploadOutcome, TypeOK
  <2>2. faults' # 0
    BY <2>1
  <2>3. QED
    BY <2>2 DEF TwiceInv
<1>4. QED
  BY <1>2, <1>3

\* The webhook uploads nothing that the batch takes.
LEMMA WebhookTakesNothing ==
    ASSUME TypeOK, TypeOK', TwiceInv, NEW o \in Object,
           \/ Store(o)
           \/ Deliver(o)
           \/ \E ok \in BOOLEAN : WebhookIngest(o, ok)
           \/ WebhookCrash(o)
    PROVE  TwiceInv'
<1> USE ObjectAssumption, BoundAssumption DEF Object
<1>1. UNCHANGED <<age, phase, todo>> /\ stored \subseteq stored'
  BY DEF Store, Deliver, WebhookIngest, WebhookCrash, clockVars, batchVars
<1>2. \A x \in Recorded : videos'[x] = videos[x]
  <2>1. CASE UNCHANGED videos
    BY <2>1
  <2>2. CASE ~UNCHANGED videos
    <3>1. o \in handling
      BY <2>2 DEF Store, Deliver, WebhookIngest, WebhookCrash
    <3>2. o \in Staged /\ o \in stored
      BY <3>1 DEF TypeOK
    <3>3. \A x \in Object : x # o => videos'[x] = videos[x]
      BY <2>2, <3>2, UploadsStored DEF Store, Deliver, WebhookIngest, WebhookCrash, TypeOK
    <3>4. QED
      BY <3>2, <3>3
  <2>3. QED
    BY <2>1, <2>2
<1>3. \A x \in Recorded : Takes(x) \in Nat /\ Takes(x)' = Takes(x)
  BY <1>1, <1>2 DEF Takes, TypeOK
<1>4. faults \in Nat /\ (faults' = faults \/ faults' = faults + 1)
  BY DEF TypeOK, Store, Deliver, WebhookIngest, WebhookCrash, UploadOutcome
<1>5. faults' = 0 => faults = 0
  BY <1>4
<1>6. \A x \in Recorded : Takes(x)' <= Takes(x)
  BY <1>3
<1>7. QED
  BY <1>1, <1>5, <1>6, TakenKept

\* With nothing failing, no recording is uploaded more than twice, for any
\* schedule whose window does not reach back to a third run.
THEOREM TwiceSafety ==
    ASSUME Window < 2 * Period - Drift
    PROVE  Spec => []AtMostTwice
<1> USE ObjectAssumption, BoundAssumption DEF Object
<1>1. ASSUME Init PROVE TwiceInv
  <2>1. \A o \in Recorded : Takes(o) = 0
    BY <1>1 DEF Init, Takes
  <2>2. QED
    BY <2>1 DEF TwiceInv, TakenInv
<1>2. ASSUME TypeOK, TypeOK', TwiceInv, [Next]_vars PROVE TwiceInv'
  <2>1. CASE \E o \in Object : \/ Store(o) \/ Deliver(o) \/ WebhookCrash(o)
                               \/ \E ok \in BOOLEAN : WebhookIngest(o, ok)
    BY <1>2, <2>1, WebhookTakesNothing
  <2>2. CASE Tick
    BY <1>2, <2>2, TickTakes
  <2>3. CASE StartBatch
    BY <1>2, <2>3, StartTakes
  <2>4. CASE \E o \in Object, ok \in BOOLEAN : BatchIngest(o, ok)
    BY <1>2, <2>4, IngestTakes
  <2>5. CASE MissBatch \/ BatchCrash
    <3>1. faults' = faults + 1 /\ faults \in Nat
      BY <1>2, <2>5 DEF MissBatch, BatchCrash, TypeOK
    <3>2. faults' # 0
      BY <3>1
    <3>3. QED
      BY <3>2 DEF TwiceInv
  <2>6. CASE FinishBatch \/ UNCHANGED vars
    <3>1. UNCHANGED <<stored, age, phase, videos, todo, faults>>
      BY <2>6 DEF FinishBatch, vars, clockVars
    <3>2. \A x \in Recorded : Takes(x) \in Nat /\ Takes(x)' = Takes(x)
      BY <1>2, <3>1 DEF Takes, TypeOK
    <3>3. \A x \in Recorded : Takes(x)' <= Takes(x)
      BY <3>2
    <3>4. QED
      BY <1>2, <3>1, <3>3, TakenKept
  <2>7. QED
    BY <1>2, <2>1, <2>2, <2>3, <2>4, <2>5, <2>6 DEF Next
<1>3. ASSUME TypeOK, TwiceInv PROVE AtMostTwice
  <2> SUFFICES ASSUME faults = 0, NEW o \in Recorded PROVE videos[o] <= 2
    BY DEF AtMostTwice
  <2>1. Takes(o) <= 2
    BY <1>3 DEF TwiceInv, TakenInv
  <2>2. PICK v \in Nat : v = videos[o]
    BY <1>3 DEF TypeOK
  <2>3. Takes(o) = v \/ Takes(o) = v + 1
    BY <2>2 DEF Takes
  <2>4. QED
    BY <2>1, <2>2, <2>3
<1>4. QED
  BY <1>1, <1>2, <1>3, IngestTypeCorrect, PTL DEF Spec
=============================================================================
