# Formal models of libre365

libre365 assembles existing free-software services (Matrix, Grommunio, Seafile,
Vikunja, OnlyOffice, PeerTube, Keycloak, ...) into one suite. The code of its own is
a set of small connectors that talk to those services, a browser extension, a banner
injected in every application, and the scripts that keep dozens of configuration
files in step with `platform.yaml`. This directory models that code in TLA+,
model-checks it with TLC on small instances and proves the main results with TLAPS.

Paths below are relative to the repository; `connectors/x` is `src/connectors/x` in
`PROJECT.json`.

## 1. Inventory

| component | state it keeps | operations | what is hard | what makes it correct |
|---|---|---|---|---|
| `scripts/sync_platform.py` | none of its own; `platform.yaml` and about forty consumer files on disk | apply, `--check` | every change is computed from the disk before any is written; several passes share a file; runs are interrupted; files are edited by hand | a run (or two) ends in agreement with `platform.yaml`; `--check` passes over nothing |
| `connectors/peertube-ingest` | none; what is on PeerTube is not remembered | daily batch, filer webhook | scheduler drift, missed and failed runs, lost responses, redelivered events | no recording is lost between two runs; bounded duplicates; a crash loses no event |
| `connectors/notification-hub` | none | five webhooks, `/widget/session` | concurrent triggers that fail one by one; callers that give up; crashes | the answer tells the truth about triggers that have all ended; no notification is lost or doubled silently; those an event names are notified |
| `connectors/onlyoffice-mentions` | none | `request-send-notify`, `request-users` | answers 502 while the hub goes on; the caller retries | same, end to end |
| `connectors/unified-search` | none between requests | `/search`, `/portal/apps` | one time-out for each source, cancellation in the middle of an IMAP session, a `finally` that awaits | bounded answer time; sources isolated; sessions closed; no partial results |
| `connectors/presence-aggregator` | none | `/presence`, SSE stream | three sources without time-outs of its own; a listing of rooms that is not atomic | the stream goes on; whoever is in a call is shown so; no meeting without a reason |
| `connectors/thunderbird-filelink-gokapi` | `upload-<account>-<id>` in local storage | upload, deletion, configuration, account removal | upload and mapping are two steps; the deletion reads a configuration that may have changed, and not its own status | a link keeps its file and can be taken back; an orphan is due to a failure of its own |
| `infra/k8s/manifests/caddy-injection.yaml` (banner) | PKCE verifier in session storage, DOM | silent sign-on, menu, search box, bell and badge, presence dot | answers out of order; a debounce timer; polls that overlap; a frame that never answers | a box at rest shows the results of its text; a display goes back only where polls crossed |
| `scripts/security_feeds.py` | none; the issues on GitHub are its memory | one scheduled or manual run | search-then-create, lagging search index, overlapping runs, runs that start late, a limit per feed | one issue for each entry; an outage shorter than the window costs none |
| `scripts/build_dashboard.py` and its workflow | none; the published page | one report a day | each source can fail, answer nothing, or raise what no handler catches; releases come out while it runs | a row is about its own component; gaps are explained; only whole pages are published |
| `dev-cluster/*.sh` | the cluster | deploy, redeploy, patch CoreDNS | retries of CRD installation; read-modify-write of the Corefile | repeated runs converge |
| Ansible, Terraform, Helm values, manifests, workflows | - | executed by other tools | - | - |

Interactions: the banner calls unified-search, notification-hub and
presence-aggregator over HTTP; onlyoffice-mentions calls notification-hub, which calls
Novu; the SeaweedFS filer calls peertube-ingest, which calls PeerTube; sync_platform
writes the files that configure all of them. The connectors share no state: each
request is a coroutine of one asyncio event loop, so the interleavings that matter are
those at its awaits and those with the remote services.

The hazards, each at its line, are the list `hazards` of `PROJECT.json`.

## 2. The modules and their order

| order | module | models | proofs |
|---|---|---|---|
| 1 | `PlatformSync` | sync_platform.py | `PlatformSyncProofs` |
| 2 | `PeertubeIngest`, a `Handoff` | peertube-ingest | `PeertubeIngestProofs` |
| 3 | `UnifiedSearch`, a `SearchPromise` | unified-search `/search` | `UnifiedSearchProofs` |
| 4 | `NotificationRelay`, a `Handoff` | onlyoffice-mentions with notification-hub and Novu | `NotificationRelayProofs` |
| 5 | `SecurityFeeds` | security_feeds.py, its workflow and GitHub's search | `SecurityFeedsProofs` |
| 6 | `FilelinkGokapi` | the Thunderbird extension | `FilelinkGokapiProofs` |
| 7 | `PresenceStream` | presence-aggregator | `PresenceStreamProofs` |
| 8 | `Banner` | the banner's start, search box and polls | `PageProofs` |
| 9 | `HubNormalize`, `HubRelay` | normalize.py; the hub from the payload to the bell, over `NotificationRelay` | `NotificationRelayProofs` |
| 10 | `Dashboard` | build_dashboard.py and its workflow | `PageProofs` |

Two abstract specifications say what components promise to those who use them.
`Handoff`: whoever hands work over holds it until it is done or an attempt at it has
failed; both connectors that keep nothing implement it. `SearchPromise`: one answer,
within a bound, final. Neither speaks of the state the implementations keep.

## 3. The modules

### PlatformSync

One run of `main()` is `Refuse`, `Check`, or `StartApply` followed by one `ApplyOne`
for each dirty change and `FinishApply`. A file's text is a record of four slots
(image tags, ports, base domain, realm); a pass (one `compute_*_changes()`) sets the
slots of `Writes[p]` in a copy of the text on disk and leaves the others, so that the
whole-file write of `Change.apply()` carries the other slots along, as they were
before the run. `Rank` is the order of the list in `main()`. `SubDomain` has
`sub_domain()`'s limit: a base domain outside `Anchored` (fewer than two labels) is
not recognised. `ProductionBase` is the substitution `compute_dev_caddy_change()`
makes again in memory. `EditPlatform`, `CloseGaps`, `HandEdit` and `Interrupt` are the
people and the process around the script.

Abstractions: all image tags of a file are one slot; what a run refuses to start over
(the two coverage checks and the missing markers of a generated block) is the set
`gaps`; a single `write_text` is atomic; the rest of a generated text is left out.
Renaming a subdomain label is documented as unsupported and not modelled.

### PeertubeIngest

`StartBatch` lists and filters (`Candidates`), `BatchIngest` is one turn of
`ingest_all()`, `FinishBatch` computes the exit code, `MissBatch` and `BatchCrash` are
the ways a run does not take place. `Deliver` and `WebhookIngest` are one webhook
request; `WebhookCrash` its end without an answer. `UploadOutcome` is
`ingest_object()` around `upload_to_peertube()`: success, failure, or an accepted
upload whose response is lost. `healthy` is a history variable: every run took place
and exited with 0.

Time is in hours, ages are capped just beyond the window. The repository has no
scheduler for the batch: `Tick` lets each run be up to `Drift` late, and assumes that
a run has ended before the next one is due and never outlasts its day. The two modes
have buckets of their own, as configured (`infra/k8s/helm-values/seaweedfs.yaml`
notifies the staging bucket; the batch reads `visio-recordings`). An object is written
once. `--since`, with which a person chooses the window of one run, is left out.

`WebhookKeepsHold` is `Handoff!Spec` under the mapping: offered are the staged videos
in the store, held those whose event the filer still has, done those on PeerTube,
spoiled those refused. The two modes run side by side in one model.

### NotificationRelay

A call is a notice and an attempt. `Post` and `PostNobody` are the application with,
for mentions, the connector in between; `Trigger` ends one
`trigger_novu_notification()`; `HubAnswer` is `gather(return_exceptions=True)` and the
count; `PostRejected` is an error status of the hub before any trigger, which the
connector turns into a 200 that says "not relayed"; `GiveUp` is a caller's time-out or broken connection, which the hub does not
notice; `HubCrash` ends every call, and each trigger under way may have reached Novu.
`Recipients` is what normalize.py makes of a payload.

`RelayKeepsHold` is `Handoff!Spec` with a notice and a recipient as one item: offered
once posted, held until the application is told it was relayed, done when Novu has the
notification, spoiled when a trigger was refused or did not get through.

### HubNormalize and HubRelay

`HubNormalize` is normalize.py reduced to whom an event is for: a Matrix message to its
target or else the first person it mentions, mail, share and assignment to the one
person they name, a comment to every address. `HubRelay` composes it with
`NotificationRelay`: its assumption makes `Recipients` the normalisation of `Payload`,
`NamedHaveHeard` follows a name from the payload to Novu, and `BellIsFed` on to the
widget session, which names the subscriber by the subject of the user's token. An
application is assumed to list an address once: the hub would trigger a repeated one
twice.

### UnifiedSearch

One request, in time. A web source takes one request (`WebAnswer` or `CallFails`, which
stand for the one call of each of `matrix.py`, `seafile.py` and `vikunja.py`); the mail source greets, matches, fetches and logs out. `Expire` is `wait_for()`'s
cancellation: a session in the middle of a command goes through the `finally`
(`StartLogout`), one that is already logging out, or was never greeted, ends at once.
`LogoutTimesOut` is the IMAP command's own limit. `Tick` is blocked while a deadline
is due, so that timers are served before time goes on. The order of the merged results
and `/portal/apps` are left out.

`KeepsPromise` is `SearchPromise!Spec` with the clock as age, the two time-outs added up
as bound, and the sources that ended well as what is reported: a source that is
cancelled, or logs out, after the answer must not change it.

### SecurityFeeds

One run is `StartScheduled` or `StartByHand`, `Fetch` or `FetchFails` for each feed in
the order of `FEEDS`, then for each collected entry in order `SearchFinds`, or
`SearchFindsNothing` followed by `Create`. `RequestFails` is an error that `main()`
catches, `RunDies` one that it does not (`urllib` wraps what goes wrong while a request
is sent, and not a time-out or a closed connection after that) or a cancelled job; both
may leave an issue behind. `Selected` is the sort, the cutoff and the limit. The
workflow has no concurrency group, so two runs may be under way. `fails` counts, for
each entry, the failures that concern it, and `calm` says that no run started beside
another one or ahead of the search index; both are history variables.

Only dated entries have an age: one without a date is never too old. Time is in ticks,
`Day` of them from one scheduled time to the next; the schedule starts its run up to
`Drift` of them late (`StartScheduled`) or drops it (`SkipRun`).
The code compares an entry's date with a cutoff that a run computes once, when it
starts, to the second (`Recent`): a run that starts later in its day than an entry was
published no longer sees it on the last day of the window. What happens between two
ticks happens at one time, a run included; `Day` is any number, so that a tick is as
short as one wants it. Entries stay in their feed; the text of an issue, `--dry-run` and
`--output` are left out.

### FilelinkGokapi

A handler is suspended at each call to the storage or to Gokapi, so an upload is
`StartUpload`, the request on the `wire`, `GokapiStores` or `GokapiRefuses`,
`StatusArrives`, `BodyArrives` and `Record`; a deletion is `TakeBack` (which reads the
configuration), `LookUp` or `LookUpFails` (the record), `GokapiDeletes`, `DeletionRefused` or
`DeletionFails`, and `Forget`. In between come `SaveConfig` and `RemoveAccount` of the
configuration page, `Abort` (the time-out or a broken connection, while Gokapi may go
on), and `Quit`, the end of Thunderbird. Gokapi is a place for each file. `hit` is a
history variable: the uploads some failure, abort or shutdown concerned. Expiry of files
on Gokapi, names and link formats are left out.

### PresenceStream

One stream of one client. A turn asks Matrix (`MatrixAnswers`), the calendar
(`CalendarAnswers`) and LiveKit (`ListRooms`, one `ListParticipants` for each room,
`ListingEnds`) about each user at once; any of them may end in `Unknown`, the None of
`_safe()`; `Emit` consolidates, `Wake` begins the next turn, `Disconnect` cancels the
generator wherever it is. Meanwhile users move between rooms (`Go`). A calendar is the
sequence of its entries for the next half hour, of which `InMeetingNow` looks at the
first. `stayed` and `seen` are history variables of a turn. A request for one user is a
stream of one turn. A listing takes the open rooms at one moment, and a room it asks
about later answers with who is in it then.

### Banner

`FrameAnswers`, `SsoTimesOut` and `Exchange` are the sign-on, `PartLoads` the menu and
the bell, `Type`, `Debounced` and `SearchEnds` the search box, `Poll` and `PollEnds` the
badge and the presence dot. Requests in flight end in any order, and never have to.
Polls are numbered, so that an older value can be told from a newer one. `crossed` is a
history variable: the box or the display had two requests under way, or was emptied
during one. The list the bell opens and the wording of entries are left out.

### Dashboard

`Start` is the workflow with or without credentials; each turn of the run is one of
`Skip`, `Answers`, `AnswersNothing`, `Unreachable` (a failure some handler catches) and
`Breaks` (one that none does, which ends the run); `Publish` is the upload and the
deployment, which needs the build. `Release` changes a feed at any time. `Caught` names
the failures the handlers catch: for GitHub `URLError` only, so that a time-out while the
response is read, a connection closed then, or a body that is no JSON breaks the run.
The markup is abstracted to what the page says of each source; an entry with an empty
title is shown as "unknown", with the status "check needed" (`Cell`, `Status`). Its specification is
`PageSpec`, not `Spec`, so that `PageProofs` can extend it together with `Banner`.

`MC*` modules give the instances names and, for PlatformSync, state as an assumption
that the repository's assignment of files to passes satisfies `NoChains`.

## 4. Runs

| run | bounds | shows |
|---|---|---|
| PlatformSync | one file of each kind, two values, two disturbances | `AppliedSyncsUnshadowed`, `SecondRunConverges`, `CleanMeansInSync`, `OnlyShadowedRegress`, `EventuallyInSync` |
| PlatformSyncLostTag (violation) | the files of the passes that interact | one run loses a tag edited together with the realm or the base domain |
| Ingest | two recordings, a staged video and another staged file, a day of 3, drift 1, window 4, two faults | `NoCoverageGap`, `AtMostTwice`, `StagedReachesPeertube`, `WebhookKeepsHold` |
| Relay | a comment for two people, one for nobody, a Matrix message that mentions two, four subscriber names, two attempts, two faults | `DuplicateOnlyByRetry`, `NamedHaveHeard`, `EveryCallEnds`, `RelayKeepsHold` |
| RelayBell (violation) | as Relay, with a mail; a token's subject is the address | a notification that the person's bell does not show |
| Search | two web sources, one mail source, time-outs 2 and 3 | `OnlyLogoutDelays`, `WholeOrNothing`, `SessionsLoggedOut`, `EventuallyResponds`, `KeepsPromise` |
| Feeds | a feed with a dated and an undated entry, another feed, two runs, a day of 2 ticks, drift 1, a window of 2 days, a limit of 1, one failure | `CalmMeansOneIssue`, `MissedOnlyByOutage` |
| FeedsCapped (violation) | as Feeds, every entry dated, runs in time, no failure | an entry behind a newer one leaves the window without an issue, though the newer one has its own |
| Filelink | two accounts that give out the same attachment id, two instances | `LinkKeepsFile`, `LinkIsRecorded`, `LeftBehindByOwnFailure` |
| Presence | two users, two rooms, calendars of one entry, busy or tentative | `StayingIsShown`, `MeetingHasReason`, `EventsKeepComing` |
| Banner | two queries, three searches, two polls of each display | `RestsOnItsText`, `GoesBackByCrossing` |
| Dashboard | three components, one without a feed, two titles, one of them empty, two failures no handler catches | `RowIsOwn`, `GapExplained`, `PageKeepsComing` |

Each passing run also checks its module's `TypeOK`, which says more than types where data and
stage go together: a run's counts, a timer that is for the box's own text, a published
page that misses no source.

Why these bounds are enough. PlatformSync: passes interact only through shared files,
and the instance has the one kind of shared file and the one derived file there is; an
edit and an interruption, or two edits, are the shortest histories that leave a mixture
behind. Ingest: 3/1/4 keeps the two
relations the code relies on, window = period + drift and window < 2 periods - drift;
objects do not interact within a mode, and one object of each kind beside a second
recording mixes the modes. Relay: two people are needed for one failure beside one
success, two attempts for a retry. Search: one source of each kind tells the cases
apart, the second web source adds interleavings; 2 and 3 stand for 2 s and
10 s, of which only the sum and the order matter. Feeds: a limit of 1 is reached by two
entries, and two runs are needed for a race; a day of two ticks tells a run that starts
late from one in time, a window of two days leaves an entry one run that is sure to see
it when runs may be late, and one failure just uses that up. Filelink: the one key two uploads could share takes two accounts and
one id. Presence: two rooms are needed to move between a room that was listed and one
that was not. Banner: an answer that arrives late takes two searches, a third lets the
box settle afterwards. Dashboard: a row can only take over the title of the row before
it, and a component without a feed lies between two with one. The theorems speak of
every size. `MaxTime` lies beyond any time a
request takes, `MaxVideos` beyond the copies a property speaks about.

Deadlock is checked for PlatformSync, Ingest, Feeds and Dashboard, which never stop; the
others end: a search with its answer, a relay and the banner when nobody posts or types
any more and their bounds are used up, the extension when its attachments are, a stream
with its client.

Fairness. PlatformSync: CI fails while a file diverges, so the script is run again,
and an uninterrupted run goes on; disturbances are bounded. Ingest: the filer posts
the events it holds and a started ingestion ends; crashes are bounded by `MaxFaults`.
Relay: httpx's default time-out ends each trigger, and an answered set of triggers
resumes the handler; nothing obliges anyone to post. Search: only the clock, the
timers and the final `gather` are fair; no source ever has to answer.
Presence: the connector sets no time-out, but its HTTP clients have one by default, so
each request is taken to end, in whatever way (that time-out is one for each read: a
server that goes on sending a little at a time would hold a turn back, which is outside
the model); nobody has to move and the client need not leave.
Filelink and Banner assume no fairness: nobody has to type, and no request has to be
answered. Dashboard: the schedule
starts runs and a request ends or is ended by its time-out; no source ever has to
answer, and failures no handler catches are bounded.

## 5. Disagreements between the code and what is said of it

Shown by a violation run, with lines and quotations in `findings` of `PROJECT.json`:

* PlatformSyncLostTag: one completed sync run can leave behind a Helm tag edited together
  with the realm or base domain.
* FeedsCapped: the limit per feed is applied before anything is looked up, so that entries
  which have their issue keep the places of those behind them until these leave the
  window. An entry without a date never leaves it, but is behind every dated one.
* RelayBell: the bell is fed for the subscriber named by Keycloak's subject, while
  notifications are triggered for each application's own name of a person. Taking the
  subject to be the address is the case most favourable to the code; the Matrix
  notifications are then still elsewhere. For the same reason the presence dot asks about
  the subject, which is neither a Matrix id nor a mail address nor a LiveKit identity.

Met while modelling, and visible in the models without a run of their own:

* A base domain of one label is written but never recognised again by `sub_domain()`
  (`Anchored` in `PlatformSync`), although its docstring says re-running always converges.
* The batch is not indifferent to an outage, as `batch.py` says: after one missed or
  failed run an object can be out of the next window (`NoCoverageGap` asks for `healthy`).
  Nor is it limited to what is new: an object of the overlap is uploaded twice.
* A trigger that Novu refuses counts as relayed (`RelayedCount`).
* A stalled mail server delays the whole search past its time-out, by the log-out of the
  cancelled session (`OnlyLogoutDelays`), although fanout.py says it does not.
* The docstring of `security_feeds.py` has one issue for each new entry; two runs of the
  workflow, or a run by hand while the search index lags, open two (`Create`;
  `CalmMeansOneIssue` holds where none of these happens).
* A deletion Gokapi refused is forgotten (`Forget` after `DeletionRefused`), and one sent
  after the account was reconfigured goes to the wrong instance; the file stays until it
  expires.
* A Matrix message that mentions several people notifies the first (`MatrixTarget`).
* In presence, only the first entry of the half hour ahead is looked at, so that a
  tentative one hides the meeting after it (`InMeetingNow`), while a meeting in 25
  minutes already counts as one; somebody in a call is shown as Matrix has them when the
  listing of rooms fails; and the rooms are listed once for each user of each turn.
* `build_dashboard.py` says that a source being unreachable degrades one section; a
  time-out or a connection cut during GitHub's answer ends the run instead (`Breaks`). An
  acceptance workflow without runs is shown as "unavailable (see errors below)" without
  any error (`OfEmpty`). Lists stop at 100 entries.
* Nothing keeps the banner from showing the answer to an earlier search or poll over a
  later one: `RestsOnItsText` and `GoesBackByCrossing` say only that crossed requests are
  the one way to it.

## 6. Proofs

All proofs are for arbitrary constants, from the assumptions the modules name.

* `PlatformSyncProofs`: `TypeCorrect`; then, from the inductive invariant `RunInv`,
  `AppliedSafety`, `SecondRunSafety`, `CheckSafety` and `RegressSafety`. `RunInv` is
  needed because the properties speak of completed runs while the danger lies in the
  middle of one: it says of each change still to be written which slots its text
  carries and that what is in sync and not shadowed stays so whatever is written next.
  They assume `AllAnchored` (every base domain in use has two labels; a base
  domain of one label, once written, is not found again) and `NoChains` (a pass that writes back an
  earlier pass's slot has none of its own written back, which MCPlatformSync checks for
  the repository).
* `PeertubeIngestProofs`: `IngestTypeCorrect`, and `CoverageSafety` for every schedule
  with `Period + Drift <= Window`. `CoverageInv` adds to the property that a healthy
  batch is never older than its phase (`sinceStart <= phase`), which is what makes two
  consecutive windows overlap, and that an object that is not stored has no age.
  `StagedSafety` needs that an event being handled is still held, and `WebhookHandsOff`
  adds that nothing is refused before it is stored: with these every step of the webhook
  maps to a step of `Handoff` and every step of the batch to a stutter. `TwiceSafety`, for
  `Window < 2 * Period - Drift`, ties the uploads of a recording to its age (`TakenInv`):
  taken once, it is no younger than the last scheduled time is past; taken twice, it is a
  period older than that, and so outside the window of any further run.
* `UnifiedSearchProofs`: `SearchTypeCorrect`, `IsolationSafety`, `LogoutSafety` and
  `WholeSafety`, for any number of sources and any time-outs, and
  `SearchKeepsPromise`, the refinement of `SearchPromise`. `SearchInv` says of
  each stage what deadlines it can still be under: a stage other than log-out ends by
  `Timeout`, a log-out starts by then and ends within `ImapTimeout`.
* `NotificationRelayProofs`: `RelayTypeCorrect`, `MissedSafety` and `DuplicateSafety`,
  for any notices, recipients, attempts and failures. `RelayInv` is needed because `DuplicateOnlyByRetry` alone is
  not inductive: a trigger may always add one more notification. It says that
  notifications are paid for with attempts: each notification of a person is worth an
  attempt whose trigger for that person is over or was cut off by a crash (`Spent`),
  and a trigger that runs is of an attempt not spent yet. It also ties the outcomes of
  a call to its stage, so that an answered call has none pending, and an acknowledged
  notice to an answered call. `RelayHandsOff` shows each step to be one of `Handoff`'s or
  a stutter. `NamedSafety` is about `HubRelay`: a lemma about the operators of
  `HubNormalize` (whoever is named and not a recipient is beside the one a Matrix event
  went to) and the invariant that only recipients are notified.
* `SecurityFeedsProofs`: `FeedsTypeCorrect`; `CalmSafety` from `FeedsInv`, which says
  that in a calm history a run is alone and finds every issue of what it may still
  report; and `OutageSafety` from `ChanceInv`, the account of an entry's time, for any
  day and any drift shorter than one: an entry without an issue that is not crowded out
  is no older than a day for each failure that concerned it, the time since the last
  scheduled time that was served or skipped, and one more day while the scheduled run
  under way can still report it. `MissedOnlyByOutage` is what is left of it when the
  entry is older than the window: at least `Window` failures, or `Window - 1` when runs
  may be late.
* `FilelinkGokapiProofs`: `FilelinkTypeCorrect`, `LinkSafety`, `RecordSafety` and
  `OrphanSafety` from `LinkInv`, which ties for each upload its stage, its record, its
  file and its deletion. Its heart is that a deletion reaches no other file: the target
  is read from the record under the upload's own key, which holds its own identifier or
  one Gokapi never gave out.
* `PresenceStreamProofs`: `PresenceTypeCorrect`, `StayingSafety`, `MeetingSafety` and
  `ClosedSafety` from `TurnInv`: whoever stayed has been met or is still in a room to be
  asked about, whoever was met was in some room during the turn, and what is shown is
  the consolidation of what was read. `ClosedSafety`, that only its client ends a stream,
  is the part of `EventsKeepComing` that is safety.
* `PageProofs`, about what the users' pages show. Of `Banner`: `BannerTypeCorrect`,
  `RestSafety` and `DisplaySafety`. `BoxInv` says that without a crossing at most one
  search is in flight and, while no timer runs, a search in flight is for the box's text,
  and with none in flight the panel fits it; `PollInv` that without a crossing at most
  the newest poll is under way.
  Of `Dashboard`: `ReportTypeCorrect`, `RowSafety`, `GapSafety` and `PublishedWhole`
  (the page changes only to a whole one), for any number of components, from what
  `Dashboard` assumes. The inductive invariant `ReportInv` is a conjunction over the
  sources: the run has shown nothing of those still on its list, and what it shows of
  the others is their own or a gap with an explanation. It needs that the list holds
  each source once, which `Start` establishes (`OneAfterTheOther`) and each turn keeps
  (`TakeHead`): a source asked twice could be noted and still show data.

Only model-checked: the liveness properties (`EventuallyInSync`,
`StagedReachesPeertube`, `EveryCallEnds`, `EventuallyResponds`, `EventsKeepComing`,
`PageKeepsComing`), which the prover does not reach. Every invariant and every action
property of a passing run is a theorem.

## 7. Not modelled

* The `dev-cluster` scripts: sequences of helm, kubectl and k3d calls that a person runs
  to set up a development cluster; the effects are those tools', and the one
  read-modify-write (CoreDNS's Corefile) races only with a package outside the
  repository.
* Ansible, Terraform, Helm values, manifests, Caddyfiles and the other workflows:
  declarations executed by tools outside the repository.
* The transport of a mail connection that never greets, which grommunio.py awaits outside
  its `try` and drops without closing, belongs to aioimaplib.
* The renewal of the banner's token: there is none, so that after its expiry every search
  ends as one without results, which the model has as an outcome of each search.
* Of unified-search, the order of the merged results and `GET /portal/apps`, a filter
  over the realm's clients without state; of onlyoffice-mentions, `request-users`, one
  read of the directory; of the banner, the list its bell opens.
* Everywhere: verification of tokens, the extraction of a meeting's metadata, titles,
  texts and links, logging, and what a generated file holds beyond the values of
  `platform.yaml`.
