# Formal model of the hybrid attendance system

This directory holds TLA+ specifications of this repository: the recognition
ingest and the hit-counting engine, the lecture lifecycle, presence tracking
from the surveillance laptops, the read-only pipeline from evidence to frozen
reports; on the Raspberry Pi the frame loop with the tracker, filters, liveness
vote, routers, matching, clients, camera and fan around it; the files it writes,
their way to the cloud, and the metrics three parts of the system compute from
them; the verify service's gallery; and the attendance page with the endpoints
behind it.  TLC checks the specifications on small instances; TLAPS proves the
most important safety properties for instances of every size.

Paths below are relative to `src/`; `att/` stands for
`cloud_backend/attendance/`, `app.js` for
`cloud_backend/dashboard/static/attendance/app.js`.

## 1. The system

A Raspberry Pi (`edge/`) watches the door: it detects, tracks and recognises
faces, checks liveness, and posts *recognition events* to the cloud.  Laptops
(`surveillance/`) watch the rooms: they track anonymous people and post
*presence events*.  The cloud (`cloud_backend/`, one FastAPI process over
PostgreSQL) matches recognitions to the open lecture, advances one attendance
record per student, keeps the presence sessions in memory, and answers queries
that combine the two.  A separate service (`cloud/`) verifies hard faces for
the edge.  Teachers create, start, close and finalize lectures on a page that
polls the cloud.  The Pi logs every frame; the logs are analysed offline
(`research/`), and uploaded to the cloud, which analyses them again.

### 1.1 Components

| Component | State | Operations | What makes it correct |
|---|---|---|---|
| Attendance engine (`att/engine.py`, `state_machine.py`) | none of its own; `attendance_records`, `attendance_events` | `process_recognition_event`: guards, cooldown, hit count, promotion | a state is earned by accepted events; no hit inside the cooldown; locked records untouched; hits are not lost |
| Recognition ingest (`att/ingestor.py`, `api/recognition.py`) | `recognition_event_logs` | `ingest`: room, lecture, student, enrolment, record, engine, log | every post answered and logged; event row, record and log row together or not at all |
| Resolver (`classroom/resolver.py`) | reads `cameras`, `classrooms`, `lectures` | `resolve_classroom`, `resolve_active_lecture` | the newest open lecture of the right room and of no other |
| Lecture lifecycle (`sessions/controller.py`, `api/lectures.py`) | `lectures`, `attendance_records` | create, start, close, finalize | scheduled → open → closed → finalized, records created exactly with the start |
| Presence timeline (`att/presence_timeline.py`, `presence_handler.py`) | session table in memory | `on_event`, `_expire_stale`, `list_sessions` | who is in view has a session; nobody else has, for longer than the timeout |
| Surveillance laptop (`surveillance/presence_sync.py`, `presence_client.py`, `run.py`) | previous tracks, heartbeat clock, batch | `observe`, `emit`, `flush` | appearances and disappearances in the order they happened |
| Evidence, eligibility, decision, derived state (`att/evidence_*.py`, `temporal_scorer.py`, `eligibility_service.py`, `decision_service.py`, `state_service.py`) | none | log rows and sessions → evidence → verdict → decision → state | evidence from the lecture's own room; nobody confirmed without support, nobody dropped |
| Finalization and reports (`att/finalization_*.py`, `report_service.py`) | frozen snapshots in memory | `build_records`: freeze on read; counts | frozen once, only after finalize, served as frozen |
| Edge frame loop (`edge/main.py`, `pipeline_controller.py`) | per-track dictionaries, counters | one pass per frame | no post for a rejected face; a steady face is posted; matched from its own pool |
| Tracker, filters, liveness (`edge/tracker.py`, `orientation.py`, `stabilization.py`, `liveness.py`) | boxes, histories, averages, streaks | update, vote | what is kept under a track is about one face; no flat picture passes |
| Clients of the Pi (`edge/cloud_client.py`, `attendance_client.py`, `offload_router.py`) | failure counters, flags, thresholds | `verify`, `health_check`, `emit`, `decide` | a verify ends; nothing is given up without a reason |
| Camera and stream (`edge/camera.py`, `stream_server.py`) | pipe buffer, two slots | reader thread, `read`, `set_frame`, generators | whole pictures, never an older one |
| Fan (`edge/thermal/`) | mode, pin | `update`, `cleanup` | the mode fits the temperature and does not flap |
| Run files (`config/experiment_session.py`, `edge/telemetry.py`, `edge/observability.py`) | session directory, two CSV files, pictures | open, rotate, append, flush, report | no row lost but unsaved ones, one schema per file |
| Upload and storage (`edge/telemetry_uploader.py`, `cloud_backend/storage.py`, `telemetry/api.py`) | session directory in the cloud | start, batches, end; retries | acknowledged is readable; exit code 0 is complete |
| Analytics (`cloud_backend/analytics/`, `dashboard/api.py`, `research/`) | stored reports, tags | summarise, sweep, compare, tabulate | three computations agree; a table follows its tags |
| Verify service (`cloud/main.py`, `gallery.py`) | embeddings, cached matrix, file | enroll, search, verify, save, load | whoever was enrolled is known |
| Attendance page (`app.js`) and visibility (`api/visibility*.py`) | cards, selection, dialog; none | poll, click; infer outcomes | the page converges to the database; a shown outcome is near a real one |
| Live hub, face networks, enrolment scripts, settings, image processing | - | - | see section 6 |

### 1.2 How they interact

* Edge → cloud: `POST /recognition/events`, one at a time, 1 s client timeout,
  never retried (`edge/attendance_client.py`).  The server goes on with a
  request whose client gave up, so requests for one student can overlap.
* Edge → verify service: one request at a time from the frame loop, with
  retries inside retries.
* Laptops → cloud: `POST /presence/events`, one at a time, not retried.
  Appearance, disappearance, and a heartbeat per camera every 30 s; sessions
  time out after 45 s.
* Teachers → cloud: lecture lifecycle over HTTP, any number at once, mostly
  from the page, which reads all it shows every 5 s.
* Frame loop → files → uploader → cloud: the uploader is a tool of its own that
  may run while the loop still writes; it retries posts.
* Inside the cloud every request is a coroutine with its own `AsyncSession`
  (`db/session.py:45-49`).  PostgreSQL runs READ COMMITTED; there is no row
  lock, no version column and no conditional UPDATE.  The shared state is the
  database, the presence table, the finalization store (both in memory only)
  and the telemetry directory.

### 1.3 What is hard

Two requests deciding on the same old copy of a record; status checks on
loaded objects followed by unconditional updates; a window that closes while
requests are under way; events that arrive late or not at all; laptops and the
cloud restarting with lost memory; clocks that differ between laptops, or go
back on a Pi after a power cut; a report computed twice, from different reads,
and frozen by whoever asks first; limits that cut the rows a query sees; a
client that stops calling a dead server; counters and histories that belong to
a track whose face has changed; streaks that five exits must leave right;
retries of what was already stored; appends cut in the middle; polls that
overlap; one number computed in three places.  `PROJECT.json` lists each of
these at its line with the properties about it.

## 2. Modules

```
AttendanceEngine        rules of engine.py (operators)
  HitLadder             abstract: one record climbs the ladder
  AttendanceCore        ingest + lifecycle over the database
    AttendanceCoreProofs      TLAPS
    AttendanceRecordsProofs   TLAPS, with the refinement of HitLadder
    MCAttendanceCore
PresenceTimeline        the session table (operators)
  Presence              laptops, network, cloud
    PresenceProofs            TLAPS
    MCPresence
DecisionPipeline        evidence -> eligibility -> decision -> state (operators)
  Reports               concurrent queries, freeze; uses PresenceTimeline
    ReportsProofs             TLAPS
    MCReports
MCDevices               one of these parts, for TLC:
  EdgePipeline          the frame loop            EdgePipelineProofs  TLAPS
  FaceTracks            tracker and what the loop keeps under its ids
                                                  EdgePipelineProofs  TLAPS
  FaceFilters           pose votes, moving averages
  LivenessVote          the vote
  OffloadRouters        three routers
  FanControl            the fan
  CloudClient           the verify client         EdgePartsProofs  TLAPS, these five
  CameraFeed            pipe, reader, slots, browsers   EdgePipelineProofs  TLAPS
  CloudGallery          the verify service
  Matching              pools, buffer, posts    EdgePartsProofs  TLAPS
  MCLogs                the logs and their metrics
    SessionMetrics      a session's metrics, computed three times
      EdgeLogs          rows of the frame loop  EdgePartsProofs  TLAPS
      CloudMetrics      analytics of the cloud and the page  (both use Tallies)
      SessionAnalysis   offline analysis
MCTelemetry             one of these parts, for TLC:
  TelemetryUpload       the uploader, over TelemetryStorage   UploadProofs  TLAPS
  DashboardPage         the attendance page
                                                  VisibilityProofs  TLAPS
  Visibility            the read endpoints, over AttendanceEngine
                                                  VisibilityProofs  TLAPS
  RunFiles              directories, logs, buffers, power cuts
                                                  EdgePartsProofs  TLAPS
  DebugFrames           debug pictures            EdgePartsProofs  TLAPS
  SweepStudy            tags, stored reports, tables
                                                  VisibilityProofs  TLAPS
```

The parts of `MCDevices` and `MCTelemetry` share no state in the models: what
one hands to the next is an input of the next.  A variable `part` says whose
behaviour it is; the others rest, so one run checks them all without
multiplying their states.

### 2.1 AttendanceEngine, AttendanceCore, HitLadder

*State.*  `status`, `started` are columns of `lectures`; `rows`/`records` the
`attendance_records` table (which keys exist, and their columns); `events` the
`attendance_events` per record; `rawLog` the `recognition_event_logs`;
`enrolled` the active `enrollments`.  `req` and `op` are the requests in
flight: a program counter and what the request has read so far.

*Actions.*  A request is one action per SELECT that reads shared rows and one
action for all its writes and the commit, because nothing it writes is visible
before and nothing it read is read again: the engine's `session.get()` returns
the object the ingestor loaded, stale as it may be.  `ResolveRoom`,
`ResolveLecture`, `ResolveStudent`, `LoadRecord`, `LoadEvents`, `Engine`,
`Commit` follow `ingest` and `process_recognition_event` in order; each early
return answers through `Reject`, which writes the log row.  `Abort` is an
exception or a stop of the server: rollback.  A lifecycle request is a
`Begin...` (load and check the status) and a `Commit...`, `start` reads the
enrolments in between.  `CommitStart` fails as a whole on the unique key
`uq_attendance_records_lecture_student`.

*Environment.*  `Tick` ages all timestamps; `SetEnrolment` and `Override` stand
for what is written directly into the database: no API under `src/` enrols a
student or sets `is_locked`.

*Abstractions.*  `age` is the time since `last_event_at`, saturated at the
cooldown, which is all the engine asks; `manual_override` stands for every
state the engine never writes; `actual_start` is an order of commits; the
confidence is above or below `MIN_CONFIDENCE`.  Retired payload fields,
messages and logging are left out.  The ORM classes are not in the repository;
the tables are those of the migrations `001` to `004`.

*Refinement.*  `HitLadder` is what the engine's header promises for one record.
`ClimbsLadder` states that every record of `AttendanceCore` implements it when
requests do not overlap (`state <- records[k].state, hits <- Len(events[k])`).

### 2.2 PresenceTimeline, Presence

`PresenceTimeline` has `on_event`, `_expire_stale` and `list_sessions` as
operators on the session table; the service holds a lock and never awaits in
it, so a call is atomic.  `Presence` composes any number of laptops with the
cloud: `Observe` is `PresenceSync.observe` on one frame, `Emit` hands one event
to the client (with or without a batch), `Deliver`, `Lose` and `TimeOut` are the
outcomes of `_post_one`, `LateArrival` is a request whose client gave up.
`Quit` flushes the batch (the `finally` of `run.py`), `Crash` does not, `Start`
is a new run whose tracker hands out the same ids; `RestartCloud` empties the
table.  `Lag` is how far a laptop's clock is behind the cloud's, less than 0
where it is ahead: the laptop stamps with its own time
(`presence_client.py:102`) and the timeline compares that with the cloud's and
with other laptops' stamps, without a limit on either side.

`Tick` assumes that a running loop finishes at least one frame in a unit of
time and a post takes less than one: with a 5 s unit that is far slower than
the real loop.  The ring of recent events (`att/presence_store.py`) is read by
a health check only and left out.

### 2.3 DecisionPipeline, Reports

`DecisionPipeline` has the pure functions: `Evidence` (`_correlate_entry`, with
the camera selection and `pick_session`), `Eligibility`, `BestConfidence`,
`Decision`, `DerivedState`, `Closed`.  No decision maps to `candidate`, so
`expired` is never produced; the operators keep both because the code does.

`Reports` runs queries of `GET /attendance/finalized` against them.  A query is
one action per await: log rows, the listing of sessions, the correlation of one
row after the other (`Correlate`; each awaits reads of its own), lecture lengths
one by one, all of that but the lengths again, lecture statuses one by one, and a
last action that awaits nothing and freezes what is final.  The sessions a query
holds are the timeline's own objects: `Watching` carries into `spans` what events
and expiries do to them between two rows, until the timeline drops them (`live`).
`Recognise` appends a log row, `PresenceEvent` applies one event of the timeline,
and `Restart` forgets the store and the sessions, but not the answers given
before.  A lifecycle request is a `Begin...`, which checks the status it loads,
and a `Commit...`, which writes whatever the status has become, as in
`AttendanceCore`; several overlap.  Rows and sessions carry times because the
verdicts depend on them, and every laptop's clock may be off.  `appeared` is
history for `ConfirmedSupported`, `over` for `FrozenIsFinal`, and the fields
`epoch`, `logged` and `held` of a query are history, too.  `StudentReport` is what
`report_service.py` counts of an answer for one student.  The evidence and
state caches (`evidence_store.py`, `state_store.py`) are written for health
counts only and left out; so is the lecture report, whose total counts only
students with evidence.

### 2.4 The frame loop: EdgePipeline, Matching, FaceTracks

The loop of `edge/main.py` is one thread.  In `EdgePipeline`, `Frame` is the
part before the tracks (detection or the cached faces, the counter); then each
track takes one of the exits of the loop body: `Lose` (NO_MATCH), `Distant`
(OUT_OF_RANGE), `Reject` (REJECTED_LIVENESS), `Hold` (another label),
`Buffering`, `Match`, `Verify` and `SkipVerify` (OFFLOAD_TO_CLOUD with and
without a request), `Leave`.  `track[t]` is what the loop's dictionaries hold for
a track: length of `liveness.history`, entry of `_last_liveness`, spoof streak,
length of the embedding buffer, run of matches.  `failures` and `reachable` are
the fields of `CloudVerificationClient`, `age` the time since each identity's
last post, `seen[t]` history for the properties.  Where the cached detections
have a face, the vote, the identity and how similar it is, the router's and the
verifier's answers are inputs; `Toggle` is the verifier going away and coming
back.  `count` is `_frame_count` modulo the product of the cadences; time is
counted in frames; streaks and runs stop where the comparison with their limit
is decided.  `is_valid_face` lets no empty crop through, so `bgr_crop.size > 0`
and the label UNKNOWN are left out.

`Matching` opens what `EdgePipeline` takes as given: the vote of the last poses
(`orientation.py`; votes outlive a rejection and a lost face), the mean of the
buffered embeddings against the frontal and angled pools of that mode
(`pipeline_controller.py`), what the cloud makes of a doubtful picture, and the
post and its outcome (`attendance_client.py`).  An embedding is a person and a
view, with a cosine per pair of kinds; a track may go on with another person's
face without the buffer being dropped, and `FormerFaceFades` bounds for how long
the edge still matches the former one: until half a window of new embeddings is
in.  A match by the cloud (`ByCloud`) is of the newest picture, which
`CloudSeesThePresent` holds on to; the pool logged with it stays that of the
edge's candidate.  The edge's moving average over similarities is in
`FaceFilters`, with its default of 0 here.

`FaceTracks` is `CentroidTracker.update` in its order (closest pairs first, new
ids, disappearance) together with the loop's search for a detection on a
track's box and what it drops when there is none (NO_MATCH) or leaves as it is when the
face is too near or too far (OUT_OF_RANGE).  Boxes are intervals, and the
distance is that of the box: the smoothing of boxes is off by default.

### 2.5 What smooths and decides: FaceFilters, LivenessVote, OffloadRouters

`FaceFilters`: the pose vote of `PoseEstimator`, the two moving averages, and
the match the loop makes of an averaged similarity.  `LivenessVote`: one action
per temporal vote, the window's cues (flow magnitude, spread of angles,
variance of the area, skin) as input; traps, penalties, weights, thresholds and
both streaks as in `_temporal_vote`.  `OffloadRouters`: the threshold,
hysteresis and adaptive strategies fed the same similarities, with the adaptive
one's windows of similarities and agreements.  `flat` counts windows of planar
motion in a row for `FlatFacesRejected`.  Numbers are scaled integers,
with the code's constants where they decide something.  The two averages are
kept exactly: an average is halved towards each new value, so after
`MaxFrames` frames it is a multiple of `1 / 2^MaxFrames`, and `Scale` is a
multiple of that (`FiltersAssumption`).

### 2.6 Devices: FanControl, CameraFeed

`FanControl` is the control loop: read (or fail), settle the mode, write the
pin (or fail), clean up.  `CameraFeed` composes the reader thread of
`RPiCamSubprocessCamera`, which cuts the bytes of the pipe into pictures
wherever reads end, with `read()`, `set_frame` and the generators of several
browsers.  The camera's process may end at any time, and the reader with it.
A picture is five bytes: two per marker and a number.

### 2.7 The verify service: CloudClient, CloudGallery

`CloudClient` is one verify at a time: its own loop of attempts, each a request
that urllib3 repeats as well, every try failing in one of the ways the code
tells apart; then the failure counter, the flags, the breaker, `health_check`.
`CloudGallery` is enrolment over HTTP and by script, the cached matrix, search,
verify, save, load and restart.

### 2.8 Rows and their metrics: EdgeLogs, Tallies, CloudMetrics, SessionAnalysis, SessionMetrics

`EdgeLogs` writes the diagnostic, telemetry and attendance rows of each frame,
with the observer's fields in the order the tracks report.  `SessionMetrics` turns
them into events as the uploader does and states what the three readers,
`CloudMetrics` (analytics of the cloud, the routes of `dashboard/api.py`, the
page's edge card), `SessionAnalysis` (offline) and the uploader's summary, must
agree on.  Similarities and thresholds are compared in ten-thousandths and logged
in thousandths (`Logged`), so a row may say of a face just below a threshold that
it reached it; an offload has every outcome of `OffloadOutcome` that a call can
end with, or is skipped before it, and an answer may be unverified, with or
without a word on agreement.  (`fallback`, `verify`'s answer while its own
breaker is open, cannot come: `is_healthy` is false before that.)  Metrics are
read between two frames.  `mode_raw` and `mode` are not
told apart; spreads, percentiles but the median, temperatures, distances, boxes
and longest runs are left out, and so are six of the twelve quality gates.

### 2.9 Files, upload, studies: RunFiles, DebugFrames, TelemetryStorage, TelemetryUpload, SweepStudy

`RunFiles`: runs of one device after another, each with a directory named after
the second it started in, a schema check that rotates a file with another
header, two buffered logs with periodic flushes, kills, power cuts that lose
what was not written back and may set the clock back, and the report at the
end.  A row is written in halves so that it can be torn.  `DebugFrames`: which
pictures a frame leaves, given the writer's limits in time and number, and
under which name and folder.

`TelemetryStorage` is a session's directory in the cloud, `TelemetryUpload` the
uploader over it: session start, batches, session end, up to `MaxRetries`
attempts per post, outcomes lost before or after the server stored it, requests
that arrive late, a server that dies inside an append (a torn last line
swallows the next appended one), an uploader killed anywhere, files that grow
meanwhile.  Dry runs and the contents of the metadata are left out.

`SweepStudy`: capture, tag, analyse, tabulate, recommend, as tools run one
after another from one shell and killed anywhere, over reports that may be
older than the tags.  The capture may go on meanwhile: a report takes its rates,
its bins and its number of rows from three reads of the log (`ReadLog`; the read
of the threshold sweep is left out with it).

### 2.10 The page: DashboardPage, Visibility

A *task* of `DashboardPage` is one running call of an async function: a poll, a
lifecycle action, the create form; an action is the code up to its next await.
Requests are answered in any order and may fail.  Tables are reduced to the
lecture whose rows they show; with nothing selected `renderEvidencePanel` filters
nothing (`app.js:598`), and any lecture's rows may stand in the section, which is
then off the screen.  `Visibility` has posts and lectures, one after the other,
and what `visibility_queries.py` infers of a log row's outcome from the events of
the same record around its time.  Its records are stamped by the application's
clock and its rows by the database's; `Lag` is the set of what a stamp of the one
may differ from a stamp of the other.

## 3. Runs

Every instance is the smallest in which the conflict it is about has all its
actors; the action coverage of TLC shows that every action and every disjunct
fires in some run.

| Run | Instance | Shows |
|---|---|---|
| `core_overlap` | 1 lecture, 1 student, 2 recognition requests, 1 lifecycle request, overrides, cooldown 1, at most 6 events | what holds although requests decide on stale copies: `PromotionEarned`, `RecordExplained` (`ConfirmedStamped`, `StateExplained`), `LockedUntouched`, and `TypeOK` |
| `core_serial` | 1 request at a time, cooldown 2, a payload for each guard, enrolments change | `ClimbsLadder`, `CooldownKept`, and the liveness properties `HitsAddUp`, `EveryPostAnswered` |
| `core_lifecycle` | 2 lectures in 2 rooms, 2 lifecycle requests, 1 recognition | `OneTransaction` (`RecordsFollowStart`, `EventsLogged`), `NoHitAfterWindow`, `RoomIsolation` |
| `core_backward` | as `core_overlap`, no override | **violated**: `NoBackwardTransition` |
| `core_finalized` | 2 lifecycle requests | **violated**: `FinalizedNotModified` |
| `presence` | two worlds: 2 laptops, one clock a unit behind and one ahead, heartbeat 2, timeout 4, 8 units; and 1 laptop with its clock ahead, batches of 2, 2 lost or late posts, 2 restarts, timeout 2, 5 units | `ReliableSessions`, which is `SessionsAreTracks` (`TypeOK`, `TrackedIsVisible`, `VisibleIsTracked`) of the first world, and `StoppedCameraFades` of the second |
| `reports_freeze` | 1 lecture, 2 students, 2 symmetric queries, 2 symmetric lifecycle requests, 2 log rows, 1 restart | `FrozenOnce`, `FrozenIsFinal`, and `OneFinalReport` (`TypeOK`, `AnswersFrozen`, `ReportsAgree`, `FrozenIsServed`) |
| `reports_confirm` | 2 lectures, 1 query, 2 log rows, a camera whose clock is ahead, 1 clock step, the confidence and timeout bounds inside it | `LiveComplete`, `ConfirmedSupported`, `StudentRateIsRate` |
| `devices` | the eleven parts of `MCDevices`, see below | 15 properties, by part below |
| `telemetry` | the six parts of `MCTelemetry`, see below | one property per part, below |
| `verifier_forgotten` | the loop alone, 1 track, every frame detected | **violated**: `AskedAgain` |
| `log_columns` | the logs part alone | **violated**: `SourcesSummarised` |

A property of a run is often the conjunction of several that are stated one by
one in its module; the tables name them in parentheses.

| Part | Instance | Properties |
|---|---|---|
| loop | 1 track, 2 persons, window and streak 3, detection every 2nd and embedding every 3rd frame, persistence 2, cooldown 3 | `LoopSound` (`TypeOK`, `BufferIsRecent`, `GivenUpAfterThree`), `CadencesMeet` (`EmbeddingFresh`, `SpoofStreak`), `SpoofBlocks`, and liveness: `LoopReportsSteadyFace` |
| tracks | 2 visitors, boxes at 3 places and one of them also half as wide, which is too far: two that hide each other's detection, two that merely overlap, two that are too far apart, 2 frames until a track is gone | `FacesKeepTracks` (`TracksTypeOK`, `NothingLeftBehind`, `EmptyRoomClears`, `FacesAreTracked`, `NoFaceTwice`, `StaysOnFace`, `StandingFaceKeepsTrack`) |
| filters | 2 identities, similarities below, at and above the threshold, 3 frames after each loss while the window of poses slides on | `FiltersInventNothing` (`BoxWithinSeen`, `MatchHasPeak`, `OddFrameIgnored`) |
| vote | a value of each cue on each side of each of its limits | `FlatFacesRejected` (`VoteTypeOK`, `SpoofForgets`, `EstablishedHarder`, `FlatRejected`, `FlatNeverAlive`) |
| routers | similarities around both thresholds, window 3 | `RoutersConsistent` (`RouterTypeOK`, `SentBelowAverage`, `StaticStrategiesAgree`, `DeadBandCrossed`) |
| fan | every threshold, a degree below, and two degrees below | `FanFollowsHeat` (`ModeFits`, `PinFollowsMode`, `NoFlapping`) |
| feed | 3 pictures, reads of 1 to 6 bytes, 2 browsers | `PicturesArrive` (`FeedTypeOK`, `PicturesWhole`, `OnlyCutPicturesLost`, `NeverBackInTime`, and liveness: `NewestIsSeen`) |
| logs | 2 tracks, 2 names of which one is doubtful, scenes at, above and just below each threshold, every outcome of a call | `LogsExplainFrames` (`LogsTypeOK`, `ComparedInBoth`, `FrameExplained`), `MetricsAgree` (`AttemptsAccounted`, `CountsAgree`, `GatesMirrored`, `LabelsMirrored`, `SweepReplays`, `OrientationBounds`, `MergedFlips`, `ScoreAmongSignals`) |
| client | 1 retry on top of the first attempt, as configured, every failure of a try | `OutageContained` (`ClientTypeOK`, `TriesBounded`, `GivenUpForAReason`, `SkipsPass`) |
| gallery | 2 persons, 2 samples in 2 axes, 3 enrolments | `EnrolledIsKnown` (`GalleryTypeOK`, `AnswersCurrent`, `EntriesAmongGiven`) |
| matching | 2 persons, 2 views, pools that are missing, window 4, 3 votes, a cloud that knows a third person | `SightingsExplained` (`FormerFaceFades`, `CloudSeesThePresent`, `PoolOfTheMatched`, `SentIsStored`) |
| upload | 1 session, 2 files with 2 and 1 rows, batches of 2, 2 attempts, 2 runs, 2 faults, one damaged row | `UploadDelivers` (`TypeOK`, `AckedReadable`, `ExitZeroIsComplete`, `DuplicatesBounded`, `SummaryCoversEvents`, and liveness: `UploadEnds`) |
| page | 2 lectures in one or two classrooms, one of which may not exist yet, 2 polls that overlap each other, the actions and the form, 2 calls at a time, 2 events | `PageFollowsDatabase` (`PageTypeOK`, `EvidenceBesideItsRecords`, `RestingLectureListed`, `DetailIsOfOpened`, and liveness: `PageConverges`, `ButtonsComeBack`) |
| view | 2 students, 3 posts, window 0 before and 1 after, at most 2 rows shown, the clocks a unit apart either way | `ShownAsDecided` (`ViewTypeOK`, `AcceptedShown`, `ShownAcceptedNear`, `RowsSettle`, `ProgressExplains`) |
| files | 2 runs with the same or another schema, 2 frames each, a flush every 2nd, 1 power cut, 2 seconds | `RunsAreKept` (`FilesTypeOK`, `SchemasApart`, `UnsavedAreRecent`, `ReportComplete`, `RowsStay`) |
| debug | all decisions that leave pictures, interval 2 at 2 ticks a second, 2 kept per rule, 7 frames | `PicturesAreKept` (`DebugTypeOK`, `NoPictureReplaced`, `SpoofsInOneFolder`, `OnePerFrame`) |
| study | 2 sessions, 2 rows that may come between the reads of a report, 2 tags, 2 presets | `StudyFollowsSessions` (`TagKept`, `EverySessionTabled`, `TableFollowsTags`, `OneBinPerLabel`, `UnderTheCeiling`) |

*Why the bounds are enough.*  Six events per record cover the whole ladder (1,
3, 5) and one event beyond; two overlapping requests are what a lost update
takes; a cooldown of 1 or 2 ticks separates "too early", "exactly" and "later".
In the presence run the relation of heartbeat, clocks and timeout matters, not
their size: a heartbeat has to come before the timeout runs out also where the
laptop's clock is behind the cloud's and behind the other laptops', 2 + 2 ≤ 4 in
the instance, 30 s + the difference ≤ 45 s in the defaults.  In the other world one clock is ahead, which
is what makes a session outlive its laptop.  The lossy and the loss-free world are
one run because they share the module and differ in their constants only.
`reports_freeze` has no sessions, since freezing does not ask what was decided,
and its log rows never exceed the fetch limit; `reports_confirm` has the sessions,
and the theorems both.
`MaxEvents`, `MaxTime`, `MaxFaults`, `MaxRestarts`, `MaxRows`, `MaxAppearances`,
`MaxRuns`, `MaxCalls`, `MaxNow`, `Skew`, `MaxPosts`, `MaxCuts`, `MaxMeasured`, `MaxTags`,
`MaxFrames`, `MaxEnrolled`, `MaxId`, `Pictures`, `Budget` and `LastFrame` are the
bounds; each limits how much arrives - requests, frames, pictures, clicks, posts,
runs, polls at a time - and none of them cuts short what the program does with it.  The loop, vote, routers and fan parts have none:
their counters are modulo, saturated or end by themselves.  The loop's cadences
have no common divisor and differ, so that frames with and without detection,
embedding, both or neither all occur.  One track is enough for what is said of
a track by itself; `SpoofBlocks` and `LoopSound`, which tie tracks
together, are proved for any number.  Inputs of the vote, routers and fan are
taken at, just below and just above every limit the code compares them with.
In the files part two runs are enough for a rotation and for a directory that
is met again; a power cut between them sets the clock back.  The page begins with
a database that has something to show, so the empty page occurs only at the
start of a poll.  Configurations that switch the deadlock check off do so because
at the bounds the environment has nothing left to send and the system rests.

### 3.1 What the violated runs show

* **Records move backwards** (`core_backward`).  `engine.py:7` promises that
  backward transitions are suppressed.  The guard is on the request's own copy
  and the UPDATE is unconditional: a request that loaded the record before
  others moved it on writes `candidate` over `initialized` or more.  The number
  of accepted events never shrinks, so `PromotionEarned` still holds and the
  next accepted event moves the record up one rung again.
* **A finalized lecture becomes closed again** (`core_finalized`), by a close
  that had checked the status before another close and the finalize.  `Reports`
  has the same: the frozen report stays in the store, but while the lecture is
  closed again its queries are answered with what they compute, as not final,
  which is why `FrozenIsServed` speaks of lectures that stay finalized.
* **A verifier that is back is not asked** (`verifier_forgotten`).  Three failures
  clear `_server_reachable`, the gate in `edge/main.py:1042` then keeps the loop
  from the one call that could set it again, and nothing calls `health_check`;
  `cloud_client.py:334` and `cloud/README.md:245` promise an attempt after the
  backoff.  `_last_health_check_ts` is never set, so the breaker itself, were it
  reached, would always reset at once.
* **The telemetry file's columns are shifted** (`log_columns`).  The header
  (`telemetry.py:40-52`) has the observer's six columns in the middle, the rows
  (`main.py:1230-1237`) have them last: read by name, `recognition_source` holds
  the number of tracks and `attendance_state` a similarity.  The report counts
  no recognition as local or cloud, and the health score's recognition and
  attendance parts are always 0.5.

### 3.2 Disagreements without a run of their own

Cloud:

* A snapshot may be from before the end: states are computed first and the
  status is read afterwards (`finalization_service.py:34-50`), against
  `surveillance/README.md:822` "Snapshot frozen on first query after end".
* A session that times out is deleted (`presence_timeline.py:107`), not marked
  inactive as `surveillance/README.md:480` says.
* A laptop's stamp is never clamped: one whose clock is ahead keeps its sessions
  for longer than the timeout by as much, and expires those of slower laptops
  early.  `StoppedCameraFades` and `SessionsFollowTracks` count both in.
* After a restart a finalized lecture is frozen anew, from other sessions and
  perhaps more rows: the second final report may judge a student differently.
  `ReportsAgree` holds that it leaves nobody out.
* A frozen lecture drops out of the list of finalized lectures
  (`finalization_api.py:40`) when newer log rows of others fill the fetch limit;
  the query for that one lecture still gives it (`FrozenIsServed`).
* A recognition log row does not record what the engine did with it; the
  endpoint infers the outcome from events within −2 s..+30 s, so a suppressed
  post can be shown as accepted (`visibility_queries.py:163`).
* The lecture report's rate counts only students with evidence: absent ones do
  not lower it.
* `_Subscriber` (`dashboard/websocket.py:35`) is a dataclass with generated
  equality, hence not hashable, and cannot be added to the set of subscribers.

Edge:

* One verify can take four tries (its own two, repeated by urllib3) and thus
  about four timeouts, against "Pi must NEVER block indefinitely" with a "hard
  timeout" in `cloud_client.py`'s docstrings.  A read timeout surfaces as a
  connection error, and so do repeated 5xx answers.
* The detection cadence looks at the frame counter before its increment
  (`edge/main.py:693`), the embedding cadence after it (`:969`).  With both at 2 no
  frame satisfies both, and a full buffer is never refreshed; `EmbeddingFresh`
  states what holds for cadences without a common divisor, `settings.py:296`
  promises `EMBED_CADENCE_N` frames.
* A label carried over a frame without detection goes through the spoof-streak
  smoother again, so fewer votes than `docs/STABILIZATION_KNOBS.md:94` says reject
  a face; `SpoofStreak` counts the frames a vote is carried over.
* `edge/main.py:1032` wants the run of matches reset by every frame that is no
  match; OUT_OF_RANGE, REJECTED_LIVENESS, labels other than REAL, and BUFFERING
  leave it as it is.
* A single planar window can be a rejection, by the penalties, although
  `liveness.py:64-67` says that it takes several; `FlatFacesRejected` asks for a
  rejection at the third in a row, and before that only that no such window is
  found alive, which both sides agree on; the static-depth trap rejects an established track in one still
  window against the comment at `:184`; `planar_streak` has no upper limit, so a
  long planar period is followed by as many rejected windows.
* `liveness.py` weighs geometry most for a face seen from above, so size and
  spread of angles alone can reach the score of REAL, without motion or skin.
* `main.py:366` can create the threshold router only.  The adaptive router's
  docstrings (`offload_router.py:235`, `:302`) and the comment at `:326` say that
  disagreement lowers the threshold, the factors raise it, and `feedback()` skips
  the minimum of ten; `SentBelowAverage` therefore says nothing of windows of
  answers that move the threshold.
* Only a frame without any face ages the tracks (`tracker.py:22`): a ghost kept
  while others stay in view can take a detection from a live track, or be fed by
  the same face.  `PoseEstimator`'s histories are never dropped.
* `read()` goes on returning the last picture after the camera's process has
  ended (`camera.py:361`), so the loop's test at `main.py:678` is never met,
  against its docstring and the check in it (`camera.py:352-355`, `:363-365`); no
  property takes either side.  A trailing half marker is dropped with the buffer.
* An embedding buffer survives when the tracker goes on with another face: the
  person who left is matched and posted until half a window of new embeddings.
  Votes on the pose outlive NO_MATCH and REJECTED_LIVENESS.
* The rows keep similarities in thousandths, rounded: a sweep at the threshold the
  log was made with counts faces that fell short of it by less than half of one
  (`main.py:608-609`); `SweepReplays` accounts for exactly these.
* A post answered 2xx without JSON counts as a server error although it was
  stored; the cooldown starts whatever the outcome.

Gallery, files, upload:

* Repeated enrolment adds the new sample to the entry and renormalises
  (`gallery.py:78-88`), which halves earlier samples each time, where `:24-27` and
  `:63` say "MEAN of all enrolled embeddings" (the script does a true mean).
  `EntriesAmongGiven` holds of both: an entry is as like each of its samples as
  some sample is.  Entries enrolled over HTTP are lost at a restart.
* A directory is named after a second and reused if it exists; after a power cut
  a Pi may meet an earlier name.  The rotation's archive name has only a second
  as well, and `os.rename` replaces an earlier archive of that second
  (`telemetry.py:70`); `RowsStay` excepts it.
* With a rate limit a frame leaves at most one picture, so the second rule for
  SPOOF (`telemetry.py:235`) has no effect unless a write raises.
* `telemetry/api.py:4` calls all endpoints idempotent; `append_events` appends, and
  the uploader repeats a post that timed out.  `storage.py:18-20` promises line
  buffering and at most one truncated line; the file is block-buffered, and the
  next acknowledged event is swallowed by a torn line.  A late session end can
  overwrite a newer summary; a damaged CSV row ends a session's upload without
  its end.

Analytics:

* A report reads the log four times (`stabilization_report.py:157-168`): while a
  capture goes on its rate, bins and number of rows are of different lengths.
  `UnderTheCeiling` promises a recommended session's rate only of some of the rows
  the report counts.
* `build_session_summary`'s `offload_success_total` can exceed `offload_total`:
  the decision of a verified offload is overwritten with MATCHED
  (`main.py:1071`), so `offload_total` counts only the others.
* `main.py:329` says "matched events only" of the attendance file; offloaded and
  below-threshold rows are written too.
* `api.py:423` reads an offload rate at a path that does not exist.
* `quality.py:4-9` claims to mirror the offline gates; unstable camera, low
  light, proximity, temperature, low confidence and orientation differ.
* Rows that were never compared have similarity 0 and threshold 0 and are
  counted as below in the sweeps and above in the crossings
  (`experiment_report.py:792`); an experiment's tracks are keyed by id across
  sessions, which makes false flips; with no genuine pair `roc_curve` gives 1.0
  where `far_frr` gives 0.0.
* A payload's `per_session` part is fresh, its table is made from stored
  reports, which may be older than the tag; stored reports have sorted keys, so
  the same label means the upper edge of a bin there and the lower edge in a
  fresh one (`session_aggregator.py:175`, `stabilization_report.py:257`).
* `calibration.py:191` reads a strategy out of `protocol.environment`, which is a
  text: it is always None, as are the sweep values of two presets and
  `operating_point_snapshot`'s path into a list.

Page:

* After a close that succeeded and a finalize that failed, the dialog still
  says "open", and every further confirmation fails at the close.
* A closed or scheduled lecture whose classroom shows another one cannot be
  finalized from the page; of two open lectures of a room only the newest shows.
* With nothing selected, the evidence panel shows whatever rows arrive
  (`app.js:598`), in a section that is hidden then.
* An old overview that arrives late can render an old status and select again,
  and the tables of a lecture selected before may stand until the next poll.

### 3.3 Fairness

* `AttendanceCore`'s `FairSpec`: weak fairness of `Handle(r)`, the steps of one
  recognition request, because the asyncio loop resumes every coroutine whose
  await is over, and of `Tick`.  Nothing of clients, teachers or administrators:
  `HitsAddUp` assumes in its premise that confident events keep being answered.
* The frame loop: weak fairness of `Loop`, which runs by itself and waits only
  for posts and requests that time out.
* `FeedFairness`: of the reader thread while there are bytes, of the loop's read
  and `set_frame`, and of the generator of each browser that goes on reading.
* The page: the browser's timer (`setInterval`), the continuation of a call whose
  await is over, and that a request is answered or fails in the end.
  `PageConverges` needs that the other events end, which `MaxEvents` sees to.
* `verifier_forgotten` has the fairness of the frame loop; that the verifier is back
  for good and that faces go on asking for it are the premise of `AskedAgain`.
* The uploader: of its own steps and of the outcome of a post, which has a
  timeout.  Nothing of the server: it may never answer.

## 4. Proofs

All theorems are about every value of the constants that the named assumptions
allow, and about any number of steps.  Where a theorem has a hypothesis besides
the specification it is named below, with the reason why the code justifies it
or what happens without it.

### 4.1 What is proved, and along which argument

`AttendanceCoreProofs` (`ConstantsAssumption`, `CooldownAssumption`):
`TypeCorrect`, `PromotionsAreEarned`.  `PromotionEarned` is not inductive: the
engine promotes on a count that was read earlier.  `IInv` adds that a request
past the resolver has a lecture and a student (`Located`), that the state and
the count a request holds are covered by the rows there are *now*, and that the
target it will write is covered by them plus its own row (`Earned`).  Event rows
are never deleted, so a covered copy stays covered while others commit;
`TargetEarned` shows that one event on a covered copy gives a covered target.

`AttendanceRecordsProofs` builds on it: `TransactionsAreWhole` and
`RowsExplainRecords`, about the two parts each of `OneTransaction` and
`RecordExplained`, and the step
properties `LocksHold`, `RoomsIsolated`, `WindowsStayShut`.  `RInv` adds that a
request about to commit holds an unlocked copy and that the lecture it found is
one of its room.  `RequestWays` lists once how a request can get from one state
to the next; each theorem then has to look only at the steps that change its
tables.

*The refinement.*  `NonOverlappingClimbs` and `NonOverlappingCooldown` have the
hypothesis `[]Apart`: no two requests hold a copy of the same record at a time.
Requests of other records may overlap as they like.  Under it `Current` is
preserved: what a request holds is what the tables have, and what it is going to
write was decided on that.  A commit then is a step of `HitLadder`, everything
else a stutter.  `core_backward` is what happens without `Apart`, so the two
together say that overlap on one record is the only way off the ladder.
`SerialIsEnough` discharges the hypothesis where there is one request at a time.

`PresenceProofs` (`TimelineAssumption`, `PresenceAssumption`): `AlwaysTyped`,
`StoppedFades` under every fault: no event on a wire, in a batch or under way
late, and no session, is newer than the last moment its laptop ran (`Horizon`);
so whatever is still processed, after `Timeout - Lag` nothing is active; `Lag` is
any integer, less than 0 for a clock that is ahead, and the time a stopped laptop
needs grows by it.
`SessionsFollowTracks` has the hypothesis `Reliable`, a condition on the
constants: no lost posts, no restarts, no batches (the default), and a heartbeat
that comes before the timeout by the cloud's clock (`Heartbeat + Lag[c] <=
Timeout`) and by that of every other laptop, whose events expire the table too
(`Heartbeat + Lag[c] - Lag[d] <= Timeout`; 30 s of 45 s).  A clock that is far
ahead breaks the second for everybody else.  `SyncInv` says why the table then
follows the pictures: what they disagree about is exactly what the laptop still
has to say (`Followed`), and a session is no older than the heartbeat timer
(`Fresh`).  A laptop has said everything before time goes on, and the order it
says it in does not matter, which is why the sorting of ids into a sequence is
only needed as the set of what is in it.

`ReportsProofs` (`PipelineAssumption`, `ReportsAssumption`):
`OnlyFinalizedIsFrozen`, `FrozenStaysFrozen`.  What a query found
finalized some steps ago was finalized once (`Known`, `OverGrows`), though
overlapping lifecycle requests may have taken it out of that status again, and the
last step looks at the store before it writes.
`OneReport`, `NobodyIsLost`, `ConfirmedNeedsPresence` and `RateIsRate` are about
what is answered and rest on `AnswersInv`.  They hold with any number of sessions,
although `reports_freeze` has none, and on both sides of the fetch limit where the
property does not name it.  A query is a pipeline of reads, and
each part of the invariant says what still holds of it at every stage: what it
has computed is about something logged (`Drawn`), whoever was logged when it
began is still carried along (`Complete`, below the fetch limit), so is a
lecture that was frozen then (`Served`), and an answer has one entry per lecture,
the stored one for what is final (`Told`).  A query holds sessions that others
change: what is said of them is that each started with an appearance that
`appeared` remembers, which no event takes back.  Answers of an earlier run of the
cloud are compared through the log rows, which survive it.  `ConfirmedNeedsPresence` has the
hypothesis `Registered`: with the fallback to other cameras on, every lecture
has registered ones; otherwise the code lets any camera confirm.

`EdgePipelineProofs` (`EdgeAssumption`): `LoopStaysSound`, so
that the client's own breaker, which opens at five failures, is never reached,
and `SpoofsBlockPosts`.  The invariant adds `Covered`: a track has no more
embeddings in its buffer than clean frames behind it.  A post needs a full
buffer, hence a full window of clean frames.  `RejectionsAreEarned`: the votes
carried over frames without detection never outnumber the frames a detection
stands for; `Paid` counts what the frames still ahead of the next detection may
add.  `EmbeddingsStayFresh` has the hypothesis `Coprime`; without it the cadences
may never meet (3.2).  `FreshSince(m)` measures the age of an embedding by the
distance of the counter from a frame `m` where both meet, and, the remainders of
multiples of one cadence by the other being all different, there is such an
`m`.  `CadencesDoMeet` is both.

The same module has the tracker (`TracksAssumption`): `TracksAreKept`, for any
set of visitors and of boxes.  `suppress_overlapping` leaves no two boxes with
one centre (`ApartFromEach`), so a track on whose box a face stands aims at that
face's detection, and no other track can take it (`FaceInPlace`).  That the
matching gives a detection to at most one track, and a track at most one, is the
walk over the pairs in the order of their gaps; new ids are `next_id` plus the
rank of the unclaimed detection (`RankOfIndex`), hence all different and all new.
A track whose face is too near or too far keeps what it had, and its box still has
that face on it, so nothing is left behind by that exit.
`MissedThroughout` counts the empty frames, for `EmptyRoomClears`.

And it has the camera's pipe (`FeedAssumption`): `PicturesArriveSafely`, for any
number of pictures and browsers and any size of the pipe.  Byte `p` of what the
camera writes is `Byte(p)`, and the reader's buffer, the pipe and what is still to
be written are three neighbouring stretches of it (`Stretch`, `BytesFit`).  A
marker of the first kind stands only where a picture begins, so one turn of the
inner loop cuts out the first picture that begins in the stretch
(`CutStretch`), the loop all of them (`DrainStretch`, an induction over the turns
of that recursive function), and what stays is the head of the next one.
`PicturesKept` accounts for every picture: what was read whole was decoded, and
of the one read in part the head is in the buffer, or a read ended between the two
bytes of its first marker.  `PicturesArriveIfTheNewestIsSeen` is all of
`PicturesArrive`, with the liveness of `NewestIsSeen` as hypothesis.

`EdgePartsProofs` has nine parts of the device, each with an invariant of its own.

* *Client* (`RetriesAssumption`): `VerifyIsBounded`, `FlagsHaveAReason`,
  `SkipIsRare`, and all as `OutagesAreContained`, for any number of retries.
  `Budget` ties the tries so far to the attempt and the tries left in it; `Armed`
  says that a verify under way has fewer than five failures behind it.
* *Fan* (`FanAssumption`): `FanAlwaysFollows`, for every set of temperatures and
  however far they jump.  `NoFlapping` is about a step and needs `Turn`, which
  ties the last change of the mode to where it led.
* *Vote* (`VoteAssumption`): `FlatAlwaysRejected`, for every window length and
  all averages of the cues.
* *Filters* (`FiltersAssumption`): `FiltersAreTrue`, with `PoseWindow >= 3`
  (`ORIENTATION_SMOOTHING_WINDOW` is 5): in a window of one or two frames an odd pose does
  carry the vote.  An average of values lies between the smallest and the
  largest of them, and `OddFrameIgnored` is a count of votes over a window.
* *Routers* (`RouterAssumption`): `RoutersAreConsistent`, for every window
  length.  The adaptive threshold's base takes the root of a variance; that the
  variance is not negative is `(Sum x)^2 <= n * Sum x^2`, proved by induction on
  the length of the window over the set of lengths for which it holds.
* *Debug pictures* (`DebugAssumption`): `PicturesAreFew`, with `MinInterval >= 1`:
  without a limit in time a frame may leave as many pictures as it gives
  occasion for.  A frame's occasions are a fold over its tracks; what it takes is
  nothing or the first that did not raise (`Taken`), as the first picture closes
  the door for the frame.  When nothing raises that is the first occasion of all,
  which for a spoof is its own rule.  That names stay apart needs the order of
  the seconds: each picture's is that of the last save or an earlier one.
* *Run files* (`RunFilesAssumption`): `RunsAreKeptAlways`, for any number of runs,
  frames and power cuts.  `HeaderedFile` and `Fits` fix where the one header of a
  file is and which rows may follow it; `NotTornSince` keeps the halves a run
  appends paired, so that only its first line can follow a torn one, and
  `TornByCuts` says that a torn line takes a power cut.  What is not yet saved is
  bounded through the round of the frame counter that flushes.
* *Logs* (`LogsAssumption`): `LogsAlwaysExplainFrames`.  `FrameExplained` speaks of
  finished frames, `ObservedSoFar` says the same of the tracks already handled in
  the frame in hand.  `UpToNow` and `RowPerFrame` keep rows of different frames
  apart, so what a later track writes takes nothing back, and `AttemptsTold` ties
  the outcome of an attempt to the band its similarity is in.
* *Matching* (`MatchAssumption`): `SightingsAreExplained`, with the hypothesis
  `Separated`, a condition on the constants: a window that holds a bare majority
  of samples of another face has a mean below the lowest threshold.  It is
  arithmetic about the cosines, true of the instance and, with cosines of 0.6 and
  0.2, of the default window of 8; it fails for windows of about 40, where a
  former face does not fade as soon as most of the window is the new one's.
  The mode that is voted and the pools it leads to are arbitrary, and a match by
  the cloud is about the newest sample.  `NewestArePresent` says which samples are in the buffer, `BelowThreshold` counts
  them by class.

`VisibilityProofs` (`VisibilityAssumption`): `ViewShowsDecisions`.  Here posts are
one after the other, so a record's state is a function of the number of its
events (`Rung`, `Climbed`): its history is known from that number and the progress
shown explains it, up to what the two clocks differ (`Lag`, any set of lags).  `Paired` ties rows and events: an accepted row has an event
of its own time and an event has an accepted row; `Counts` says there are as
many.

The same module has the studies (`StudyAssumption`): `StudiesAreSound`.  `Honest`
says of every report, stored or in a tool's hands, that its rate is that of
a beginning of its session's log, of no more rows than it counts, as logs only
grow and the count is read last, and that its bins are whole metres; `Listed` and `Tabulated` say how far a sweep
has come, row by row beside the reports of its first pass.  Tags do not change
under a sweep, because the tools run one after another; that a tag is never half
written is `os.replace`.

The same module has the attendance page (`PageAssumption`): `PageNeverMixes`, for any number
of polls and calls at a time: the safety part of `PageFollowsDatabase`.  Each
property is about what calls under way carry.  `CallFits`: an entry that says open
is of a lecture that was opened, which stays so whatever becomes of it
(`WasOpened`); and of every lecture that rested since a fetch began, the answers
so far have the classroom (`Answering`).  A list keeps the first entry of each
classroom, so an open lecture, which comes first, gives way only to an open one
(`FirstOfEach`).  `PageFits`: evidence in hand is of the lecture whose records
are, so no order of late answers puts it beside another's, and with nothing
selected the section is off the screen.

`UploadProofs` (`UploadAssumption`): `UploadTyped`, `AcknowledgedIsThere`,
`ExitZeroIsTrue`, `SummariesCover`, `DuplicatesAreRetries`, and all as
`UploadDeliversOnceItEnds`, whose hypothesis `UploadEnds` is the liveness part.
The rows of a session are ordered by file and number (`Precedes`), and a batch is
what comes next in that order.
- `Paid`: a line is *solid* when no torn end of file can swallow it.  Every
  acknowledged event without a solid line, and a line left open, has cost the
  server a death (`tears`); acknowledging and tearing both keep that balance.
- `Covered`: as long as nothing has failed in a run, everything due before the
  current session is complete (`Behind`), the metadata of the current one is
  there (`Begun`), and what is due of it is acknowledged, in the request, or
  ahead (`Through`).  Exit code 0 is the end of that.
- `Recorded`, `Counts`: an event comes from a row of the file, and the number an
  end request carries was taken after all batches that can still arrive.
- `Sparing`: copies of an event + late requests with it + attempts left for it
  + `MaxRetries` if the run has yet to come to it never exceed `MaxRetries`
  times the runs begun.  The bound of `DuplicatesBounded` is what is left of it
  when only the copies are counted.

Every inductive invariant was checked by TLC on the instance of its run before
it was proved.

### 4.2 Only model-checked

* Liveness (`HitsAddUp`, `EveryPostAnswered`, `LoopReportsSteadyFace`,
  `NewestIsSeen`, `UploadEnds`, `PageConverges`, `ButtonsComeBack`) is outside
  what the prover does.
* `MetricsAgree` compares sums over filtered and sorted sequences, computed three
  times; `SelectSeq` and `SortSeq` have no meaning to the provers, so what they
  compute for every input is an induction over data.
* `EnrolledIsKnown` speaks of roots of concrete vectors and of the pictures an
  enrolment leaves, again folds over data.

## 5. Hazards

`PROJECT.json` lists them with their lines.  Two have no property, because the
code promises nothing there: after a restart of the cloud a person in view stays
invisible until the tracker gives a new id (`presence_timeline.py:132`), and the
run of matches is not ended by every frame that is no match (`main.py:1022`).

## 6. Not modelled

* Face detection, embeddings, alignment, lighting, optical flow and person
  detection: numeric; their results are inputs.
* The live hub (`dashboard/websocket.py`): no subscriber can ever be added, so
  queues and broadcast are never reached.
* Settings, logging, health checks, migrations as such, contracts, enrolment and
  deployment scripts: no state a protocol depends on.
* `surveillance/occupancy.py`: box tracking over images; `Presence` takes any
  set of tracks.  `att/presence_store.py`: read by a health check only.
* Camera backends other than `rpicam-vid`: they open or raise.
* Spreads, percentiles and plots of the analytics, the experiment registry, the
  diagnostics scripts that print tables, and the page's layout.
* Keyboard commands, drawing, thermal sampling and manual pictures of the loop.
