# SimpleNVR in TLA+

SimpleNVR records IP cameras on a desktop machine: a Tauri shell supervises
go2rtc and a Python backend, and the backend keeps one ffmpeg recorder per
camera alive.  This project models the backend's control: who starts
and stops recorders and when, what a recorder's tasks do to each other and when
they give up on an ffmpeg, how segments become footage and are reaped, which
cameras are watched for motion, how a motion event lives, and how the scanner,
the HTTP API and the database agree on what cameras there are.  The modules are
checked with TLC and proved about with TLAPS: every safety property that a run
checks is also a theorem.
Paths below are relative to the repository root.

## 1. Inventory

The backend is one asyncio thread.  Coroutines interleave only where they
really suspend; `EventBus.emit` never does (ws.py:70-85 has no await that
yields).  aiosqlite runs statements on one thread in submission order, so a
query's result is fixed when it is submitted and may be stale when used.

| Component | State | Operations | Talks to |
|---|---|---|---|
| Recording manager (`recording/manager.py`) | `recorders`, `_starting`, `_settings`, a bus queue | `start_recording`, `stop_recording`, `run_forever`, `_handle_event`, `apply_settings_change`, `shutdown`, janitor | recorders, bus, database; called by the HTTP API |
| Camera recorder (`recording/camera_recorder.py`) | `_running`, `_proc`, `_audio_proc`, four tasks, failure deque, current segment | `start`, `stop`, `_spawn`, monitor, watchdog, stderr watcher, breaker, audio | ffmpeg, go2rtc, bus, database |
| Cameras and settings API (`api/cameras.py`, `api/settings.py`) | none of its own | logout, retry-main, rename, delete; POST settings, reset, clear-data | manager, scanner cache, database, bus |
| Event bus (`api/ws.py`) | a bounded queue per subscriber | `subscribe`, `emit` with drop-oldest | everybody |
| Database (`db.py`) | cameras, settings, recordings, events | upserts, overrides, in-progress rows | everybody |
| Scanner (`discovery/`) | `_known_cameras`, auth backoff, URI probes | scan pass, reconciliation of moved cameras, reauth | database, bus, go2rtc |
| Storage (`recording/janitor.py`, `storage.py`) | rows and files | budget enforcement, orphan sweep | database, disk |
| Motion manager (`motion/manager.py`) | `detectors`, a bus queue | walk over the recorders at start, attach and detach on events, `shutdown` | bus, recorders, detectors |
| Motion detector (`motion/detector.py`) | the current event, its tracks, a lock, the boost | consume a frame, close an idle event, `audio_boost`, `stop` | database, bus, detect frames |
| Detect frames (`detect_frames/`) | an ffmpeg handle, `_fps`, a supervisor task | supervise, `set_fps`, `stop` | ffmpeg |
| Audio (`audio/`, broadcasters) | consumer tasks, bounded queues | follow a recorder, classify | recorder, bus |
| Story, classification, HomeKit | derived data | pure or external | database, bus |
| Start-up and shutdown (`main.py`) | the tasks | cancel, then drain, in order | all of the above |
| Shell and tether (`src-tauri/`) | the process tree | spawn, graceful shutdown, parent-death kill | backend, go2rtc |
| Frontend (`frontend/src`) | a view of the cameras | reduces bus events | WebSocket, HTTP |

What is hard: start and stop of one camera from up to four kinds of task while
a start takes seconds and a stop up to thirty; rows read before a wait and
acted on after it; attributes of a recorder shared by tasks of successive
ffmpegs; a bus that forgets; a crash between a file and its row.

What makes each part correct:

- manager: one live recorder per camera, none unreachable, and what is recorded
  is what the rows say once all is quiet;
- recorder: one recording ffmpeg, replaced when it dies, gone after `stop()`,
  on the stream the breaker chose;
- storage: a finished file has a row, budget enforcement never deletes more
  than needed, a restart loses no complete segment;
- motion: a detector exists exactly while its recorder runs, decodes at the
  right rate, and its events end once, with rows that say so;
- audio: a consumer exists exactly while its recorder has audio;
- scanner: cache and table agree, listeners are told of each change, and a
  deleted or logged-out camera stays so;
- shutdown: every ffmpeg is drained before the event loop ends.

`PROJECT.json` lists every component, modelled or not, and every hazard at its
line.

## 2. Modules

| Module | Code | Proofs |
|---|---|---|
| RecordingManager | `recording/manager.py` with the requests that use it | RecordingManagerProofs |
| RecorderLife, CameraRecorder | the contract and the tasks of `recording/camera_recorder.py` | CameraRecorderProofs |
| RecorderWatchdog | the same recorder in time: watchdog, health, breaker | RecorderWatchdogProofs |
| RetentionRing, SegmentStore | segments as files and rows: finalisation, `recording/janitor.py`, crash and start-up | SegmentStoreProofs |
| MotionManager | `motion/manager.py` against the recorders, and the shutdown | MotionManagerProofs |
| DetectSource | `detect_frames/ffmpeg_source.py` with the boost and `stop()` of the detector | DetectSourceProofs |
| MotionEvents | events, tracks and their rows in `motion/detector.py` | MotionEventsProofs |
| CameraRegistry | `discovery/scanner.py` with the cameras table and the requests on it | CameraRegistryProofs |

The modules are parameterised by CONSTANTS with named assumptions; `MC<module>`
gives them values for TLC and extends the proofs, so that both tools see the
same definitions.  In every module an action is what one task does from one
suspension to the next, named for the function it is in; operators named
`...Mutant`, `...Stale`, `...Unpruned` and the like are plausible slips that a
property is shown to catch, and no specification uses them.

Composition.  RecordingManager relies on a recorder's life as RecorderLife states
it, and CameraRecorder is shown to implement RecorderLife.  SegmentStore is
shown to implement RetentionRing, by TLC and by proof.  MotionManager is composed with the
recorders' announcements, reduced to what RecordingManager and CameraRecorder
make of them; DetectSource and MotionEvents are the two halves of the detector
it attaches, which share `stop()` and nothing else.

### RecordingManager

One action per stretch of code between two suspensions.  Tasks are `Loop`
(`run_forever`) and the slots of `Request` (an HTTP handler, or the background
`apply_settings_change`); `pc` says where each is and `cam`, `todo`, `was` are
its local variables.  A `start_recording` or `stop_recording` that is suspended,
or that `gather` has scheduled and not yet run, is `call[task][camera]`, so that
one settings change can have a call in progress per camera.

| Code | Model |
|---|---|
| `self.recorders` | `recorders` (`None`: no key) |
| `self._starting` | `starting` |
| `CameraRecorder` objects | `inst`: life, owner and the settings it was built with |
| `start_recording` | `BeginStart` (to its first await), `StaleStopped`, `StartReturns` |
| `stop_recording` | `BeginStop`, `StopReturns` |
| `run_forever` | `LoopLoad`, `LoopBootstrap`, `StartNext`, `LoopSubscribe`, `LoopTake`, `LoopAct`, `LoopDone` |
| `apply_settings_change` | `ApplySettings`, `RunStop`, `RestartStart`, `RunStart`, `StartNext`, `EveryDone` |
| `api/cameras.py` | `RetryMain` .. `RetryEmit`, `Logout` .. `LogoutEmit`, `Delete`, `DeleteRow`, `Rename` |
| `api/settings.py` | `SettingsPost`, `SettingsLoad`, `ClearData`, `ClearResume`, `Reset`, `ResetRows` |
| the scanner | `ScanChange` (the row), `ScanEmit` (the event) |
| `EventBus.emit` | `Emit`: lost before subscription, drop-oldest when full |

Abstractions: a row is `online` (status online with an `rtsp_uri`), `offline`
(anything else) or `deleted`; the settings are `enabled` and one value for
everything that makes `apply_settings_change` restart; `heard` is a history
variable naming the cameras whose last event reached the queue.  A retry of
`load_settings` inside `run_forever` and the HTTP response are left out.

### RecorderLife and CameraRecorder

`RecorderLife` is the abstract contract: the life of a recorder as the manager
may rely on it (`Moves`), and that `stop()` returns.  RecordingManager's `inst`
moves along the same steps.  `CameraRecorder` implements it
(`LivesAsPromised == Contract!Spec` with the refinement mapping `life`).

In CameraRecorder every completed `_spawn()` opens a generation `g`: a recording
ffmpeg `ff[g]`, a watchdog, perhaps an audio ffmpeg `au[g]` with a probe
`atask[g]` and a reader `reader[g]`.  `start()` and the monitors hand `_spawn()`
to each other, so that chain is the single variable `loop`; the shared
attributes are `proc` (`_proc`), `aproc` (`_audio_proc`), `areader`
(`_audio_reader_task`) and `pick` (`self.camera.recording_stream_override`).
`input` holds what the last `_spawn()` decided: the stream read, the stream
whose codec tag was used, whether go2rtc registered the sub-stream, whether
through the loopback.  `unusable` are the streams whose codec cannot be
recorded, any set of them from the start; `missed` is history: the breaker's
handler sent its signal while the next ffmpeg was being spawned.

Abstractions: the watchdog's clock is replaced by the kill it decides
(`WatchdogKills` may happen whenever the code between the sleep and the kill
could; RecorderWatchdog has the clock); the failure deque is its length, from
which any number of entries may have aged; segments and stderr are absent
(SegmentStore has them); the audio broadcaster is absent.  One timing fact is
used: the shortest backoff, 5 s, is longer than the audio probe, 2 s, so
`BackoffOver` waits for it.  The chronic handler may outlive a backoff and meet
the monitor anywhere; only the next trip, three failures and as many backoffs
later, finds it done.
`stop()` is called once, as the manager does, and after `start()` returned;
`wait_for` on a process that has exited does not suspend.

### RecorderWatchdog

A tick is the watchdog's sleep of 5 s.  Every timestamp of the code is an age
that counts ticks and stops at the largest threshold it is compared with; a
task whose sleep is over runs before the next tick (`Prompt`).

| Code | Model |
|---|---|
| `_spawn()`'s tail | `Spawned` |
| `_stderr_watcher` on "Opening" | `SegmentOpened`; the file then grows by `Writes` |
| one round of `_staleness_watchdog` | `LookGone`, `LookKills`, `LookOn`, with `Grown`, `Seen`, `Elapsed`, `Label` |
| `should_trip_first_segment_grace`, `should_trip_split_brain` | `NoFirstSegment`, `SplitBrain` |
| `prune_and_check_breaker_trip`, the reset after a trip | `Pruned`, `RegisterFailure` |
| `_process_monitor` | `MonitorWakes`, `Respawn`, `MonitorEnds` |
| `_handle_chronic_failure` | `HandleChronic` |
| `stop()` | `StopBegins`, `StopEnds` |

`quiet`, `wrote` and `counted` are history: how long the ffmpeg has really been
silent, and the last failures since the last trip, as many as could matter (one
fewer than trip the breaker), aged but never pruned.  A file has a size up to
`MaxSize`, which stands for any growth between two looks.

### RetentionRing and SegmentStore

SegmentStore has one camera's segments, numbered by the time they start: a file
(`disk`), a row (`row`), and three tasks that finalise them and enforce the
budget, the stderr watcher, `stop()` and the periodic janitor.

| Code | Model |
|---|---|
| `_stderr_watcher` | `ReadLine`, `Insert` |
| `_finalize_segment` | `Check`, `Hash`, `Complete` |
| `enforce_storage_limit` | `Measure`, `List`, `Delete`; `Oldest`, `Used` are its queries |
| `stop()` | `StopBegins`, `StopCancels`, `StopReturns` |
| `cleanup_orphan_in_progress`, `cleanup_orphan_files` | `Purge`, `Sweep` |
| `_periodic_janitor` | `JanitorWakes`, and `StatementFails` from which its loop dies |
| POST /settings, clear-data | `LowerLimit`, `ClearRows`, `ClearFiles` |

`Crash` may come at any step and is followed by a start-up; the tether takes
ffmpeg down with the program.  Statements and unlinks may fail.

`RetentionRing` is what the storage promises to whoever looks for footage: the
segments that can be played are a ring, to which only a newer one is added and
from which only the oldest are taken.  `KeepsRing == Ring!Spec` maps its state
to the segments whose row is complete and whose file is there.

Abstractions: one camera only (the budget is shared by all, and the oldest is
the oldest of all); a respawn waits for the watcher of the old ffmpeg, which
has at least 5 s for the few lines that are left; a statement and its commit
are one step.

### MotionManager

`run_forever` subscribes, walks over the live dict of recorders, and handles one
event at a time; `loop` says where it is.  `size`, `left` and `ahead` are the
dict's iterator: the size the dict must still have, the entries it expects to
yield, and those it has not come past.

| Code | Model |
|---|---|
| `run_forever`'s walk | `LoopSubscribe`, `BootRow`, `BootAttach`, with `Walk` for the turns of the `for` and `WalkEnds` for its end, which is the task's when the dict's size or keys changed |
| `_handle_event`, `_attach_detector`, `stop_detection` | `LoopTake`, `LoopRow`, `LoopAttach`, `Detach`, `LoopStops` |
| recorders: start, respawn, give up, stop, corrupt segment | `RecStarts`, `RecFails`, `RecCleared` (a start that clears a dead entry first), `RecRespawns`, `RecGivesUp`, `RecStops`, `RecStopped`, `SegmentCorrupt`, with `Insert` and `Pop` for the dict |
| camera lost or deleted | `CameraLost`, `CameraDeleted` |
| `EventBus.emit` | `Emit`, drop-oldest |
| `lifespan` of `main.py` | `ShutdownBegins`, `MotionCancel`, `MotionEnded`, `ShutdownStops` |

`said` is history, the last announcement about each camera since the
subscription, and `lost` the cameras whose last one the queue dropped.  The
motion task starts before the first recorder or after it: the model begins
with no recorder and starts them while the walk is on.  Left out: that an
insertion may make CPython move the entries of the dict under the iterator, and
that `stop_recording` may stop a dead recorder while a start is clearing it.

### DetectSource

The supervisor, the boost task and `stop()` share one process handle; each may
be inside `_terminate_current_proc` at once, which is split at its wait:
`TermBegins` up to it, `TermReturns` after it.

| Code | Model |
|---|---|
| `_supervise_loop`, `_run_one_generation`, `_read_frames_loop` | `Probed`, `Spawned`, `ReadEnds`, `ReadStalls`, `GenerationEnds`, `SleepEnds`, and the failures |
| `audio_boost`, `_run_audio_boost` | `Boosted`, `BoostBegins`, `BoostEnds`, `WindowCloses`, `BoostTerminated`, `BoostWaited` |
| `set_fps` | `SetFps`, `AfterTerm` |
| `MotionDetector.stop()`, `DetectFfmpegSource.stop()` | `StopBegins`, `StopSource`, `StopTerminated`, `StopReturns` |

`strays` counts ffmpegs that are alive and that the handle does not name.  The
lengths of the back-off, the newest-frame slot and the frames are left out.
Between an exit and the next spawn lies a probe, a subprocess of its own: whoever
awaited the exit has been resumed by then, which the guard of `Spawned` takes
for granted.

### MotionEvents

The consumer, the idle closer and `stop()` each take the lock, submit statements
to the database and wait for them inside the lock.  `db` is aiosqlite's queue:
a cancelled task's statement is executed all the same.

| Code | Model |
|---|---|
| `_observe_emittable` | `Open`, `Improve`, `SeeAgain`, `Inserted`, `Classified` |
| `_persist_tracked_if_new` | `Persist`, `TrackPersisted` |
| `_idle_closer`, `_close_current_event_locked` | `TimePasses`, `CloserWakes`, `Close`, `Completed` |
| `stop()` | `StopConsumer`, `StopCloser`, `StopCloses`, with `Cancelled` |
| aiosqlite's thread | `DbExecutes` |
| clear-data | `ClearData` |

A frame is what the filters leave of it: its best track, and whether it
improves the event's classification.  The functions of `db.py` that execute
several statements are one statement each.

### CameraRegistry

What cameras there are is kept three times: in the table, in the scanner's cache
and in the hands of tasks that wait.  `heap` holds the mutable Camera objects,
`known` and the tasks refer to them, and every step forgets the objects nobody
refers to.  A query's result is fixed when it is submitted and used a
suspension later (`ReadBack`, `TakeNew`, `Rebind`).

| Code | Model |
|---|---|
| `run_scan`: probe, ONVIF part, RTSP part, lost loop | `ScanBegin`, `ScanFound`, `ScanRtsp`, `ScanLost`; per camera `TakeKnown`, `TakeNew`, `TakeLost` |
| a new camera | `Cached`, `Identified`, `Interrogate`, `NewUse` |
| `reconcile`, `_apply_reconcile`, `rebind_camera_ip` | `Identified` with `Hits`, `Rebind`, `Rebound`, `Merge`, `Merged` |
| a camera that was not found | `Reachable`, `Unreachable`, `Filed` |
| `_verify_stream_uris` | `VerifyBegin`, `Verdicts`, `Demote`, `Demoted`, `DemoteTells` |
| `upsert_camera` | `Upsert` (COALESCE by address), `UpsertRaises` (primary key), `Puts`, `ReadBack` |
| `authenticate_camera`, `_probe_substream_background` | `AuthBegin`, `AuthAnswer`, `AuthUse`, `AuthTells`, `SubFound`, `SubFile` |
| `manually_add_camera` | `ManualBegin`, `ManualAnswer`, `ManualUse` |
| `logout_camera`, `delete_camera`, factory reset | `LogoutBegin` .. `LogoutUse`, `DeleteBegin` .. `DeleteRow`, `ResetRows`, `ResetCache` |

A camera is its id, address, status, whether it has credentials and a stream
URI, and the device its identity evidence points to.  `net` says which device
answers at an address; `NetChanges` gives devices new addresses or takes them
away.  What a device answers, whether the auth back-off lets an attempt pass and
which URIs are due for a probe are left open.  The model begins when
`run_forever` has loaded the rows into the cache.  Left out: a POST /scan that
comes before that, and the start-up probe of cameras stuck in `needs_auth`
(scanner.py:905-958), which upserts cached objects as the passes do.

`unsaid`, `out` and `clash` are history: cameras that became or ceased to be
recordable since their last event, cameras logged out and not authenticated
since, and whether a task has changed a camera that another had in hand.  A task
works on its own address and on those of the cameras it holds (`Works`); what
counts as a change there is a row, a cache entry, or the cached object itself,
changed in place: an authentication may alter a shared object and then fail on
its upsert, and a pass that is rebinding the same object would write the result.

## 3. Runs

Bounds.  `MaxQueue` is 256 in the code; 1 or 2 makes it overflow within a few
events.  `MaxChanges` bounds the scanner's row changes, `MaxSpawn` the
generations of one recorder, `MaxFaults` and `MaxCrashes` what the environment
breaks.  One camera with several tasks is where the races of start and stop are;
a second camera matters for the queue, the walk over the dict and `gather`.
`Unused` gives a finished recorder back to `Rec`; a recorder in use is in the
dict or held by a call, so cameras plus calls in progress are enough of them.

| Run | Bounds | Asks |
|---|---|---|
| ManagerEvents | 2 cameras, 1 request, queue 2, 2 changes | `OneActive`, `NoOrphan`, `StartLock`, `Settled` |
| ManagerFleet | 1 camera, 2 requests, 2 settings values, queue 1, recorders may fail | `OneActive`, `NoOrphan` under retry, delete, settings, clear-data and reset, two at a time |
| ManagerProgress | 1 camera, 3 changes, fairness | `EventuallyRecorded`, `LockReleased` |
| RecorderLives | 2 generations, every switch on but the sub preference, any codecs unusable, fairness | `OneRecording`, `CleanStop`, `FallbackKept`, refinement of RecorderLife, `StopReturns`, `Recovers` |
| Watchdog | thresholds in the order of the code, a window of 6 ticks, 3 failures trip | `StallBounded`, `TileHonest`, `KillJustified`, `BreakerCounts` |
| Segments | 3 segments of sizes 1, 2, 1, budget 2 then 1, batches of 2, a crash, a failure, fairness | `GhostsOldest`, `BudgetKept`, `NothingForgotten`, refinement of RetentionRing, `BudgetRestored` |
| Motion | 2 cameras, queue 2, corrupt segments, fairness | `FollowsRecorders`, `ShutdownLeavesNone`, `EventuallyWatched` |
| Decoder | 3 faults, fairness | `OneDecoder`, `StopLeavesNone`, `RateFollows`, `StopReturned`, `Decodes` |
| Events | 2 events, 2 tracks, a failing statement, clear-data, fairness | `EndedOnce`, `RowsAgree`, `TrackedOnce`, `StartsFirst`, `QuietEnds` |
| Registry | 2 addresses, 1 device, one change of the network, one pass, one request | `CacheAgrees`, `Announced`, `LogoutStays` |
| MotionBootstrap | as Motion, no corrupt segments | a violation, below |
| RegistryLogout | 1 address, one pass, one request | a violation, below |

Why they are enough.  Two generations meet every pair of tasks of one recorder
(a task outlives at most the respawn after its own ffmpeg's end); OneRecording,
CleanStop and FallbackKept are proved for any number.  A Watchdog tick is one
look of the watchdog, and all thresholds of the code are small multiples of it;
what matters is their order, which the proof takes as its only assumption.
Three segments in batches of two make enforcement take two batches, two tasks
enforce at once, and a ghost row meet an intact one.  In Events the second event
begins while the first one's statements are in the queue; 2 tracks distinguish
the best one from another.  In Registry two addresses and one device are a camera
that moves, is replaced by nothing, or answers at both; a device that is
another one at the same address is not looked at there, and only the change of the
network makes it answer at both (`OneAtFirst`): the theorems are for any network.
Ids and objects (`MaxId`, `MaxObj`) never run out there; more of them add no
state.

What the properties of CameraRegistry excuse.  `Quiet` is a moment in which no
task holds a camera.  A task that changes a camera another has in hand sets
`clash`, after which the three properties promise nothing: the code does not
guard it (below, RegistryLogout).  The run's CONSTRAINT `Telling` therefore does
not go on from such a state.  What is left is a lot: a request and a pass at work
on different cameras, rebinds, failed upserts, and one after the other on the
same camera, which is where the cache must not be stale.

`Settled` speaks of cameras in `heard` only: an event that the full queue
dropped, or that came before the subscription, is excused there.  It holds for
the requests of ManagerEvents; with settings changes it does not (below).
`KillJustified` excuses a rotation to a file without a byte, `CleanStop` a
stop() that meets a spawn, a kill or an audio start in flight, `FallbackKept` a
sub-stream that go2rtc refused and a breaker's signal during a spawn,
`FollowsRecorders` a recorder that runs although the last word about it is that
it stopped, and cameras whose last word the queue dropped, `RateFollows` a
set_fps during a spawn, `BudgetKept` an enforcement that was cut short,
`NothingForgotten` a crash, a failed statement and a cancelled watcher: each of
these is a gap of the code, named in its history variable.

Type invariants are proved, not run, except for SegmentStore's, which is both.

Deadlock is checked for the manager, which always has a user or a scanner to
wait for.  The lives of recorders, decoders, events, segments and the bounded
network end, so the other runs do not check deadlock.

Fairness.  asyncio runs every ready task, and every await of the code below is
bounded (go2rtc 2 s, `stop()` 30 s then SIGKILL, queries, sleeps):

- RecordingManager: the loop, each request's continuation and each call in
  progress are weakly fair; the scanner finishes the step it began.
- CameraRecorder: its tasks are weakly fair, and a signalled process exits.
  For the watchdog's and the breaker's SIGTERM, which nothing follows by
  SIGKILL, that is an assumption about ffmpeg.
- SegmentStore: start-up, the janitor's wake-ups and the tasks that finalise and
  enforce are weakly fair.
- MotionManager: the loop, the shutdown and `stop()` of recorders are weakly
  fair, and each recorder respawns only finitely often: announcements
  without end could push each other out of a queue of two.
- DetectSource: the supervisor, the boost, `stop()`, the grace period and the
  boost's window are weakly fair; ffmpeg need not heed SIGTERM.
- MotionEvents: the database, the consumer's continuation, time, and `stop()`
  are weakly fair; the closer's wake-up is strongly fair, because it competes
  for a lock whose waiters asyncio serves in order.

Users, cameras, frames and failures are never fair.

### What the code does otherwise than it says

Two runs find a counterexample to a sentence of the repository ("findings" in
`PROJECT.json` quotes it).

MotionBootstrap, `StartIsPickedUp`.  The walk over the live dict of recorders
awaits a row inside its body.  A recorder that starts meanwhile changes the
dict's size; the next iteration (motion/manager.py:109) raises a RuntimeError
outside the `try`, and the motion task is dead with the recording_started event
in its queue.  The comment above the walk (motion/manager.py:98-99) says that
such an event is picked up by the loop.

RegistryLogout, `LogoutHolds`.  Between a logout's UPDATE of the row and its
replacement of the cached object, a pass takes the camera from the cache, still
with its credentials, and upserts it (scanner.py:562-564, or :539); COALESCE
writes them back.  `logout_camera` says it wipes them (api/cameras.py:49-52).

The modules state more sentences of this kind as definitions under the heading
"What the repository says and the code does not do".  They are not checked by a
run of their own; each is refuted by its module:

| Definition | Sentence | Story |
|---|---|---|
| RecordingManager `DisabledStopsEverything` | "Disabled - stop everything" (manager.py) | recording is disabled while a recorder is inside `start()` and not yet in the dict; a delete or a settings change misses it in the same way |
| RecordingManager `OnlineRecorded` | the module docstring on camera_found / camera_updated | a camera comes online between the bootstrap query and `subscribe()` |
| CameraRecorder `InputTagged` | "the codec tag for whichever stream we're about to record" | sub is chosen, go2rtc refuses it, main is read with sub's tag |
| CameraRecorder `FallbackPrompt` | "The _process_monitor respawn loop then brings the sub-stream up" (camera_recorder.py:1106-1107) | the handler signals while the next ffmpeg, on main, is being spawned: `_proc` is still the ffmpeg of before (camera_recorder.py:1155), and the new one records main until it exits by itself |
| CameraRecorder `NeverStuck` | `start()` on exceptions in `_spawn()` | a respawn that raises leaves `_running` True for ever |
| CameraRecorder `StopKillsTree` | ":17 terminate_process_group() on stop (kills the whole tree)" | `stop()` drains the audio process while the monitor finishes a spawn; the new ffmpeg survives (camera_recorder.py:776) |
| CameraRecorder `ReaderKillsOwn` | "we hold the only reference to this Process object" | an old reader's clean-up kills the new audio process |
| RecorderWatchdog `GraceHonoured` | the first-segment grace (camera_recorder.py:65-70) | an earlier ffmpeg's segment path, or a stall of its file, makes the watchdog kill a fresh ffmpeg before its first segment |
| SegmentStore `NoOverDeletion` | "until total disk usage <= limit_bytes" (janitor.py) | two enforcements list the same rows and each frees what the other has freed |
| SegmentStore `PurgeOnlyCrashed` | "any in_progress=1 rows are from a crashed previous run" (db.py) | a request starts a recorder before `run_forever` has cleaned up |
| MotionManager `DetachedWhenStopped` | "detaches when the recorder stops or the camera is lost" (manager.py:6-8; detector.py:244-246 likewise) | a corrupt segment is announced as recording_stopped while the recorder goes on (camera_recorder.py:1319-1326), or the old recorder's stop() announces it after the new one's start: the detector is detached and comes back only with the next respawn |
| MotionManager `ShutdownReturns` | main.py:241-242, "then tear down in reverse order" | the cancellation of the motion task lands inside `detector.stop()`, whose `except (asyncio.CancelledError, Exception)` (detector.py:374) swallows it; main.py awaits a task that goes on |
| DetectSource `NotStuckBoosted` | "we don't want it stuck on 5 fps" (detector.py:419-421) | set_fps while ffmpeg is being spawned finds no process to restart |
| MotionEvents `EndedWasStarted` | the module docstring on open and close | `stop()` cancels the consumer between the insert and the announcement, then announces the end |

Seen while modelling, and without a definition:

- a settings restart starts a camera from a row it read before it waited for the
  stops (manager.py:494), and its "fence" (manager.py:489-492) orders its own
  stops and starts only;
- a respawn that finds the codec unsupported ends the monitor chain, where the
  comment (camera_recorder.py:654) promises further attempts; two audio ffmpegs
  of one camera run together after a respawn; the breaker overwrites a row that
  says `main`, which db.py:508-509 promises to preserve;
- only the best track of a frame is persisted, where the comment
  (detector.py:995-997) speaks of all; an event that a crash leaves open is
  never closed by a later start-up; a motion task that has died re-raises its
  error when main.py awaits it, and cuts the teardown short;
- a delete or a factory reset that meets a pass is undone like a logout, which
  the comments at api/cameras.py:190-198 and api/settings.py:350-353 mean to
  prevent; a sub-stream probe or an authentication in flight does the same;
- `authenticate_camera` may set "online" without a stream URI, where
  scanner.py:445 says a camera is online only with one;
- the offline candidates are a snapshot of the pass's beginning: a camera that
  comes back at its old address in the same pass can still be retargeted to a
  new one (plans/mac-fallback-ip-change-plan.md), and a camera that moves without
  having been marked offline gets a second row;
- the lost loop looks up a key that a delete may have removed; the KeyError ends
  the pass (scanner.py:680).  A cache entry that a delete popped under the old
  address of a rebind stays behind, and each later pass fails on the primary key;
- a user's successful login can be overwritten by the lost loop's upsert of the
  object it held before; the auth back-off is consulted only for rows that are
  not in the cache;
- an audio consumer that ended with its broadcaster stays in `_consumers`
  (audio/manager.py:103), so the next recorder's audio is not followed unless an
  audio_stopped or recording_stopped event comes in between.

## 4. Proofs

Each theorem holds for every value of the module's constants that meets the
named ASSUMEs, which TLC evaluates in each run: the loop is not a request, nor a
pass one, `None` is no recorder, camera, event, address or device, bounds are naturals
(and there is room for one Camera object), thresholds are ordered as in the
code, the set of cameras is finite.  In each module the properties are not
inductive; `IInv` is the strengthening, there is a lemma per action or group of
actions, and the theorems follow from `Invariance`: `Spec => []IInv`.

RecordingManagerProofs: `TypeCorrect`, `NoOrphanAlways`, `StartLockAlways`,
`OneActiveAlways`.  `IInv` adds `MgrInv` - what an entry of the dict can be
(`DictSound`), what a suspended call knows of the recorder it holds
(`CallSound`), that a live recorder has an owner (`Owned`) - and
`CallsFollowPc`, that a task that is between calls has none in progress, without
which scheduling a new call could forget an old one.  Each operation on the
manager's state has a lemma that it keeps `MgrInv`, under the conditions its
callers meet.  `OneActive` follows from `NoOrphan`, `StartLock` and the shape of
calls: two active recorders of one camera would be two holders of its lock, or
a holder beside an entry of the dict.

`SettledAlways` says that the manager and the rows agree whenever nothing is
queued or in progress, for the requests that announce a camera after their last
change of it (retry-main, logout, rename), any number of them, interleaved with
the scanner and with recorders that fail.  The invariant says what, before that
moment, stands for the agreement that is missing: for every camera in `heard`,
if it has or is getting a recorder (`Coming`) that its row does not want, or
lacks one that its row wants, then an event about it is in the queue or certain
to be sent, or the loop has just read its row (`Told`); a camera_lost in the
queue is followed by an event about whatever made the row online again
(`LostTold`, `ScanTold`), or the loop would stop a camera that should be
recorded; `Places` is where those tasks can be.  The hypothesis is needed: with
delete, settings, clear-data or reset in `Ops`, one such request is enough to
break `SettledOffline` (TLC finds each), which is `DisabledStopsEverything`
above in its four forms.

CameraRecorderProofs: `TypeCorrect`, `OneRecordingAlways`, `CleanStopAlways`,
`FallbackKeptAlways`, and `ImplementsLife`, the refinement of RecorderLife.
`IInv` adds how the chain of spawns and monitors hangs together (`Chained`), that
only the last generation may be alive and then nobody is about to spawn
(`LastAlive`), what `_running` says at each point of the chain
(`RunningFollows`), that a respawn never overtakes an audio probe
(`ProbeIsLast`, where the timing fact of section 2 enters), what a `stop()` that
found nothing in flight still has to kill (`CalmStop`), and how the override
travels from the row through `self.camera` to the input of the next `_spawn()`,
or to a signal for an ffmpeg that has an older one (`OverrideReaches`).

RecorderWatchdogProofs: `TypeCorrect`, `StallBoundedAlways`, `TileHonestAlways`,
`KillJustifiedAlways`, `BreakerCountsAlways`.  `SilenceSeen` bounds how far the
true silence of an unsignalled ffmpeg can outgrow the clock the watchdog reads (its uptime before
the first growth, the age of the last growth after it, and one tick for what
was written after the last look); `SilenceReal` is the other direction, that
what the watchdog takes for silence is silence unless the file is new and empty.
For the breaker, `Matches` relates the pruned deque to the history that is never
pruned: the deque is its end, and every failure it lacks is out of the window.
`PrunedIs` is the lemma about the pruning loop: it leaves the end of the deque
that begins at its first entry in the window.  `Handled` and `Kinds` complete
the type invariant.  The assumptions used are the order of the thresholds and
that the back-off is a non-empty sequence of positive delays.

DetectSourceProofs: `TypeCorrect`, `OneDecoderAlways`, `StopLeavesNoneAlways`,
`RateFollowsAlways`.  `Reachable` says that an ffmpeg lives only inside a
generation whose handle nobody has dropped and that whoever waits for an exit
waits for a signalled process; `Stopping` how far `stop()` has come and what it
has left behind; `Told` whose rate it is.

MotionEventsProofs: `TypeCorrect`, `EndedOnceAlways`, `TrackedOnceAlways`,
`RowsAgreeAlways`, `StartsFirstAlways`.  The statement queue is what makes it
hard: `Queued` says that a task has at most one statement in it and what a task
that waits has submitted, `Tracks` and `Rows` what the statements still to be
executed will find (no row is inserted twice, and inserted before completed);
`Locked` and `Ended` tie them to the lock and to the current event.

MotionManagerProofs: `TypeCorrect`, `FollowsRecordersAlways`,
`ShutdownLeavesNoneAlways`.  `Heard` says that the last event about a camera in the
queue is the last word about it, `Followed` that a camera the queue is silent
about is where its last word puts it, `Truthful` what a last word says of the
recorder itself, which is what turns that into a statement about recorders,
`Walked` that the walk at the start has still to come to a recorder that the
queue is silent about, or has attached its detector, `Ordered` how far the
shutdown has come.  `EmitStep` is the lemma about the bounded queue: pushing one
event out only loses the camera whose last word it was.

SegmentStoreProofs: `ImplementsRing`, the refinement of RetentionRing,
`GhostsOldestAlways`, `NothingForgottenAlways`.  `Order` says that whatever can
still be finalised (`Pending`) is newer than the archive and than every list an
enforcement holds, so that completing it adds at the new end of the ring;
`Prefix` that such a list, however stale, has every playable segment older than
any of its rows, so that deleting its first takes from the old end, even when
another task has been there before; `Vanished` that a file disappears under its
finalisation only with its row or when clear-data empties the ring; `Tracked`
who still owes each file its row.  `Grows`, `Shrinks` and `Monotone` are what a
statement may do to the archive, shown once per statement and used for every
task that executes it, the watcher whose cancellation it survives included.

`TypeCorrect` and `BudgetKeptAlways` need the sums over the rows.  The model takes
the library's fold over a set, whose recursion no induction of the prover
reaches; the lemmas `SumsExists`, `SumsAgree` and `TotalOf` pin it down all the same, by a minimal
counterexample among the finite sets of segments, and `TotalTakes` and
`TotalMonotone` are what the invariants use.  An enforcement covers the budget
(`Covers`) when it has still to measure it, or when what is in use and what is
still in its list amount to no more than the limit and what it has yet to free:
a row of its list that another task has deleted is counted as freed when it gets
there, but was no longer in use before, so two enforcements on the same rows
free too much and never too little.  `Covered` says that what is in use fits the
limit, or some enforcement covers it, or one is owed (the history variable of
section 3); what `due` and `freed` are typed by is `Amounts`.

CameraRegistryProofs: `TypeCorrect`, `CacheAgreesAlways`, `AnnouncedAlways`,
`LogoutStaysAlways`, for any sets of addresses, devices, passes and requests.  The
invariant has two parts.  `Sound` holds whatever tasks do to each other: types,
no object in use is forgotten (`Live`), a row and a cached object are under
their address and an id has one row (`Unique`, `Placed`), and what a task's
local variables can be where it waits (`Shape`).  `Calm` holds as long as there
was no clash, and is what makes the three properties inductive:

- `Knows`: what a task has learnt before it waited is still so - the row it read
  or wrote is there, the objects it holds are the cached ones, the address it is
  about to file a camera at is still unknown;
- `Fixed`: an address at which cache and table differ has a task that is on its
  way to file the object (`Busy`); `Same` adds that even then the row has the
  object's id, unless the camera has just moved or the table been reset;
- `Due`: a camera that owes an event has a task on its way to announce it
  (`Tells`), by its id at the place where the task will look;
- `Wiped`: no row of a logged-out camera has credentials, which `Fixed` and
  `Knows` protect from the objects a task still has to write.

A quiet state has no busy and no telling task, and the properties follow.
`CalmActs` is the lemma that carries the weight: a step leaves `Calm` to all other
tasks, because without a clash it has changed nothing they work on
(`WorksUntouched`, `OtherKnows`, `OtherBusy`, `OtherTells`), and owes only an
account of what it touched itself.  `UpsertIs` says what the merging upsert
leaves; `KnownPuts` treats the upserts of a cached object and `FreshPuts` those
of a camera the task made.  Then there is one lemma per action, or per group of
alike ones, of all passes and requests.  The proof attempt is what found that
an object changed in place must count as a change (section 2): without it
`LogoutStays` fails with three addresses, two devices and two requests, beyond
what the run can afford to look at.

Only model-checked: everything under fairness (`EventuallyRecorded`,
`LockReleased`, `StopReturns`, `Recovers`, `BudgetRestored`, `EventuallyWatched`,
`StopReturned`, `Decodes`, `QuietEnds`), since liveness and ENABLED are beyond
the prover.  `StartIsPickedUp` and `LogoutHolds` are not properties of the code
(section 3).

## 5. Not modelled

The vision, audio and identification algorithms (numeric: proposals, tracking,
filters, confidence, YAMNet, fingerprints), ffmpeg command lines, migrations,
HTTP authentication, presence, HomeKit, the frontend's presentation, the story
compiler (a summary of stored events), the desktop shell.  Most lines of the
Python program are a table of vendor prefixes (`discovery/_ieee_oui.py`, 52516 of
72103), which no state machine reads in an interesting way: the share of the
lines that a model can cover is small whatever it covers.  `PROJECT.json` gives
the reason per component.

## 6. Plan

In this order:

1. `AudioConsumers`: the audio manager and the broadcasters' bounded queues with
   their sentinel, against the recorders' announcements; the consumer that
   stays in `_consumers` would be its first finding.
2. The shutdown of the recording manager itself: `run_forever` cancelled inside a
   `stop_recording` that has popped its recorder (main.py:259), and `ProcessTree`,
   lifespan order, deadlines and tether.
3. Several cameras in SegmentStore, sharing the budget; the start-up
   reconciliation and the fields left out of CameraRegistry (name, override).
4. `TrackConfidence` as a function module.
