--------------------------- MODULE RecorderWatchdog ---------------------------
(***************************************************************************)
(* backend/recording/camera_recorder.py in time: when _staleness_watchdog  *)
(* kills an ffmpeg, what the tile of the camera shows meanwhile, and when  *)
(* the circuit breaker trips.                                              *)
(*                                                                         *)
(* CameraRecorder lets the watchdog kill at any moment; here its clock is  *)
(* explicit.  A tick is STALE_CHECK_INTERVAL_S, the watchdog's sleep, and  *)
(* an age counts the ticks since something happened, up to the threshold   *)
(* beyond which nothing depends on it.  A sleep takes a little longer than *)
(* it was asked to, so that k ticks are more than k intervals.  The task   *)
(* that wakes runs before the next tick.                                   *)
(***************************************************************************)
EXTENDS Naturals, SequencesExt

CONSTANTS STALLED,    \* HEALTH_STALLED_THRESHOLD_S
          STALE,      \* STALE_FRAME_THRESHOLD_S, HEALTH_OFFLINE_THRESHOLD_S
          SPLIT,      \* SPLIT_BRAIN_BYTES_THRESHOLD_S
          GRACE,      \* STARTUP_GRACE_S
          FIRST,      \* FIRST_SEGMENT_DEADLINE_S
          FRESH,      \* SPLIT_BRAIN_DETECT_FRESH_S
          WINDOW,     \* CIRCUIT_BREAKER_WINDOW_S
          THRESHOLD,  \* CIRCUIT_BREAKER_THRESHOLD
          Backoff,    \* FFMPEG_RESTART_BACKOFF
          MaxSize     \* bound on the size of a segment file

ASSUME TickAssumption ==
    /\ {STALLED, STALE, SPLIT, GRACE, FIRST, FRESH, WINDOW} \subseteq Nat \ {0}
    /\ STALLED < STALE /\ SPLIT < STALE /\ STALE < FIRST
ASSUME BoundAssumption ==
    /\ MaxSize \in Nat \ {0}
    /\ THRESHOLD \in Nat \ {0}
    /\ Backoff \in Seq(Nat \ {0}) /\ Backoff # <<>>

VARIABLES
    running,   \* _running
    loop,      \* the chain of start() and _process_monitor
    wait,      \* ticks left of the monitor's backoff
    step,      \* _backoff_index, 0 before the first backoff
    proc,      \* the recording ffmpeg
    path,      \* _current_segment_path: none, an earlier ffmpeg's, or own
    size,      \* of the file that the watchdog looks at
    last,      \* _last_segment_size
    started,   \* _last_progress_ts is not 0.0
    progress,  \* age of _last_progress_ts
    uptime,    \* age of _recorder_started_at and _spawn_monotonic_ts
    detect,    \* age of the last frame that detect-ffmpeg decoded
    dog,       \* the watchdog task: gone, asleep or awake
    health,    \* _last_emitted_health
    tile,      \* the health that the last camera_health event gave
    restarts,  \* _recording_failure_restarts, as ages
    chronic,   \* a _handle_chronic_failure task is about to run
    stop,      \* where the stop() call is
    wrote,     \* history: this ffmpeg has written a byte
    quiet,     \* history: age of its last write, or of its start
    counted    \* history: ages of the last failures, THRESHOLD - 1 of them at
               \* most, since a trip

chain == <<running, loop, wait, step, proc, stop>>
file == <<path, size, last>>
clock == <<started, progress, uptime, detect>>
breaker == <<restarts, chronic, counted>>
vars == <<chain, file, clock, dog, health, tile, breaker, wrote, quiet>>

Older(age, limit) == IF age < limit THEN age + 1 ELSE age
Health == {"ok", "stalled", "offline", "record_failing"}

TypeOK ==
    /\ running \in BOOLEAN /\ started \in BOOLEAN
    /\ chronic \in BOOLEAN /\ wrote \in BOOLEAN
    /\ loop \in {"new", "spawning", "watch", "backoff", "ended"}
    /\ wait \in Nat /\ step \in 0..Len(Backoff)
    /\ proc \in {"none", "up", "term", "exited"}
    /\ path \in {"none", "old", "own"}
    /\ size \in 0..MaxSize /\ last \in 0..MaxSize
    /\ uptime \in 0..FIRST /\ quiet \in 0..(FIRST + 1)
    /\ progress \in 0..STALE /\ detect \in 0..FRESH
    /\ dog \in {"gone", "asleep", "awake"}
    /\ health \in Health \cup {"none"}
    /\ tile \in Health \cup {"none", "chronic_recording_failure"}
    /\ restarts \in Seq(0..(WINDOW + 1)) /\ Len(restarts) < THRESHOLD
    /\ counted \in Seq(0..(WINDOW + 1)) /\ Len(counted) < THRESHOLD
    /\ stop \in {"no", "drain", "done"}

\* The day's directory may hold segments of an earlier recorder: the
\* fallback of the watchdog finds the newest of them.
Init ==
    /\ running = FALSE /\ loop = "new" /\ wait = 0 /\ step = 0
    /\ proc = "none" /\ stop = "no"
    /\ path = "none" /\ size \in {0, MaxSize} /\ last = 0
    /\ started = FALSE /\ progress = 0 /\ uptime = 0 /\ detect = FRESH
    /\ dog = "gone" /\ health = "none" /\ tile = "none"
    /\ restarts = <<>> /\ chronic = FALSE /\ counted = <<>>
    /\ wrote = FALSE /\ quiet = 0

Alive == proc \in {"up", "term"}
Signalled == IF Alive THEN "term" ELSE proc    \* terminate_process_group

(***************************************************************************)
(* start(), _spawn() and _process_monitor.                                 *)
(***************************************************************************)
Start ==
    /\ loop = "new"
    /\ running' = TRUE
    /\ loop' = "spawning"
    /\ UNCHANGED <<wait, step, proc, stop, file, clock, dog, health, tile,
                   breaker, wrote, quiet>>

\* The tail of _spawn().  _current_segment_path is not reset.
Spawned ==
    /\ loop = "spawning"
    /\ loop' = "watch" /\ proc' = "up" /\ dog' = "asleep"
    /\ last' = 0 /\ started' = FALSE /\ progress' = 0 /\ uptime' = 0
    /\ health' = "none"
    /\ path' = IF path = "none" THEN "none" ELSE "old"
    /\ wrote' = FALSE /\ quiet' = 0
    /\ UNCHANGED <<running, wait, step, stop, size, detect, tile, breaker>>

InWindow(age) == age <= WINDOW

\* Entries leave on the left while they are out of the window, which the last
\* one, just appended, is not.
Pruned(ages) == SubSeq(ages, SelectInSeq(ages, InWindow), Len(ages))

\* The history drops the oldest to make room.
Recent(ages) == IF Len(ages) < THRESHOLD THEN ages ELSE Tail(ages)

RegisterFailureUnpruned ==      \* entries older than the window are kept
    LET now == Append(restarts, 0)
        trip == Len(now) >= THRESHOLD
    IN /\ chronic' = (chronic \/ trip)
       /\ restarts' = IF trip THEN <<>> ELSE now
       /\ counted' = IF trip THEN <<>> ELSE Recent(Append(counted, 0))

\* prune_and_check_breaker_trip, and the reset after a trip.
RegisterFailure ==
    LET now == Pruned(Append(restarts, 0))
        trip == Len(now) >= THRESHOLD
    IN /\ chronic' = (chronic \/ trip)
       /\ restarts' = IF trip THEN <<>> ELSE now
       /\ counted' = IF trip THEN <<>> ELSE Recent(Append(counted, 0))

Exits ==
    /\ Alive
    /\ proc' = "exited"
    /\ UNCHANGED <<running, loop, wait, step, stop, file, clock, dog, health,
                   tile, breaker, wrote, quiet>>

MonitorWakesMutant ==       \* no offline event bridges the gap
    /\ loop = "watch" /\ proc = "exited" /\ running
    /\ loop' = "backoff"
    /\ step' = IF step < Len(Backoff) THEN step + 1 ELSE step
    /\ wait' = Backoff[step']
    /\ \/ uptime = 0 /\ RegisterFailure
       \/ UNCHANGED breaker
    /\ UNCHANGED <<running, proc, stop, file, clock, dog, health, tile, wrote,
                   quiet>>

\* A fast fail is an exit within the first tick with a bad return code.
MonitorWakes ==
    /\ loop = "watch" /\ proc = "exited" /\ running
    /\ loop' = "backoff"
    /\ step' = IF step < Len(Backoff) THEN step + 1 ELSE step
    /\ wait' = Backoff[step']
    /\ \/ uptime = 0 /\ RegisterFailure
       \/ UNCHANGED breaker
    /\ health' = "offline"
    /\ tile' = IF health = "offline" THEN tile ELSE "offline"
    /\ UNCHANGED <<running, proc, stop, file, clock, dog, wrote, quiet>>

MonitorEnds ==
    /\ \/ loop = "watch" /\ proc = "exited"
       \/ loop = "backoff" /\ wait = 0
    /\ ~running
    /\ loop' = "ended"
    /\ UNCHANGED <<running, wait, step, proc, stop, file, clock, dog, health,
                   tile, breaker, wrote, quiet>>

Respawn ==
    /\ loop = "backoff" /\ wait = 0 /\ running
    /\ loop' = "spawning"
    /\ UNCHANGED <<running, wait, step, proc, stop, file, clock, dog, health,
                   tile, breaker, wrote, quiet>>

\* _handle_chronic_failure: what it does to the stream is in CameraRecorder.
HandleChronic ==
    /\ chronic
    /\ chronic' = FALSE
    /\ tile' = "chronic_recording_failure"
    /\ proc' = Signalled
    /\ UNCHANGED <<running, loop, wait, step, stop, file, clock, dog, health,
                   restarts, counted, wrote, quiet>>

(***************************************************************************)
(* ffmpeg and the detector's ffmpeg.                                       *)
(***************************************************************************)
SegmentOpenedMutant ==      \* the growth baseline is the last segment's
    /\ Alive
    /\ path' = "own"
    /\ size' \in {0, 1}
    /\ step' \in {0, step}
    /\ wrote' = (wrote \/ size' > 0)
    /\ quiet' = IF size' > 0 THEN 0 ELSE quiet
    /\ UNCHANGED <<running, loop, wait, proc, stop, last, clock, dog, health,
                   tile, breaker>>

\* "Opening ... for writing": a new file, perhaps with its header.  Closing a
\* segment of more than half its length resets the backoff.
SegmentOpened ==
    /\ Alive
    /\ path' = "own"
    /\ last' = 0
    /\ size' \in {0, 1}
    /\ step' \in {0, step}
    /\ wrote' = (wrote \/ size' > 0)
    /\ quiet' = IF size' > 0 THEN 0 ELSE quiet
    /\ UNCHANGED <<running, loop, wait, proc, stop, clock, dog, health, tile,
                   breaker>>

Writes ==
    /\ Alive
    /\ path = "own"
    /\ size < MaxSize
    /\ size' = size + 1
    /\ wrote' = TRUE /\ quiet' = 0
    /\ UNCHANGED <<chain, path, last, clock, dog, health, tile, breaker>>

DetectDecodes ==
    /\ detect # 0
    /\ detect' = 0
    /\ UNCHANGED <<chain, file, started, progress, uptime, dog, health, tile,
                   breaker, wrote, quiet>>

(***************************************************************************)
(* One round of _staleness_watchdog, after its sleep.                      *)
(***************************************************************************)
Grown == size > last
Seen == started \/ Grown
Elapsed == IF Grown THEN 0 ELSE progress

\* should_trip_first_segment_grace, should_trip_split_brain, and the stall.
NoFirstSegment == ~Seen /\ uptime >= FIRST
SplitBrain == /\ uptime >= GRACE
              /\ Elapsed >= SPLIT /\ detect < FRESH
Stalled == Elapsed >= STALE
Kills == NoFirstSegment \/ (Seen /\ (SplitBrain \/ Stalled))

Label == IF Elapsed < STALLED THEN "ok"
         ELSE IF Elapsed < STALE THEN "stalled"
         ELSE IF detect < FRESH THEN "record_failing" ELSE "offline"

Observe ==
    /\ last' = IF Grown THEN size ELSE last
    /\ started' = Seen
    /\ progress' = Elapsed
    /\ health' = IF Seen THEN Label ELSE health
    /\ tile' = IF Seen /\ Label # health THEN Label ELSE tile

LookGone ==
    /\ dog = "awake"
    /\ ~Alive
    /\ dog' = "gone"
    /\ UNCHANGED <<chain, file, clock, health, tile, breaker, wrote, quiet>>

\* A killed ffmpeg is only signalled: nothing follows up the SIGTERM.
LookKills ==
    /\ dog = "awake"
    /\ Alive
    /\ Kills
    /\ Observe
    /\ RegisterFailure
    /\ proc' = Signalled
    /\ dog' = "gone"
    /\ UNCHANGED <<running, loop, wait, step, stop, path, size, uptime, detect,
                   wrote, quiet>>

LookOnMutant ==             \* dormant until the first byte, without a deadline
    /\ dog = "awake"
    /\ Alive
    /\ ~Kills \/ NoFirstSegment
    /\ Observe
    /\ dog' = IF running THEN "asleep" ELSE "gone"
    /\ UNCHANGED <<chain, path, size, uptime, detect, breaker, wrote, quiet>>

LookOn ==
    /\ dog = "awake"
    /\ Alive
    /\ ~Kills
    /\ Observe
    /\ dog' = IF running THEN "asleep" ELSE "gone"
    /\ UNCHANGED <<chain, path, size, uptime, detect, breaker, wrote, quiet>>

(***************************************************************************)
(* stop().                                                                 *)
(***************************************************************************)
StopBegins ==
    /\ stop = "no"
    /\ loop \in {"watch", "backoff"}
    /\ running' = FALSE
    /\ proc' = Signalled
    /\ stop' = "drain"
    /\ UNCHANGED <<loop, wait, step, file, clock, dog, health, tile, breaker,
                   wrote, quiet>>

\* The process is gone (SIGKILL after 30 s): the tasks are cancelled.
StopEnds ==
    /\ stop = "drain"
    /\ ~Alive
    /\ loop' = "ended" /\ proc' = "none" /\ dog' = "gone"
    /\ path' = "none"
    /\ stop' = "done"
    /\ UNCHANGED <<running, wait, step, size, last, clock, health, tile,
                   breaker, wrote, quiet>>

(***************************************************************************)
(* Time.                                                                   *)
(***************************************************************************)
\* A task whose sleep or whose process is over runs before more time passes.
Prompt == \/ dog = "awake" \/ chronic
          \/ loop = "watch" /\ proc = "exited"
          \/ loop = "backoff" /\ wait = 0
          \/ stop = "drain" /\ ~Alive

Tick ==
    /\ ~Prompt
    /\ loop # "new"
    /\ uptime' = Older(uptime, FIRST) /\ quiet' = Older(quiet, FIRST + 1)
    /\ progress' = IF started THEN Older(progress, STALE) ELSE progress
    /\ detect' = Older(detect, FRESH)
    /\ wait' = IF wait > 0 THEN wait - 1 ELSE 0
    /\ restarts' = [i \in DOMAIN restarts |-> Older(restarts[i], WINDOW + 1)]
    /\ counted' = [i \in DOMAIN counted |-> Older(counted[i], WINDOW + 1)]
    /\ dog' = IF dog = "asleep" THEN "awake" ELSE dog
    /\ UNCHANGED <<running, loop, step, proc, stop, file, started, health,
                   tile, chronic, wrote>>

Look == LookGone \/ LookKills \/ LookOn

Next == \/ Start \/ Spawned \/ Exits \/ MonitorWakes \/ MonitorEnds \/ Respawn
        \/ HandleChronic \/ SegmentOpened \/ Writes \/ DetectDecodes
        \/ Look \/ StopBegins \/ StopEnds \/ Tick

Spec == Init /\ [][Next]_vars

(***************************************************************************)
(* Properties.                                                             *)
(***************************************************************************)
\* No ffmpeg stays silent for longer than the first-segment deadline without
\* being told to exit, however its file, its rotations, an earlier ffmpeg's
\* file and the detector's witness mislead the watchdog.
StallBounded == proc = "up" => quiet <= FIRST

\* The watchdog kills no ffmpeg that wrote within the split-brain threshold,
\* unless it has rotated to a file that has no byte yet (what was written
\* before the rotation and after the last look is then never seen).
KillJustified ==
    [][LookKills => quiet >= SPLIT \/ (path = "own" /\ size = 0)]_vars

\* The breaker trips exactly at a failure whose THRESHOLD - 1 predecessors
\* since the last trip are all in the window: pruning at each failure only, and
\* clearing at each trip, it neither counts one twice nor forgets one.
BreakerCounts ==
    [][LookKills \/ (MonitorWakes /\ breaker' # breaker)
          => (chronic' /\ ~chronic <=>
                 /\ Len(counted) + 1 = THRESHOLD
                 /\ counted = <<>> \/ InWindow(counted[1]))]_vars

\* While no ffmpeg records, the tile does not claim that one does: the
\* monitor's offline event covers the gap in which no watchdog looks.
TileHonest ==
    loop = "backoff" => tile \in {"offline", "chronic_recording_failure"}

\* An ffmpeg that has not written yet is given the time to.
GraceHonoured == [][LookKills => wrote \/ uptime >= FIRST]_vars
===============================================================================
