---------------------------- MODULE CameraRecorder ----------------------------
(***************************************************************************)
(* backend/recording/camera_recorder.py: the tasks and ffmpeg processes of *)
(* one camera's recorder.                                                  *)
(*                                                                         *)
(* One asyncio thread; an action runs from one suspension point to the     *)
(* next.  Each _spawn() that reaches its end opens a generation g with a   *)
(* recording ffmpeg (ff[g]) and its watchdog, and perhaps an audio ffmpeg  *)
(* (au[g]) with its probe (atask[g]) and its pipe reader (reader[g]).  The *)
(* tasks share the attributes of the recorder, so what a task reads after  *)
(* a suspension may belong to a later generation than its own.             *)
(*                                                                         *)
(* Only one task at a time can be inside _spawn(): start(), or the         *)
(* _process_monitor of the last generation, which respawns and hands over  *)
(* to a new monitor.  That chain is the variable loop.                     *)
(***************************************************************************)
EXTENDS Naturals

CONSTANTS MaxSpawn,   \* bound on the generations
          Go2rtc,     \* go2rtc_client.is_enabled()
          HasSub,     \* the camera has a sub-stream
          THRESHOLD,  \* CIRCUIT_BREAKER_THRESHOLD
          PreferSub,  \* settings.record_substream_when_available
          MayFail,    \* whether ffmpeg may be missing
          MayRaise    \* whether _spawn() may raise (disk, file handles)

ASSUME SpawnAssumption == MaxSpawn \in Nat \ {0}
ASSUME ThresholdAssumption == THRESHOLD \in Nat \ {0}
ASSUME SwitchAssumption ==
    {Go2rtc, HasSub, PreferSub, MayFail, MayRaise} \subseteq BOOLEAN

VARIABLES
    running,   \* _running
    loop,      \* where the chain of start() and monitors is
    n,         \* generations so far
    proc,      \* _proc, by generation; 0 is None
    ff,        \* the recording processes
    input,     \* local variables of the last _spawn()
    unusable,  \* streams whose codec this machine cannot record
    dog,       \* whether the watchdog of the last generation still looks
    stop,      \* where the stop() call is
    awaited,   \* the generation whose audio process or reader stop() awaits
    failures,  \* entries of _recording_failure_restarts in the window
    chronic,   \* where the _handle_chronic_failure task is
    override,  \* the row's recording_stream_override
    pick,      \* self.camera.recording_stream_override
    missed,    \* history: the handler signalled while ffmpeg was being spawned
    atask,     \* the _try_spawn_audio tasks
    au,        \* the audio processes
    aproc,     \* _audio_proc
    reader,    \* the _audio_pipe_reader tasks
    from,      \* the process whose stdout a reader awaits
    areader,   \* _audio_reader_task
    calm       \* history: nothing was in flight when stop() began

chain == <<running, loop, n, proc, ff, input, dog>>
ending == <<stop, awaited, calm>>
breaker == <<failures, chronic, override, pick, missed, unusable>>
audio == <<atask, au, aproc, reader, from, areader>>
vars == <<chain, ending, breaker, audio>>

Gen == 1..MaxSpawn
Ref == 0..MaxSpawn
Stream == {"main", "sub"}
Process == {"unborn", "up", "term", "exited"}   \* term: signalled
Input == [reads : Stream, tag : Stream, sub : BOOLEAN, loopback : BOOLEAN]

TypeOK ==
    /\ running \in BOOLEAN /\ dog \in BOOLEAN /\ calm \in BOOLEAN
    /\ loop \in {"new", "register", "exec", "watch", "backoff", "ended",
                 "raised"}
    /\ n \in Ref /\ proc \in Ref
    /\ ff \in [Gen -> Process] /\ au \in [Gen -> Process]
    /\ input \in Input /\ unusable \subseteq Stream
    /\ missed \in BOOLEAN
    /\ stop \in {"no", "drain", "audio", "reader", "done"}
    /\ awaited \in Ref
    /\ failures \in 0..(THRESHOLD - 1)
    /\ chronic \in {"idle", "update", "reload"}
    /\ override \in Stream \cup {"unset"} /\ pick \in Stream \cup {"unset"}
    /\ atask \in [Gen -> {"none", "spawning", "probing", "done"}]
    /\ aproc \in Ref /\ areader \in Ref
    /\ reader \in [Gen -> {"none", "reading", "closing", "done"}]
    /\ from \in [Gen -> Ref]

Init ==
    /\ running = FALSE /\ dog = FALSE /\ calm = FALSE
    /\ loop = "new"
    /\ n = 0 /\ proc = 0
    /\ ff = [g \in Gen |-> "unborn"] /\ au = [g \in Gen |-> "unborn"]
    /\ input = [reads |-> "main", tag |-> "main", sub |-> FALSE, loopback |-> FALSE]
    /\ unusable \in SUBSET Stream /\ missed = FALSE
    /\ stop = "no" /\ awaited = 0
    /\ failures = 0 /\ chronic = "idle"
    /\ override \in Stream \cup {"unset"} /\ pick = override
    /\ atask = [g \in Gen |-> "none"]
    /\ aproc = 0 /\ areader = 0
    /\ reader = [g \in Gen |-> "none"]
    /\ from = [g \in Gen |-> 0]

Alive(p, g) == g # 0 /\ p[g] \in {"up", "term"}

\* terminate_process_group: None and exited processes are left alone.
Signal(p, g) == IF Alive(p, g) THEN [p EXCEPT ![g] = "term"] ELSE p

\* _spawn() is being run by start(), not by a monitor.
ByStart == n = 0

(***************************************************************************)
(* start() and _spawn().                                                   *)
(***************************************************************************)
Start ==
    /\ loop = "new"
    /\ running' = TRUE
    /\ loop' = "register"
    /\ UNCHANGED <<n, proc, ff, input, dog, ending, breaker, audio>>

\* The override first, then the setting; 'sub' needs a sub-stream.
UseSub == HasSub /\ (pick = "sub" \/ (pick = "unset" /\ PreferSub))

\* The add_stream calls returned: choose the input, and the codec to expect.
Register(okMain, okSub) ==
    /\ loop = "register"
    /\ n < MaxSpawn
    /\ okMain => Go2rtc
    /\ okSub => Go2rtc /\ HasSub
    /\ input' = [reads    |-> IF UseSub /\ okSub THEN "sub" ELSE "main",
                 tag      |-> IF UseSub THEN "sub" ELSE "main",
                 sub      |-> okSub,
                 loopback |-> okMain \/ (UseSub /\ okSub)]
    /\ missed' = FALSE
    /\ IF input'.tag \in unusable
       THEN loop' = "ended" /\ running' = FALSE  \* UnsupportedSourceCodecError
       ELSE loop' = "exec" /\ UNCHANGED running
    /\ UNCHANGED <<n, proc, ff, dog, ending, failures, chronic, override, pick,
                   unusable, audio>>

\* ffmpeg runs: the rest of _spawn() is synchronous.
Spawned ==
    /\ loop = "exec"
    /\ n' = n + 1
    /\ proc' = n + 1
    /\ ff' = [ff EXCEPT ![n + 1] = "up"]
    /\ dog' = TRUE
    /\ loop' = "watch"
    /\ atask' = [atask EXCEPT ![n + 1] = IF input.loopback THEN "spawning"
                                                           ELSE "none"]
    /\ UNCHANGED <<running, input, ending, breaker, au, aproc, reader, from,
                   areader>>

NoFfmpeg ==     \* FileNotFoundError
    /\ MayFail
    /\ loop = "exec"
    /\ running' = FALSE
    /\ loop' = "ended"
    /\ UNCHANGED <<n, proc, ff, input, dog, ending, breaker, audio>>

Raises ==       \* start() resets _running, a monitor's task just dies
    /\ MayRaise
    /\ loop \in {"register", "exec"}
    /\ running' = (running /\ ~ByStart)
    /\ loop' = "raised"
    /\ UNCHANGED <<n, proc, ff, input, dog, ending, breaker, audio>>

(***************************************************************************)
(* _process_monitor, _staleness_watchdog and the circuit breaker.          *)
(***************************************************************************)
Exits(g) ==
    /\ Alive(ff, g)
    /\ ff' = [ff EXCEPT ![g] = "exited"]
    /\ UNCHANGED <<running, loop, n, proc, input, dog, ending, breaker, audio>>

CountFailureMutant ==       \* the deque is not cleared after a trip
    /\ \E kept \in 0..failures :
          /\ failures' = kept + 1
          /\ chronic' = IF kept + 1 < THRESHOLD THEN chronic ELSE "update"
    /\ UNCHANGED <<override, pick, missed, unusable>>

\* Entries older than the window go; enough in the window trip.  (Between two
\* trips lie three failures, each after a backoff of at least 5 s: the two
\* statements of one handler are over before the next is created.)
CountFailure ==
    /\ \E kept \in 0..failures :
          IF kept + 1 < THRESHOLD
          THEN failures' = kept + 1 /\ UNCHANGED chronic
          ELSE chronic = "idle" /\ failures' = 0 /\ chronic' = "update"
    /\ UNCHANGED <<override, pick, missed, unusable>>

MonitorWakesMutant ==       \* does not wait for the process it signalled
    /\ loop = "watch"
    /\ ff[n] \in {"term", "exited"}
    /\ running
    /\ loop' = "backoff"
    /\ UNCHANGED <<running, n, proc, ff, input, dog, ending, breaker, audio>>

MonitorWakes ==
    /\ loop = "watch"
    /\ ff[n] = "exited"
    /\ \/ /\ running
          /\ loop' = "backoff"
          /\ CountFailure \/ UNCHANGED breaker      \* a fast fail, or not
       \/ /\ ~running
          /\ loop' = "ended"
          /\ UNCHANGED breaker
    /\ UNCHANGED <<running, n, proc, ff, input, dog, ending, audio>>

BackoffOverMutant ==        \* gives up after the first exit
    /\ loop = "backoff"
    /\ loop' = "ended"
    /\ UNCHANGED <<running, n, proc, ff, input, dog, ending, breaker, audio>>

\* Starting and probing an audio ffmpeg (2 s) takes less than the shortest
\* backoff (5 s); the handler, which waits for the database, may take longer.
BackoffOver ==
    /\ loop = "backoff"
    /\ \A g \in Gen : atask[g] \notin {"spawning", "probing"}
    /\ loop' = IF running THEN "register" ELSE "ended"
    /\ UNCHANGED <<running, n, proc, ff, input, dog, ending, breaker, audio>>

\* First-segment grace, split brain or stall: _running is not looked at
\* between the sleep and the kill, so this happens to a draining ffmpeg too.
WatchdogKills ==
    /\ dog
    /\ Alive(ff, proc)
    /\ CountFailure
    /\ ff' = Signal(ff, proc)
    /\ dog' = FALSE
    /\ UNCHANGED <<running, loop, n, proc, input, ending, audio>>

\* set_stream_override_if_not_set; no row updated: straight to the SIGTERM.
ChronicUpdate ==
    /\ chronic = "update"
    /\ \/ /\ override \in {"unset", "main"}
          /\ override' = "sub"
          /\ chronic' = "reload"
          /\ UNCHANGED ff
       \/ /\ override = "sub"
          /\ chronic' = "idle"
          /\ ff' = Signal(ff, proc)
          /\ UNCHANGED override
    /\ UNCHANGED <<running, loop, n, proc, input, dog, ending, failures, pick,
                   missed, unusable, audio>>

\* The SIGTERM that ends the handler goes to the ffmpeg of before when the
\* next one, its input already chosen, is being spawned.
HandlerSignals ==
    /\ chronic' = "idle"
    /\ ff' = Signal(ff, proc)
    /\ missed' = (missed \/ loop = "exec")

ChronicReloadMutant ==      \* self.camera is not refreshed
    /\ chronic = "reload"
    /\ HandlerSignals
    /\ UNCHANGED <<running, loop, n, proc, input, dog, ending, failures,
                   override, pick, unusable, audio>>

ChronicReload ==
    /\ chronic = "reload"
    /\ pick' = override
    /\ HandlerSignals
    /\ UNCHANGED <<running, loop, n, proc, input, dog, ending, failures,
                   override, unusable, audio>>

(***************************************************************************)
(* Audio: _try_spawn_audio and _audio_pipe_reader.                         *)
(***************************************************************************)
AudioSpawned(g) ==      \* over whatever _audio_proc was
    /\ atask[g] = "spawning"
    /\ au' = [au EXCEPT ![g] = "up"]
    /\ aproc' = g
    /\ atask' = [atask EXCEPT ![g] = "probing"]
    /\ UNCHANGED <<chain, ending, breaker, reader, from, areader>>

AudioExits(g) ==        \* no audio track, the camera hangs up, a signal
    /\ Alive(au, g)
    /\ au' = [au EXCEPT ![g] = "exited"]
    /\ UNCHANGED <<chain, ending, breaker, atask, aproc, reader, from, areader>>

ProbeExited(g) ==       \* clears _audio_proc, whosever it is by now
    /\ atask[g] = "probing"
    /\ au[g] = "exited"
    /\ aproc' = 0
    /\ atask' = [atask EXCEPT ![g] = "done"]
    /\ UNCHANGED <<chain, ending, breaker, au, reader, from, areader>>

ProbePassed(g) ==       \* two seconds without an exit: start a reader
    /\ atask[g] = "probing"
    /\ Alive(au, g)
    /\ atask' = [atask EXCEPT ![g] = "done"]
    /\ areader' = g
    /\ reader' = [reader EXCEPT ![g] = IF aproc = 0 THEN "done" ELSE "reading"]
    /\ from' = [from EXCEPT ![g] = aproc]
    /\ UNCHANGED <<chain, ending, breaker, au, aproc>>

\* The finally clause: kill _audio_proc and wait up to two seconds for it.
CloseReader(g) ==
    /\ reader' = [reader EXCEPT ![g] = "closing"]
    /\ au' = Signal(au, aproc)

\* End of file, or an error: no _audio_proc, or somebody else is already
\* waiting on that stream.
ReaderEnds(g) ==
    /\ reader[g] = "reading"
    /\ \/ au[from[g]] = "exited"
       \/ aproc = 0
       \/ \E h \in Gen \ {g} : reader[h] = "reading" /\ from[h] = aproc
    /\ CloseReader(g)
    /\ UNCHANGED <<chain, ending, breaker, atask, aproc, from, areader>>

\* A chunk arrived; the next one is read from the _audio_proc of now.
ReaderMovesOn(g) ==
    /\ reader[g] = "reading"
    /\ Alive(au, from[g])
    /\ aproc \notin {0, from[g]}
    /\ from' = [from EXCEPT ![g] = aproc]
    /\ UNCHANGED <<chain, ending, breaker, atask, au, aproc, reader, areader>>

ReaderDone(g) ==
    /\ reader[g] = "closing"
    /\ reader' = [reader EXCEPT ![g] = "done"]
    /\ UNCHANGED <<chain, ending, breaker, atask, au, aproc, from, areader>>

(***************************************************************************)
(* stop().                                                                 *)
(***************************************************************************)

ReaderAt(g) == IF g = 0 THEN "none" ELSE reader[g]

\* Cancel the monitor chain, the watchdog and the reader; p is au by now.
CancelTasks(p) ==
    /\ loop' = IF loop = "raised" THEN loop ELSE "ended"
    /\ dog' = FALSE
    /\ stop' = "reader"
    /\ awaited' = areader
    /\ \/ /\ ReaderAt(areader) = "reading"
          /\ reader' = [reader EXCEPT ![areader] = "closing"]
          /\ au' = Signal(p, aproc)
       \/ /\ ReaderAt(areader) = "closing"
          /\ reader' = [reader EXCEPT ![areader] = "done"]
          /\ au' = p
       \/ /\ ReaderAt(areader) \in {"none", "done"}
          /\ au' = p
          /\ UNCHANGED reader

AfterDrainMutant == CancelTasks(au)     \* the audio process is forgotten

\* The recording process is gone: now the audio process and the tasks.
AfterDrain ==
    \/ /\ Alive(au, aproc)
       /\ au' = Signal(au, aproc)
       /\ stop' = "audio"
       /\ awaited' = aproc
       /\ UNCHANGED <<loop, dog, reader>>
    \/ /\ ~Alive(au, aproc)
       /\ CancelTasks(au)

StopBeginMutant ==      \* no SIGTERM, and no early return without a process
    /\ stop = "no"
    /\ loop # "new" /\ ~(ByStart /\ loop \in {"register", "exec", "raised"})
    /\ running' = FALSE
    /\ stop' = "drain"
    /\ UNCHANGED <<loop, n, proc, ff, input, dog, awaited, calm, breaker, audio>>

\* The manager stops a recorder once start() has returned.
StopBegin ==
    /\ stop = "no"
    /\ loop # "new" /\ ~(ByStart /\ loop \in {"register", "exec", "raised"})
    /\ running' = FALSE
    /\ calm' = (/\ loop = "watch"
                /\ \A g \in Gen : atask[g] # "spawning"
                /\ \A g \in Gen : au[g] = "up" => g = aproc)
    /\ \/ /\ proc = 0
          /\ stop' = "done"
          /\ UNCHANGED <<loop, ff, dog, awaited, au, reader>>
       \/ /\ Alive(ff, proc)
          /\ ff' = Signal(ff, proc)
          /\ stop' = "drain"
          /\ UNCHANGED <<loop, dog, awaited, au, reader>>
       \/ /\ proc # 0 /\ ~Alive(ff, proc)
          /\ AfterDrain
          /\ UNCHANGED ff
    /\ UNCHANGED <<n, proc, input, breaker, atask, aproc, from, areader>>

StopDrained ==
    /\ stop = "drain"
    /\ ~Alive(ff, proc)
    /\ AfterDrain
    /\ UNCHANGED <<running, n, proc, ff, input, calm, breaker, atask, aproc,
                   from, areader>>

\* The audio process exited, or five seconds passed: SIGKILL to _audio_proc.
StopAudioOver ==
    /\ stop = "audio"
    /\ \/ au[awaited] = "exited" /\ CancelTasks(au)
       \/ au[awaited] # "exited" /\ CancelTasks(Signal(au, aproc))
    /\ UNCHANGED <<running, n, proc, ff, input, calm, breaker, atask, aproc,
                   from, areader>>

StopEnds ==
    /\ stop = "reader"
    /\ ReaderAt(awaited) \in {"none", "done"}
    /\ stop' = "done"
    /\ proc' = 0
    /\ UNCHANGED <<running, loop, n, ff, input, dog, awaited, calm, breaker,
                   audio>>

(***************************************************************************)
(* The specification.                                                      *)
(***************************************************************************)
ChainStep == \/ \E okMain, okSub \in BOOLEAN : Register(okMain, okSub)
             \/ Spawned \/ NoFfmpeg \/ Raises \/ MonitorWakes \/ BackoffOver
ChronicStep == ChronicUpdate \/ ChronicReload
StopStep == StopDrained \/ StopAudioOver \/ StopEnds
AudioTask(g) == \/ AudioSpawned(g) \/ ProbeExited(g) \/ ProbePassed(g)
                \/ ReaderEnds(g) \/ ReaderMovesOn(g) \/ ReaderDone(g)

Next == \/ Start \/ ChainStep \/ WatchdogKills \/ ChronicStep
        \/ StopBegin \/ StopStep
        \/ \E g \in Gen : Exits(g) \/ AudioExits(g) \/ AudioTask(g)

Spec == Init /\ [][Next]_vars

\* Tasks that can run do; HTTP calls and sleeps end; a signalled process
\* exits (stop() follows SIGTERM by SIGKILL, and ffmpeg is taken to honour
\* the SIGTERM of the watchdog, which nothing follows up).
Fairness ==
    /\ WF_vars(ChainStep) /\ WF_vars(ChronicStep) /\ WF_vars(StopStep)
    /\ \A g \in Gen : /\ WF_vars(ff[g] = "term" /\ Exits(g))
                      /\ WF_vars(au[g] = "term" /\ AudioExits(g))
                      /\ WF_vars(AudioTask(g))

FairSpec == Spec /\ Fairness

(***************************************************************************)
(* Properties.                                                             *)
(***************************************************************************)

\* The life RecordingManager sees, and what it relies on of it.
life == IF stop = "done" \/ loop = "new" \/ (ByStart /\ loop = "raised")
           THEN "gone"
        ELSE IF stop # "no" THEN "stopping"
        ELSE IF ByStart /\ loop \in {"register", "exec"} THEN "starting"
        ELSE IF running THEN "running"
        ELSE IF proc = 0 THEN "failed"
        ELSE "dead"
Contract == INSTANCE RecorderLife WITH life <- life

\* CameraRecorder implements RecorderLife.
LivesAsPromised == Contract!Spec
StopReturns == Contract!StopReturns

\* A respawn, a watchdog, the breaker and stop() never leave two recording
\* ffmpegs of one camera running: the second would take the only RTSP
\* session a single-client camera has, and write to the same segment path.
OneRecording == \A g, h \in Gen : Alive(ff, g) /\ Alive(ff, h) => g = h

\* When nothing was in flight as stop() began, stop() leaves no ffmpeg that
\* has not exited or been killed.
CleanStop ==
    stop = "done" /\ calm =>
        \A g \in Gen : ~Alive(ff, g) /\ au[g] # "up"

\* "refresh self.camera so the next spawn sees the override, and ask the
\* current ffmpeg to exit": once the handler is through, what a camera whose
\* row says 'sub' is recorded from is its sub-stream, also when the handler
\* finds the monitor asleep, registering streams or watching the next ffmpeg.
\* Excepted are a sub-stream that go2rtc refused and an ffmpeg that was being
\* spawned, on main, when the handler sent its signal.
FallbackKept ==
    /\ override = "sub" /\ chronic = "idle" /\ HasSub
    /\ running /\ loop = "watch" /\ ff[n] = "up"
    => input.reads = "sub" \/ ~input.sub \/ missed

\* An ffmpeg that exits is replaced, unless the recorder is stopped or gave
\* up, or the respawn raised, which nobody catches.
Recovers ==
    \A g \in 1..(MaxSpawn - 1) :
        (n = g /\ running /\ ff[g] = "exited")
            ~> (n > g \/ ~running \/ loop = "raised")

(***************************************************************************)
(* What the repository says and the code does not do.                      *)
(***************************************************************************)

\* _spawn: "Pick the codec tag for whichever stream we're about to record."
InputTagged == loop = "watch" => input.tag = input.reads

\* _handle_chronic_failure: "The _process_monitor respawn loop then brings the
\* sub-stream up."
FallbackPrompt == missed => loop # "watch"

\* start(): an exception in _spawn() must not leave _running True with no
\* subprocess and no monitor.
NeverStuck == running => loop # "raised"

\* The module docstring: "terminate_process_group() on stop (kills the whole
\* tree)".
StopKillsTree == stop = "done" => \A g \in Gen : ~Alive(ff, g)

\* _audio_pipe_reader, of the process it kills: "we hold the only reference
\* to this Process object".
ReaderKillsOwn == \A g \in Gen : reader[g] = "closing" => aproc \in {0, g}
=============================================================================
