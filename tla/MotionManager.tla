---------------------------- MODULE MotionManager ----------------------------
(***************************************************************************)
(* motion/manager.py: which camera has a MotionDetector, told by what the  *)
(* recorders announce on the event bus, and what the shutdown of main.py   *)
(* makes of it.                                                            *)
(*                                                                         *)
(* run_forever is one task: it subscribes, walks over the live dict of     *)
(* recorders, then handles one event at a time.  An action is what it or a *)
(* recorder does between two points where it suspends; start() of a        *)
(* detector never does.  The recorders are here what recording/manager.py  *)
(* and camera_recorder.py make of them: an entry of the dict, and calls of *)
(* stop() whose entry is gone and whose recording_stopped is still to      *)
(* come, so that a new recorder may be recording by then.                  *)
(*                                                                         *)
(* Detection is enabled, D-FINE loads and go2rtc gives a loopback URL;     *)
(* otherwise no camera has a detector and nothing below happens.           *)
(***************************************************************************)
EXTENDS Naturals, Sequences, FiniteSets

CONSTANTS Camera,
          None,
          MaxQueue,     \* size of a bus queue (256 in the code)
          MayCorrupt    \* whether finalising can find a corrupt segment

ASSUME NoneAssumption == None \notin Camera
ASSUME FiniteAssumption == IsFiniteSet(Camera)
ASSUME QueueAssumption == MaxQueue \in Nat \ {0}
ASSUME CorruptAssumption == MayCorrupt \in BOOLEAN

VARIABLES
    entry,      \* RecordingManager.recorders: what the entry's recorder does
    draining,   \* calls of stop() that have popped it and not returned
    rows,       \* cameras with a row
    queue,      \* the motion manager's bus queue
    said,       \* history: what was last announced since the subscription
    lost,       \* history: the last announcement was pushed out of the queue
    detectors,  \* MotionManager.detectors: the cameras with one, running
    loop,       \* where run_forever is
    cam,        \* the camera it works on
    size,       \* of the dict when the walk over it began
    left,       \* entries that the iterator still expects
    ahead,      \* entries that the walk has not come past
    main,       \* the lifespan of main.py
    torn        \* detectors popped whose stop() was cancelled half way

recorder == <<entry, draining, rows>>
bus == <<queue, said, lost>>
walk == <<size, left, ahead>>
vars == <<recorder, bus, detectors, loop, cam, walk, main, torn>>

Said == {"nothing", "started", "stopped"}
Event == [type : {"started", "stopped"}, camera : Camera]
Stopping == {"stop_tasks", "stop_kill", "stop_reap", "stop_close"}
Walking == {"boot_row", "boot_heat"}
Loop == {"boot"} \cup Walking \cup Stopping \cup {"idle", "row", "heat", "died", "ended"}

TypeOK ==
    /\ entry \in [Camera -> {"none", "running", "failed", "dead"}]
    /\ draining \in [Camera -> 0..2]
    /\ rows \subseteq Camera
    /\ queue \in Seq(Event) /\ Len(queue) <= MaxQueue
    /\ said \in [Camera -> Said] /\ lost \subseteq Camera
    /\ detectors \subseteq Camera
    /\ loop \in Loop
    /\ cam \in Camera \cup {None}
    /\ size \in 0..Cardinality(Camera) /\ left \in 0..Cardinality(Camera)
    /\ ahead \subseteq Camera
    /\ main \in {"up", "recorders", "await", "motion", "down", "raised"}
    /\ torn \subseteq Camera

Init ==
    /\ entry = [c \in Camera |-> "none"]
    /\ draining = [c \in Camera |-> 0]
    /\ rows = Camera
    /\ queue = << >>
    /\ said = [c \in Camera |-> "nothing"] /\ lost = {}
    /\ detectors = {}
    /\ loop = "boot" /\ cam = None
    /\ size = 0 /\ left = 0 /\ ahead = {}
    /\ main = "up" /\ torn = {}

Keys == {c \in Camera : entry[c] # "none"}
Running(c) == entry[c] = "running"

\* The operators named ...Mutant are plausible slips in the definition they
\* precede.  This one is what the comment in run_forever warns of.
SubscribedMutant == loop \notin {"boot"} \cup Walking
Subscribed == loop # "boot"

EmitMutant(type, c) ==          \* a full queue refuses the new event
    /\ said' = [said EXCEPT ![c] = IF loop = "boot" THEN @ ELSE type]
    /\ IF Subscribed /\ Len(queue) < MaxQueue
       THEN queue' = Append(queue, [type |-> type, camera |-> c])
       ELSE UNCHANGED queue
    /\ UNCHANGED lost

\* EventBus.emit to the manager's queue.  camera_lost is handled the way
\* recording_stopped is, and is written "stopped" too.
Emit(type, c) ==
    LET e == [type |-> type, camera |-> c]
        full == Len(queue) = MaxQueue
        kept == IF full THEN Tail(queue) ELSE queue
        Later(d) == \E k \in DOMAIN kept : kept[k].camera = d
    IN  /\ said' = [said EXCEPT ![c] = IF loop = "boot" THEN @ ELSE type]
        /\ IF Subscribed
           THEN /\ queue' = Append(kept, e)
                /\ lost' = (lost \cup {d \in Camera : /\ full
                                                      /\ d = Head(queue).camera
                                                      /\ ~Later(d)}) \ {c}
           ELSE UNCHANGED <<queue, lost>>

(***************************************************************************)
(* The recorders.                                                          *)
(***************************************************************************)
RecorderOnly == UNCHANGED <<detectors, loop, cam, main, torn>>

\* The dict of the recorders; a walk over it finds a new entry at its end.
Insert(c, recording) ==
    /\ entry' = [entry EXCEPT ![c] = recording]
    /\ ahead' = IF loop \in Walking THEN ahead \cup {c} ELSE ahead
    /\ UNCHANGED <<size, left>>

Pop(c) ==
    /\ entry' = [entry EXCEPT ![c] = "none"]
    /\ ahead' = ahead \ {c}
    /\ UNCHANGED <<size, left>>

\* start() announces the recording and the manager inserts the recorder,
\* without suspending in between.
RecStarts(c) ==
    /\ main = "up" /\ entry[c] = "none"
    /\ Insert(c, "running")
    /\ Emit("started", c)
    /\ RecorderOnly /\ UNCHANGED <<draining, rows>>

\* start() gave up quietly: it is inserted all the same.
RecFails(c) ==
    /\ main = "up" /\ entry[c] = "none"
    /\ Insert(c, "failed")
    /\ RecorderOnly /\ UNCHANGED <<draining, rows, bus>>

\* The monitor spawned ffmpeg again.
RecRespawns(c) ==
    /\ Running(c)
    /\ Emit("started", c)
    /\ RecorderOnly /\ UNCHANGED <<recorder, walk>>

\* The monitor gave the camera up: nothing is announced.
RecGivesUp(c) ==
    /\ Running(c)
    /\ entry' = [entry EXCEPT ![c] = "dead"]
    /\ RecorderOnly /\ UNCHANGED <<draining, rows, bus, walk>>

\* The calls of stop() that popping an entry makes: a recorder without a
\* process returns from it at once.
Calls(c) == IF entry[c] \in {"running", "dead"} THEN 1 ELSE 0

\* stop_recording: pop, then stop().  Also how a start clears an entry without
\* a process, which it does without suspending.
RecStops(c) ==
    /\ main = "up" /\ c \in Keys /\ (draining[c] = 0 \/ entry[c] = "failed")
    /\ Pop(c)
    /\ draining' = [draining EXCEPT ![c] = @ + Calls(c)]
    /\ RecorderOnly /\ UNCHANGED <<rows, bus>>

\* A start clears a dead entry the other way round: stop(), then pop.  What is
\* one step here is the end of it; until then the entry is as it was.  (That
\* stop_recording stops the dead recorder at the same time is left out.)
RecCleared(c) ==
    /\ main = "up" /\ entry[c] = "dead"
    /\ Pop(c)
    /\ Emit("stopped", c)
    /\ RecorderOnly /\ UNCHANGED <<draining, rows>>

\* stop() returns.
RecStopped(c) ==
    /\ draining[c] > 0
    /\ draining' = [draining EXCEPT ![c] = @ - 1]
    /\ Emit("stopped", c)
    /\ RecorderOnly /\ UNCHANGED <<entry, rows, walk>>

\* A corrupt segment is announced as recording_stopped; recording goes on.
SegmentCorrupt(c) ==
    /\ MayCorrupt /\ Running(c)
    /\ Emit("stopped", c)
    /\ RecorderOnly /\ UNCHANGED <<recorder, walk>>

\* The scanner's camera_lost, which also makes the recording manager stop.
CameraLost(c) ==
    /\ c \in rows /\ main = "up"
    /\ Emit("stopped", c)
    /\ RecorderOnly /\ UNCHANGED <<recorder, walk>>

\* DELETE of a camera, after it stopped the recorder.
CameraDeleted(c) ==
    /\ main = "up" /\ c \in rows /\ entry[c] = "none" /\ draining[c] = 0
    /\ rows' = rows \ {c}
    /\ RecorderOnly /\ UNCHANGED <<entry, draining, bus, walk>>

(***************************************************************************)
(* run_forever.                                                            *)
(***************************************************************************)
LoopOnly == UNCHANGED <<recorder, lost, main, torn>>
Goto(where, c) == loop' = where /\ cam' = c

\* The next turns of "for camera_id, recorder in recorders.items()" over the
\* dict as it is by now, up to the next recorder whose row is fetched; those
\* that are not recording, or have no row, are passed over.  A dict of another
\* size raises, and so does one that has more entries than the iterator still
\* expects, because one that it came past was popped and others inserted.  The
\* loop is outside the try: an exception is the end of the task.
\* (That an insertion may make CPython move the entries, and the walk miss one,
\* is left out.)
WalkEnds(where) == Goto(where, None) /\ size' = 0 /\ left' = 0 /\ ahead' = {}
Walk(n, expected, entries) ==
    \/ Cardinality(Keys) # n /\ WalkEnds("died")
    \/ /\ Cardinality(Keys) = n
       /\ \E over \in SUBSET {c \in entries : ~(Running(c) /\ c \in rows)} :
             LET rest == entries \ over
                 more == expected - Cardinality(over) IN
             \/ rest = {} /\ WalkEnds("idle")
             \/ rest # {} /\ more = 0 /\ WalkEnds("died")
             \/ /\ more > 0
                /\ \E c \in rest :
                      /\ Running(c) /\ c \in rows
                      /\ Goto("boot_row", c) /\ ahead' = rest \ {c}
                /\ size' = n /\ left' = more - 1

\* _ensure_dfine returned; subscribe; the walk begins.  What it finds recording
\* stands for what was announced before.
LoopSubscribe ==
    /\ loop = "boot"
    /\ Walk(Cardinality(Keys), Cardinality(Keys), Keys)
    /\ said' = [c \in Camera |-> IF Running(c) THEN "started" ELSE "nothing"]
    /\ LoopOnly /\ UNCHANGED <<queue, detectors>>

\* get_camera returned the row: _attach_detector up to HeatmapLayer.create.
BootRow ==
    /\ loop = "boot_row"
    /\ IF cam \in detectors
       THEN Walk(size, left, ahead)
       ELSE Goto("boot_heat", cam) /\ UNCHANGED walk
    /\ LoopOnly /\ UNCHANGED <<queue, said, detectors>>

BootAttach ==
    /\ loop = "boot_heat"
    /\ detectors' = detectors \cup {cam}
    /\ Walk(size, left, ahead)
    /\ LoopOnly /\ UNCHANGED <<queue, said>>

\* stop_detection: pop, then stop(), which cancels and awaits the children.
Detach(c) ==
    IF c \in detectors
    THEN detectors' = detectors \ {c} /\ Goto("stop_tasks", c)
    ELSE UNCHANGED <<detectors, loop, cam>>

\* _handle_event.  Whether the row exists is fixed when the query is sent.
LoopTake ==
    /\ loop = "idle" /\ queue # << >>
    /\ queue' = Tail(queue)
    /\ LET c == Head(queue).camera IN
       IF Head(queue).type = "stopped" THEN Detach(c)
       ELSE /\ UNCHANGED detectors
            /\ IF c \in Keys \cap rows THEN Goto("row", c)
                                       ELSE UNCHANGED <<loop, cam>>
    /\ LoopOnly /\ UNCHANGED <<said, walk>>

LoopRow ==
    /\ loop = "row"
    /\ IF cam \in detectors THEN Goto("idle", None) ELSE Goto("heat", cam)
    /\ LoopOnly /\ UNCHANGED <<queue, said, detectors, walk>>

LoopAttach ==
    /\ loop = "heat"
    /\ detectors' = detectors \cup {cam}
    /\ Goto("idle", None)
    /\ LoopOnly /\ UNCHANGED <<queue, said, walk>>

\* detector.stop() goes on: the children have ended, SIGTERM is sent and the
\* exit awaited, then the supervisor is awaited, then the event is closed.
LoopStops ==
    /\ \/ loop = "stop_tasks" /\ Goto("stop_kill", cam)
       \/ loop = "stop_kill" /\ Goto("stop_reap", cam)
       \/ loop = "stop_reap" /\ Goto("stop_close", cam)
       \/ loop = "stop_close" /\ Goto("idle", None)
    /\ LoopOnly /\ UNCHANGED <<queue, said, detectors, walk>>

(***************************************************************************)
(* The shutdown in main.py: the recorders, then this task, then shutdown().*)
(***************************************************************************)
ShutdownBegins ==
    /\ main = "up" /\ main' = "recorders"
    /\ entry' = [c \in Camera |-> "none"]
    /\ ahead' = {}
    /\ draining' = [c \in Camera |-> draining[c] + Calls(c)]
    /\ UNCHANGED <<rows, bus, detectors, loop, cam, size, left, torn>>

\* Where CancelledError ends the task, and where detector.stop() or
\* source.stop() swallows it with "except (CancelledError, Exception): pass".
Swallows == loop \in {"stop_tasks", "stop_reap"}

NextAfterCancelMutant == "motion"       \* cancel() without the await
NextAfterCancel == IF loop = "died" THEN "raised" ELSE "await"

\* motion_task.cancel(), and what awaiting a task that has died raises.
MotionCancel ==
    /\ main = "recorders"
    /\ \A c \in Camera : draining[c] = 0
    /\ main' = NextAfterCancel
    /\ IF Swallows \/ loop \in {"died", "ended"}
       THEN UNCHANGED <<loop, cam, torn>>
       ELSE /\ Goto("ended", None)
            /\ torn' = IF loop \in Stopping THEN torn \cup {cam} ELSE torn
    /\ UNCHANGED <<recorder, bus, detectors, walk>>

MotionEnded ==
    /\ main = "await" /\ loop = "ended" /\ main' = "motion"
    /\ UNCHANGED <<recorder, bus, detectors, loop, cam, walk, torn>>

\* MotionManager.shutdown: one detector after the other.
ShutdownStops ==
    /\ main = "motion"
    /\ \/ /\ \E c \in detectors : detectors' = detectors \ {c}
          /\ UNCHANGED main
       \/ /\ detectors = {} /\ main' = "down"
          /\ UNCHANGED detectors
    /\ UNCHANGED <<recorder, bus, loop, cam, walk, torn>>

(***************************************************************************)
(* The specification.                                                      *)
(***************************************************************************)
Recorders == \E c \in Camera :
    \/ RecStarts(c) \/ RecFails(c) \/ RecRespawns(c) \/ RecGivesUp(c)
    \/ RecStops(c) \/ RecCleared(c) \/ RecStopped(c)
    \/ SegmentCorrupt(c) \/ CameraLost(c) \/ CameraDeleted(c)

LoopStep == LoopSubscribe \/ BootRow \/ BootAttach \/ LoopTake \/ LoopRow
            \/ LoopAttach \/ LoopStops

Shutdown == MotionCancel \/ MotionEnded \/ ShutdownStops

Next == Recorders \/ LoopStep \/ ShutdownBegins \/ Shutdown

Spec == Init /\ [][Next]_vars

\* Queries, ffmpeg's exit and stop() are bounded; users owe nothing.  Ffmpeg
\* does not die for ever: announcements without end could push each other out
\* of a small queue before the loop takes one.
FairSpec ==
    /\ Spec
    /\ WF_vars(LoopStep) /\ WF_vars(Shutdown)
    /\ \A c \in Camera : WF_vars(RecStopped(c))
    /\ \A c \in Camera : <>[][~RecRespawns(c)]_vars

(***************************************************************************)
(* Properties.                                                             *)
(***************************************************************************)
AtRest == loop = "idle" /\ queue = << >> /\ main = "up"

\* The last word about a camera is that it stopped or was lost.  When it is
\* recording all the same, that word came after its start: a corrupt segment,
\* the late recording_stopped of the recorder before, or a camera_lost.
ToldOff(c) == said[c] = "stopped"

\* "Attaches a MotionDetector to each camera when its recorder starts; detaches
\* when the recorder stops or the camera is lost": with nothing queued, the
\* detectors are those of the recorders, whatever the order in which recorders
\* started, died, stopped and respawned while the manager subscribed, walked
\* over them and awaited rows.  Excepted are cameras of which the bounded queue
\* lost the last word, recorders that run although the last word is that they
\* do not, and, of those that have a detector, recorders that gave up (which
\* nobody announces) or have not yet returned from stop().
FollowsRecorders ==
    AtRest => \A c \in Camera \ lost :
        /\ c \in detectors =>
              Running(c) \/ entry[c] = "dead" \/ draining[c] > 0
        /\ Running(c) /\ c \in rows /\ ~ToldOff(c) => c \in detectors

\* A recording that was announced gets its detector, if nothing else is
\* announced and the walk at the start did not raise.
EventuallyWatched ==
    \A c \in Camera :
        (/\ Running(c) /\ c \in rows /\ said[c] = "started"
         /\ c \notin lost)
            ~> \/ c \in detectors
               \/ ~Running(c) \/ c \notin rows \/ said[c] # "started"
               \/ c \in lost \/ loop = "died" \/ main # "up"

\* When the shutdown has come to its end, no detector is left behind, and
\* only one whose stop() was cancelled half way was not stopped in order.
ShutdownLeavesNone ==
    main = "down" => detectors = {} /\ loop = "ended" /\ Cardinality(torn) <= 1

(***************************************************************************)
(* What the repository says and the code does not do.                      *)
(***************************************************************************)

\* run_forever, on subscribing first: "Any `recording_started` event delivered
\* during the bootstrap iteration is then picked up by the normal event loop".
StartIsPickedUp ==
    loop = "died" /\ main = "up" =>
        \A k \in DOMAIN queue :
            LET c == queue[k].camera IN
            queue[k].type = "started" /\ Running(c) /\ c \in rows
                => c \in detectors

\* The module docstring: "detaches when the recorder stops or the camera is
\* lost", and not before.  (To see it fail without a camera_lost, let a corrupt
\* segment follow the start.)
DetachedWhenStopped ==
    AtRest => \A c \in rows \ lost : Running(c) => c \in detectors

\* main.py: "then tear down in reverse order".
ShutdownReturns == main = "recorders" ~> main = "down"
=============================================================================
