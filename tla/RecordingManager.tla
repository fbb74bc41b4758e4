-------------------------- MODULE RecordingManager --------------------------
(***************************************************************************)
(* backend/recording/manager.py: which camera has a recorder, and who may  *)
(* start or stop one.                                                      *)
(*                                                                         *)
(* Everything runs on one asyncio thread, so an action below is what a     *)
(* coroutine does between two points where it really suspends.  The tasks  *)
(* are the manager's run_forever() (Loop), the HTTP requests and the       *)
(* background apply_settings_change() tasks (Request), and the scanner,    *)
(* which changes camera rows and announces them on the event bus.  A call  *)
(* of start_recording or stop_recording that is suspended, or that gather  *)
(* has scheduled and not yet run, is an entry of call[task][camera].       *)
(*                                                                         *)
(* A CameraRecorder is an element of Rec with a life cycle.  aiosqlite     *)
(* runs statements on one thread in the order they were submitted, so the  *)
(* value a query returns is fixed when it is submitted; acting on it is a  *)
(* later step.                                                             *)
(***************************************************************************)
EXTENDS Naturals, Sequences, FiniteSets

CONSTANTS Camera,       \* camera ids that have a row when the program starts
          Request,      \* request slots: HTTP handlers and settings tasks
          Loop,         \* the run_forever() task
          Rec,          \* CameraRecorder instances
          None,         \* no recorder, no camera, no operation
          Config,       \* values of (fps, segment length, sub-stream, path)
          Ops,          \* the requests users make in this instance
          MayFail,      \* whether starting a recorder can fail
          MaxQueue,     \* size of a bus queue (256 in the code)
          MaxChanges    \* bound on the scanner's row changes

ASSUME LoopAssumption == Loop \notin Request
ASSUME NoneAssumption == None \notin Rec /\ None \notin Camera
ASSUME QueueAssumption == MaxQueue \in Nat \ {0} /\ MaxChanges \in Nat
ASSUME FailAssumption == MayFail \in BOOLEAN

VARIABLES
    row,        \* the cameras table: status=online with an rtsp_uri, or not
    stored,     \* the settings table
    settings,   \* RecordingManager._settings
    recorders,  \* RecordingManager.recorders
    starting,   \* RecordingManager._starting
    inst,       \* the recorders: what each does, for whom, built with what
    call,       \* calls of start_recording / stop_recording in progress
    pc,         \* where each task is
    cam,        \* the camera the task's handler works on
    todo,       \* cameras the task has still to start
    was,        \* old_settings, captured by the POST before it saves
    queue,      \* the manager's bus queue
    scan,       \* the event the scanner still has to emit, if any
    changes,    \* row changes so far
    heard       \* history: cameras whose last event reached the queue

mgr  == <<recorders, starting, inst, call>>
prog == <<pc, cam, todo, was>>
bus  == <<queue, heard>>
env  == <<row, stored, settings, bus, scan, changes>>
vars == <<mgr, prog, env>>

Task == Request \cup {Loop}
Settings == [enabled : BOOLEAN, config : Config]
Event == [type : {"camera_updated", "camera_lost"}, camera : Camera]
ASSUME EventAssumption == None \notin Event

Row == {"online", "offline", "deleted"}
Life == {"gone",      \* not built yet, or finished
         "starting",  \* inside CameraRecorder.start()
         "running",   \* _running is True
         "failed",    \* start() returned with _running False and no process
         "dead",      \* stopped itself after running: process exited
         "stopping"}  \* inside stop(), its ffmpeg draining
Instance == [life : Life, owner : Camera \cup {None},
             built : Config \cup {None}]
Gone == [life |-> "gone", owner |-> None, built |-> None]

Call == [at : {"idle", "start", "clear_stale", "start_wait", "stop",
               "stop_wait"}, rec : Rec \cup {None}]
Idle == [at |-> "idle", rec |-> None]
At(phase, i) == [at |-> phase, rec |-> i]

PC == {"boot", "loaded", "bootstrap", "idle", "saw_online", "saw_other",
       "handling", "retry", "retry_stop", "retry_start", "logout",
       "logout_emit", "delete", "reload", "apply", "restart", "apply_wait",
       "start_each", "clear", "reset"}

TypeOK ==
    /\ row \in [Camera -> Row]
    /\ stored \in Settings /\ settings \in Settings
    /\ recorders \in [Camera -> Rec \cup {None}]
    /\ starting \subseteq Camera
    /\ inst \in [Rec -> Instance]
    /\ call \in [Task -> [Camera -> Call]]
    /\ pc \in [Task -> PC]
    /\ cam \in [Task -> Camera \cup {None}]
    /\ todo \in [Task -> SUBSET Camera]
    /\ was \in [Task -> Settings \cup {None}]
    /\ queue \in Seq(Event) /\ Len(queue) <= MaxQueue
    /\ scan \in Event \cup {None}
    /\ changes \in 0..MaxChanges
    /\ heard \subseteq Camera

Init ==
    /\ row \in [Camera -> {"online", "offline"}]
    /\ stored \in Settings
    /\ settings \in [enabled : {TRUE}, config : Config]
    /\ recorders = [c \in Camera |-> None]
    /\ starting = {}
    /\ inst = [i \in Rec |-> Gone]
    /\ call = [t \in Task |-> [c \in Camera |-> Idle]]
    /\ pc = [t \in Task |-> IF t = Loop THEN "boot" ELSE "idle"]
    /\ cam = [t \in Task |-> None]
    /\ todo = [t \in Task |-> {}]
    /\ was = [t \in Task |-> None]
    /\ queue = << >>
    /\ scan = None
    /\ changes = 0
    /\ heard = {}

(***************************************************************************)
(* Helpers.                                                                *)
(***************************************************************************)
Subscribed == pc[Loop] \notin {"boot", "loaded", "bootstrap"}

EmitMutant(type, c) ==                  \* the queue is never full
    IF Subscribed
    THEN /\ queue' = Append(queue, [type |-> type, camera |-> c])
         /\ heard' = heard \cup {c}
    ELSE heard' = heard \ {c} /\ UNCHANGED queue

\* EventBus.emit to the manager's queue: the oldest event makes room.
Emit(type, c) ==
    LET e == [type |-> type, camera |-> c] IN
    \/ /\ ~Subscribed
       /\ heard' = heard \ {c}
       /\ UNCHANGED queue
    \/ /\ Subscribed /\ Len(queue) < MaxQueue
       /\ queue' = Append(queue, e)
       /\ heard' = heard \cup {c}
    \/ /\ Subscribed /\ Len(queue) = MaxQueue
       /\ queue' = Append(Tail(queue), e)
       /\ heard' = (heard \ {Head(queue).camera}) \cup {c}

\* No call of task t is in progress: whatever t awaits has returned.
Quiet(t) == \A c \in Camera : call[t][c] = Idle

Online == {c \in Camera : row[c] = "online"}
Keys == {c \in Camera : recorders[c] # None}

\* What recorders.get(c) finds.
Entry(c) == IF recorders[c] = None THEN "none" ELSE inst[recorders[c]].life

Goto(t, where) == pc' = [pc EXCEPT ![t] = where]

\* The task's handler returns; its local variables go with it.
Finish(t) == /\ pc' = [pc EXCEPT ![t] = "idle"]
             /\ cam' = [cam EXCEPT ![t] = None]
             /\ todo' = [todo EXCEPT ![t] = {}]
             /\ was' = [was EXCEPT ![t] = None]

\* An instance nothing refers to: what constructing a CameraRecorder returns.
Unused(i) ==
    /\ inst[i] = Gone
    /\ \A c \in Camera : recorders[c] # i
    /\ \A t \in Task, c \in Camera : call[t][c].rec # i

(***************************************************************************)
(* start_recording and stop_recording, by suspension point.                *)
(***************************************************************************)

\* The _starting guard and the finally clause that lifts it.  The operators
\* named ...Mutant here and below are plausible slips in the definition they
\* precede; PROJECT.json lists them with the property each one breaks.
LockedMutant(c) == FALSE                \* no guard
Locked(c) == c \in starting

ReleaseMutant(c) == UNCHANGED starting  \* discard left out
Release(c) == starting' = starting \ {c}

\* Construct a recorder with the current settings and enter start().
Construct(t, c, i, old) ==
    /\ Unused(i)
    /\ inst' = [j \in Rec |->
                  CASE j = i   -> [life |-> "starting", owner |-> c,
                                   built |-> settings.config]
                    [] j = old -> Gone
                    [] OTHER   -> inst[j]]
    /\ recorders' = [recorders EXCEPT ![c] = None]
    /\ call' = [call EXCEPT ![t][c] = At("start_wait", i)]

\* The synchronous first part of start_recording.
BeginStart(t, c) ==
    \/ /\ Locked(c) \/ Entry(c) = "running"
       /\ call' = [call EXCEPT ![t][c] = Idle]
       /\ UNCHANGED <<recorders, starting, inst>>
    \/ /\ ~Locked(c) /\ Entry(c) \in {"none", "failed"}
       /\ starting' = starting \cup {c}
       /\ \E i \in Rec : Construct(t, c, i, recorders[c])
    \/ /\ ~Locked(c) /\ Entry(c) = "dead"
       /\ starting' = starting \cup {c}
       /\ call' = [call EXCEPT ![t][c] = At("clear_stale", recorders[c])]
       /\ UNCHANGED <<recorders, inst>>

\* gather runs a scheduled start.
RunStart(t, c) ==
    /\ call[t][c].at = "start"
    /\ BeginStart(t, c)
    /\ UNCHANGED <<prog, env>>

\* existing.stop() returned: forget the stale entry, build a new recorder.
StaleStopped(t, c) ==
    /\ call[t][c].at = "clear_stale"
    /\ \E i \in Rec : Construct(t, c, i, call[t][c].rec)
    /\ UNCHANGED <<starting, prog, env>>

\* recorder.start() returned: ffmpeg runs, or start() gave up quietly (codec
\* unsupported, ffmpeg missing) and the stale recorder is inserted all the
\* same, or it raised and the dict is left alone.
StartReturns(t, c) ==
    LET i == call[t][c].rec IN
    /\ call[t][c].at = "start_wait"
    /\ call' = [call EXCEPT ![t][c] = Idle]
    /\ Release(c)
    /\ \/ /\ inst' = [inst EXCEPT ![i].life = "running"]
          /\ recorders' = [recorders EXCEPT ![c] = i]
       \/ /\ MayFail
          /\ inst' = [inst EXCEPT ![i].life = "failed"]
          /\ recorders' = [recorders EXCEPT ![c] = i]
       \/ /\ MayFail
          /\ inst' = [inst EXCEPT ![i] = Gone]
          /\ UNCHANGED recorders
    /\ UNCHANGED <<prog, env>>

\* The synchronous first part of stop_recording: pop, then enter stop(),
\* which returns at once when the recorder never had a process.
BeginStop(t, c) ==
    /\ recorders' = [recorders EXCEPT ![c] = None]
    /\ UNCHANGED starting
    /\ \/ /\ Entry(c) = "none"
          /\ call' = [call EXCEPT ![t][c] = Idle]
          /\ UNCHANGED inst
       \/ /\ Entry(c) = "failed"
          /\ call' = [call EXCEPT ![t][c] = Idle]
          /\ inst' = [inst EXCEPT ![recorders[c]] = Gone]
       \/ /\ Entry(c) \in {"running", "dead"}
          /\ call' = [call EXCEPT ![t][c] = At("stop_wait", recorders[c])]
          /\ inst' = [inst EXCEPT ![recorders[c]].life = "stopping"]

\* gather runs a scheduled stop.
RunStop(t, c) ==
    /\ call[t][c].at = "stop"
    /\ BeginStop(t, c)
    /\ UNCHANGED <<prog, env>>

StopReturns(t, c) ==
    /\ call[t][c].at = "stop_wait"
    /\ call' = [call EXCEPT ![t][c] = Idle]
    /\ inst' = [inst EXCEPT ![call[t][c].rec] = Gone]
    /\ UNCHANGED <<recorders, starting, prog, env>>

\* gather(*[f(c) for c in S]) schedules one child task per camera.
Schedule(t, phase, S) ==
    /\ call' = [call EXCEPT ![t] =
                   [c \in Camera |-> IF c \in S THEN At(phase, None)
                                     ELSE Idle]]
    /\ UNCHANGED <<recorders, starting, inst>>

\* A recorder whose respawn finds no usable codec or no ffmpeg stops itself.
GiveUp(i) ==
    /\ MayFail
    /\ inst[i].life = "running"
    /\ inst' = [inst EXCEPT ![i].life = "dead"]
    /\ UNCHANGED <<recorders, starting, call, prog, env>>

(***************************************************************************)
(* run_forever: bootstrap, subscribe, then one event at a time.            *)
(***************************************************************************)
LoopLoad ==
    /\ pc[Loop] = "boot"
    /\ Goto(Loop, "loaded")
    /\ settings' = stored
    /\ UNCHANGED <<mgr, cam, todo, was, row, stored, bus, scan, changes>>

LoopBootstrap ==
    /\ pc[Loop] = "loaded"
    /\ Goto(Loop, "bootstrap")
    /\ todo' = [todo EXCEPT ![Loop] = IF settings.enabled THEN Online ELSE {}]
    /\ UNCHANGED <<mgr, cam, was, env>>

\* The next start of a sequential "for cam in cameras" loop (bootstrap,
\* re-enable, clear-data).  The list was fetched before the loop began.
StartNext(t) ==
    /\ pc[t] \in {"bootstrap", "start_each"}
    /\ Quiet(t)
    /\ \E c \in todo[t] : /\ BeginStart(t, c)
                          /\ todo' = [todo EXCEPT ![t] = @ \ {c}]
    /\ UNCHANGED <<pc, cam, was, env>>

LoopSubscribe ==
    /\ pc[Loop] = "bootstrap"
    /\ Quiet(Loop) /\ todo[Loop] = {}
    /\ Finish(Loop)
    /\ UNCHANGED <<mgr, env>>

\* _handle_event up to its first await.
LoopTake ==
    /\ pc[Loop] = "idle"
    /\ queue # << >>
    /\ queue' = Tail(queue)
    /\ LET c == Head(queue).camera IN
       \/ /\ Head(queue).type = "camera_lost"
          /\ BeginStop(Loop, c)
          /\ Goto(Loop, "handling")
          /\ UNCHANGED cam
       \/ /\ Head(queue).type = "camera_updated"
          /\ IF row[c] = "deleted"
             THEN UNCHANGED <<pc, cam>>
             ELSE /\ Goto(Loop, IF row[c] = "online" THEN "saw_online"
                                                     ELSE "saw_other")
                  /\ cam' = [cam EXCEPT ![Loop] = c]
          /\ UNCHANGED mgr
    /\ UNCHANGED <<todo, was, row, stored, settings, scan, changes, heard>>

\* The row the query returned decides, not the row as it is now.
LoopAct ==
    /\ \/ /\ pc[Loop] = "saw_online" /\ settings.enabled
          /\ BeginStart(Loop, cam[Loop])
       \/ /\ pc[Loop] = "saw_online" /\ ~settings.enabled
          /\ UNCHANGED mgr
       \/ /\ pc[Loop] = "saw_other"
          /\ BeginStop(Loop, cam[Loop])
    /\ Goto(Loop, "handling")
    /\ UNCHANGED <<cam, todo, was, env>>

LoopDone ==
    /\ pc[Loop] = "handling" /\ Quiet(Loop)
    /\ Finish(Loop)
    /\ UNCHANGED <<mgr, env>>

(***************************************************************************)
(* Requests about one camera: api/cameras.py.                              *)
(***************************************************************************)
Begin(r, op, c, where) ==
    /\ op \in Ops
    /\ pc[r] = "idle"
    /\ row[c] # "deleted"           \* otherwise 404
    /\ cam' = [cam EXCEPT ![r] = c]
    /\ Goto(r, where)

RetryMain(r, c) ==      \* clear_stream_override returns the row
    /\ Begin(r, "retry", c, "retry")
    /\ todo' = [todo EXCEPT ![r] = {c} \cap Online]
    /\ UNCHANGED <<mgr, was, env>>

RetryStop(r) ==
    /\ pc[r] = "retry"
    /\ BeginStop(r, cam[r])
    /\ Goto(r, "retry_stop")
    /\ UNCHANGED <<cam, todo, was, env>>

RetryStart(r) ==        \* recording_enabled is not looked at
    /\ pc[r] = "retry_stop" /\ Quiet(r) /\ todo[r] # {}
    /\ BeginStart(r, cam[r])
    /\ Goto(r, "retry_start")
    /\ todo' = [todo EXCEPT ![r] = {}]
    /\ UNCHANGED <<cam, was, env>>

RetryEmitMutant(r) ==                   \* no camera_updated afterwards
    /\ pc[r] = "retry_start" \/ (pc[r] = "retry_stop" /\ todo[r] = {})
    /\ Quiet(r)
    /\ Finish(r)
    /\ UNCHANGED <<mgr, env>>

RetryEmit(r) ==
    /\ pc[r] = "retry_start" \/ (pc[r] = "retry_stop" /\ todo[r] = {})
    /\ Quiet(r)
    /\ Emit("camera_updated", cam[r])
    /\ Finish(r)
    /\ UNCHANGED <<mgr, row, stored, settings, scan, changes>>

Logout(r, c) ==
    /\ Begin(r, "logout", c, "logout")
    /\ BeginStop(r, c)
    /\ UNCHANGED <<todo, was, env>>

LogoutClear(r) ==       \* clear_camera_auth; a row deleted meanwhile: 500
    /\ pc[r] = "logout" /\ Quiet(r)
    /\ IF row[cam[r]] = "deleted"
       THEN Finish(r) /\ UNCHANGED row
       ELSE /\ Goto(r, "logout_emit")
            /\ row' = [row EXCEPT ![cam[r]] = "offline"]
            /\ UNCHANGED <<cam, todo, was>>
    /\ UNCHANGED <<mgr, stored, settings, bus, scan, changes>>

LogoutEmit(r) ==
    /\ pc[r] = "logout_emit"
    /\ Emit("camera_updated", cam[r])
    /\ Finish(r)
    /\ UNCHANGED <<mgr, row, stored, settings, scan, changes>>

Delete(r, c) ==
    /\ Begin(r, "delete", c, "delete")
    /\ BeginStop(r, c)
    /\ UNCHANGED <<todo, was, env>>

DeleteRow(r) ==         \* the camera_deleted event is not one the loop handles
    /\ pc[r] = "delete" /\ Quiet(r)
    /\ row' = [row EXCEPT ![cam[r]] = "deleted"]
    /\ Finish(r)
    /\ UNCHANGED <<mgr, stored, settings, bus, scan, changes>>

Rename(r, c) ==         \* announces a row that is as online as it was
    /\ "name" \in Ops
    /\ pc[r] = "idle" /\ row[c] # "deleted"
    /\ Emit("camera_updated", c)
    /\ UNCHANGED <<mgr, prog, row, stored, settings, scan, changes>>

(***************************************************************************)
(* Requests about every camera: api/settings.py, apply_settings_change and *)
(* shutdown.                                                               *)
(***************************************************************************)
SettingsPost(r, new) ==     \* snapshot the old settings, save the new ones
    /\ "settings" \in Ops
    /\ pc[r] = "idle"
    /\ was' = [was EXCEPT ![r] = settings]
    /\ stored' = new
    /\ Goto(r, "reload")
    /\ UNCHANGED <<mgr, cam, todo, row, settings, bus, scan, changes>>

SettingsLoad(r) ==          \* load_settings, then create_task(apply...)
    /\ pc[r] = "reload"
    /\ settings' = stored
    /\ Goto(r, "apply")
    /\ UNCHANGED <<mgr, cam, todo, was, row, stored, bus, scan, changes>>

ApplySettings(r) ==
    /\ pc[r] = "apply"
    /\ \/ /\ ~settings.enabled
          /\ Schedule(r, "stop", Keys)
          /\ Goto(r, "apply_wait")
          /\ UNCHANGED <<cam, todo, was>>
       \/ /\ settings.enabled /\ ~was[r].enabled
          /\ Goto(r, "start_each")
          /\ todo' = [todo EXCEPT ![r] = Online]
          /\ UNCHANGED <<mgr, cam, was>>
       \/ /\ settings.enabled /\ was[r].enabled
          /\ settings.config # was[r].config
          /\ Schedule(r, "stop", Keys)
          /\ Goto(r, "restart")
          /\ todo' = [todo EXCEPT ![r] = Keys \cap Online]
          /\ UNCHANGED <<cam, was>>
       \/ /\ settings.enabled /\ was[r].enabled
          /\ settings.config = was[r].config
          /\ Finish(r)
          /\ UNCHANGED mgr
    /\ UNCHANGED env

RestartStart(r) ==          \* the fence: every stop of the gather is over
    /\ pc[r] = "restart" /\ Quiet(r)
    /\ Schedule(r, "start", todo[r])
    /\ todo' = [todo EXCEPT ![r] = {}]
    /\ Goto(r, "apply_wait")
    /\ UNCHANGED <<cam, was, env>>

ClearData(r) ==
    /\ "clear" \in Ops
    /\ pc[r] = "idle"
    /\ Schedule(r, "stop", Keys)
    /\ Goto(r, "clear")
    /\ UNCHANGED <<cam, todo, was, env>>

ClearResume(r) ==
    /\ pc[r] = "clear" /\ Quiet(r)
    /\ IF settings.enabled
       THEN /\ Goto(r, "start_each")
            /\ todo' = [todo EXCEPT ![r] = Online]
            /\ UNCHANGED <<cam, was>>
       ELSE Finish(r)
    /\ UNCHANGED <<mgr, env>>

Reset(r) ==
    /\ "reset" \in Ops
    /\ pc[r] = "idle"
    /\ Schedule(r, "stop", Keys)
    /\ Goto(r, "reset")
    /\ UNCHANGED <<cam, todo, was, env>>

ResetRows(r) ==
    /\ pc[r] = "reset" /\ Quiet(r)
    /\ row' = [c \in Camera |-> "deleted"]
    /\ Finish(r)
    /\ UNCHANGED <<mgr, stored, settings, bus, scan, changes>>

EveryDone(r) ==
    /\ pc[r] = "apply_wait" \/ (pc[r] = "start_each" /\ todo[r] = {})
    /\ Quiet(r)
    /\ Finish(r)
    /\ UNCHANGED <<mgr, env>>

(***************************************************************************)
(* The scanner: changes a row, then announces it.                          *)
(***************************************************************************)
ScanChange(c) ==
    /\ scan = None
    /\ changes < MaxChanges /\ changes' = changes + 1
    /\ \/ /\ row[c] = "offline"
          /\ row' = [row EXCEPT ![c] = "online"]
          /\ scan' = [type |-> "camera_updated", camera |-> c]
       \/ /\ row[c] = "online"
          /\ row' = [row EXCEPT ![c] = "offline"]
          /\ \E type \in {"camera_updated", "camera_lost"} :
                scan' = [type |-> type, camera |-> c]
    /\ UNCHANGED <<mgr, prog, stored, settings, bus>>

ScanEmit ==
    /\ scan # None
    /\ Emit(scan.type, scan.camera)
    /\ scan' = None
    /\ UNCHANGED <<mgr, prog, row, stored, settings, changes>>

(***************************************************************************)
(* The specification.                                                      *)
(***************************************************************************)
LoopStep == LoopLoad \/ LoopBootstrap \/ LoopSubscribe \/ LoopTake \/ LoopAct
            \/ LoopDone

Continue(r) == \/ RetryStop(r) \/ RetryStart(r) \/ RetryEmit(r)
               \/ LogoutClear(r) \/ LogoutEmit(r) \/ DeleteRow(r)
               \/ SettingsLoad(r) \/ ApplySettings(r) \/ RestartStart(r)
               \/ ClearResume(r) \/ ResetRows(r) \/ EveryDone(r)

Arrive(r) == \/ \E c \in Camera : \/ RetryMain(r, c) \/ Logout(r, c)
                                 \/ Delete(r, c) \/ Rename(r, c)
             \/ \E new \in Settings : SettingsPost(r, new)
             \/ ClearData(r) \/ Reset(r)

CallStep(t, c) == RunStart(t, c) \/ StaleStopped(t, c) \/ StartReturns(t, c)
                  \/ RunStop(t, c) \/ StopReturns(t, c)

Next == \/ LoopStep
        \/ \E r \in Request : Arrive(r) \/ Continue(r)
        \/ \E t \in Task : StartNext(t) \/ \E c \in Camera : CallStep(t, c)
        \/ \E i \in Rec : GiveUp(i)
        \/ \E c \in Camera : ScanChange(c)
        \/ ScanEmit

Spec == Init /\ [][Next]_vars

\* What asyncio and the bounded waits give: a task that can run does, start()
\* and stop() return (go2rtc calls time out after 2 s, stop() kills after
\* 30 s), the scanner finishes the step it began.  Users, cameras and
\* failures owe nothing.
Fairness ==
    /\ WF_vars(LoopStep)
    /\ WF_vars(ScanEmit)
    /\ \A r \in Request : WF_vars(Continue(r))
    /\ \A t \in Task : WF_vars(StartNext(t))
    /\ \A t \in Task, c \in Camera : WF_vars(CallStep(t, c))

FairSpec == Spec /\ Fairness

(***************************************************************************)
(* Properties.                                                             *)
(***************************************************************************)
Running(c) == Entry(c) = "running"

\* Two recorders are never both starting or recording for one camera, from
\* whatever mix of bootstrap, events and requests: what _starting and the
\* idempotent start are for (a second RTSP session on a one-client camera).
OneActive ==
    \A i, j \in Rec : /\ inst[i].life \in {"starting", "running"}
                      /\ inst[j].life \in {"starting", "running"}
                      /\ inst[i].owner = inst[j].owner
                      => i = j

\* A recorder that may have an ffmpeg can always be reached to be stopped:
\* it is in the dict under its own camera, or the call that is starting or
\* stopping it is still in progress.
NoOrphan ==
    \A i \in Rec :
        LET c == inst[i].owner IN
        /\ inst[i].life \in {"running", "failed", "dead"} => recorders[c] = i
        /\ inst[i].life = "starting" =>
              \E t \in Task : call[t][c] = At("start_wait", i)
        /\ inst[i].life = "stopping" =>
              \E t \in Task : call[t][c] = At("stop_wait", i)

\* _starting holds a camera exactly while one call is past its guard; a
\* leaked entry would refuse every later start of that camera.
Holders(c) == {t \in Task : call[t][c].at \in {"clear_stale", "start_wait"}}
StartLock ==
    \A c \in Camera : IF c \in starting THEN \E t \in Task : Holders(c) = {t}
                                         ELSE Holders(c) = {}

\* Nothing is queued, scheduled or suspended anywhere.
AtRest ==
    /\ pc = [t \in Task |-> "idle"]
    /\ \A t \in Task : Quiet(t)
    /\ queue = << >>
    /\ scan = None

\* "status changed away from online -> stop recording": once everything has
\* settled no recorder runs for a camera whose row is not online, although
\* requests start recorders from rows they read before they waited.
SettledOffline ==
    AtRest => \A c \in heard : Running(c) => row[c] = "online"

\* "status=online -> start recording": once everything has settled an
\* announced online camera is recorded (or its recorder failed by itself).
SettledOnline ==
    AtRest /\ settings.enabled /\ ~MayFail =>
        \A c \in heard : row[c] = "online" => Running(c)

\* Once everything has settled, what is recorded is what the rows say.
Settled == SettledOffline /\ SettledOnline

\* An online camera that was announced gets recorded, or goes away again.
EventuallyRecorded ==
    \A c \in Camera :
        (c \in heard /\ row[c] = "online" /\ settings.enabled)
            ~> (Running(c) \/ row[c] # "online" \/ c \notin heard)

\* A start in progress ends: nothing keeps a camera locked out.
LockReleased == \A c \in Camera : c \in starting ~> c \notin starting

(***************************************************************************)
(* What the repository says and the code does not do.                      *)
(***************************************************************************)

\* apply_settings_change: "Disabled - stop everything".
DisabledStopsEverything ==
    AtRest /\ ~settings.enabled => \A c \in Camera : ~Running(c)

\* The module docstring: "camera_found / camera_updated with status=online
\* -> start recording", for every camera that was ever announced online.
OnlineRecorded ==
    AtRest /\ settings.enabled =>
        \A c \in Camera : row[c] = "online" => Running(c)
=============================================================================
