----------------------------- MODULE RecorderLife -----------------------------
(***************************************************************************)
(* What RecordingManager relies on of one CameraRecorder: the moves of its *)
(* life as start(), stop() and is_running show it.  CameraRecorder         *)
(* implements this specification.                                          *)
(***************************************************************************)

VARIABLE life

Life == {"gone",      \* not built yet, or finished
         "starting",  \* inside CameraRecorder.start()
         "running",   \* _running is True
         "failed",    \* start() returned with _running False and no process
         "dead",      \* stopped itself after running: process exited
         "stopping"}  \* inside stop(), its ffmpeg draining

\* start() raises, returns with ffmpeg up or returns without it; a running
\* recorder is stopped or gives up; stop() has nothing to wait for when
\* there never was a process.
Moves == {<<"gone", "starting">>,
          <<"starting", "running">>, <<"starting", "failed">>,
          <<"starting", "gone">>,
          <<"running", "dead">>, <<"running", "stopping">>,
          <<"failed", "gone">>, <<"dead", "stopping">>,
          <<"stopping", "gone">>}

Init == life = "gone"
Next == <<life, life'>> \in Moves
Spec == Init /\ [][Next]_life

\* stop() returns.
StopReturns == (life = "stopping") ~> (life = "gone")
=============================================================================
