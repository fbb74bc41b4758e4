----------------------------- MODULE DetectSource -----------------------------
(***************************************************************************)
(* detect_frames/ffmpeg_source.py: the ffmpeg that decodes frames for one  *)
(* MotionDetector, and the tasks of motion/detector.py that meddle with    *)
(* it: the audio boost, which changes the frame rate by a restart, and     *)
(* stop().                                                                 *)
(*                                                                         *)
(* Three tasks act on one process handle: the supervisor, the boost task   *)
(* and stop().  Each may be inside _terminate_current_proc at once.  An    *)
(* action is what one of them does up to its next suspension; tasks woken  *)
(* by the exit of a process run before the supervisor, which has a probe   *)
(* to await first, can spawn another.                                      *)
(*                                                                         *)
(* The output size is forgotten whenever ffmpeg has ended, so each turn of *)
(* the supervisor begins with a probe.  The lengths of the back-off are    *)
(* left out.                                                               *)
(***************************************************************************)
EXTENDS Naturals

CONSTANTS STEADY, BOOST,    \* the two frame rates
          MaxFaults         \* bound on failing probes, exits and stalls

ASSUME FpsAssumption == STEADY \in Nat \ {0} /\ BOOST \in Nat \ {0, STEADY}
ASSUME FaultAssumption == MaxFaults \in Nat

VARIABLES
    running,    \* _running
    fps,        \* _fps
    restarting, \* _restarting_for_fps
    genDone,    \* _gen_done
    handle,     \* _proc is not None: the process spawned last
    proc,       \* that process; "term" has a SIGTERM pending
    procFps,    \* the rate it was told
    strays,     \* older ffmpegs that are still alive
    sup,        \* the supervisor task
    boost,      \* the boost task
    window,     \* now < _audio_boost_until
    stop,       \* MotionDetector.stop()
    faults,
    missed      \* history: the rate was changed while ffmpeg was being spawned

process == <<handle, proc, procFps, strays>>
flags == <<fps, restarting>>
tasks == <<sup, boost, stop>>
vars == <<running, flags, genDone, process, tasks, window, faults, missed>>

TypeOK ==
    /\ running \in BOOLEAN /\ restarting \in BOOLEAN /\ genDone \in BOOLEAN
    /\ fps \in {STEADY, BOOST} /\ procFps \in {STEADY, BOOST}
    /\ handle \in BOOLEAN
    /\ proc \in {"none", "up", "term", "dead"}
    /\ strays \in Nat
    /\ sup \in {"probe", "spawn", "read", "reap", "sleep", "ended"}
    /\ boost \in {"none", "new", "raise", "raise_gen", "sleep", "restore",
                  "restore_gen"}
    /\ stop \in {"no", "boost", "term", "reap", "done"}
    /\ window \in BOOLEAN /\ missed \in BOOLEAN
    /\ faults \in 0..MaxFaults

\* start() has created the supervisor.
Init ==
    /\ running = TRUE /\ fps = STEADY /\ restarting = FALSE /\ genDone = TRUE
    /\ handle = FALSE /\ proc = "none" /\ procFps = STEADY /\ strays = 0
    /\ sup = "probe" /\ boost = "none" /\ stop = "no"
    /\ window = FALSE /\ faults = 0 /\ missed = FALSE

Alive == proc \in {"up", "term"}
Fault == faults < MaxFaults /\ faults' = faults + 1

\* A task inside _terminate_current_proc, waiting for the exit.
Waiting == sup = "reap" \/ boost \in {"raise", "restore"} \/ stop = "term"

\* _terminate_current_proc up to its wait, and from the exit on.
TermSends == handle /\ Alive
TermBegins == proc' = IF TermSends THEN "term" ELSE proc
TermReturns == ~handle \/ proc = "dead"

(***************************************************************************)
(* The supervisor.                                                         *)
(***************************************************************************)
SupOnly == UNCHANGED <<running, fps, boost, stop, window>>

\* ffprobe gave the size: the command line is built, with the rate of now.
Probed ==
    /\ sup = "probe"
    /\ sup' = "spawn" /\ genDone' = FALSE
    /\ procFps' = fps /\ missed' = FALSE
    /\ SupOnly
    /\ UNCHANGED <<restarting, handle, proc, strays, faults>>

ProbeFails ==
    /\ sup = "probe"
    /\ Fault /\ sup' = "sleep"
    /\ SupOnly /\ UNCHANGED <<restarting, genDone, process, missed>>

\* Back in _supervise_loop; a restart for the frame rate is not delayed.
GenerationOver ==
    /\ genDone' = TRUE
    /\ IF ~running
       THEN sup' = "ended" /\ UNCHANGED restarting
       ELSE /\ sup' = IF restarting THEN "probe" ELSE "sleep"
            /\ restarting' = FALSE

\* The binary is gone: the generation is over at once.
SpawnFails ==
    /\ sup = "spawn"
    /\ Fault /\ GenerationOver
    /\ SupOnly /\ UNCHANGED <<process, missed>>

\* Between the exit of one ffmpeg and the spawn of the next lie the event
\* loop's turns for a probe, a subprocess of its own: whoever awaited the exit
\* has been resumed, and has dropped its handle, before.
Spawned ==
    /\ sup = "spawn"
    /\ ~(Waiting /\ proc = "dead")
    /\ sup' = "read" /\ proc' = "up" /\ handle' = TRUE
    /\ strays' = IF Alive THEN strays + 1 ELSE strays
    /\ SupOnly
    /\ UNCHANGED <<restarting, genDone, procFps, faults, missed>>

\* The finally clause of the generation terminates what it spawned.
Reap == sup' = "reap" /\ TermBegins

\* End of file: ffmpeg has exited.
ReadEnds ==
    /\ sup = "read" /\ proc = "dead"
    /\ Reap
    /\ SupOnly
    /\ UNCHANGED <<restarting, genDone, handle, procFps, strays, faults, missed>>

\* No frame for 30 s, or one of another size: the finally clause kills it.
ReadStalls ==
    /\ sup = "read" /\ proc = "up"
    /\ Fault /\ Reap
    /\ SupOnly
    /\ UNCHANGED <<restarting, genDone, handle, procFps, strays, missed>>

\* The operators named ...Mutant are plausible slips in the definition they
\* precede.
ReapedMutant == TRUE                    \* does not wait for the exit
Reaped == TermReturns

GenerationEnds ==
    /\ sup = "reap" /\ Reaped
    /\ handle' = FALSE /\ GenerationOver
    /\ SupOnly /\ UNCHANGED <<proc, procFps, strays, faults, missed>>

SleepEnds ==
    /\ sup = "sleep"
    /\ sup' = IF running THEN "probe" ELSE "ended"
    /\ SupOnly
    /\ UNCHANGED <<restarting, genDone, process, faults, missed>>

(***************************************************************************)
(* ffmpeg.                                                                 *)
(***************************************************************************)
ProcExits ==
    /\ Alive
    /\ IF proc = "up" THEN Fault ELSE UNCHANGED faults
    /\ proc' = "dead"
    /\ UNCHANGED <<running, flags, genDone, handle, procFps, strays, tasks,
                   window, missed>>

KillMutant == FALSE                     \* no SIGKILL after the grace period
Kill == proc = "term" /\ Waiting

\* The grace of 2 s is over for one of the tasks that wait.
GraceExpires ==
    /\ Kill
    /\ proc' = "dead"
    /\ UNCHANGED <<running, flags, genDone, handle, procFps, strays, tasks,
                   window, faults, missed>>

(***************************************************************************)
(* The audio boost.                                                        *)
(***************************************************************************)
BoostOnly == UNCHANGED <<running, genDone, procFps, strays, sup, faults>>

\* audio_boost(): by now the detector may be popped, but not stopped.
Boosted ==
    /\ stop = "no"
    /\ window' = TRUE
    /\ boost' = IF boost = "none" THEN "new" ELSE boost
    /\ BoostOnly /\ UNCHANGED <<flags, handle, proc, stop, missed>>

WindowCloses ==
    /\ window /\ window' = FALSE
    /\ BoostOnly /\ UNCHANGED <<flags, handle, proc, boost, stop, missed>>

\* set_fps(new) up to its first wait: for the exit (wait), for _gen_done
\* (gen), or none (next).
SetFpsMutant(new, wait, gen, next) ==       \* the running ffmpeg is left alone
    /\ fps' = new
    /\ boost' = next
    /\ UNCHANGED <<restarting, proc, missed>>

SetFps(new, wait, gen, next) ==
    IF new = fps \/ ~running
    THEN /\ fps' = new /\ boost' = next
         /\ UNCHANGED <<restarting, proc, missed>>
    ELSE /\ fps' = new /\ restarting' = TRUE
         /\ missed' = (missed \/ sup = "spawn")
         /\ TermBegins
         /\ boost' = IF TermSends THEN wait
                     ELSE IF genDone THEN next ELSE gen

\* _terminate_current_proc had nothing to wait for: _proc = None all the same.
Forget(new) == handle' = IF new # fps /\ running /\ ~TermSends THEN FALSE
                         ELSE handle

BoostBegins ==
    /\ boost = "new"
    /\ SetFps(BOOST, "raise", "raise_gen", "sleep") /\ Forget(BOOST)
    /\ BoostOnly /\ UNCHANGED <<stop, window>>

RestoreFpsMutant == boost' = "none" /\ UNCHANGED <<fps, restarting, proc, handle,
                                                   missed>>
RestoreFps == SetFps(STEADY, "restore", "restore_gen", "none") /\ Forget(STEADY)

\* The deadline is past: the finally clause.
BoostEnds ==
    /\ boost = "sleep" /\ ~window
    /\ RestoreFps
    /\ BoostOnly /\ UNCHANGED <<stop, window>>

AfterTerm == IF boost = "raise" THEN <<"raise_gen", "sleep">>
                                ELSE <<"restore_gen", "none">>

BoostTerminated ==
    /\ boost \in {"raise", "restore"} /\ TermReturns
    /\ handle' = FALSE
    /\ boost' = AfterTerm[IF genDone THEN 2 ELSE 1]
    /\ BoostOnly /\ UNCHANGED <<flags, proc, stop, window, missed>>

\* _gen_done is set, or 5 s are over.
BoostWaited ==
    /\ boost \in {"raise_gen", "restore_gen"}
    /\ boost' = IF boost = "raise_gen" THEN "sleep" ELSE "none"
    /\ BoostOnly /\ UNCHANGED <<flags, handle, proc, stop, window, missed>>

(***************************************************************************)
(* MotionDetector.stop(): cancel the boost, then source.stop().            *)
(***************************************************************************)
\* CancelledError reaches the boost task: not yet begun, it just ends; in the
\* try it runs the finally clause; in the finally clause it leaves it.
StopBegins ==
    /\ stop = "no" /\ stop' = "boost"
    /\ IF boost \in {"raise", "raise_gen", "sleep"}
       THEN RestoreFps
       ELSE /\ boost' = "none"
            /\ UNCHANGED <<flags, handle, proc, missed>>
    /\ BoostOnly /\ UNCHANGED window

\* cancel() ends the supervisor where it is; a process being spawned is
\* killed by asyncio; the finally clause of the reader runs.
CancelSup ==
    IF sup = "read" THEN Reap ELSE sup' = "ended" /\ UNCHANGED proc

StopCancels == /\ CancelSup
               /\ genDone' = (genDone \/ sup = "spawn")
               /\ stop' = "reap"

\* source.stop() after the boost task has ended.
StopSource ==
    /\ stop = "boost" /\ boost = "none"
    /\ running' = FALSE
    /\ IF TermSends
       THEN /\ TermBegins /\ stop' = "term"
            /\ UNCHANGED <<handle, sup, genDone>>
       ELSE handle' = FALSE /\ StopCancels
    /\ UNCHANGED <<flags, procFps, strays, boost, window, faults,
                   missed>>

StopTerminated ==
    /\ stop = "term" /\ TermReturns
    /\ handle' = FALSE
    /\ StopCancels
    /\ UNCHANGED <<running, flags, procFps, strays, boost, window,
                   faults, missed>>

SupGoneMutant == TRUE                   \* cancelled, not awaited
SupGone == sup = "ended"

StopReturns ==
    /\ stop = "reap" /\ SupGone
    /\ stop' = "done"
    /\ UNCHANGED <<running, flags, genDone, process, sup, boost, window, faults,
                   missed>>

(***************************************************************************)
(* The specification.                                                      *)
(***************************************************************************)
Supervise == Probed \/ Spawned \/ ReadEnds \/ GenerationEnds \/ SleepEnds
Fail == ProbeFails \/ SpawnFails \/ ReadStalls
BoostStep == BoostBegins \/ BoostEnds \/ BoostTerminated \/ BoostWaited
StopStep == StopSource \/ StopTerminated \/ StopReturns

Next == Supervise \/ Fail \/ ProcExits \/ GraceExpires \/ Boosted
        \/ WindowCloses \/ BoostStep \/ StopBegins \/ StopStep

Spec == Init /\ [][Next]_vars

\* Tasks that can run do and timers expire.  Nobody owes a boost or a stop,
\* and ffmpeg need not heed SIGTERM.
FairSpec ==
    /\ Spec
    /\ WF_vars(Supervise) /\ WF_vars(BoostStep) /\ WF_vars(StopStep)
    /\ WF_vars(GraceExpires) /\ WF_vars(WindowCloses)

(***************************************************************************)
(* Properties.                                                             *)
(***************************************************************************)

\* There is never a second decoder, and the one there is can be reached to
\* be killed: whoever terminates, and in whatever order the tasks learn of
\* it, the ffmpeg before is gone when the next one is spawned, and nobody's
\* late "_proc = None" forgets it.
OneDecoder == strays = 0 /\ (Alive => handle)

\* stop() leaves no ffmpeg and no task that could spawn one.
StopLeavesNone == stop = "done" => ~Alive /\ sup = "ended" /\ boost = "none"

\* "Always restore fps, even on cancellation": without a boost task the
\* steady rate is set; and the ffmpeg that is decoding was told the rate
\* that is set, once set_fps has returned, unless the call came while it was
\* being spawned.
RateFollows ==
    /\ boost = "none" => fps = STEADY
    /\ sup = "read" /\ proc = "up" /\ boost \in {"none", "sleep"} /\ ~missed
           => procFps = fps

\* stop() returns, also when ffmpeg ignores SIGTERM and a boost is waiting.
StopReturned == stop # "no" ~> stop = "done"

\* Frames come back after every failure and every change of the rate.
Decodes == running ~> (sup = "read" /\ proc = "up") \/ stop # "no"

(***************************************************************************)
(* What the repository says and the code does not do.                      *)
(***************************************************************************)

\* detector.py on the finally clause: "we don't want it stuck on 5 fps".
NotStuckBoosted ==
    sup = "read" /\ proc = "up" /\ boost = "none" /\ stop = "no"
        => procFps = STEADY
=============================================================================
