------------------------ MODULE CameraRecorderProofs -------------------------
(***************************************************************************)
(* For any number of generations and any setting of the switches: what the *)
(* tasks of a CameraRecorder keep true of its processes, and that its life *)
(* is the one RecorderLife promises to RecordingManager.                   *)
(***************************************************************************)
EXTENDS CameraRecorder, TLAPS

(***************************************************************************)
(* The inductive invariant.                                                *)
(***************************************************************************)

\* _spawn() has a generation left to open; a monitor waits for the last one,
\* which is what _proc names until stop() clears it.
Chained ==
    /\ loop \in {"watch", "backoff"} => n # 0
    /\ loop = "new" => n = 0
    /\ loop = "exec" => n < MaxSpawn
    /\ stop # "done" => proc = n

\* Only the last generation may have a live recording ffmpeg, and then nobody
\* is about to open another.
LastAlive ==
    \A g \in Gen : Alive(ff, g) => g = n /\ loop \in {"watch", "ended"}

\* When _running is True, and where a stop() call finds the chain.
RunningFollows ==
    /\ loop = "new" => stop = "no" /\ ~running
    /\ stop = "no" /\ loop \in {"register", "exec", "watch", "backoff"}
          => running
    /\ stop # "no" => ~running
    /\ n = 0 /\ loop \in {"ended", "raised"} => ~running
    /\ n = 0 /\ stop # "no" => loop = "ended"
    /\ stop \in {"reader", "done"} => loop \in {"ended", "raised"}

\* Only the last generation's audio task may still be starting or probing,
\* its process is what _audio_proc names, and no respawn overtakes it.
ProbeIsLast ==
    \A g \in Gen :
        atask[g] \in {"spawning", "probing"} =>
            /\ g = n
            /\ loop \notin {"new", "register", "exec"}
            /\ atask[g] = "probing" => aproc = g

\* A stop() that found nothing in flight: no new process can appear, the
\* recording ffmpeg goes first, the audio process is signalled after it.
CalmStop ==
    calm =>
        /\ stop # "no"
        /\ loop \in {"watch", "ended"}
        /\ \A g \in Gen : atask[g] # "spawning"
        /\ \A g \in Gen : au[g] = "up" => stop = "drain" /\ g = aproc
        /\ stop # "drain" => \A g \in Gen : ~Alive(ff, g)

\* How the override reaches the input of the next ffmpeg: the recorder's copy
\* follows the row but for the time between the handler's two statements, and
\* an input chosen from the copy of before is either replaced by the handler's
\* signal or one that the signal came too early for.
OverrideReaches ==
    /\ override = "sub" /\ chronic # "reload" => pick = "sub"
    /\ /\ HasSub /\ override = "sub" /\ chronic # "reload" /\ ~missed
       /\ loop = "exec" \/ (loop = "watch" /\ ff[n] = "up")
       => (input.sub => input.reads = "sub")

IInv == /\ TypeOK /\ Chained /\ LastAlive /\ RunningFollows
        /\ ProbeIsLast /\ CalmStop /\ OverrideReaches

(***************************************************************************)
(* What the shared steps of the tasks do.                                  *)
(***************************************************************************)
USE DEF Gen, Ref, Stream, Process

\* terminate_process_group() on a set of processes: nobody dies by it, and
\* the one it names is not "up" any more.
LEMMA Signalled ==
    ASSUME SpawnAssumption,
           NEW p \in [Gen -> Process], NEW g \in Ref
    PROVE  /\ Signal(p, g) \in [Gen -> Process]
           /\ \A h \in Gen :
                 /\ Alive(Signal(p, g), h) <=> Alive(p, h)
                 /\ Signal(p, g)[h] = "up" <=> p[h] = "up" /\ h # g
BY DEF Signal, Alive, SpawnAssumption

\* The two signals that a recorder sends, to _proc and to _audio_proc.
LEMMA ProcSignalled ==
    ASSUME TypeOK
    PROVE  /\ Signal(ff, proc) \in [Gen -> Process]
           /\ \A h \in Gen :
                 /\ Alive(Signal(ff, proc), h) <=> Alive(ff, h)
                 /\ Signal(ff, proc)[h] = "up" <=> ff[h] = "up" /\ h # proc
<1>1. ff \in [Gen -> Process] /\ proc \in Ref
  BY DEF TypeOK
<1> QED
  BY <1>1, Signalled, SpawnAssumption

\* See ProcSignalled.
LEMMA AudioSignalled ==
    ASSUME TypeOK
    PROVE  /\ Signal(au, aproc) \in [Gen -> Process]
           /\ \A h \in Gen :
                 /\ Alive(Signal(au, aproc), h) <=> Alive(au, h)
                 /\ Signal(au, aproc)[h] = "up" <=> au[h] = "up" /\ h # aproc
<1>1. au \in [Gen -> Process] /\ aproc \in Ref
  BY DEF TypeOK
<1> QED
  BY <1>1, Signalled, SpawnAssumption

\* Cancelling the tasks in stop(): the chain is over, and no process is
\* started.
LEMMA Cancelled ==
    ASSUME TypeOK, NEW p \in [Gen -> Process], CancelTasks(p)
    PROVE  /\ loop' = IF loop = "raised" THEN loop ELSE "ended"
           /\ dog' = FALSE /\ stop' = "reader" /\ awaited' \in Ref
           /\ reader' \in [Gen -> {"none", "reading", "closing", "done"}]
           /\ au' \in [Gen -> Process]
           /\ \A h \in Gen : au'[h] = "up" => p[h] = "up"
<1>1. CASE au' = p
  <2>1. reader' \in [Gen -> {"none", "reading", "closing", "done"}]
    BY DEF TypeOK, CancelTasks
  <2> QED
    BY <1>1, <2>1 DEF TypeOK, CancelTasks
<1>2. CASE au' = Signal(p, aproc)
  <2>1. reader' \in [Gen -> {"none", "reading", "closing", "done"}]
    BY DEF TypeOK, CancelTasks
  <2>2. /\ au' \in [Gen -> Process]
        /\ \A h \in Gen : au'[h] = "up" => p[h] = "up"
    BY <1>2, Signalled, SpawnAssumption DEF TypeOK
  <2> QED
    BY <2>1, <2>2 DEF TypeOK, CancelTasks
<1> QED
  BY <1>1, <1>2 DEF CancelTasks

\* After the drain: the process _audio_proc names has been signalled or was
\* not running, and the chain goes on only while stop() waits for it.
LEMMA Drained ==
    ASSUME TypeOK, AfterDrain
    PROVE  /\ loop' \in {loop, "ended"}
           /\ dog' \in BOOLEAN /\ awaited' \in Ref
           /\ stop' \in {"audio", "reader"}
           /\ stop' = "reader" => loop' \in {"ended", "raised"}
           /\ reader' \in [Gen -> {"none", "reading", "closing", "done"}]
           /\ au' \in [Gen -> Process]
           /\ \A h \in Gen : au'[h] = "up" => au[h] = "up" /\ h # aproc
<1>1. CASE Alive(au, aproc)
  <2>1. /\ au' = Signal(au, aproc) /\ stop' = "audio" /\ awaited' = aproc
        /\ UNCHANGED <<loop, dog, reader>>
    BY <1>1 DEF AfterDrain
  <2> QED
    BY <2>1, AudioSignalled DEF TypeOK
<1>2. CASE ~Alive(au, aproc)
  <2>1. CancelTasks(au)
    BY <1>2 DEF AfterDrain
  <2>2. \A h \in Gen : au[h] = "up" => h # aproc
    BY <1>2, SpawnAssumption DEF Alive
  <2> QED
    BY <2>1, <2>2, Cancelled DEF TypeOK
<1> QED
  BY <1>1, <1>2

\* The third failure in the window clears it.
LEMMA Counted ==
    ASSUME TypeOK, CountFailure
    PROVE  /\ failures' \in 0..(THRESHOLD - 1)
           /\ chronic' \in {"idle", "update", "reload"}
<1>1. PICK kept \in 0..failures :
         IF kept + 1 < THRESHOLD
         THEN failures' = kept + 1 /\ UNCHANGED chronic
         ELSE chronic = "idle" /\ failures' = 0 /\ chronic' = "update"
  BY DEF CountFailure
<1>2. kept \in Nat
  BY ThresholdAssumption DEF TypeOK
<1>3. CASE kept + 1 < THRESHOLD
  BY <1>1, <1>2, <1>3, ThresholdAssumption DEF TypeOK
<1>4. CASE ~(kept + 1 < THRESHOLD)
  BY <1>1, <1>4, ThresholdAssumption
<1> QED
  BY <1>3, <1>4

\* A step of an audio task, or of an audio process.
LEMMA AudioFrame ==
    ASSUME IInv, UNCHANGED <<chain, ending, breaker>>
    PROVE  Chained' /\ LastAlive' /\ RunningFollows' /\ OverrideReaches'
<1> USE DEF IInv, chain, ending, breaker
<1>1. Chained' /\ RunningFollows'
  BY DEF Chained, RunningFollows
<1>2. LastAlive'
  BY DEF LastAlive, Alive
<1>3. OverrideReaches'
  BY DEF OverrideReaches
<1> QED
  BY <1>1, <1>2, <1>3

(***************************************************************************)
(* The invariant holds initially and every step keeps it.                  *)
(***************************************************************************)

\* A new CameraRecorder has no task and no process.
LEMMA InitEstablishes == Init => IInv
<1> SUFFICES ASSUME Init PROVE IInv
  OBVIOUS
<1>1. TypeOK
  <2>1. input \in Input
    BY DEF Init, Input
  <2>2. override \in Stream \cup {"unset"} /\ pick \in Stream \cup {"unset"}
    BY DEF Init
  <2>3. /\ ff \in [Gen -> Process] /\ au \in [Gen -> Process]
        /\ atask \in [Gen -> {"none", "spawning", "probing", "done"}]
        /\ reader \in [Gen -> {"none", "reading", "closing", "done"}]
        /\ from \in [Gen -> Ref]
    BY SpawnAssumption DEF Init
  <2>4. /\ n \in Ref /\ proc \in Ref /\ awaited \in Ref /\ aproc \in Ref
        /\ areader \in Ref /\ failures \in 0..(THRESHOLD - 1)
    BY SpawnAssumption, ThresholdAssumption DEF Init
  <2> QED
    BY <2>1, <2>2, <2>3, <2>4 DEF Init, TypeOK
<1>2. Chained /\ RunningFollows
  BY DEF Init, Chained, RunningFollows
<1>3. LastAlive
  BY DEF Init, LastAlive, Alive
<1>4. ProbeIsLast /\ CalmStop
  BY DEF Init, ProbeIsLast, CalmStop
<1>5. OverrideReaches
  BY DEF Init, OverrideReaches
<1> QED
  BY <1>1, <1>2, <1>3, <1>4, <1>5 DEF IInv

\* start() sets _running before it enters _spawn().
LEMMA StartKeeps ==
    ASSUME IInv, Start
    PROVE  IInv'
<1> USE DEF IInv, Start
<1>1. TypeOK'
  BY DEF TypeOK, ending, breaker, audio
<1>2. Chained' /\ RunningFollows' /\ CalmStop'
  BY DEF Chained, RunningFollows, CalmStop, ending
<1>3. LastAlive'
  BY DEF LastAlive
<1>4. ProbeIsLast'
  BY DEF ProbeIsLast, audio
<1>5. OverrideReaches'
  BY DEF OverrideReaches, breaker
<1> QED
  BY <1>1, <1>2, <1>3, <1>4, <1>5

\* The input is chosen from the override as it is now, which is why the
\* next exec reads the stream of the row.
LEMMA RegisterKeeps ==
    ASSUME IInv, NEW okMain \in BOOLEAN, NEW okSub \in BOOLEAN,
           Register(okMain, okSub)
    PROVE  IInv'
<1> USE DEF IInv, Register
<1>1. TypeOK'
  <2>1. input' \in Input
    BY DEF Input
  <2>2. running' \in BOOLEAN /\ loop' \in {"exec", "ended"}
    BY DEF TypeOK
  <2> QED
    BY <2>1, <2>2 DEF TypeOK, ending, breaker, audio
<1>2. Chained' /\ RunningFollows' /\ CalmStop'
  BY DEF Chained, RunningFollows, CalmStop, ending
<1>3. LastAlive'
  BY DEF LastAlive
<1>4. ProbeIsLast'
  BY DEF ProbeIsLast, audio
<1>5. OverrideReaches'
  BY DEF OverrideReaches, UseSub, breaker
<1> QED
  BY <1>1, <1>2, <1>3, <1>4, <1>5

\* The generation before has exited, so the new one is the only one alive.
LEMMA SpawnedKeeps ==
    ASSUME IInv, Spawned
    PROVE  IInv'
<1> USE DEF IInv, Spawned
<1>1. TypeOK'
  BY SpawnAssumption DEF TypeOK, Chained, ending, breaker
<1>2. Chained'
  BY DEF Chained, TypeOK
<1>3. LastAlive'
  BY DEF LastAlive, Alive
<1>4. RunningFollows'
  BY DEF RunningFollows, TypeOK, ending
<1>5. ProbeIsLast'
  BY DEF ProbeIsLast
<1>6. CalmStop'
  BY DEF CalmStop, ending
<1>7. OverrideReaches'
  BY DEF OverrideReaches, breaker
<1> QED
  BY <1>1, <1>2, <1>3, <1>4, <1>5, <1>6, <1>7

\* Giving up for want of ffmpeg leaves nothing that could spawn.
LEMMA NoFfmpegKeeps ==
    ASSUME IInv, NoFfmpeg
    PROVE  IInv'
<1> USE DEF IInv, NoFfmpeg
<1>1. TypeOK'
  <2>1. /\ running' \in BOOLEAN /\ loop' = "ended"
        /\ UNCHANGED <<n, proc, ff, input, dog>>
        /\ UNCHANGED <<ending, breaker, audio>>
    OBVIOUS
  <2> HIDE DEF NoFfmpeg
  <2> QED
    BY <2>1 DEF TypeOK, ending, breaker, audio
<1>2. Chained' /\ CalmStop'
  BY DEF Chained, CalmStop, ending
<1>3. LastAlive' /\ RunningFollows'
  BY DEF LastAlive, RunningFollows
<1>4. ProbeIsLast'
  BY DEF ProbeIsLast, audio
<1>5. OverrideReaches'
  BY DEF OverrideReaches, breaker
<1> QED
  BY <1>1, <1>2, <1>3, <1>4, <1>5

\* An exception in _spawn() ends the chain with no process of its own.
LEMMA RaisesKeeps ==
    ASSUME IInv, Raises
    PROVE  IInv'
<1> USE DEF IInv, Raises
<1>1. TypeOK'
  BY DEF TypeOK, ending, breaker, audio
<1>2. Chained' /\ CalmStop'
  BY DEF Chained, CalmStop, ending
<1>3. LastAlive'
  BY DEF LastAlive
<1>4. RunningFollows'
  BY DEF RunningFollows, ByStart, ending
<1>5. ProbeIsLast'
  BY DEF ProbeIsLast, audio
<1>6. OverrideReaches'
  BY DEF OverrideReaches, breaker
<1> QED
  BY <1>1, <1>2, <1>3, <1>4, <1>5, <1>6

\* A monitor goes on only when its process has exited.
LEMMA MonitorWakesKeeps ==
    ASSUME IInv, MonitorWakes
    PROVE  IInv'
<1> USE DEF IInv, MonitorWakes
<1>1. TypeOK'
  <2>1. /\ failures' \in 0..(THRESHOLD - 1)
        /\ chronic' \in {"idle", "update", "reload"}
        /\ UNCHANGED <<override, pick, missed, unusable>>
    BY Counted DEF TypeOK, CountFailure, breaker
  <2> QED
    BY <2>1 DEF TypeOK, ending, audio
<1>2. Chained' /\ RunningFollows'
  BY DEF Chained, RunningFollows, ending
<1>3. LastAlive'
  BY DEF LastAlive, Alive
<1>4. ProbeIsLast'
  BY DEF ProbeIsLast, audio
<1>5. CalmStop'
  BY DEF CalmStop, RunningFollows, ending, audio
<1>6. OverrideReaches'
  BY DEF OverrideReaches, CountFailure, breaker
<1> QED
  BY <1>1, <1>2, <1>3, <1>4, <1>5, <1>6

\* A respawn begins when no audio probe is at work.
LEMMA BackoffOverKeeps ==
    ASSUME IInv, BackoffOver
    PROVE  IInv'
<1> USE DEF IInv, BackoffOver
<1>1. TypeOK'
  BY DEF TypeOK, ending, breaker, audio
<1>2. Chained' /\ RunningFollows' /\ CalmStop'
  BY DEF Chained, RunningFollows, CalmStop, ending
<1>3. LastAlive'
  BY DEF LastAlive
<1>4. ProbeIsLast'
  BY DEF ProbeIsLast, audio
<1>5. OverrideReaches'
  BY DEF OverrideReaches, breaker
<1> QED
  BY <1>1, <1>2, <1>3, <1>4, <1>5

\* The watchdog signals the last generation, and starts no process.
LEMMA WatchdogKillsKeeps ==
    ASSUME IInv, WatchdogKills
    PROVE  IInv'
<1> USE DEF IInv, WatchdogKills
<1>1. /\ ff' \in [Gen -> Process]
      /\ \A h \in Gen : /\ Alive(ff', h) <=> Alive(ff, h)
                        /\ ff'[h] = "up" => ff[h] = "up" /\ h # proc
  BY ProcSignalled
<1>2. TypeOK'
  <2>1. /\ failures' \in 0..(THRESHOLD - 1)
        /\ chronic' \in {"idle", "update", "reload"}
    BY Counted
  <2>2. UNCHANGED <<override, pick, missed, unusable>>
    BY DEF CountFailure
  <2>3. dog' \in BOOLEAN /\ UNCHANGED <<running, loop, n, proc, input>>
        /\ UNCHANGED ending /\ UNCHANGED audio
    OBVIOUS
  <2>4. ff' \in [Gen -> Process]
    BY <1>1
  <2>5. TypeOK
    OBVIOUS
  <2> HIDE DEF WatchdogKills, IInv
  <2> QED
    BY <2>1, <2>2, <2>3, <2>4, <2>5 DEF TypeOK, ending, audio
<1>3. Chained' /\ RunningFollows'
  BY DEF Chained, RunningFollows, ending
<1>4. LastAlive'
  BY <1>1 DEF LastAlive, Alive
<1>5. ProbeIsLast'
  BY DEF ProbeIsLast, audio
<1>6. CalmStop'
  BY <1>1 DEF CalmStop, ending, audio
<1>7. OverrideReaches'
  BY <1>1 DEF OverrideReaches, TypeOK, LastAlive, Alive, CountFailure
<1> QED
  BY <1>2, <1>3, <1>4, <1>5, <1>6, <1>7

\* With the row at 'sub' already, the recorder's copy says so too.
LEMMA ChronicUpdateKeeps ==
    ASSUME IInv, ChronicUpdate
    PROVE  IInv'
<1> USE DEF IInv, ChronicUpdate
<1>1. /\ ff' \in [Gen -> Process]
      /\ \A h \in Gen : Alive(ff', h) <=> Alive(ff, h)
      /\ ff' = ff \/ \A h \in Gen : ff'[h] = "up" => h # proc
  <2>1. ff' = ff \/ ff' = Signal(ff, proc)
    OBVIOUS
  <2>2. ff \in [Gen -> Process]
    BY DEF TypeOK
  <2>3. \A h \in Gen : Alive(ff', h) <=> Alive(ff, h)
    BY <2>1, ProcSignalled
  <2> QED
    BY <2>1, <2>2, <2>3, ProcSignalled
<1>2. TypeOK'
  BY <1>1 DEF TypeOK, ending, audio
<1>3. Chained' /\ RunningFollows'
  BY DEF Chained, RunningFollows, ending
<1>4. LastAlive'
  BY <1>1 DEF LastAlive
<1>5. ProbeIsLast'
  BY DEF ProbeIsLast, audio
<1>6. CalmStop'
  BY <1>1 DEF CalmStop, ending, audio
<1>7. OverrideReaches'
  BY <1>1 DEF OverrideReaches, TypeOK, Chained, RunningFollows
<1> QED
  BY <1>2, <1>3, <1>4, <1>5, <1>6, <1>7

\* The refreshed copy is the row, and the old stream's process is signalled.
LEMMA ChronicReloadKeeps ==
    ASSUME IInv, ChronicReload
    PROVE  IInv'
<1> USE DEF IInv, ChronicReload, HandlerSignals
<1>1. /\ ff' \in [Gen -> Process]
      /\ \A h \in Gen : /\ Alive(ff', h) <=> Alive(ff, h)
                        /\ ff'[h] = "up" => ff[h] = "up" /\ h # proc
  BY ProcSignalled
<1>2. TypeOK'
  BY <1>1 DEF TypeOK, ending, audio
<1>3. Chained' /\ RunningFollows'
  BY DEF Chained, RunningFollows, ending
<1>4. LastAlive'
  BY <1>1 DEF LastAlive, Alive
<1>5. ProbeIsLast'
  BY DEF ProbeIsLast, audio
<1>6. CalmStop'
  BY <1>1 DEF CalmStop, Alive, ending, audio
<1>7. OverrideReaches'
  <2>1. loop' = "watch" => proc' = n' /\ n' \in Gen
    BY DEF Chained, RunningFollows, TypeOK
  <2>2. loop' = "watch" => ff'[n'] # "up"
    BY <1>1, <2>1
  <2>3. loop' = "exec" => missed'
    OBVIOUS
  <2> QED
    BY <2>2, <2>3 DEF OverrideReaches
<1> QED
  BY <1>2, <1>3, <1>4, <1>5, <1>6, <1>7

\* A recording process exits.
LEMMA ExitsKeeps ==
    ASSUME IInv, NEW e \in Gen, Exits(e)
    PROVE  IInv'
<1> USE DEF IInv, Exits
<1>1. TypeOK'
  BY DEF TypeOK, ending, breaker, audio
<1>2. Chained' /\ RunningFollows'
  BY DEF Chained, RunningFollows, ending
<1>3. LastAlive'
  BY DEF LastAlive, Alive
<1>4. ProbeIsLast'
  BY DEF ProbeIsLast, audio
<1>5. CalmStop'
  BY DEF CalmStop, ending, audio
<1>6. OverrideReaches'
  BY DEF OverrideReaches, breaker
<1> QED
  BY <1>1, <1>2, <1>3, <1>4, <1>5, <1>6

\* An audio process exits.
LEMMA AudioExitsKeeps ==
    ASSUME IInv, NEW e \in Gen, AudioExits(e)
    PROVE  IInv'
<1> USE DEF IInv, AudioExits
<1>1. Chained' /\ LastAlive' /\ RunningFollows' /\ OverrideReaches'
  BY AudioFrame
<1>2. TypeOK'
  BY DEF TypeOK, chain, ending, breaker
<1>3. ProbeIsLast'
  BY DEF ProbeIsLast, chain
<1>4. CalmStop'
  BY DEF CalmStop, chain, ending
<1> QED
  BY <1>1, <1>2, <1>3, <1>4

\* The audio task of the last generation takes over _audio_proc.
LEMMA AudioSpawnedKeeps ==
    ASSUME IInv, NEW e \in Gen, AudioSpawned(e)
    PROVE  IInv'
<1> USE DEF IInv, AudioSpawned
<1>1. Chained' /\ LastAlive' /\ RunningFollows' /\ OverrideReaches'
  BY AudioFrame
<1>2. TypeOK'
  BY DEF TypeOK, chain, ending, breaker
<1>3. ProbeIsLast'
  BY DEF ProbeIsLast, chain
<1>4. CalmStop'
  BY DEF CalmStop, ending
<1> QED
  BY <1>1, <1>2, <1>3, <1>4

\* A failed probe clears _audio_proc: its own process, by ProbeIsLast.
LEMMA ProbeExitedKeeps ==
    ASSUME IInv, NEW e \in Gen, ProbeExited(e)
    PROVE  IInv'
<1> USE DEF IInv, ProbeExited
<1>1. Chained' /\ LastAlive' /\ RunningFollows' /\ OverrideReaches'
  BY AudioFrame
<1>2. TypeOK'
  BY SpawnAssumption DEF TypeOK, chain, ending, breaker
<1>3. ProbeIsLast'
  BY DEF ProbeIsLast, TypeOK
<1>4. CalmStop'
  BY DEF CalmStop, ProbeIsLast, chain, ending
<1> QED
  BY <1>1, <1>2, <1>3, <1>4

\* A passed probe starts a reader.
LEMMA ProbePassedKeeps ==
    ASSUME IInv, NEW e \in Gen, ProbePassed(e)
    PROVE  IInv'
<1> USE DEF IInv, ProbePassed
<1>1. Chained' /\ LastAlive' /\ RunningFollows' /\ OverrideReaches'
  BY AudioFrame
<1>2. TypeOK'
  BY DEF TypeOK, chain, ending, breaker
<1>3. ProbeIsLast'
  BY DEF ProbeIsLast, chain
<1>4. CalmStop'
  BY DEF CalmStop, chain, ending
<1> QED
  BY <1>1, <1>2, <1>3, <1>4

\* A reader that ends signals at most one audio process.
LEMMA ReaderEndsKeeps ==
    ASSUME IInv, NEW e \in Gen, ReaderEnds(e)
    PROVE  IInv'
<1> USE DEF IInv, ReaderEnds
<1>1. /\ au' \in [Gen -> Process]
      /\ \A h \in Gen : au'[h] = "up" => au[h] = "up"
  BY AudioSignalled DEF CloseReader
<1>2. Chained' /\ LastAlive' /\ RunningFollows' /\ OverrideReaches'
  BY AudioFrame
<1>3. TypeOK'
  BY <1>1 DEF TypeOK, CloseReader, chain, ending, breaker
<1>4. ProbeIsLast'
  BY DEF ProbeIsLast, chain
<1>5. CalmStop'
  BY <1>1 DEF CalmStop, chain, ending
<1> QED
  BY <1>2, <1>3, <1>4, <1>5

\* A reader turns to the stream of a later generation.
LEMMA ReaderMovesOnKeeps ==
    ASSUME IInv, NEW e \in Gen, ReaderMovesOn(e)
    PROVE  IInv'
<1> USE DEF IInv, ReaderMovesOn
<1>1. Chained' /\ LastAlive' /\ RunningFollows' /\ OverrideReaches'
  BY AudioFrame
<1>2. TypeOK'
  BY DEF TypeOK, chain, ending, breaker
<1>3. ProbeIsLast'
  BY DEF ProbeIsLast, chain
<1>4. CalmStop'
  BY DEF CalmStop, chain, ending
<1> QED
  BY <1>1, <1>2, <1>3, <1>4

\* A reader's clean-up ends.
LEMMA ReaderDoneKeeps ==
    ASSUME IInv, NEW e \in Gen, ReaderDone(e)
    PROVE  IInv'
<1> USE DEF IInv, ReaderDone
<1>1. Chained' /\ LastAlive' /\ RunningFollows' /\ OverrideReaches'
  BY AudioFrame
<1>2. TypeOK'
  BY DEF TypeOK, chain, ending, breaker
<1>3. ProbeIsLast'
  BY DEF ProbeIsLast, chain
<1>4. CalmStop'
  BY DEF CalmStop, chain, ending
<1> QED
  BY <1>1, <1>2, <1>3, <1>4

\* stop() finds no process, signals it, or goes on to the audio process.
LEMMA StopBeginKeeps ==
    ASSUME IInv, StopBegin
    PROVE  IInv'
<1> USE DEF IInv, StopBegin
<1>1. /\ ff' \in [Gen -> Process]
      /\ \A h \in Gen : Alive(ff', h) <=> Alive(ff, h)
      /\ \A h \in Gen : ff'[h] = "up" => ff[h] = "up"
  <2>1. ff' = ff \/ ff' = Signal(ff, proc)
    OBVIOUS
  <2>2. ff \in [Gen -> Process]
    BY DEF TypeOK
  <2> QED
    BY <2>1, <2>2, ProcSignalled
<1>2. /\ loop' \in {loop, "ended"} /\ dog' \in BOOLEAN /\ awaited' \in Ref
      /\ stop' \in {"drain", "audio", "reader", "done"}
      /\ stop' = "reader" => loop' \in {"ended", "raised"}
      /\ stop' = "done" => proc = 0
      /\ stop' \in {"audio", "reader"} => ~Alive(ff, proc) /\ ff' = ff
      /\ reader' \in [Gen -> {"none", "reading", "closing", "done"}]
      /\ au' \in [Gen -> Process]
      /\ \A h \in Gen : au'[h] = "up" => au[h] = "up"
      /\ stop' \in {"audio", "reader"} =>
            \A h \in Gen : au'[h] = "up" => h # aproc
  <2>1. CASE proc = 0
    <3>1. /\ stop' = "done" /\ UNCHANGED <<loop, dog, awaited, au, reader>>
      BY <2>1, Drained DEF Alive
    <3> QED
      BY <2>1, <3>1 DEF TypeOK
  <2>2. CASE Alive(ff, proc)
    <3>1. /\ stop' = "drain" /\ UNCHANGED <<loop, dog, awaited, au, reader>>
      BY <2>2 DEF Alive
    <3> QED
      BY <3>1 DEF TypeOK
  <2>3. CASE proc # 0 /\ ~Alive(ff, proc)
    <3>1. AfterDrain /\ UNCHANGED ff
      BY <2>3
    <3> QED
      BY <2>3, <3>1, Drained
  <2> QED
    BY <2>1, <2>2, <2>3
<1>3. TypeOK'
  <2>1. /\ running' \in BOOLEAN /\ calm' \in BOOLEAN
        /\ UNCHANGED <<n, proc, input, atask, aproc, from, areader>>
        /\ UNCHANGED breaker
    OBVIOUS
  <2> HIDE DEF StopBegin
  <2> QED
    BY <1>1, <1>2, <2>1 DEF TypeOK, breaker
<1>4. Chained' /\ ProbeIsLast'
  BY <1>2 DEF Chained, ProbeIsLast
<1>5. LastAlive'
  BY <1>1, <1>2 DEF LastAlive
<1>6. RunningFollows'
  BY <1>2 DEF RunningFollows, TypeOK, Chained, ByStart
<1>7. CalmStop'
  <2> SUFFICES ASSUME calm' PROVE CalmStop'
    BY DEF CalmStop
  <2>1. /\ loop = "watch" /\ loop' \in {"watch", "ended"}
        /\ \A g \in Gen : atask'[g] # "spawning"
        /\ \A g \in Gen : au[g] = "up" => g = aproc /\ aproc' = aproc
    BY <1>2
  <2>2. proc = n /\ n # 0
    BY <2>1 DEF Chained
  <2>3. stop' \in {"audio", "reader"} => \A g \in Gen : ~Alive(ff', g)
    BY <1>2, <2>2 DEF LastAlive
  <2> QED
    BY <1>2, <2>1, <2>2, <2>3 DEF CalmStop
<1>8. OverrideReaches'
  <2>1. loop' = "watch" => loop = "watch" /\ (ff'[n] = "up" => ff[n] = "up")
    BY <1>1, <1>2 DEF OverrideReaches, TypeOK, Chained
  <2> QED
    BY <1>2, <2>1 DEF OverrideReaches, TypeOK, breaker
<1> QED
  BY <1>3, <1>4, <1>5, <1>6, <1>7, <1>8

\* The drain ends when the last generation has exited.
LEMMA StopDrainedKeeps ==
    ASSUME IInv, StopDrained
    PROVE  IInv'
<1> USE DEF IInv, StopDrained
<1>1. /\ loop' \in {loop, "ended"} /\ dog' \in BOOLEAN /\ awaited' \in Ref
      /\ stop' \in {"audio", "reader"}
      /\ stop' = "reader" => loop' \in {"ended", "raised"}
      /\ reader' \in [Gen -> {"none", "reading", "closing", "done"}]
      /\ au' \in [Gen -> Process]
      /\ \A h \in Gen : au'[h] = "up" => au[h] = "up" /\ h # aproc
  BY Drained
<1>2. TypeOK'
  BY <1>1 DEF TypeOK, breaker
<1>3. Chained' /\ LastAlive' /\ RunningFollows' /\ ProbeIsLast'
  BY <1>1 DEF Chained, LastAlive, RunningFollows, ProbeIsLast
<1>4. CalmStop'
  BY <1>1 DEF CalmStop, Chained, LastAlive
<1>5. OverrideReaches'
  BY <1>1 DEF OverrideReaches, breaker
<1> QED
  BY <1>2, <1>3, <1>4, <1>5

\* After the wait for the audio process every task is cancelled.
LEMMA StopAudioOverKeeps ==
    ASSUME IInv, StopAudioOver
    PROVE  IInv'
<1> USE DEF IInv, StopAudioOver
<1>1. /\ Signal(au, aproc) \in [Gen -> Process]
      /\ \A h \in Gen : Signal(au, aproc)[h] = "up" => au[h] = "up"
  BY AudioSignalled
<1>2. /\ loop' \in {loop, "ended"} /\ dog' = FALSE /\ awaited' \in Ref
      /\ stop' = "reader" /\ loop' \in {"ended", "raised"}
      /\ reader' \in [Gen -> {"none", "reading", "closing", "done"}]
      /\ au' \in [Gen -> Process]
      /\ \A h \in Gen : au'[h] = "up" => au[h] = "up"
  <2>1. CASE CancelTasks(au)
    BY <2>1, Cancelled DEF TypeOK
  <2>2. CASE CancelTasks(Signal(au, aproc))
    BY <1>1, <2>2, Cancelled
  <2> QED
    BY <2>1, <2>2
<1>3. TypeOK'
  BY <1>2 DEF TypeOK, breaker
<1>4. Chained' /\ LastAlive' /\ RunningFollows' /\ ProbeIsLast' /\ CalmStop'
  BY <1>2 DEF Chained, LastAlive, RunningFollows, ProbeIsLast, CalmStop
<1>5. OverrideReaches'
  BY <1>2 DEF OverrideReaches, breaker
<1> QED
  BY <1>3, <1>4, <1>5

\* stop() clears _proc when no task is left to read it.
LEMMA StopEndsKeeps ==
    ASSUME IInv, StopEnds
    PROVE  IInv'
<1> USE DEF IInv, StopEnds
<1>1. TypeOK'
  BY SpawnAssumption DEF TypeOK, breaker, audio
<1>2. Chained' /\ LastAlive' /\ RunningFollows'
  BY DEF Chained, LastAlive, RunningFollows
<1>3. ProbeIsLast' /\ CalmStop'
  BY DEF ProbeIsLast, CalmStop, audio
<1>4. OverrideReaches'
  BY DEF OverrideReaches, breaker
<1> QED
  BY <1>1, <1>2, <1>3, <1>4

\* A step that changes nothing.
LEMMA StutterKeeps ==
    ASSUME IInv, UNCHANGED vars
    PROVE  IInv'
BY DEF IInv, vars, chain, ending, breaker, audio, TypeOK, Chained, LastAlive,
   RunningFollows, ProbeIsLast, CalmStop, OverrideReaches, Alive

\* Every step keeps the invariant.
LEMMA NextKeeps ==
    ASSUME IInv, [Next]_vars
    PROVE  IInv'
<1>1. CASE Start
  BY <1>1, StartKeeps
<1>2. CASE ChainStep
  BY <1>2, RegisterKeeps, SpawnedKeeps, NoFfmpegKeeps, RaisesKeeps,
     MonitorWakesKeeps, BackoffOverKeeps DEF ChainStep
<1>3. CASE WatchdogKills
  BY <1>3, WatchdogKillsKeeps
<1>4. CASE ChronicStep
  BY <1>4, ChronicUpdateKeeps, ChronicReloadKeeps DEF ChronicStep
<1>5. CASE StopBegin
  BY <1>5, StopBeginKeeps
<1>6. CASE StopStep
  BY <1>6, StopDrainedKeeps, StopAudioOverKeeps, StopEndsKeeps DEF StopStep
<1>7. CASE \E g \in Gen : Exits(g) \/ AudioExits(g)
  BY <1>7, ExitsKeeps, AudioExitsKeeps
<1>8. CASE \E g \in Gen : AudioTask(g)
  <2>1. PICK e \in Gen : AudioTask(e)
    BY <1>8
  <2> QED
    BY <2>1, AudioSpawnedKeeps, ProbeExitedKeeps, ProbePassedKeeps,
       ReaderEndsKeeps, ReaderMovesOnKeeps, ReaderDoneKeeps DEF AudioTask
<1>9. CASE UNCHANGED vars
  BY <1>9, StutterKeeps
<1> QED
  BY <1>1, <1>2, <1>3, <1>4, <1>5, <1>6, <1>7, <1>8, <1>9 DEF Next

\* The invariant holds in every reachable state.
THEOREM Invariance == Spec => []IInv
BY InitEstablishes, NextKeeps, PTL DEF Spec

(***************************************************************************)
(* The properties.                                                         *)
(***************************************************************************)

\* The attributes of a CameraRecorder and its tasks keep their types.
THEOREM TypeCorrect == Spec => []TypeOK
<1>1. IInv => TypeOK
  BY DEF IInv
<1> QED
  BY <1>1, Invariance, PTL

\* However the monitor's respawn, the watchdog's kill, the breaker's handler
\* and stop() interleave, at most one recording ffmpeg of a camera is alive.
THEOREM OneRecordingAlways == Spec => []OneRecording
<1>1. IInv => OneRecording
  BY DEF IInv, LastAlive, OneRecording
<1> QED
  BY <1>1, Invariance, PTL

\* A stop() that finds no spawn in flight and no stray audio process leaves
\* no ffmpeg that has not exited or been signalled.
THEOREM CleanStopAlways == Spec => []CleanStop
<1>1. IInv => CleanStop
  BY DEF IInv, CalmStop, CleanStop
<1> QED
  BY <1>1, Invariance, PTL

\* Once _handle_chronic_failure is through, the running ffmpeg of a recorder
\* whose row says 'sub' reads the sub-stream, unless go2rtc refused that stream
\* or the handler signalled while ffmpeg was being spawned on main.
THEOREM FallbackKeptAlways == Spec => []FallbackKept
<1>1. IInv => FallbackKept
  BY DEF IInv, OverrideReaches, FallbackKept
<1> QED
  BY <1>1, Invariance, PTL

(***************************************************************************)
(* CameraRecorder implements RecorderLife.                                 *)
(***************************************************************************)
\* A recorder that was not started is gone to the manager.
LEMMA InitGone == Init => Contract!Init
BY DEF Init, life, Contract!Init

\* Every step of a task is a move of the promised life, or none.
LEMMA StepMoves ==
    ASSUME IInv, [Next]_vars
    PROVE  [Contract!Next]_life
<1> SUFFICES life' = life \/ <<life, life'>> \in Contract!Moves
  BY DEF Contract!Next
<1> USE DEF life, ByStart, Contract!Moves, IInv
<1>1. CASE Start
  BY <1>1 DEF Start, RunningFollows, Chained, ending
<1>2. CASE \E okMain, okSub \in BOOLEAN : Register(okMain, okSub)
  BY <1>2 DEF Register, RunningFollows, Chained, ending
<1>3. CASE Spawned
  BY <1>3, SpawnAssumption DEF Spawned, RunningFollows, Chained, TypeOK, ending
<1>4. CASE NoFfmpeg
  BY <1>4 DEF NoFfmpeg, RunningFollows, Chained, ending
<1>5. CASE Raises
  BY <1>5 DEF Raises, RunningFollows, Chained, ending
<1>6. CASE MonitorWakes
  BY <1>6 DEF MonitorWakes, RunningFollows, Chained, ending
<1>7. CASE BackoffOver
  BY <1>7 DEF BackoffOver, RunningFollows, Chained, ending
<1>8. CASE WatchdogKills \/ ChronicUpdate \/ ChronicReload
  BY <1>8 DEF WatchdogKills, ChronicUpdate, ChronicReload, HandlerSignals,
     ending
<1>9. CASE StopBegin
  <2>1. /\ stop = "no" /\ loop # "new" /\ ~running'
        /\ n = 0 => loop \notin {"register", "exec", "raised"}
        /\ n' = n /\ proc' = proc /\ proc = n
    BY <1>9 DEF StopBegin, Chained
  <2>2. CASE proc = 0
    <3>1. loop' = loop /\ stop' = "done"
      BY <1>9, <2>2, Drained DEF StopBegin, Alive
    <3>2. life = "failed"
      BY <2>1, <2>2 DEF Chained, RunningFollows, TypeOK
    <3> QED
      BY <3>1, <3>2
  <2>3. CASE proc # 0
    <3>1. loop' \in {loop, "ended"} /\ stop' \in {"drain", "audio", "reader"}
      BY <1>9, <2>3, Drained DEF StopBegin
    <3>2. life \in {"running", "dead"}
      BY <2>1, <2>3
    <3>3. life' = "stopping"
      BY <2>1, <2>3, <3>1
    <3> QED
      BY <3>2, <3>3
  <2> QED
    BY <2>2, <2>3
<1>10. CASE StopDrained
  <2>1. stop' \in {"audio", "reader"} /\ loop' \in {loop, "ended"}
    BY <1>10, Drained DEF StopDrained
  <2> QED
    BY <1>10, <2>1 DEF StopDrained, RunningFollows
<1>11. CASE StopAudioOver
  <2>1. stop' = "reader" /\ loop' \in {loop, "ended"}
    BY <1>11 DEF StopAudioOver, CancelTasks
  <2> QED
    BY <1>11, <2>1 DEF StopAudioOver, RunningFollows
<1>12. CASE StopEnds
  BY <1>12 DEF StopEnds, RunningFollows
<1>13. CASE \E g \in Gen : Exits(g) \/ AudioExits(g) \/ AudioTask(g)
  BY <1>13 DEF Exits, AudioExits, AudioTask, AudioSpawned, ProbeExited,
     ProbePassed, ReaderEnds, ReaderMovesOn, ReaderDone, chain, ending
<1>14. CASE UNCHANGED vars
  BY <1>14 DEF vars, chain, ending
<1> QED
  BY <1>1, <1>2, <1>3, <1>4, <1>5, <1>6, <1>7, <1>8, <1>9, <1>10, <1>11,
     <1>12, <1>13, <1>14 DEF Next, ChainStep, ChronicStep, StopStep

\* What RecordingManager assumes of a recorder's life is what the recorder's
\* tasks do: the initial states map to the initial state, and every step of
\* a task to one of the moves or to no move.
THEOREM ImplementsLife == Spec => LivesAsPromised
BY InitGone, StepMoves, Invariance, PTL
   DEF Spec, LivesAsPromised, Contract!Spec
=============================================================================
