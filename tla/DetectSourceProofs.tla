-------------------------- MODULE DetectSourceProofs --------------------------
(***************************************************************************)
(* DetectSource, for every pair of frame rates and any number of faults:   *)
(* one decoder, at the rate that is set, and none after stop().            *)
(***************************************************************************)
EXTENDS DetectSource, TLAPS

(***************************************************************************)
(* The inductive invariant.                                                *)
(***************************************************************************)

\* An ffmpeg lives only inside a generation, whose handle nobody has dropped;
\* whoever waits for an exit waits for a process that was signalled.
Reachable ==
    /\ strays = 0
    /\ Alive => handle /\ sup \in {"read", "reap"}
    /\ sup = "reap" => proc # "up"
    /\ boost \in {"raise", "restore"} \/ stop = "term" => proc \in {"term", "dead"}

\* How far stop() has come, and what it has left behind by then.
Stopping ==
    /\ running <=> stop \in {"no", "boost"}
    /\ stop # "no" => boost \in {"none", "restore", "restore_gen"}
    /\ ~running => boost = "none"
    /\ stop \in {"reap", "done"} => sup \in {"reap", "ended"}
    /\ stop = "done" => sup = "ended"

\* The rate is the boost task's, and a process that is being spawned or decodes
\* was told it.
Told ==
    /\ fps = IF boost \in {"raise", "raise_gen", "sleep"} THEN BOOST ELSE STEADY
    /\ sup = "spawn" \/ (sup = "read" /\ proc = "up") => missed \/ procFps = fps

IInv == TypeOK /\ Reachable /\ Stopping /\ Told

(***************************************************************************)
(* What the parts that several tasks share do.                             *)
(***************************************************************************)
LEMMA Rates == STEADY # BOOST
BY FpsAssumption

LEMMA InitIInv == Init => IInv
<1>. SUFFICES ASSUME Init PROVE IInv
  OBVIOUS
<1>1. /\ running \in BOOLEAN /\ restarting \in BOOLEAN /\ genDone \in BOOLEAN
      /\ handle \in BOOLEAN /\ window \in BOOLEAN /\ missed \in BOOLEAN
      /\ running
  BY DEF Init
<1>. QED
  BY <1>1, FaultAssumption, FpsAssumption
     DEF Init, IInv, TypeOK, Reachable, Stopping, Told, Alive

\* Whatever returns from a wait leaves nothing alive behind it.
LEMMA ReturnsDead ==
    ASSUME IInv, TermReturns
    PROVE  ~Alive
BY DEF IInv, Reachable, TermReturns, Alive

LEMMA NotSentDead ==
    ASSUME IInv, ~TermSends
    PROVE  ~Alive
BY DEF IInv, Reachable, TermSends

\* The supervisor, ffmpeg and the failures.
LEMMA SuperviseStep ==
    ASSUME IInv, Supervise \/ Fail
    PROVE  IInv'
<1>. USE DEF IInv, TypeOK, Reachable, Stopping, Told, Alive, SupOnly, process
<1>1. CASE Probed
  BY <1>1 DEF Probed
<1>2. CASE Spawned
  BY <1>2 DEF Spawned, Waiting
<1>3. CASE ReadEnds
  BY <1>3 DEF ReadEnds, Reap, TermBegins, TermSends
<1>4. CASE GenerationEnds
  <2>1. ~Alive /\ TermReturns
    BY <1>4, ReturnsDead DEF GenerationEnds, Reaped
  <2>. QED  BY <1>4, <2>1 DEF GenerationEnds, GenerationOver
<1>5. CASE SleepEnds
  BY <1>5 DEF SleepEnds
<1>6. CASE ProbeFails
  BY <1>6, FaultAssumption DEF ProbeFails, Fault
<1>7. CASE SpawnFails
  <2>1. /\ sup = "spawn" /\ genDone' = TRUE
        /\ \/ ~running /\ sup' = "ended" /\ restarting' = restarting
           \/ running /\ sup' \in {"probe", "sleep"} /\ restarting' = FALSE
        /\ UNCHANGED <<running, fps, boost, stop, window>>
        /\ UNCHANGED <<handle, proc, procFps, strays, missed>>
    BY <1>7 DEF SpawnFails, GenerationOver
  <2>2. faults' \in 0..MaxFaults
    BY <1>7, FaultAssumption DEF SpawnFails, Fault
  <2>3. Stopping'
    BY <2>1
  <2>4. Told'
    BY <2>1
  <2>5. Reachable'
    BY <2>1
  <2>6. TypeOK'
    BY <2>1, <2>2
  <2>. QED  BY <2>3, <2>4, <2>5, <2>6
<1>8. CASE ReadStalls
  BY <1>8, FaultAssumption DEF ReadStalls, Fault, Reap, TermBegins, TermSends
<1>. QED  BY <1>1, <1>2, <1>3, <1>4, <1>5, <1>6, <1>7, <1>8 DEF Supervise, Fail

LEMMA ExitStep ==
    ASSUME IInv, ProcExits \/ GraceExpires
    PROVE  IInv'
<1>. USE DEF IInv, TypeOK, Reachable, Stopping, Told, Alive, flags, tasks
<1>1. CASE ProcExits
  BY <1>1, FaultAssumption DEF ProcExits, Fault
<1>2. CASE GraceExpires
  BY <1>2 DEF GraceExpires, Kill, Waiting
<1>. QED  BY <1>1, <1>2

\* set_fps, by the boost task or by its cancellation: the ffmpeg that decodes at
\* the old rate is terminated, and one being spawned is known to be missed.
LEMMA SetFpsStep ==
    ASSUME IInv, running, BoostOnly, UNCHANGED window,
           NEW new \in {STEADY, BOOST},
           NEW wait, NEW gen, NEW next,
           SetFps(new, wait, gen, next), Forget(new),
           \/ /\ new = BOOST /\ stop' = "no" /\ stop = "no"
              /\ wait = "raise" /\ gen = "raise_gen" /\ next = "sleep"
           \/ /\ new = STEADY /\ stop' \in {"no", "boost"} /\ stop = "no"
              /\ wait = "restore" /\ gen = "restore_gen" /\ next = "none"
    PROVE  IInv'
<1>. USE DEF IInv, TypeOK, Reachable, Stopping, Told, Alive, BoostOnly
<1>1. CASE new = fps
  BY <1>1, Rates DEF SetFps, Forget
<1>2. CASE new # fps /\ TermSends
  BY <1>2, Rates DEF SetFps, Forget, TermBegins, TermSends
<1>3. CASE new # fps /\ ~TermSends
  BY <1>3, Rates, NotSentDead DEF SetFps, Forget, TermBegins
<1>. QED  BY <1>1, <1>2, <1>3

LEMMA BoostTaskStep ==
    ASSUME IInv, BoostStep \/ Boosted \/ WindowCloses
    PROVE  IInv'
<1>1. CASE BoostBegins
  <2>1. running /\ stop = "no" /\ stop' = "no"
    BY <1>1 DEF BoostBegins, IInv, Stopping, TypeOK
  <2>. QED  BY <1>1, <2>1, SetFpsStep DEF BoostBegins
<1>2. CASE BoostEnds
  <2>1. running /\ stop = "no" /\ stop' = "no"
    BY <1>2 DEF BoostEnds, IInv, Stopping, TypeOK
  <2>. QED  BY <1>2, <2>1, SetFpsStep DEF BoostEnds, RestoreFps
<1>3. CASE BoostTerminated
  <2>1. ~Alive
    BY <1>3, ReturnsDead DEF BoostTerminated
  <2>2. \/ boost = "raise" /\ boost' \in {"raise_gen", "sleep"}
        \/ boost = "restore" /\ boost' \in {"restore_gen", "none"}
    BY <1>3 DEF BoostTerminated, AfterTerm
  <2>3. handle' = FALSE /\ handle' \in BOOLEAN
    BY <1>3 DEF BoostTerminated
  <2>. QED
    BY <1>3, <2>1, <2>2, <2>3 DEF BoostTerminated, BoostOnly, flags, IInv,
                                  TypeOK, Reachable, Stopping, Told, Alive
<1>4. CASE BoostWaited
  BY <1>4 DEF BoostWaited, BoostOnly, flags, IInv, TypeOK, Reachable, Stopping,
              Told, Alive
<1>5. CASE Boosted
  BY <1>5 DEF Boosted, BoostOnly, flags, IInv, TypeOK, Reachable, Stopping,
              Told, Alive
<1>6. CASE WindowCloses
  <2>1. window' \in BOOLEAN
    BY <1>6 DEF WindowCloses
  <2>. QED
    BY <1>6, <2>1 DEF WindowCloses, BoostOnly, flags, IInv, TypeOK, Reachable,
                      Stopping, Told, Alive
<1>. QED  BY <1>1, <1>2, <1>3, <1>4, <1>5, <1>6 DEF BoostStep

\* Cancelled, a supervisor with nothing alive ends, or reaps what is dead.
LEMMA CancelStep ==
    ASSUME IInv, ~Alive, StopCancels, boost = "none",
           running' \in BOOLEAN, ~running', handle' \in BOOLEAN,
           UNCHANGED <<flags, procFps, strays, boost, window, faults, missed>>
    PROVE  IInv'
<1>1. genDone' \in BOOLEAN /\ stop' = "reap" /\ CancelSup
  BY DEF StopCancels
<1>2. proc' = proc /\ sup' \in {"reap", "ended"}
  BY <1>1 DEF CancelSup, Reap, TermBegins, TermSends
<1>. QED
  BY <1>1, <1>2 DEF IInv, TypeOK, Reachable, Stopping, Told, Alive, flags

LEMMA StopTaskStep ==
    ASSUME IInv, StopBegins \/ StopStep
    PROVE  IInv'
<1>. USE DEF flags
<1>1. CASE StopBegins
  <2>1. running /\ stop = "no" /\ stop' = "boost"
    BY <1>1 DEF StopBegins, IInv, Stopping, TypeOK
  <2>2. CASE boost \in {"raise", "raise_gen", "sleep"}
    BY <1>1, <2>1, <2>2, SetFpsStep DEF StopBegins, RestoreFps
  <2>3. CASE boost \notin {"raise", "raise_gen", "sleep"}
    BY <1>1, <2>1, <2>3 DEF StopBegins, BoostOnly, IInv, TypeOK, Reachable,
                            Stopping, Told, Alive
  <2>. QED  BY <2>2, <2>3
<1>2. CASE StopSource
  <2>1. CASE TermSends
    BY <1>2, <2>1 DEF StopSource, TermBegins, TermSends, IInv, TypeOK,
                      Reachable, Stopping, Told, Alive
  <2>2. CASE ~TermSends
    <3>1. ~Alive
      BY <2>2, NotSentDead
    <3>2. running' \in BOOLEAN /\ ~running' /\ handle' \in BOOLEAN
      BY <1>2, <2>2 DEF StopSource
    <3>. QED  BY <1>2, <2>2, <3>1, <3>2, CancelStep DEF StopSource
  <2>. QED  BY <2>1, <2>2
<1>3. CASE StopTerminated
  <2>1. ~Alive
    BY <1>3, ReturnsDead DEF StopTerminated
  <2>2. /\ running' \in BOOLEAN /\ ~running' /\ handle' \in BOOLEAN
        /\ boost = "none"
    BY <1>3 DEF StopTerminated, IInv, Stopping, TypeOK
  <2>. QED  BY <1>3, <2>1, <2>2, CancelStep DEF StopTerminated
<1>4. CASE StopReturns
  BY <1>4 DEF StopReturns, SupGone, process, IInv, TypeOK, Reachable, Stopping,
              Told, Alive
<1>. QED  BY <1>1, <1>2, <1>3, <1>4 DEF StopStep

LEMMA NextIInv == IInv /\ [Next]_vars => IInv'
<1>. SUFFICES ASSUME IInv, [Next]_vars PROVE IInv'
  OBVIOUS
<1>1. CASE UNCHANGED vars
  BY <1>1 DEF vars, flags, process, tasks, IInv, TypeOK, Reachable, Stopping,
              Told, Alive
<1>2. CASE Next
  BY <1>2, SuperviseStep, ExitStep, BoostTaskStep, StopTaskStep DEF Next
<1>. QED  BY <1>1, <1>2

THEOREM Invariance == Spec => []IInv
<1>1. Init => IInv
  BY InitIInv
<1>2. IInv /\ [Next]_vars => IInv'
  BY NextIInv
<1>. QED  BY <1>1, <1>2, PTL DEF Spec

(***************************************************************************)
(* The results.                                                            *)
(***************************************************************************)

\* Every variable keeps its type; fps is always one of the two rates.
THEOREM TypeCorrect == Spec => []TypeOK
<1>1. IInv => TypeOK
  BY DEF IInv
<1>. QED  BY <1>1, Invariance, PTL

\* There is one decoder and it can be reached, for any rates and faults.
THEOREM OneDecoderAlways == Spec => []OneDecoder
<1>1. IInv => OneDecoder
  BY DEF IInv, Reachable, OneDecoder
<1>. QED  BY <1>1, Invariance, PTL

\* After stop() there is no ffmpeg, no supervisor and no boost task.
THEOREM StopLeavesNoneAlways == Spec => []StopLeavesNone
<1>1. IInv => StopLeavesNone
  BY DEF IInv, Reachable, Stopping, Alive, StopLeavesNone
<1>. QED  BY <1>1, Invariance, PTL

\* The decoder runs at the rate that is set, the steady one without a boost.
THEOREM RateFollowsAlways == Spec => []RateFollows
<1>1. IInv => RateFollows
  BY DEF IInv, Told, RateFollows
<1>. QED  BY <1>1, Invariance, PTL
=============================================================================
