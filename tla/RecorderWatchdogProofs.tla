------------------------ MODULE RecorderWatchdogProofs ------------------------
(***************************************************************************)
(* RecorderWatchdog, for every value of the thresholds that keeps their    *)
(* order: how long an ffmpeg can be silent, which ffmpeg is killed, what   *)
(* the tile shows while none runs, and at which failures the breaker trips.*)
(***************************************************************************)
EXTENDS RecorderWatchdog, SequenceTheorems, FiniteSetTheorems,
        WellFoundedInduction, TLAPS

(***************************************************************************)
(* The inductive invariant.                                                *)
(***************************************************************************)
AgesOK ==
    /\ size \in Nat /\ last \in Nat /\ last <= size
    /\ uptime \in Nat /\ quiet \in Nat /\ progress \in Nat
    /\ proc \in {"none", "up", "term", "exited"}
    /\ started \in BOOLEAN /\ running \in BOOLEAN

\* Only a monitored process lives, and an unsignalled one is watched.
Watched ==
    /\ Alive => loop = "watch"
    /\ loop \in {"new", "spawning"} => stop = "no"
    /\ loop = "spawning" => running
    /\ running => stop = "no"
    /\ proc = "up" => running /\ dog \in {"asleep", "awake"}

\* How far the silence of an unsignalled ffmpeg can outgrow the clock that
\* the watchdog reads: its uptime before the first growth, then the age of the
\* last growth, and one tick more for what was written after the last look.
SilenceSeen ==
    /\ ~started => last = 0
    /\ size > last => quiet <= IF dog = "awake" THEN 1 ELSE 0
    /\ ~started => /\ quiet <= uptime
                   /\ dog = "asleep" => uptime < FIRST
                   /\ uptime <= FIRST
    /\ started => /\ quiet <= progress + 1
                  /\ dog = "asleep" => progress < STALE
                  /\ progress <= STALE

\* What the watchdog takes for silence is silence, unless the file is a new
\* segment without a byte.
SilenceReal ==
    /\ ~started => last = 0
    /\ path # "own" => quiet >= IF uptime < FIRST THEN uptime ELSE FIRST
    /\ started /\ size = last /\ ~(path = "own" /\ size = 0)
          => quiet >= IF progress < STALE THEN progress ELSE STALE

\* The last health event is what the recorder believes it sent, or the
\* breaker's, which no ladder follows.
TileFollows ==
    /\ health # "none" => tile \in {health, "chronic_recording_failure"}
    /\ TileHonest

IInv == /\ AgesOK
        /\ Watched
        /\ proc = "up" => SilenceSeen
        /\ Alive => SilenceReal
        /\ TileFollows

(***************************************************************************)
(* Every step preserves it.                                                *)
(***************************************************************************)
LEMMA Thresholds ==
    /\ STALE \in Nat /\ SPLIT \in Nat /\ FIRST \in Nat
    /\ 0 < SPLIT /\ SPLIT < STALE /\ STALE < FIRST
BY TickAssumption

LEMMA InitIInv == Init => IInv
<1>. SUFFICES ASSUME Init PROVE IInv
  OBVIOUS
<1>1. started \in BOOLEAN /\ running \in BOOLEAN
  BY DEF Init
<1>2. size \in Nat
  BY BoundAssumption DEF Init
<1>. QED
  BY <1>1, <1>2 DEF Init, IInv, AgesOK, Watched, TileFollows, TileHonest, Alive

LEMMA OlderBounds ==
    ASSUME NEW age \in Nat, NEW limit \in Nat
    PROVE  /\ Older(age, limit) \in Nat
           /\ Older(age, limit) <= age + 1
           /\ age < limit => Older(age, limit) = age + 1
           /\ age >= limit => Older(age, limit) = age
BY DEF Older

\* What stays the same when neither the file nor the clocks move.
LEMMA FileStep ==
    ASSUME IInv, UNCHANGED <<file, clock, quiet, tile, health, dog>>,
           proc' \in {"none", "up", "term", "exited"}, running' \in BOOLEAN,
           proc' = "up" => proc = "up", Alive' => Alive,
           Watched', TileHonest'
    PROVE  IInv'
BY DEF IInv, AgesOK, SilenceSeen, SilenceReal, TileFollows, TileHonest, file,
       clock, Alive

LEMMA SpawnedStep ==
    ASSUME IInv, Spawned
    PROVE  IInv'
<1>1. /\ started' = FALSE /\ last' = 0 /\ progress' = 0 /\ uptime' = 0
      /\ quiet' = 0 /\ health' = "none" /\ proc' = "up" /\ loop' = "watch"
      /\ dog' = "asleep" /\ running' = running /\ stop' = stop /\ size' = size
      /\ running
  BY DEF Spawned, IInv, Watched
<1>2. started' \in BOOLEAN /\ running' \in BOOLEAN
  BY <1>1 DEF IInv, AgesOK
<1>3. AgesOK' /\ Watched' /\ TileFollows'
  BY <1>1, <1>2 DEF IInv, AgesOK, Watched, TileFollows, TileHonest
<1>4. SilenceSeen' /\ SilenceReal'
  BY <1>1, Thresholds DEF SilenceSeen, SilenceReal
<1>. QED  BY <1>3, <1>4 DEF IInv

\* What one look leaves behind: no unseen growth, and an age it accepts.
LEMMA LookStep ==
    ASSUME IInv, Observe, Alive,
           UNCHANGED <<path, size, uptime, quiet>>
    PROVE  /\ size' \in Nat /\ last' \in Nat /\ progress' \in Nat
           /\ started' \in BOOLEAN
           /\ last' = size' /\ progress' = Elapsed
           /\ started' <=> Seen
           /\ SilenceReal'
           /\ health' # "none" => tile' \in {health', "chronic_recording_failure"}
<1>. USE DEF IInv, AgesOK
<1>1. /\ size' \in Nat /\ last' \in Nat /\ progress' \in Nat
      /\ last' = size' /\ progress' = Elapsed
  BY DEF Observe, Grown, Elapsed
<1>2. started' \in BOOLEAN /\ (started' <=> Seen)
  BY DEF Observe, Seen
<1>3. SilenceReal'
  <2>1. CASE Grown
    BY <1>1, <1>2, <2>1, Thresholds DEF SilenceReal, Elapsed, Seen
  <2>2. CASE ~Grown
    BY <1>1, <1>2, <2>2, Thresholds DEF SilenceReal, Elapsed, Seen, Grown
  <2>. QED  BY <2>1, <2>2
<1>4. health' # "none" => tile' \in {health', "chronic_recording_failure"}
  BY DEF Observe, TileFollows
<1>. QED  BY <1>1, <1>2, <1>3, <1>4

LEMMA WatchdogStep ==
    ASSUME IInv, LookKills \/ LookOn
    PROVE  IInv'
<1>1. /\ Observe /\ Alive
      /\ UNCHANGED <<path, size, uptime, quiet, loop, running, stop>>
  BY DEF LookKills, LookOn, chain
<1>2. /\ size' \in Nat /\ last' \in Nat /\ progress' \in Nat
      /\ started' \in BOOLEAN
      /\ last' = size' /\ progress' = Elapsed
      /\ started' <=> Seen
      /\ SilenceReal'
      /\ health' # "none" => tile' \in {health', "chronic_recording_failure"}
  BY <1>1, LookStep
<1>3. loop = "watch" /\ TileFollows'
  BY <1>1, <1>2 DEF IInv, Watched, TileFollows, TileHonest
<1>4. CASE LookKills
  <2>1. proc' = "term"
    BY <1>4 DEF LookKills, Signalled
  <2>2. AgesOK' /\ Watched'
    BY <1>1, <1>2, <1>3, <2>1 DEF IInv, AgesOK, Watched, Alive
  <2>. QED  BY <1>2, <1>3, <2>1, <2>2 DEF IInv
<1>5. CASE LookOn
  <2>1. /\ ~Kills /\ proc' = proc
        /\ dog' = IF running THEN "asleep" ELSE "gone"
    BY <1>5 DEF LookOn, chain
  <2>2. AgesOK' /\ Watched'
    BY <1>1, <1>2, <1>3, <2>1 DEF IInv, AgesOK, Watched, Alive
  <2>3. ASSUME proc = "up"
        PROVE  SilenceSeen'
    <3>1. SilenceSeen /\ AgesOK
      BY <2>3 DEF IInv
    <3>2. dog' # "awake"
      BY <2>1
    <3>3. CASE Grown
      BY <1>1, <1>2, <3>1, <3>2, <3>3, Thresholds
         DEF SilenceSeen, AgesOK, Grown, Seen, Elapsed
    <3>4. CASE ~Grown
      BY <1>1, <1>2, <2>1, <3>1, <3>2, <3>4, Thresholds
         DEF SilenceSeen, AgesOK, Grown, Seen, Elapsed, Kills, NoFirstSegment,
             Stalled
    <3>. QED  BY <3>3, <3>4
  <2>. QED  BY <1>2, <1>3, <2>1, <2>2, <2>3 DEF IInv
<1>. QED  BY <1>4, <1>5

LEMMA FfmpegStep ==
    ASSUME IInv, SegmentOpened \/ Writes
    PROVE  IInv'
<1>1. Alive /\ UNCHANGED <<proc, loop, stop, running, dog, tile, health, clock>>
  BY DEF SegmentOpened, Writes, chain
<1>2. AgesOK'
  BY <1>1 DEF IInv, AgesOK, SegmentOpened, Writes, clock, chain
<1>3. Watched' /\ TileFollows'
  BY <1>1 DEF IInv, Watched, TileFollows, TileHonest, Alive
<1>4. ASSUME proc = "up"
      PROVE  SilenceSeen'
  BY <1>1, <1>4 DEF IInv, AgesOK, SilenceSeen, SegmentOpened, Writes, clock
<1>5. SilenceReal'
  BY <1>1 DEF IInv, AgesOK, SilenceReal, SegmentOpened, Writes, clock
<1>. QED  BY <1>1, <1>2, <1>3, <1>4, <1>5 DEF IInv

LEMMA TickStep ==
    ASSUME IInv, Tick
    PROVE  IInv'
<1>1. UNCHANGED <<running, loop, proc, stop, path, size, last, started, health,
                  tile>>
  BY DEF Tick, file
<1>2. /\ uptime \in Nat /\ quiet \in Nat /\ progress \in Nat
      /\ size \in Nat /\ last \in Nat /\ started \in BOOLEAN
      /\ STALE \in Nat /\ FIRST \in Nat /\ FIRST + 1 \in Nat /\ STALE < FIRST
  BY TickAssumption DEF IInv, AgesOK
<1>3. /\ uptime' \in Nat
      /\ uptime < FIRST => uptime' = uptime + 1
      /\ uptime >= FIRST => uptime' = uptime
  BY <1>2, OlderBounds DEF Tick
<1>4. /\ quiet' \in Nat /\ quiet' <= quiet + 1
      /\ quiet < FIRST + 1 => quiet' = quiet + 1
      /\ quiet >= FIRST + 1 => quiet' = quiet
  BY <1>2, OlderBounds DEF Tick
<1>5. /\ progress' \in Nat
      /\ started /\ progress < STALE => progress' = progress + 1
      /\ started /\ progress >= STALE => progress' = progress
  BY <1>2, OlderBounds DEF Tick
<1>6. /\ dog # "awake"
      /\ dog' = IF dog = "asleep" THEN "awake" ELSE dog
  BY DEF Tick, Prompt
<1>. HIDE DEF Tick
<1>7. AgesOK'
  BY <1>1, <1>2, <1>3, <1>4, <1>5 DEF IInv, AgesOK
<1>8. Watched' /\ TileFollows'
  BY <1>1, <1>6 DEF IInv, Watched, TileFollows, TileHonest, Alive
<1>9. ASSUME proc = "up"
      PROVE  SilenceSeen'
  <2>1. dog = "asleep" /\ dog' = "awake"
    BY <1>6, <1>9 DEF IInv, Watched
  <2>2. SilenceSeen /\ started' = started /\ size' = size /\ last' = last
    BY <1>1, <1>9 DEF IInv
  <2>3. size > last => quiet' <= 1
    BY <1>2, <1>4, <2>1, <2>2 DEF SilenceSeen
  <2>4. ~started => quiet' <= uptime' /\ uptime' <= FIRST
    BY <1>2, <1>3, <1>4, <2>1, <2>2 DEF SilenceSeen
  <2>5. started => quiet' <= progress' + 1 /\ progress' <= STALE
    BY <1>2, <1>4, <1>5, <2>1, <2>2 DEF SilenceSeen
  <2>. QED
    BY <2>1, <2>2, <2>3, <2>4, <2>5 DEF SilenceSeen
<1>10. ASSUME Alive
       PROVE  SilenceReal'
  BY <1>1, <1>2, <1>3, <1>4, <1>5, <1>10 DEF IInv, SilenceReal
<1>. QED  BY <1>1, <1>7, <1>8, <1>9, <1>10 DEF IInv, Alive

LEMMA StepIInv ==
    ASSUME IInv, [Next]_vars
    PROVE  IInv'
<1>1. CASE Start \/ Exits \/ MonitorEnds \/ Respawn \/ StopBegins
  <2>1. /\ UNCHANGED <<file, clock, quiet, tile, health, dog>>
        /\ proc' \in {"none", "up", "term", "exited"}
        /\ running' \in BOOLEAN
        /\ proc' = "up" => proc = "up"
        /\ Alive' => Alive
    BY <1>1 DEF Start, Exits, MonitorEnds, Respawn, StopBegins, IInv, AgesOK,
       Alive, Signalled
  <2>2. TileHonest'
    BY <1>1 DEF Start, Exits, MonitorEnds, Respawn, StopBegins, IInv,
       TileFollows, TileHonest
  <2>3. Watched'
    <3>1. CASE Start \/ Respawn
      <4>1. /\ loop \in {"new", "backoff"} /\ loop' = "spawning" /\ running'
            /\ UNCHANGED <<proc, dog, stop>>
            /\ loop = "backoff" => running
        BY <3>1 DEF Start, Respawn
      <4>2. stop = "no" /\ ~Alive
        BY <4>1 DEF IInv, Watched
      <4>. QED  BY <4>1, <4>2 DEF Watched, Alive
    <3>2. CASE Exits \/ MonitorEnds
      BY <3>2 DEF Exits, MonitorEnds, IInv, AgesOK, Watched, Alive
    <3>3. CASE StopBegins
      BY <3>3 DEF StopBegins, IInv, AgesOK, Watched, Alive, Signalled
    <3>. QED  BY <1>1, <3>1, <3>2, <3>3
  <2>. QED  BY <2>1, <2>2, <2>3, FileStep
<1>2. CASE Spawned
  BY <1>2, SpawnedStep
<1>3. CASE MonitorWakes
  BY <1>3 DEF MonitorWakes, IInv, AgesOK, Watched, TileFollows, TileHonest,
     Alive, file, clock
<1>4. CASE HandleChronic
  BY <1>4 DEF HandleChronic, IInv, AgesOK, Watched, SilenceReal, TileFollows,
     TileHonest, Alive, Signalled, file, clock
<1>5. CASE SegmentOpened \/ Writes
  BY <1>5, FfmpegStep
<1>6. CASE DetectDecodes
  BY <1>6 DEF DetectDecodes, IInv, AgesOK, Watched, SilenceSeen, SilenceReal,
     TileFollows, TileHonest, Alive, chain, file
<1>7. CASE LookGone
  BY <1>7 DEF LookGone, IInv, AgesOK, Watched, TileFollows, TileHonest, Alive,
     chain, file, clock
<1>8. CASE LookKills \/ LookOn
  BY <1>8, WatchdogStep
<1>9. CASE StopEnds
  BY <1>9 DEF StopEnds, IInv, AgesOK, Watched, TileFollows, TileHonest, Alive,
     clock
<1>10. CASE Tick
  BY <1>10, TickStep
<1>11. CASE UNCHANGED vars
  BY <1>11 DEF vars, chain, file, clock, IInv, AgesOK, Watched, SilenceSeen,
     SilenceReal, TileFollows, TileHonest, Alive
<1>. QED
  BY <1>1, <1>2, <1>3, <1>4, <1>5, <1>6, <1>7, <1>8, <1>9, <1>10, <1>11
     DEF Next, Look

(***************************************************************************)
(* The breaker's deque, and the last failures since a trip.                *)
(***************************************************************************)
Kinds ==
    /\ running \in BOOLEAN /\ started \in BOOLEAN
    /\ chronic \in BOOLEAN /\ wrote \in BOOLEAN
    /\ loop \in {"new", "spawning", "watch", "backoff", "ended"}
    /\ wait \in Nat /\ step \in 0..Len(Backoff)
    /\ proc \in {"none", "up", "term", "exited"}
    /\ path \in {"none", "old", "own"}
    /\ size \in 0..MaxSize /\ last \in 0..MaxSize
    /\ uptime \in 0..FIRST /\ quiet \in 0..(FIRST + 1)
    /\ progress \in 0..STALE /\ detect \in 0..FRESH
    /\ dog \in {"gone", "asleep", "awake"}
    /\ health \in Health \cup {"none"}
    /\ tile \in Health \cup {"none", "chronic_recording_failure"}
    /\ stop \in {"no", "drain", "done"}

Ages == 0..(WINDOW + 1)
Logs == /\ restarts \in Seq(Ages) /\ Len(restarts) < THRESHOLD
        /\ counted \in Seq(Ages) /\ Len(counted) < THRESHOLD

\* The deque holds the last of them, and what it has dropped is out of the
\* window.
Missing == Len(counted) - Len(restarts)
Matches ==
    /\ Len(restarts) <= Len(counted)
    /\ \A i \in 1..Len(restarts) : restarts[i] = counted[Missing + i]
    /\ \A i \in 1..Missing : ~InWindow(counted[i])

\* Between a trip and its handler no other failure can be registered.
Handled ==
    /\ dog = "awake" => uptime >= 1
    /\ chronic => /\ dog # "awake" /\ loop \notin {"new", "spawning"}
                  /\ loop = "backoff" => wait > 0
                  /\ loop = "watch" => uptime >= 1

BInv == Kinds /\ Logs /\ Matches /\ Handled

LEMMA Bounds ==
    /\ THRESHOLD \in Nat /\ 0 < THRESHOLD /\ WINDOW \in Nat /\ 0 < WINDOW
    /\ \A age \in Ages : age \in Nat
    /\ 0 \in Ages
    /\ \A age \in Ages : Older(age, WINDOW + 1) \in Ages
    /\ \A age \in Ages : ~InWindow(age) => ~InWindow(Older(age, WINDOW + 1))
BY TickAssumption, BoundAssumption DEF Ages, Older, InWindow

LEMMA Least ==
    ASSUME NEW n \in Nat, NEW I \in SUBSET (1..n), I # {}
    PROVE  \E m \in I : \A i \in I : m <= i
<1>. DEFINE Below == StrictSubsetOrdering(1..n)
            Upto == {1..i : i \in I}
<1>1. IsWellFoundedOn(Below, FiniteSubsetsOf(1..n))
  BY FS_StrictSubsetOrderingWellFounded
<1>2. \A i \in I : 1..i \subseteq 1..n /\ IsFiniteSet(1..i)
  BY FS_Interval
<1>3. Upto \subseteq FiniteSubsetsOf(1..n) /\ Upto # {}
  BY <1>2 DEF FiniteSubsetsOf
<1>4. PICK u \in Upto : \A v \in Upto : <<v, u>> \notin Below
  <2>. HIDE DEF Below, Upto
  <2>. QED
    BY <1>1, <1>3, WFMin
<1>5. PICK m \in I : u = 1..m
  BY <1>4
<1>6. ASSUME NEW i \in I, i < m PROVE FALSE
  <2>1. 1..i \subseteq 1..m /\ m \in 1..m /\ m \notin 1..i
    BY <1>6
  <2>2. <<1..i, 1..m>> \in Below
    BY <2>1, <1>2 DEF StrictSubsetOrdering
  <2>. QED
    BY <2>2, <1>4, <1>5
<1>. QED
  BY <1>6

\* What the loop that pops on the left leaves of a deque whose last entry is
\* new: all from the first entry that is in the window.
LEMMA PrunedIs ==
    ASSUME NEW ages \in Seq(Ages), Len(ages) > 0, ages[Len(ages)] = 0
    PROVE  \E f \in 1..Len(ages) :
               /\ Pruned(ages) \in Seq(Ages)
               /\ Len(Pruned(ages)) = Len(ages) - f + 1
               /\ \A i \in 1..(Len(ages) - f + 1) : Pruned(ages)[i] = ages[f + i - 1]
               /\ InWindow(ages[f])
               /\ \A i \in 1..(f - 1) : ~InWindow(ages[i])
<1>. DEFINE n == Len(ages)
            fresh == {i \in 1..n : InWindow(ages[i])}
<1>1. n \in Nat /\ n \in fresh
  BY Bounds DEF InWindow
<1>2. \E m \in fresh : \A i \in fresh : m <= i
  <2>1. fresh \in SUBSET (1..n) /\ fresh # {}
    BY <1>1
  <2>. HIDE DEF fresh, n
  <2>. QED
    BY <2>1, <1>1, Least
<1>. DEFINE f == Min(fresh)
<1>3. f \in fresh /\ \A i \in fresh : f <= i
  BY <1>2 DEF Min
<1>4. SelectInSeq(ages, InWindow) = f
  BY <1>1 DEF SelectInSeq
<1>. HIDE DEF f
<1>5. f \in 1..n /\ InWindow(ages[f]) /\ \A i \in 1..(f - 1) : ~InWindow(ages[i])
  BY <1>1, <1>3
<1>6. Pruned(ages) = SubSeq(ages, f, n)
  BY <1>4 DEF Pruned
<1>7. \A i \in f..n : ages[i] \in Ages
  BY <1>5
<1>8. /\ SubSeq(ages, f, n) \in Seq(Ages)
      /\ Len(SubSeq(ages, f, n)) = n - f + 1
      /\ \A i \in 1..(n - f + 1) : SubSeq(ages, f, n)[i] = ages[f + i - 1]
  <2>1. f \in Int /\ n \in Int /\ f <= n
    BY <1>1, <1>5
  <2>. HIDE DEF n
  <2>. QED
    BY <2>1, <1>7, SubSeqProperties
<1>. QED
  BY <1>5, <1>6, <1>8

\* A failure trips the breaker when the THRESHOLD - 1 before it are in the
\* window; otherwise the deque still holds the last of them.
LEMMA RegisterStep ==
    ASSUME Logs, Matches, RegisterFailure
    PROVE  /\ Logs' /\ Matches'
           /\ chronic' = (chronic \/ /\ Len(counted) + 1 = THRESHOLD
                                     /\ counted = <<>> \/ InWindow(counted[1]))
<1>. DEFINE ages == Append(restarts, 0)
            now == Pruned(ages)
            log == Append(counted, 0)
            r == Len(restarts)
            c == Len(counted)
<1>1. /\ r \in Nat /\ c \in Nat /\ r < THRESHOLD /\ c < THRESHOLD /\ r <= c
      /\ \A i \in 1..r : restarts[i] = counted[c - r + i]
      /\ \A i \in 1..(c - r) : ~InWindow(counted[i])
  BY DEF Logs, Matches, Missing
<1>2. /\ ages \in Seq(Ages) /\ Len(ages) = r + 1 /\ ages[r + 1] = 0
      /\ \A i \in 1..r : ages[i] = restarts[i]
  BY Bounds DEF Logs
<1>3. /\ log \in Seq(Ages) /\ Len(log) = c + 1 /\ log[c + 1] = 0
      /\ \A i \in 1..c : log[i] = counted[i]
  BY Bounds DEF Logs
<1>5. /\ chronic' = (chronic \/ Len(now) >= THRESHOLD)
      /\ restarts' = IF Len(now) >= THRESHOLD THEN <<>> ELSE now
      /\ counted' = IF Len(now) >= THRESHOLD THEN <<>> ELSE Recent(log)
  BY DEF RegisterFailure
<1>4. \E f \in 1..(r + 1) :
          /\ now \in Seq(Ages)
          /\ Len(now) = r + 2 - f
          /\ \A i \in 1..(r + 2 - f) : now[i] = ages[f + i - 1]
          /\ InWindow(ages[f])
          /\ \A i \in 1..(f - 1) : ~InWindow(ages[i])
  <2>. HIDE DEF ages, r
  <2>1. Len(ages) > 0 /\ ages[Len(ages)] = 0 /\ ages \in Seq(Ages)
    BY <1>1, <1>2
  <2>2. PICK f \in 1..Len(ages) :
          /\ now \in Seq(Ages)
          /\ Len(now) = Len(ages) - f + 1
          /\ \A i \in 1..(Len(ages) - f + 1) : now[i] = ages[f + i - 1]
          /\ InWindow(ages[f])
          /\ \A i \in 1..(f - 1) : ~InWindow(ages[i])
    BY <2>1, PrunedIs
  <2>3. Len(ages) - f + 1 = r + 2 - f /\ f \in 1..(r + 1)
    BY <1>1, <1>2
  <2>. HIDE DEF now
  <2>. QED
    BY <2>2, <2>3
<1>. HIDE DEF ages, now, log, r, c
<1>6. PICK f \in 1..(r + 1) :
          /\ now \in Seq(Ages)
          /\ Len(now) = r + 2 - f
          /\ \A i \in 1..(r + 2 - f) : now[i] = ages[f + i - 1]
          /\ InWindow(ages[f])
          /\ \A i \in 1..(f - 1) : ~InWindow(ages[i])
  BY <1>4
<1>. DEFINE gone == c - r + f - 1
<1>7. f \in Nat /\ f >= 1 /\ f <= r + 1
  BY <1>1, <1>6
<1>8. \A i \in 1..Len(now) : now[i] = log[gone + i]
  <2>. SUFFICES ASSUME NEW i \in 1..Len(now) PROVE now[i] = log[gone + i]
    OBVIOUS
  <2>1. now[i] = ages[f + i - 1] /\ i \in Nat /\ i >= 1 /\ i <= r + 2 - f
    BY <1>1, <1>6, <1>7
  <2>2. CASE f + i - 1 <= r
    <3>1. /\ f + i - 1 \in 1..r /\ gone + i \in 1..c
          /\ c - r + (f + i - 1) = gone + i
      <4>. r \in Nat /\ c \in Nat /\ r <= c /\ f \in Nat /\ i \in Nat
        BY <1>1, <1>7, <2>1
      <4>. QED
        BY <1>7, <2>1, <2>2
    <3>2. ages[f + i - 1] = counted[c - r + (f + i - 1)]
      BY <1>1, <1>2, <3>1
    <3>. QED
      BY <1>3, <2>1, <3>1, <3>2
  <2>3. CASE f + i - 1 = r + 1
    BY <1>1, <1>2, <1>3, <1>7, <2>1, <2>3
  <2>. QED
    BY <1>1, <1>7, <2>1, <2>2, <2>3
<1>9. \A i \in 1..gone : ~InWindow(log[i])
  <2>. SUFFICES ASSUME NEW i \in 1..gone PROVE ~InWindow(log[i])
    OBVIOUS
  <2>1. i \in Nat /\ i >= 1 /\ i <= gone /\ i \in 1..c
    BY <1>1, <1>7
  <2>2. CASE i <= c - r
    BY <1>1, <1>3, <2>1, <2>2
  <2>3. CASE i > c - r
    <3>1. /\ i - (c - r) \in 1..r /\ i - (c - r) \in 1..(f - 1)
          /\ c - r + (i - (c - r)) = i
      BY <1>1, <1>7, <2>1, <2>3
    <3>2. ages[i - (c - r)] = counted[i]
      BY <1>1, <1>2, <3>1
    <3>. QED
      BY <1>3, <1>6, <2>1, <3>1, <3>2
  <2>. QED
    BY <1>1, <2>1, <2>2, <2>3
<1>10. Len(now) = c + 1 - gone /\ Len(now) \in Nat /\ gone \in Nat /\ gone <= c
  BY <1>1, <1>6, <1>7
<1>. HIDE DEF gone
<1>11. Len(now) >= THRESHOLD <=> c + 1 = THRESHOLD /\ gone = 0
  BY <1>1, <1>10, Bounds
<1>12. gone = 0 <=> c = 0 \/ InWindow(log[1])
  <2>1. ASSUME gone > 0 PROVE c # 0 /\ ~InWindow(log[1])
    BY <1>1, <1>9, <1>10, <2>1
  <2>2. ASSUME gone = 0, c # 0 PROVE InWindow(log[1])
    <3>1. f = 1 /\ c = r /\ 1 \in 1..Len(now) /\ 1 \in 1..(r + 2 - f)
      BY <1>1, <1>7, <1>10, <2>2, <1>6 DEF gone
    <3>2. now[1] = ages[f] /\ now[1] = log[1]
      BY <1>1, <1>6, <1>8, <2>2, <3>1
    <3>. QED
      BY <1>6, <3>2
  <2>. QED
    BY <1>10, <2>1, <2>2
<1>13. chronic' = (chronic \/ /\ Len(counted) + 1 = THRESHOLD
                              /\ counted = <<>> \/ InWindow(counted[1]))
  <2>1. c = 0 <=> counted = <<>>
    BY EmptySeq DEF c, Logs
  <2>2. c # 0 => log[1] = counted[1]
    BY <1>1, <1>3
  <2>3. c = Len(counted)
    BY DEF c
  <2>. QED
    BY <1>5, <1>11, <1>12, <2>1, <2>2, <2>3
<1>14. CASE Len(now) >= THRESHOLD
  <2>1. restarts' = <<>> /\ counted' = <<>>
    BY <1>5, <1>14
  <2>2. <<>> \in Seq(Ages) /\ Len(<<>>) = 0
    OBVIOUS
  <2>. QED
    BY <2>1, <2>2, <1>13, Bounds DEF Logs, Matches, Missing
<1>15. CASE ~(Len(now) >= THRESHOLD)
  <2>1. restarts' = now /\ counted' = Recent(log)
    BY <1>5, <1>15
  <2>2. CASE c + 1 < THRESHOLD
    <3>1. counted' = log
      BY <1>3, <2>1, <2>2 DEF Recent
    <3>2. Missing' = gone
      BY <1>1, <1>3, <1>10, <2>1, <3>1 DEF Missing
    <3>3. Logs'
      BY <1>1, <1>3, <1>6, <1>10, <2>1, <2>2, <3>1, Bounds DEF Logs
    <3>4. Matches'
      BY <1>1, <1>3, <1>8, <1>9, <1>10, <2>1, <3>1, <3>2 DEF Matches
    <3>. QED
      BY <1>13, <3>3, <3>4
  <2>3. CASE c + 1 = THRESHOLD
    <3>1. gone >= 1
      BY <1>10, <1>11, <1>15, <2>3
    <3>2. /\ counted' = Tail(log) /\ Tail(log) \in Seq(Ages)
          /\ Len(Tail(log)) = c
          /\ \A i \in 1..c : Tail(log)[i] = log[i + 1]
      <4>1. log # <<>> /\ ~(Len(log) < THRESHOLD)
        BY <1>1, <1>3, <2>3, Bounds, EmptySeq
      <4>2. counted' = Tail(log)
        BY <2>1, <4>1 DEF Recent
      <4>. QED
        BY <1>1, <1>3, <4>1, <4>2, HeadTailProperties
    <3>3. Missing' = gone - 1
      BY <1>1, <1>10, <2>1, <3>2 DEF Missing
    <3>4. Logs'
      BY <1>1, <1>6, <1>10, <2>1, <2>3, <3>1, <3>2 DEF Logs
    <3>5. Matches'
      <4>1. \A i \in 1..Len(now) :
                /\ gone - 1 + i \in 1..c /\ gone - 1 + i + 1 = gone + i
        BY <1>1, <1>10, <3>1
      <4>2. \A i \in 1..Len(now) : now[i] = counted'[gone - 1 + i]
        BY <1>8, <3>2, <4>1
      <4>3. \A i \in 1..(gone - 1) : i \in 1..c /\ i + 1 \in 1..gone
        BY <1>1, <1>10, <3>1
      <4>4. \A i \in 1..(gone - 1) : ~InWindow(counted'[i])
        BY <1>9, <3>2, <4>3
      <4>5. Len(restarts') <= Len(counted')
        BY <1>1, <1>10, <2>1, <3>1, <3>2
      <4>. QED
        BY <2>1, <3>3, <4>2, <4>4, <4>5 DEF Matches
    <3>. QED
      BY <1>13, <3>4, <3>5
  <2>. QED
    BY <1>1, <2>2, <2>3, Bounds
<1>. QED
  BY <1>14, <1>15

LEMMA Aged ==
    ASSUME NEW ages \in Seq(Ages), NEW aged,
           aged = [i \in DOMAIN ages |-> Older(ages[i], WINDOW + 1)]
    PROVE  /\ aged \in Seq(Ages) /\ Len(aged) = Len(ages)
           /\ \A i \in 1..Len(ages) :
                  ages[i] \in Ages /\ aged[i] = Older(ages[i], WINDOW + 1)
<1>1. /\ DOMAIN ages = 1..Len(ages) /\ Len(ages) \in Nat
      /\ \A i \in 1..Len(ages) : ages[i] \in Ages
  OBVIOUS
<1>2. /\ DOMAIN aged = 1..Len(ages)
      /\ \A i \in 1..Len(ages) : aged[i] = Older(ages[i], WINDOW + 1)
  BY <1>1
<1>3. \A i \in 1..Len(ages) : aged[i] \in Ages
  BY <1>1, <1>2, Bounds
<1>4. aged \in [1..Len(ages) -> Ages]
  BY <1>1, <1>3
<1>5. aged \in Seq(Ages)
  BY <1>1, <1>4
<1>6. Len(aged) = Len(ages)
  BY <1>1, <1>2, <1>5
<1>. QED
  BY <1>1, <1>2, <1>5, <1>6

LEMMA TickLogs ==
    ASSUME Logs, Matches, Tick
    PROVE  Logs' /\ Matches'
<1>1. /\ Len(restarts) \in Nat /\ Len(counted) \in Nat
      /\ Len(restarts) < THRESHOLD /\ Len(counted) < THRESHOLD
      /\ Len(restarts) <= Len(counted)
  BY DEF Logs, Matches
<1>2. /\ restarts' \in Seq(Ages) /\ Len(restarts') = Len(restarts)
      /\ \A i \in 1..Len(restarts) :
             /\ restarts[i] \in Ages
             /\ restarts'[i] = Older(restarts[i], WINDOW + 1)
  BY Aged DEF Tick, Logs
<1>3. /\ counted' \in Seq(Ages) /\ Len(counted') = Len(counted)
      /\ \A i \in 1..Len(counted) :
             /\ counted[i] \in Ages
             /\ counted'[i] = Older(counted[i], WINDOW + 1)
  BY Aged DEF Tick, Logs
<1>4. Missing' = Missing
  BY <1>2, <1>3 DEF Missing
<1>5. /\ \A i \in 1..Len(restarts) : Missing + i \in 1..Len(counted)
      /\ \A i \in 1..Missing : i \in 1..Len(counted)
  BY <1>1 DEF Missing
<1>6. Logs'
  BY <1>1, <1>2, <1>3 DEF Logs
<1>7. \A i \in 1..Len(restarts) : restarts'[i] = counted'[Missing + i]
  BY <1>2, <1>3, <1>5 DEF Matches
<1>8. \A i \in 1..Missing : ~InWindow(counted'[i])
  BY <1>3, <1>5, Bounds DEF Matches
<1>9. Matches'
  BY <1>1, <1>2, <1>3, <1>4, <1>7, <1>8 DEF Matches
<1>. QED
  BY <1>6, <1>9

LEMMA LogsStep ==
    ASSUME Logs, Matches, [Next]_vars
    PROVE  Logs' /\ Matches'
<1>1. CASE RegisterFailure
  BY <1>1, RegisterStep
<1>2. CASE Tick
  BY <1>2, TickLogs
<1>3. CASE UNCHANGED <<restarts, counted>>
  BY <1>3 DEF Logs, Matches, Missing
<1>. QED
  BY <1>1, <1>2, <1>3
     DEF Next, Look, Start, Spawned, Exits, MonitorWakes, MonitorEnds, Respawn,
         HandleChronic, SegmentOpened, Writes, DetectDecodes, LookGone,
         LookKills, LookOn, StopBegins, StopEnds, vars, breaker

LEMMA BackoffStep ==
    ASSUME step \in 0..Len(Backoff), MonitorWakes
    PROVE  step' \in 0..Len(Backoff) /\ wait' \in Nat /\ wait' > 0
<1>1. Len(Backoff) \in Nat /\ Len(Backoff) > 0
  BY BoundAssumption, EmptySeq
<1>2. step' \in 1..Len(Backoff) /\ wait' = Backoff[step']
  BY <1>1 DEF MonitorWakes
<1>3. Backoff[step'] \in Nat \ {0}
  BY <1>2, BoundAssumption
<1>. QED
  BY <1>2, <1>3

LEMMA RegisterKind == RegisterFailure /\ chronic \in BOOLEAN => chronic' \in BOOLEAN
BY DEF RegisterFailure

LEMMA TickKinds ==
    ASSUME Kinds, Tick
    PROVE  Kinds'
<1>1. \A limit \in Nat : \A age \in 0..limit : Older(age, limit) \in 0..limit
  BY DEF Older
<1>2. /\ uptime' \in 0..FIRST /\ quiet' \in 0..(FIRST + 1)
      /\ progress' \in 0..STALE /\ detect' \in 0..FRESH
  <2>1. FIRST \in Nat /\ FIRST + 1 \in Nat /\ STALE \in Nat /\ FRESH \in Nat
    BY TickAssumption
  <2>2. Older(progress, STALE) \in 0..STALE
    BY <1>1, <2>1 DEF Kinds
  <2>3. progress' \in 0..STALE
    BY <2>2 DEF Kinds, Tick
  <2>. QED
    BY <1>1, <2>1, <2>3 DEF Kinds, Tick
<1>3. wait' \in Nat
  BY DEF Kinds, Tick
<1>4. dog' \in {"gone", "asleep", "awake"}
  BY DEF Kinds, Tick
<1>. QED
  BY <1>2, <1>3, <1>4 DEF Kinds, Tick, file

LEMMA LookKinds ==
    ASSUME Kinds, Observe
    PROVE  /\ started' \in BOOLEAN /\ last' \in 0..MaxSize
           /\ progress' \in 0..STALE
           /\ health' \in Health \cup {"none"}
           /\ tile' \in Health \cup {"none", "chronic_recording_failure"}
<1>1. Label \in Health
  BY DEF Label, Health
<1>2. started' \in BOOLEAN
  BY DEF Observe, Seen, Kinds
<1>3. last' \in 0..MaxSize /\ progress' \in 0..STALE
  BY TickAssumption, BoundAssumption DEF Observe, Elapsed, Kinds
<1>. QED
  BY <1>1, <1>2, <1>3 DEF Observe, Kinds

LEMMA KindsStep ==
    ASSUME Kinds, [Next]_vars
    PROVE  Kinds'
<1>1. CASE Start \/ Exits \/ MonitorEnds \/ Respawn \/ StopBegins \/ HandleChronic
  BY <1>1 DEF Start, Exits, MonitorEnds, Respawn, StopBegins, HandleChronic,
     Kinds, Signalled, file, clock, breaker
<1>2. CASE Spawned
  <2>1. 0 \in 0..MaxSize /\ 0 \in 0..FIRST /\ 0 \in 0..STALE /\ 0 \in 0..(FIRST + 1)
    BY TickAssumption, BoundAssumption
  <2>. QED
    BY <1>2, <2>1 DEF Spawned, Kinds, breaker
<1>3. CASE MonitorWakes
  <2>1. step' \in 0..Len(Backoff) /\ wait' \in Nat
    BY <1>3, BackoffStep DEF MonitorWakes, Kinds
  <2>2. chronic' \in BOOLEAN
    BY <1>3, RegisterKind DEF MonitorWakes, Kinds, breaker
  <2>3. health' \in Health \cup {"none"}
        /\ tile' \in Health \cup {"none", "chronic_recording_failure"}
    BY <1>3 DEF MonitorWakes, Kinds, Health
  <2>. QED
    BY <1>3, <2>1, <2>2, <2>3 DEF MonitorWakes, Kinds, file, clock
<1>4. CASE SegmentOpened
  <2>1. {0, 1} \subseteq 0..MaxSize /\ 0 \in 0..(FIRST + 1) /\ 0 \in 0..Len(Backoff)
    BY TickAssumption, BoundAssumption
  <2>2. wrote' \in BOOLEAN
    BY <1>4 DEF SegmentOpened, Kinds
  <2>. QED
    BY <1>4, <2>1, <2>2 DEF SegmentOpened, Kinds, clock, breaker
<1>5. CASE Writes
  <2>1. 0 \in 0..(FIRST + 1)
    BY TickAssumption
  <2>2. size \in 0..MaxSize
    BY DEF Kinds
  <2>3. size' \in 0..MaxSize
    BY <1>5, <2>2, BoundAssumption DEF Writes
  <2>. QED
    BY <1>5, <2>1, <2>3 DEF Writes, Kinds, chain, clock, breaker
<1>6. CASE DetectDecodes
  <2>1. 0 \in 0..FRESH
    BY TickAssumption
  <2>. QED
    BY <1>6, <2>1 DEF DetectDecodes, Kinds, chain, file, breaker
<1>7. CASE LookGone
  BY <1>7 DEF LookGone, Kinds, chain, file, clock, breaker
<1>8. CASE LookKills
  <2>1. chronic' \in BOOLEAN
    BY <1>8, RegisterKind DEF LookKills, Kinds
  <2>. QED
    BY <1>8, <2>1, LookKinds DEF LookKills, Kinds, Signalled
<1>9. CASE LookOn
  BY <1>9, LookKinds DEF LookOn, Kinds, chain, breaker
<1>10. CASE StopEnds
  BY <1>10 DEF StopEnds, Kinds, clock, breaker
<1>11. CASE Tick
  BY <1>11, TickKinds
<1>12. CASE UNCHANGED vars
  BY <1>12 DEF vars, chain, file, clock, breaker, Kinds
<1>. QED
  BY <1>1, <1>2, <1>3, <1>4, <1>5, <1>6, <1>7, <1>8, <1>9, <1>10, <1>11, <1>12
     DEF Next, Look

LEMMA HandledStep ==
    ASSUME IInv, Kinds, Handled, [Next]_vars
    PROVE  Handled'
<1>1. CASE Start \/ Exits \/ MonitorEnds \/ Respawn \/ StopBegins \/ HandleChronic
  BY <1>1 DEF Start, Exits, MonitorEnds, Respawn, StopBegins, HandleChronic,
     Handled, clock, breaker
<1>2. CASE Spawned \/ StopEnds
  BY <1>2 DEF Spawned, StopEnds, Handled, breaker
<1>3. CASE MonitorWakes
  <2>1. loop' = "backoff" /\ wait' > 0 /\ UNCHANGED <<dog, uptime>>
    BY <1>3, BackoffStep DEF MonitorWakes, Kinds, clock
  <2>2. chronic' => dog # "awake"
    <3>1. CASE uptime = 0
      BY <3>1 DEF Handled
    <3>2. CASE UNCHANGED breaker
      BY <3>2 DEF Handled, breaker
    <3>. QED
      BY <1>3, <3>1, <3>2 DEF MonitorWakes
  <2>. QED
    BY <2>1, <2>2 DEF Handled
<1>4. CASE SegmentOpened \/ Writes \/ DetectDecodes
  BY <1>4 DEF SegmentOpened, Writes, DetectDecodes, Handled, chain, clock, breaker
<1>5. CASE LookGone
  BY <1>5 DEF LookGone, Handled, chain, clock, breaker
<1>6. CASE LookKills
  BY <1>6 DEF LookKills, IInv, Watched, Handled
<1>7. CASE LookOn
  BY <1>7 DEF LookOn, Handled, chain, breaker
<1>8. CASE Tick
  <2>1. uptime' >= 1
    BY <1>8, TickAssumption DEF Tick, Older, Kinds
  <2>. QED
    BY <1>8, <2>1 DEF Tick, Prompt, Handled
<1>9. CASE UNCHANGED vars
  BY <1>9 DEF vars, chain, clock, breaker, Handled
<1>. QED
  BY <1>1, <1>2, <1>3, <1>4, <1>5, <1>6, <1>7, <1>8, <1>9 DEF Next, Look

LEMMA InitBInv == Init => BInv
<1>. SUFFICES ASSUME Init PROVE BInv
  OBVIOUS
<1>1. Kinds
  <2>1. /\ {0, MaxSize} \subseteq 0..MaxSize /\ 0 \in 0..FIRST /\ 0 \in 0..STALE
        /\ 0 \in 0..(FIRST + 1) /\ FRESH \in 0..FRESH /\ 0 \in 0..Len(Backoff)
    BY TickAssumption, BoundAssumption
  <2>. QED
    BY <2>1 DEF Init, Kinds
<1>2. Logs /\ Matches
  BY Bounds DEF Init, Logs, Matches, Missing
<1>3. Handled
  BY DEF Init, Handled
<1>. QED
  BY <1>1, <1>2, <1>3 DEF BInv

LEMMA StepBInv ==
    ASSUME IInv, BInv, [Next]_vars
    PROVE  BInv'
<1>1. Kinds'
  BY KindsStep DEF BInv
<1>2. Logs' /\ Matches'
  BY LogsStep DEF BInv
<1>3. Handled'
  BY HandledStep DEF BInv
<1>. QED
  BY <1>1, <1>2, <1>3 DEF BInv

\* The inductive invariant: what the watchdog's clock and the real silence of
\* an ffmpeg have to do with each other at every moment, and which health the
\* tile was last told.
THEOREM WatchdogInvariance == Spec => []IInv
<1>. QED  BY InitIInv, StepIInv, PTL DEF Spec

\* _staleness_watchdog signals every ffmpeg before it has been silent for
\* longer than the first-segment deadline, whatever the thresholds are.
THEOREM StallBoundedAlways == Spec => []StallBounded
<1>1. IInv => StallBounded
  BY TickAssumption
     DEF IInv, AgesOK, Watched, SilenceSeen, StallBounded
<1>. QED  BY <1>1, WatchdogInvariance, PTL

\* _process_monitor's offline event covers the gap in which no watchdog looks.
THEOREM TileHonestAlways == Spec => []TileHonest
<1>1. IInv => TileHonest
  BY DEF IInv, TileFollows
<1>. QED  BY <1>1, WatchdogInvariance, PTL

\* _staleness_watchdog kills only an ffmpeg that has been silent for the
\* split-brain threshold, or whose newest segment is still empty.
THEOREM KillJustifiedAlways == Spec => KillJustified
<1>1. IInv /\ LookKills => quiet >= SPLIT \/ (path = "own" /\ size = 0)
  BY TickAssumption
     DEF IInv, AgesOK, SilenceReal, LookKills, Kills, NoFirstSegment, Seen,
         Grown, Elapsed, SplitBrain, Stalled
<1>2. IInv /\ [Next]_vars
        => [LookKills => quiet >= SPLIT \/ (path = "own" /\ size = 0)]_vars
  BY <1>1
<1>. QED  BY <1>2, WatchdogInvariance, PTL DEF Spec, KillJustified
\* The breaker's inductive invariant: the deque is the last part of the list of
\* failures, what it has dropped is out of the window, and a trip is handled
\* before the next failure can be registered.
THEOREM BreakerInvariance == Spec => []BInv
<1>. QED  BY InitBInv, StepBInv, WatchdogInvariance, PTL DEF Spec

\* Every variable of the recorder keeps its type, and each list of failures its
\* bound.
THEOREM TypeCorrect == Spec => []TypeOK
<1>1. BInv => TypeOK
  BY DEF BInv, Kinds, Logs, Ages, TypeOK
<1>. QED  BY <1>1, BreakerInvariance, PTL

\* prune_and_check_breaker_trip looks at one end of the deque, and only when a
\* failure is registered; yet the breaker trips at exactly those failures whose
\* THRESHOLD - 1 predecessors since the last trip are all in the window.
THEOREM BreakerCountsAlways == Spec => BreakerCounts
<1>. DEFINE Due == /\ Len(counted) + 1 = THRESHOLD
                   /\ counted = <<>> \/ InWindow(counted[1])
            Fails == LookKills \/ (MonitorWakes /\ breaker' # breaker)
<1>1. ASSUME BInv, Fails
      PROVE  RegisterFailure /\ ~chronic
  <2>1. CASE LookKills
    BY <1>1, <2>1 DEF LookKills, BInv, Handled
  <2>2. CASE MonitorWakes /\ breaker' # breaker
    <3>1. loop = "watch" /\ uptime = 0 /\ RegisterFailure
      BY <2>2 DEF MonitorWakes
    <3>2. chronic => uptime >= 1
      BY <1>1, <3>1 DEF BInv, Handled
    <3>. QED
      BY <3>1, <3>2
  <2>. QED
    BY <1>1, <2>1, <2>2
<1>2. ASSUME BInv, Fails
      PROVE  chronic' /\ ~chronic <=> Due
  <2>1. chronic' = (chronic \/ Due)
    BY <1>1, <1>2, RegisterStep DEF BInv
  <2>. QED
    BY <1>1, <1>2, <2>1
<1>3. BInv /\ [Next]_vars => [Fails => (chronic' /\ ~chronic <=> Due)]_vars
  BY <1>2
<1>. QED  BY <1>3, BreakerInvariance, PTL DEF Spec, BreakerCounts
===============================================================================
