-------------------------- MODULE MotionManagerProofs --------------------------
(***************************************************************************)
(* MotionManager, for any number of cameras and any size of the queue: at  *)
(* rest the detectors are those of the recorders, and the shutdown leaves  *)
(* none.                                                                   *)
(***************************************************************************)
EXTENDS MotionManager, FiniteSetTheorems, TLAPS

(***************************************************************************)
(* The inductive invariant.                                                *)
(***************************************************************************)
Working == {"idle", "row", "heat"} \cup Stopping

\* Nothing in the queue is about the camera.
Silent(c) == \A k \in 1..Len(queue) : queue[k].camera # c
InHand(c) == loop \in {"row", "heat"} /\ cam = c

\* The last event about a camera in the queue is what was last said of it.
Heard ==
    loop # "boot" =>
        \A c \in Camera \ lost : \A k \in 1..Len(queue) :
            queue[k].camera = c /\ (\A j \in 1..Len(queue) : j > k => queue[j].camera # c)
                => queue[k].type = said[c]

\* Whose recorder, if it was announced started last, runs or was not heard of
\* since.
Held(c) == Running(c) \/ entry[c] = "dead" \/ draining[c] > 0
Truthful ==
    /\ loop = "boot" => \A c \in Camera : said[c] # "started"
    /\ \A c \in Camera : said[c] = "started" => Held(c)

\* The walk: a recorder that nothing in the queue is about, and that runs, is
\* still ahead or has its detector, and nothing is taken from the queue
\* meanwhile.
Walked ==
    /\ loop = "boot" => detectors = {} /\ queue = << >>
    /\ loop # "boot" => \A c \in Camera : Running(c) => said[c] # "nothing"
    /\ loop \in Walking =>
          /\ \A c \in detectors \cup {cam} : said[c] # "nothing"
          /\ \A c \in Camera \ lost : said[c] = "stopped" => ~Silent(c)
          /\ \A c \in rows \ lost :
                Silent(c) /\ Running(c) => c \in ahead \cup detectors \cup {cam}

\* A camera that the queue is silent about is where its last word puts it.
Followed ==
    loop \in Working =>
        \A c \in Camera \ lost : Silent(c) =>
            /\ said[c] # "started" => c \notin detectors /\ ~InHand(c)
            /\ said[c] = "started" /\ Running(c) /\ c \in rows
                   => c \in detectors \/ InHand(c)

\* The order of the shutdown.
Ordered ==
    /\ main = "up" => \A c \in Camera : draining[c] \in 0..1
    /\ main # "up" => \A c \in Camera : ~Running(c)
    /\ main \in {"up", "recorders"} => torn = {} /\ loop # "ended"
    /\ main \in {"motion", "down"} => loop = "ended"
    /\ main = "down" => detectors = {}
    /\ torn = {} \/ \E c \in Camera : torn = {c}
    /\ loop \in (Working \cup Walking) \ {"idle"} => cam \in Camera

IInv == TypeOK /\ Heard /\ Truthful /\ Walked /\ Followed /\ Ordered

USE DEF Working, Walking, Stopping, Silent, InHand, Running, Held

LEMMA InitIInv == Init => IInv
<1>. SUFFICES ASSUME Init PROVE IInv
  OBVIOUS
<1>1. Cardinality(Camera) \in Nat
  BY FiniteAssumption, FS_CardinalityType
<1>2. TypeOK
  BY <1>1, QueueAssumption DEF Init, TypeOK, Said, Event, Loop
<1>3. Heard /\ Truthful /\ Walked
  BY DEF Init, Heard, Truthful, Walked
<1>4. Followed /\ Ordered
  BY DEF Init, Followed, Ordered
<1>. QED  BY <1>2, <1>3, <1>4 DEF IInv

(***************************************************************************)
(* The bus.                                                                *)
(***************************************************************************)

\* An announcement is the last word about its camera; of the others, only
\* one whose last word it pushes out is affected, and that one is lost.
LEMMA EmitStep ==
    ASSUME IInv, NEW type \in {"started", "stopped"}, NEW c \in Camera,
           Emit(type, c), loop' = loop
    PROVE  /\ queue' \in Seq(Event) /\ Len(queue') <= MaxQueue
           /\ said' \in [Camera -> Said] /\ lost' \subseteq Camera
           /\ Heard'
           /\ loop = "boot" => UNCHANGED <<queue, said, lost>>
           /\ loop # "boot" =>
                 /\ said'[c] = type /\ c \notin lost' /\ ~Silent(c)'
                 /\ \A d \in Camera \ {c} :
                       /\ said'[d] = said[d]
                       /\ d \notin lost' => d \notin lost /\ (Silent(d)' => Silent(d))
<1>. DEFINE e == [type |-> type, camera |-> c]
            full == Len(queue) = MaxQueue
            kept == IF full THEN Tail(queue) ELSE queue
            Later(d) == \E k \in DOMAIN kept : kept[k].camera = d
<1>0. /\ queue \in Seq(Event) /\ Len(queue) \in Nat /\ Len(queue) <= MaxQueue
      /\ said \in [Camera -> Said] /\ lost \subseteq Camera
      /\ MaxQueue \in Nat \ {0} /\ e \in Event
  BY QueueAssumption DEF IInv, TypeOK, Event
<1>1. CASE loop = "boot"
  <2>1. UNCHANGED <<queue, said, lost>>
    BY <1>0, <1>1 DEF Emit, Subscribed
  <2>2. Heard'
    BY <1>1 DEF Heard
  <2>. QED  BY <1>0, <1>1, <2>1, <2>2
<1>2. CASE loop # "boot"
  <2>1. /\ said' = [said EXCEPT ![c] = type] /\ queue' = Append(kept, e)
        /\ lost' = (lost \cup {d \in Camera : /\ full
                                             /\ d = Head(queue).camera
                                             /\ ~Later(d)}) \ {c}
    BY <1>2 DEF Emit, Subscribed
  <2>2. /\ kept \in Seq(Event) /\ Len(kept) \in Nat /\ Len(kept) < MaxQueue
        /\ DOMAIN kept = 1..Len(kept)
        /\ full => /\ Len(kept) = Len(queue) - 1
                   /\ \A k \in 1..Len(kept) : kept[k] = queue[k + 1]
                   /\ Head(queue) = queue[1] /\ Head(queue) \in Event
        /\ ~full => kept = queue
    <3>1. CASE full
      <4>1. queue # << >>
        BY <3>1, <1>0
      <4>2. /\ Tail(queue) \in Seq(Event) /\ Len(Tail(queue)) = Len(queue) - 1
            /\ \A k \in 1..Len(Tail(queue)) : Tail(queue)[k] = queue[k + 1]
            /\ Head(queue) = queue[1] /\ Head(queue) \in Event
        BY <4>1, <1>0
      <4>. QED  BY <3>1, <4>2, <1>0
    <3>2. CASE ~full
      BY <3>2, <1>0
    <3>. QED  BY <3>1, <3>2
  <2>3. /\ queue' \in Seq(Event) /\ Len(queue') = Len(kept) + 1
        /\ \A k \in 1..Len(kept) : queue'[k] = kept[k]
        /\ queue'[Len(kept) + 1] = e
        /\ \A k \in 1..Len(kept) : k \in 1..Len(queue')
    <3>. HIDE DEF kept, e
    <3>. QED  BY <2>1, <2>2, <1>0
  <2>4. said'[c] = type /\ \A d \in Camera \ {c} : said'[d] = said[d]
    BY <2>1, <1>0
  <2>5. Len(kept) + 1 \in 1..Len(queue') /\ queue'[Len(kept) + 1].camera = c
    BY <2>2, <2>3
  <2>6. ASSUME NEW d \in Camera \ {c}, d \notin lost', Silent(d)'
        PROVE  d \notin lost /\ Silent(d)
    <3>1. d \notin lost
      BY <2>1, <2>6
    <3>2. \A k \in 1..Len(kept) : kept[k].camera # d
      <4>. HIDE DEF kept, e, full, Later
      <4>. QED  BY <2>3, <2>6
    <3>3. CASE ~full
      BY <3>1, <3>2, <3>3, <2>2
    <3>4. CASE full
      <4>1. queue[1].camera # d
        BY <3>2, <3>4, <2>1, <2>2, <2>6
      <4>2. ASSUME NEW k \in 1..Len(queue) PROVE queue[k].camera # d
        <5>1. CASE k = 1
          BY <5>1, <4>1
        <5>2. CASE k # 1
          <6>1. k - 1 \in 1..Len(kept) /\ (k - 1) + 1 = k
            BY <5>2, <3>4, <2>2, <1>0
          <6>2. kept[k - 1] = queue[k]
            BY <6>1, <3>4, <2>2
          <6>. QED  BY <6>1, <6>2, <3>2
        <5>. QED  BY <5>1, <5>2
      <4>. QED  BY <3>1, <4>2
    <3>. QED  BY <3>3, <3>4
  <2>7. \A d \in Camera \ {c} : d \notin lost' => d \notin lost
    BY <2>1
  <2>8. Heard'
    <3>. SUFFICES ASSUME NEW d \in Camera \ lost', NEW k \in 1..Len(queue'),
                         queue'[k].camera = d,
                         \A j \in 1..Len(queue') : j > k => queue'[j].camera # d
                  PROVE  queue'[k].type = said'[d]
      BY DEF Heard
    <3>1. CASE k = Len(kept) + 1
      BY <3>1, <2>3, <2>4
    <3>2. CASE k # Len(kept) + 1
      <4>1. k \in 1..Len(kept) /\ queue'[k] = kept[k]
        BY <3>2, <2>2, <2>3
      <4>2. d # c
        BY <4>1, <2>2, <2>5
      <4>3. d \in Camera \ lost
        BY <4>2, <2>7
      <4>4. \A j \in 1..Len(kept) : j > k => kept[j].camera # d
        <5>. HIDE DEF kept, e, full, Later
        <5>. QED  BY <2>3
      <4>5. CASE ~full
        <5>1. kept = queue
          BY <4>5, <2>2
        <5>. QED  BY <5>1, <4>1, <4>2, <4>3, <4>4, <2>4, <1>2 DEF IInv, Heard
      <4>6. CASE full
        <5>1. k + 1 \in 1..Len(queue) /\ queue[k + 1] = kept[k]
          BY <4>1, <4>6, <2>2, <1>0
        <5>2. ASSUME NEW j \in 1..Len(queue), j > k + 1 PROVE queue[j].camera # d
          <6>1. j - 1 \in 1..Len(kept) /\ j - 1 > k /\ (j - 1) + 1 = j
            BY <5>2, <4>1, <4>6, <2>2, <1>0
          <6>2. kept[j - 1] = queue[j]
            BY <6>1, <4>6, <2>2
          <6>. QED  BY <6>1, <6>2, <4>4
        <5>3. queue[k + 1].type = said[d]
          BY <5>1, <5>2, <4>1, <4>3, <1>2 DEF IInv, Heard
        <5>. QED  BY <5>1, <5>3, <4>1, <4>2, <2>4
      <4>. QED  BY <4>5, <4>6
    <3>. QED  BY <3>1, <3>2
  <2>9. said' \in [Camera -> Said] /\ lost' \subseteq Camera /\ c \notin lost'
    BY <2>1, <1>0 DEF Said
  <2>10. Len(queue') <= MaxQueue
    BY <2>2, <2>3, <1>0
  <2>. HIDE DEF e, kept, full, Later
  <2>. QED  BY <1>2, <2>3, <2>4, <2>5, <2>6, <2>7, <2>8, <2>9, <2>10
<1>. QED  BY <1>1, <1>2

(***************************************************************************)
(* The recorders.                                                          *)
(***************************************************************************)

\* Only an announcement makes a recorder run that did not.
LEMMA RecorderStep ==
    ASSUME IInv, NEW c \in Camera, RecorderOnly, UNCHANGED <<size, left>>,
           entry' \in [Camera -> {"none", "running", "failed", "dead"}],
           draining' \in [Camera -> 0..2],
           main = "up" => \A d \in Camera : draining'[d] \in 0..1,
           rows' \subseteq rows, ahead' \subseteq Camera,
           \A d \in Camera \ {c} : entry'[d] = entry[d] /\ draining'[d] = draining[d],
           main # "up" => (Running(c)' => Running(c)),
           loop \in Walking => \A d \in ahead : d \in ahead' \/ ~Running(d)',
           \/ UNCHANGED bus /\ (Running(c)' => Running(c)) /\ (Held(c) => Held(c)')
           \/ Emit("started", c) /\ Running(c)'
           \/ Emit("stopped", c) /\ (Running(c)' => Running(c))
    PROVE  IInv'
<1>0. UNCHANGED <<detectors, loop, cam, size, left, main, torn>>
  BY DEF RecorderOnly
<1>1. Ordered'
  BY <1>0 DEF IInv, Ordered
<1>2. CASE UNCHANGED bus /\ (Running(c)' => Running(c)) /\ (Held(c) => Held(c)')
  <2>0. UNCHANGED <<queue, said, lost>>
    BY <1>2 DEF bus
  <2>1. TypeOK'
    BY <1>0, <2>0 DEF IInv, TypeOK
  <2>2. Heard'
    BY <1>0, <2>0 DEF IInv, Heard
  <2>3. \A d \in Camera : (Running(d)' => Running(d)) /\ (Held(d) => Held(d)')
    BY <1>2
  <2>4. Truthful'
    <3>. HIDE DEF Held
    <3>. QED  BY <1>0, <2>0, <2>3 DEF IInv, Truthful
  <2>5. Walked'
    <3>. SUFFICES ASSUME loop \in Walking, NEW d \in rows' \ lost', Silent(d)',
                         Running(d)'
                  PROVE  d \in ahead' \cup detectors' \cup {cam'}
      BY <1>0, <2>0, <2>3 DEF IInv, Walked
    <3>1. d \in Camera
      BY DEF IInv, TypeOK
    <3>2. d \in ahead \cup detectors \cup {cam}
      BY <3>1, <2>0, <2>3 DEF IInv, Walked
    <3>. QED  BY <3>2, <1>0
  <2>6. Followed'
    BY <1>0, <2>0, <2>3 DEF IInv, Followed
  <2>. QED  BY <1>1, <2>1, <2>2, <2>4, <2>5, <2>6 DEF IInv
<1>3. ASSUME NEW type \in {"started", "stopped"}, Emit(type, c),
             type = "started" => Running(c)',
             type = "stopped" => (Running(c)' => Running(c))
      PROVE  IInv'
  <2>1. /\ queue' \in Seq(Event) /\ Len(queue') <= MaxQueue
        /\ said' \in [Camera -> Said] /\ lost' \subseteq Camera
        /\ Heard'
        /\ loop = "boot" => UNCHANGED <<queue, said, lost>>
        /\ loop # "boot" =>
              /\ said'[c] = type /\ c \notin lost' /\ ~Silent(c)'
              /\ \A d \in Camera \ {c} :
                    /\ said'[d] = said[d]
                    /\ d \notin lost' => d \notin lost /\ (Silent(d)' => Silent(d))
    BY <1>0, <1>3, EmitStep
  <2>2. TypeOK'
    BY <1>0, <2>1 DEF IInv, TypeOK
  <2>3. CASE loop = "boot"
    <3>1. Walked' /\ Followed' /\ Truthful'
      BY <2>1, <2>3, <1>0 DEF IInv, Truthful, Walked, Followed
    <3>. QED  BY <3>1, <2>1, <2>2, <1>1 DEF IInv
  <2>4. CASE loop # "boot"
    <3>1. \A d \in Camera : Running(d)' => said'[d] # "nothing"
      BY <2>1, <2>4, <1>3 DEF IInv, Walked
    <3>2. \A d \in Camera : said[d] # "nothing" => said'[d] # "nothing"
      BY <2>1, <2>4
    <3>3. Truthful'
      <4>. SUFFICES ASSUME NEW d \in Camera, said'[d] = "started" PROVE Held(d)'
        BY <1>0, <2>4 DEF Truthful
      <4>1. CASE d = c
        BY <4>1, <2>1, <2>4, <1>3
      <4>2. CASE d # c
        BY <4>2, <2>1, <2>4 DEF IInv, Truthful
      <4>. QED  BY <4>1, <4>2
    <3>4. ASSUME loop \in Walking
          PROVE  /\ \A d \in detectors \cup {cam} : said'[d] # "nothing"
                 /\ \A d \in Camera \ lost' : said'[d] = "stopped" => ~Silent(d)'
                 /\ \A d \in rows' \ lost' :
                       Silent(d)' /\ Running(d)' => d \in ahead' \cup detectors \cup {cam}
      <4>1. detectors \cup {cam} \subseteq Camera /\ rows' \subseteq Camera
        BY <3>4 DEF IInv, TypeOK, Ordered
      <4>2. \A d \in detectors \cup {cam} : said'[d] # "nothing"
        BY <3>2, <3>4, <4>1 DEF IInv, Walked
      <4>3. \A d \in Camera \ lost' : said'[d] = "stopped" => ~Silent(d)'
        BY <3>4, <2>1, <2>4 DEF IInv, Walked
      <4>4. ASSUME NEW d \in rows' \ lost', Silent(d)', Running(d)'
            PROVE  d \in ahead' \cup detectors \cup {cam}
        <5>1. d \in Camera /\ d # c
          BY <4>1, <4>4, <2>1, <2>4
        <5>2. d \in rows \ lost /\ Silent(d) /\ Running(d)
          BY <4>4, <5>1, <2>1, <2>4
        <5>3. d \in ahead \cup detectors \cup {cam}
          BY <5>2, <3>4 DEF IInv, Walked
        <5>. QED  BY <5>3, <3>4, <4>4
      <4>. QED  BY <4>2, <4>3, <4>4
    <3>5. Walked'
      <4>. HIDE DEF Silent, Running
      <4>. QED  BY <3>1, <3>4, <1>0, <2>4 DEF Walked
    <3>6. Followed'
      <4>. SUFFICES ASSUME loop \in Working, NEW d \in Camera \ lost', Silent(d)'
                    PROVE  /\ said'[d] # "started" => d \notin detectors /\ ~InHand(d)
                           /\ said'[d] = "started" /\ Running(d)' /\ d \in rows'
                                  => d \in detectors \/ InHand(d)
        BY <1>0 DEF Followed
      <4>1. d # c
        BY <2>1, <2>4
      <4>2. /\ d \in Camera \ lost /\ Silent(d) /\ said'[d] = said[d]
            /\ entry'[d] = entry[d] /\ (d \in rows' => d \in rows)
        BY <4>1, <2>1, <2>4
      <4>. QED  BY <4>2 DEF IInv, Followed
    <3>. QED  BY <3>3, <3>5, <3>6, <2>1, <2>2, <1>1 DEF IInv
  <2>. QED  BY <2>3, <2>4
<1>. QED  BY <1>2, <1>3

LEMMA RecordersStep == ASSUME IInv, Recorders PROVE IInv'
<1>0. /\ entry \in [Camera -> {"none", "running", "failed", "dead"}]
      /\ draining \in [Camera -> 0..2] /\ rows \subseteq Camera /\ ahead \subseteq Camera
      /\ main = "up" => \A d \in Camera : draining[d] \in 0..1
  BY DEF IInv, TypeOK, Ordered
<1>. SUFFICES ASSUME NEW c \in Camera,
                     \/ RecStarts(c) \/ RecFails(c) \/ RecRespawns(c) \/ RecGivesUp(c)
                     \/ RecStops(c) \/ RecCleared(c) \/ RecStopped(c)
                     \/ SegmentCorrupt(c) \/ CameraLost(c) \/ CameraDeleted(c)
              PROVE  IInv'
  BY DEF Recorders
<1>1. ASSUME NEW recording \in {"running", "failed"}, Insert(c, recording)
      PROVE  /\ entry' \in [Camera -> {"none", "running", "failed", "dead"}]
             /\ entry'[c] = recording /\ \A d \in Camera \ {c} : entry'[d] = entry[d]
             /\ UNCHANGED <<size, left>> /\ ahead' \subseteq Camera
             /\ \A d \in ahead : d \in ahead'
  BY <1>0, <1>1 DEF Insert
<1>2. ASSUME Pop(c)
      PROVE  /\ entry' \in [Camera -> {"none", "running", "failed", "dead"}]
             /\ entry'[c] = "none" /\ \A d \in Camera \ {c} : entry'[d] = entry[d]
             /\ UNCHANGED <<size, left>> /\ ahead' \subseteq Camera
             /\ \A d \in ahead : d \in ahead' \/ d = c
  BY <1>0, <1>2 DEF Pop
<1>3. CASE RecStarts(c)
  <2>1. /\ main = "up" /\ RecorderOnly /\ Emit("started", c) /\ Insert(c, "running")
        /\ UNCHANGED <<draining, rows>>
    BY <1>3 DEF RecStarts
  <2>. QED  BY <2>1, <1>0, <1>1, RecorderStep
<1>4. CASE RecFails(c)
  <2>1. /\ RecorderOnly /\ UNCHANGED <<bus, draining, rows>> /\ Insert(c, "failed")
        /\ entry[c] = "none"
    BY <1>4 DEF RecFails
  <2>2. ~Running(c)' /\ (Held(c) => Held(c)')
    BY <2>1, <1>1
  <2>. QED  BY <2>1, <2>2, <1>0, <1>1, RecorderStep
<1>5. CASE RecGivesUp(c)
  <2>1. /\ RecorderOnly /\ UNCHANGED <<bus, draining, rows, size, left, ahead>>
        /\ entry' = [entry EXCEPT ![c] = "dead"]
    BY <1>5 DEF RecGivesUp, walk
  <2>2. /\ entry' \in [Camera -> {"none", "running", "failed", "dead"}]
        /\ ~Running(c)' /\ Held(c)'
        /\ \A d \in Camera \ {c} : entry'[d] = entry[d]
    BY <2>1, <1>0
  <2>. QED  BY <2>1, <2>2, <1>0, RecorderStep
<1>6. CASE RecRespawns(c) \/ SegmentCorrupt(c) \/ CameraLost(c)
  <2>1. /\ RecorderOnly /\ UNCHANGED <<entry, draining, rows, size, left, ahead>>
        /\ (Emit("started", c) /\ Running(c)') \/ Emit("stopped", c)
    BY <1>6 DEF RecRespawns, SegmentCorrupt, CameraLost, recorder, walk
  <2>. QED  BY <2>1, <1>0, RecorderStep
<1>7. CASE RecStops(c)
  <2>1. /\ main = "up" /\ RecorderOnly /\ UNCHANGED <<bus, rows>> /\ Pop(c)
        /\ draining' = [draining EXCEPT ![c] = @ + Calls(c)]
        /\ draining[c] = 0 \/ entry[c] = "failed"
    BY <1>7 DEF RecStops
  <2>2. /\ draining' \in [Camera -> 0..2]
        /\ \A d \in Camera : draining'[d] \in 0..1
        /\ \A d \in Camera \ {c} : draining'[d] = draining[d]
        /\ draining[c] > 0 => draining'[c] > 0
        /\ entry[c] \in {"running", "dead"} => draining'[c] > 0
    BY <2>1, <1>0 DEF Calls
  <2>3. ~Running(c)' /\ (Held(c) => Held(c)')
    BY <2>1, <2>2, <1>2
  <2>. QED  BY <2>1, <2>2, <2>3, <1>0, <1>2, RecorderStep
<1>8. CASE RecCleared(c)
  <2>1. /\ RecorderOnly /\ Emit("stopped", c) /\ Pop(c) /\ UNCHANGED <<draining, rows>>
    BY <1>8 DEF RecCleared
  <2>2. ~Running(c)'
    BY <2>1, <1>2
  <2>. QED  BY <2>1, <2>2, <1>0, <1>2, RecorderStep
<1>9. CASE RecStopped(c)
  <2>1. /\ RecorderOnly /\ Emit("stopped", c) /\ UNCHANGED <<entry, rows, size, left, ahead>>
        /\ draining[c] > 0 /\ draining' = [draining EXCEPT ![c] = @ - 1]
    BY <1>9 DEF RecStopped, walk
  <2>2. /\ draining' \in [Camera -> 0..2]
        /\ main = "up" => \A d \in Camera : draining'[d] \in 0..1
        /\ \A d \in Camera \ {c} : draining'[d] = draining[d]
    BY <2>1, <1>0
  <2>. QED  BY <2>1, <2>2, <1>0, RecorderStep
<1>10. CASE CameraDeleted(c)
  <2>1. /\ RecorderOnly /\ rows' = rows \ {c}
        /\ UNCHANGED <<entry, draining, bus, size, left, ahead>>
    BY <1>10 DEF CameraDeleted, walk
  <2>. QED  BY <2>1, <1>0, RecorderStep
<1>. QED  BY <1>3, <1>4, <1>5, <1>6, <1>7, <1>8, <1>9, <1>10

(***************************************************************************)
(* run_forever.                                                            *)
(***************************************************************************)

\* A turn of the walk, when every running recorder that nobody announced is
\* among the entries still ahead or has its detector.
LEMMA WalkStep ==
    ASSUME IInv, loop \in {"boot"} \cup Walking,
           NEW n \in 0..Cardinality(Camera), NEW k \in 0..Cardinality(Camera),
           NEW entries \in SUBSET Camera, Walk(n, k, entries),
           UNCHANGED <<recorder, lost, main, torn, queue>>,
           detectors' \subseteq Camera, said' \in [Camera -> Said], Truthful',
           \A c \in Camera : Running(c) => said'[c] # "nothing",
           \A c \in detectors' : said'[c] # "nothing",
           \A c \in Camera \ lost : said'[c] = "stopped" => ~Silent(c),
           \A c \in rows \ lost :
               Silent(c) /\ Running(c) => c \in entries \cup detectors',
           \A c \in Camera \ lost : \A j \in 1..Len(queue) :
               queue[j].camera = c /\ (\A i \in 1..Len(queue) : i > j => queue[i].camera # c)
                   => queue[j].type = said'[c]
    PROVE  IInv'
<1>. DEFINE waits == {c \in entries : Running(c) /\ c \in rows}
<1>1. UNCHANGED <<entry, draining, rows>>
  BY DEF recorder
<1>2. main \in {"up", "recorders", "await", "raised"} /\ Cardinality(Camera) \in Nat
  BY FiniteAssumption, FS_CardinalityType DEF IInv, Ordered, TypeOK
<1>3. ASSUME WalkEnds("died") PROVE IInv'
  <2>1. loop' = "died" /\ cam' = None /\ size' = 0 /\ left' = 0 /\ ahead' = {}
    BY <1>3 DEF WalkEnds, Goto
  <2>2. TypeOK'
    BY <2>1, <1>1, <1>2 DEF IInv, TypeOK, Loop
  <2>3. Heard' /\ Walked' /\ Followed'
    BY <2>1, <1>1 DEF Heard, Walked, Followed
  <2>4. Ordered'
    BY <2>1, <1>1, <1>2 DEF IInv, Ordered
  <2>. QED  BY <2>2, <2>3, <2>4 DEF IInv
<1>4. ASSUME NEW c \in waits, NEW rest \in SUBSET entries, waits \subseteq rest,
             Goto("boot_row", c), ahead' = rest \ {c},
             size' = n, left' \in 0..Cardinality(Camera)
      PROVE  IInv'
  <2>1. /\ loop' = "boot_row" /\ cam' = c /\ c \in Camera /\ Running(c)
    BY <1>4 DEF Goto
  <2>2. TypeOK'
    BY <2>1, <1>1, <1>4 DEF IInv, TypeOK, Loop
  <2>3. Heard' /\ Followed'
    BY <2>1 DEF Heard, Followed
  <2>4. \A d \in rows \ lost :
           Silent(d) /\ Running(d) => d \in ahead' \cup detectors' \cup {cam'}
    BY <2>1, <1>4
  <2>5. Walked'
    BY <2>1, <2>4, <1>1 DEF Walked
  <2>6. Ordered'
    BY <2>1, <1>1, <1>2 DEF IInv, Ordered
  <2>. QED  BY <2>2, <2>3, <2>5, <2>6 DEF IInv
<1>5. ASSUME waits = {}, WalkEnds("idle") PROVE IInv'
  <2>1. loop' = "idle" /\ cam' = None /\ size' = 0 /\ left' = 0 /\ ahead' = {}
    BY <1>5 DEF WalkEnds, Goto
  <2>2. TypeOK'
    BY <2>1, <1>1, <1>2 DEF IInv, TypeOK, Loop
  <2>3. Heard' /\ Walked'
    BY <2>1, <1>1 DEF Heard, Walked
  <2>4. Followed'
    <3>. SUFFICES ASSUME NEW c \in Camera \ lost, Silent(c)
                  PROVE  /\ said'[c] # "started" => c \notin detectors'
                         /\ Running(c) /\ c \in rows => c \in detectors'
      BY <2>1, <1>1 DEF Followed
    <3>1. said'[c] \in {"nothing", "started", "stopped"}
      BY DEF Said
    <3>. QED  BY <3>1, <1>5
  <2>5. Ordered'
    BY <2>1, <1>1, <1>2 DEF IInv, Ordered
  <2>. QED  BY <2>2, <2>3, <2>4, <2>5 DEF IInv
<1>6. ASSUME NEW over \in SUBSET {c \in entries : ~(Running(c) /\ c \in rows)},
             k - Cardinality(over) > 0
      PROVE  k - Cardinality(over) - 1 \in 0..Cardinality(Camera)
  <2>1. over \subseteq Camera
    OBVIOUS
  <2>2. Cardinality(over) \in Nat
    BY <2>1, FiniteAssumption, FS_Subset, FS_CardinalityType
  <2>. QED  BY <2>2, <1>2, <1>6
<1>7. CASE Cardinality(Keys) # n
  BY <1>7, <1>3 DEF Walk
<1>8. CASE Cardinality(Keys) = n
  <2>1. PICK over \in SUBSET {c \in entries : ~(Running(c) /\ c \in rows)} :
           \/ entries \ over = {} /\ WalkEnds("idle")
           \/ WalkEnds("died")
           \/ /\ k - Cardinality(over) > 0
              /\ \E c \in entries \ over :
                    /\ Running(c) /\ c \in rows
                    /\ Goto("boot_row", c) /\ ahead' = (entries \ over) \ {c}
              /\ size' = n /\ left' = k - Cardinality(over) - 1
    BY <1>8 DEF Walk
  <2>2. waits \subseteq entries \ over
    OBVIOUS
  <2>. HIDE DEF waits
  <2>3. CASE entries \ over = {} /\ WalkEnds("idle")
    <3>1. waits = {}
      BY <2>2, <2>3
    <3>. QED  BY <3>1, <2>3, <1>5
  <2>4. CASE WalkEnds("died")
    BY <2>4, <1>3
  <2>5. CASE /\ k - Cardinality(over) > 0
             /\ \E c \in entries \ over :
                   /\ Running(c) /\ c \in rows
                   /\ Goto("boot_row", c) /\ ahead' = (entries \ over) \ {c}
             /\ size' = n /\ left' = k - Cardinality(over) - 1
    <3>1. left' \in 0..Cardinality(Camera)
      BY <2>5, <1>6
    <3>2. PICK c \in entries \ over :
             /\ Running(c) /\ c \in rows
             /\ Goto("boot_row", c) /\ ahead' = (entries \ over) \ {c}
      BY <2>5
    <3>3. c \in waits
      BY <3>2 DEF waits
    <3>. QED  BY <2>2, <2>5, <3>1, <3>2, <3>3, <1>4
  <2>. QED  BY <2>1, <2>3, <2>4, <2>5
<1>. QED  BY <1>7, <1>8

LEMMA LoopSubscribeStep == ASSUME IInv, LoopSubscribe PROVE IInv'
<1>1. /\ loop = "boot" /\ Walk(Cardinality(Keys), Cardinality(Keys), Keys)
      /\ queue = << >>
      /\ said' = [c \in Camera |-> IF Running(c) THEN "started" ELSE "nothing"]
      /\ UNCHANGED <<recorder, lost, main, torn, queue, detectors>> /\ detectors' = {}
  BY DEF LoopSubscribe, LoopOnly, IInv, Walked
<1>2. Keys \in SUBSET Camera /\ \A c \in Camera : Running(c) => c \in Keys
  BY DEF Keys
<1>3. Cardinality(Keys) \in 0..Cardinality(Camera)
  <2>1. /\ IsFiniteSet(Keys) /\ Cardinality(Keys) <= Cardinality(Camera)
        /\ Cardinality(Camera) \in Nat
    BY <1>2, FiniteAssumption, FS_Subset, FS_CardinalityType
  <2>2. Cardinality(Keys) \in Nat
    BY <2>1, FS_CardinalityType
  <2>. QED  BY <2>1, <2>2
<1>4. said' \in [Camera -> Said] /\ \A c \in Camera : said'[c] # "stopped"
  BY <1>1 DEF Said
<1>5. \A c \in Camera : Running(c) => said'[c] # "nothing"
  BY <1>1
<1>6. Truthful'
  <2>1. loop' # "boot"
    BY <1>1 DEF Walk, WalkEnds, Goto
  <2>2. \A c \in Camera : said'[c] = "started" => Running(c)'
    BY <1>1 DEF recorder
  <2>. QED  BY <2>1, <2>2 DEF Truthful
<1>7. Len(queue) = 0
  BY <1>1
<1>8. \A c \in rows \ lost : Silent(c) /\ Running(c) => c \in Keys \cup detectors'
  BY <1>2 DEF IInv, TypeOK
<1>. QED  BY <1>1, <1>2, <1>3, <1>4, <1>5, <1>6, <1>7, <1>8, WalkStep

\* What the walk knows when it comes past a camera.
LEMMA WalkKnows ==
    ASSUME IInv, loop \in Walking
    PROVE  /\ said \in [Camera -> Said] /\ cam \in Camera
           /\ size \in 0..Cardinality(Camera) /\ left \in 0..Cardinality(Camera)
           /\ ahead \in SUBSET Camera /\ detectors \subseteq Camera
           /\ \A c \in Camera : Running(c) => said[c] # "nothing"
           /\ \A c \in detectors \cup {cam} : said[c] # "nothing"
           /\ \A c \in Camera \ lost : said[c] = "stopped" => ~Silent(c)
           /\ \A c \in rows \ lost :
                 Silent(c) /\ Running(c) => c \in ahead \cup detectors \cup {cam}
           /\ \A c \in Camera \ lost : \A j \in 1..Len(queue) :
                 queue[j].camera = c
                 /\ (\A i \in 1..Len(queue) : i > j => queue[i].camera # c)
                     => queue[j].type = said[c]
BY DEF IInv, TypeOK, Walked, Heard, Ordered

LEMMA BootStep == ASSUME IInv, BootRow \/ BootAttach PROVE IInv'
<1>1. CASE BootRow /\ cam \notin detectors
  <2>1. /\ loop = "boot_row" /\ loop' = "boot_heat" /\ cam' = cam
        /\ UNCHANGED <<entry, draining, rows, lost, main, torn, queue, said, detectors,
                       size, left, ahead>>
    BY <1>1 DEF BootRow, LoopOnly, recorder, walk, Goto
  <2>2. TypeOK'
    BY <2>1 DEF IInv, TypeOK, Loop
  <2>3. Heard' /\ Truthful' /\ Walked'
    BY <2>1 DEF IInv, Heard, Truthful, Walked
  <2>4. Followed' /\ Ordered'
    BY <2>1 DEF IInv, Followed, Ordered
  <2>. QED  BY <2>2, <2>3, <2>4 DEF IInv
<1>2. CASE BootAttach \/ (BootRow /\ cam \in detectors)
  <2>1. /\ loop \in Walking /\ Walk(size, left, ahead)
        /\ detectors' = detectors \cup {cam}
        /\ UNCHANGED <<recorder, lost, main, torn, queue, said>>
    BY <1>2 DEF BootAttach, BootRow, LoopOnly
  <2>2. Truthful'
    <3>1. loop' # "boot"
      BY <2>1 DEF Walk, WalkEnds, Goto
    <3>. QED  BY <2>1, <3>1 DEF IInv, Truthful, recorder
  <2>3. detectors' \subseteq Camera
    BY <2>1, WalkKnows
  <2>. QED  BY <2>1, <2>2, <2>3, WalkKnows, WalkStep
<1>. QED  BY <1>1, <1>2

LEMMA LoopTakeStep == ASSUME IInv, LoopTake PROVE IInv'
<1>. DEFINE c == Head(queue).camera
            type == Head(queue).type
<1>0. /\ loop = "idle" /\ queue # << >> /\ queue' = Tail(queue)
      /\ queue \in Seq(Event)
      /\ UNCHANGED <<entry, draining, rows, lost, main, torn, said, size, left,
                 ahead>>
  BY DEF LoopTake, LoopOnly, recorder, walk, IInv, TypeOK
<1>1. /\ queue' \in Seq(Event) /\ Head(queue) = queue[1] /\ Head(queue) \in Event
      /\ Len(queue) \in Nat /\ Len(queue) >= 1 /\ Len(queue') = Len(queue) - 1
      /\ \A k \in 1..Len(queue') : queue'[k] = queue[k + 1]
  BY <1>0
<1>2. /\ c \in Camera /\ type \in {"started", "stopped"}
  BY <1>1 DEF Event
<1>3. \/ /\ type = "stopped" /\ c \in detectors /\ detectors' = detectors \ {c}
         /\ loop' = "stop_tasks" /\ cam' = c
      \/ /\ type = "stopped" /\ c \notin detectors
         /\ UNCHANGED <<detectors, loop, cam>>
      \/ /\ type = "started" /\ c \in Keys \cap rows /\ detectors' = detectors
         /\ loop' = "row" /\ cam' = c
      \/ /\ type = "started" /\ c \notin Keys \cap rows
         /\ UNCHANGED <<detectors, loop, cam>>
  BY <1>2 DEF LoopTake, Detach, Goto
<1>4. ASSUME NEW k \in 1..Len(queue), k # 1
      PROVE  k - 1 \in 1..Len(queue') /\ queue'[k - 1] = queue[k]
  <2>1. k - 1 \in 1..Len(queue') /\ (k - 1) + 1 = k
    BY <1>1, <1>4
  <2>. QED  BY <2>1, <1>1
<1>. HIDE DEF c, type
<1>5. TypeOK'
  <2>1. Len(queue') <= MaxQueue
    BY <1>1, QueueAssumption DEF IInv, TypeOK
  <2>. QED  BY <2>1, <1>0, <1>1, <1>2, <1>3 DEF IInv, TypeOK, Loop
<1>6. Heard'
  <2>. SUFFICES ASSUME NEW d \in Camera \ lost, NEW k \in 1..Len(queue'),
                       queue'[k].camera = d,
                       \A j \in 1..Len(queue') : j > k => queue'[j].camera # d
                PROVE  queue'[k].type = said[d]
    BY <1>0 DEF Heard
  <2>1. k + 1 \in 1..Len(queue) /\ queue[k + 1] = queue'[k]
    BY <1>1
  <2>2. ASSUME NEW j \in 1..Len(queue), j > k + 1 PROVE queue[j].camera # d
    <3>1. j - 1 \in 1..Len(queue') /\ queue'[j - 1] = queue[j] /\ j - 1 > k
      BY <2>2, <1>4
    <3>. QED  BY <3>1
  <2>. QED  BY <2>1, <2>2, <1>0 DEF IInv, Heard
<1>7. Truthful' /\ Walked'
  BY <1>0, <1>3 DEF IInv, Truthful, Walked
<1>8. Followed'
  <2>. SUFFICES ASSUME NEW d \in Camera \ lost, Silent(d)'
                PROVE  /\ said[d] # "started" => d \notin detectors' /\ ~InHand(d)'
                       /\ said[d] = "started" /\ Running(d) /\ d \in rows
                              => d \in detectors' \/ InHand(d)'
    BY <1>0 DEF Followed
  <2>1. CASE d = c
    <3>1. 1 \in 1..Len(queue) /\ queue[1].camera = d /\ queue[1].type = type
      BY <2>1, <1>1 DEF c, type
    <3>2. \A j \in 1..Len(queue) : j > 1 => queue[j].camera # d
      BY <1>4
    <3>3. type = said[d]
      BY <3>1, <3>2, <1>0 DEF IInv, Heard
    <3>. QED  BY <3>3, <2>1, <1>0, <1>2, <1>3 DEF Keys
  <2>2. CASE d # c
    <3>1. Silent(d)
      <4>1. \A k \in 1..Len(queue) : k # 1 => queue[k].camera # d
        BY <1>4
      <4>. QED  BY <4>1, <2>2, <1>1 DEF c
    <3>2. /\ said[d] # "started" => d \notin detectors
          /\ said[d] = "started" /\ Running(d) /\ d \in rows => d \in detectors
      BY <3>1, <1>0 DEF IInv, Followed
    <3>. QED  BY <3>2, <2>2, <1>0, <1>3
  <2>. QED  BY <2>1, <2>2
<1>9. Ordered'
  BY <1>0, <1>2, <1>3 DEF IInv, Ordered
<1>. QED  BY <1>5, <1>6, <1>7, <1>8, <1>9 DEF IInv

LEMMA LoopRestStep == ASSUME IInv, LoopRow \/ LoopAttach \/ LoopStops PROVE IInv'
<1>0. UNCHANGED <<entry, draining, rows, lost, main, torn, queue, said, size, left,
                 ahead>>
  BY DEF LoopRow, LoopAttach, LoopStops, LoopOnly, recorder, walk
<1>1. \/ /\ loop = "row" /\ cam \in detectors /\ loop' = "idle" /\ cam' = None
         /\ UNCHANGED detectors
      \/ /\ loop = "row" /\ cam \notin detectors /\ loop' = "heat" /\ cam' = cam
         /\ UNCHANGED detectors
      \/ /\ loop = "heat" /\ detectors' = detectors \cup {cam} /\ loop' = "idle"
         /\ cam' = None
      \/ /\ loop \in Stopping \ {"stop_close"} /\ loop' \in Stopping /\ cam' = cam
         /\ UNCHANGED detectors
      \/ /\ loop = "stop_close" /\ loop' = "idle" /\ cam' = None
         /\ UNCHANGED detectors
  BY DEF LoopRow, LoopAttach, LoopStops, Goto
<1>2. loop \in Working /\ loop' \in Working /\ (loop # "idle" => cam \in Camera)
  BY <1>1 DEF IInv, Ordered
<1>3. TypeOK'
  BY <1>0, <1>1, <1>2 DEF IInv, TypeOK, Loop
<1>4. Heard' /\ Truthful' /\ Walked'
  BY <1>0, <1>1 DEF IInv, Heard, Truthful, Walked
<1>5. Followed'
  <2>. SUFFICES ASSUME NEW d \in Camera \ lost, Silent(d)
                PROVE  /\ said[d] # "started" => d \notin detectors' /\ ~InHand(d)'
                       /\ said[d] = "started" /\ Running(d) /\ d \in rows
                              => d \in detectors' \/ InHand(d)'
    BY <1>0 DEF Followed
  <2>1. /\ said[d] # "started" => d \notin detectors /\ ~InHand(d)
        /\ said[d] = "started" /\ Running(d) /\ d \in rows
               => d \in detectors \/ InHand(d)
    BY <1>2 DEF IInv, Followed
  <2>. QED  BY <2>1, <1>1
<1>6. Ordered'
  BY <1>0, <1>1, <1>2 DEF IInv, Ordered
<1>. QED  BY <1>3, <1>4, <1>5, <1>6 DEF IInv

(***************************************************************************)
(* The shutdown.                                                           *)
(***************************************************************************)
LEMMA ShutdownBeginsStep == ASSUME IInv, ShutdownBegins PROVE IInv'
<1>1. /\ main = "up" /\ main' = "recorders" /\ entry' = [c \in Camera |-> "none"]
      /\ ahead' = {} /\ draining' = [c \in Camera |-> draining[c] + Calls(c)]
      /\ UNCHANGED <<rows, queue, said, lost, detectors, loop, cam, size, left, torn>>
  BY DEF ShutdownBegins, bus
<1>2. /\ \A c \in Camera : draining[c] \in 0..1 /\ Calls(c) \in 0..1
      /\ \A c \in Camera : Running(c) \/ entry[c] = "dead" => Calls(c) = 1
  BY <1>1 DEF IInv, Ordered, Calls
<1>3. TypeOK'
  <2>1. draining' \in [Camera -> 0..2]
    BY <1>1, <1>2
  <2>. QED  BY <2>1, <1>1 DEF IInv, TypeOK
<1>4. \A c \in Camera : ~Running(c)'
  BY <1>1
<1>5. Heard'
  BY <1>1 DEF IInv, Heard
<1>6. Truthful'
  <2>1. \A c \in Camera : Held(c) => draining'[c] > 0
    BY <1>1, <1>2
  <2>2. \A c \in Camera : said[c] = "started" => Held(c)
    BY DEF IInv, Truthful
  <2>. QED  BY <1>1, <2>1, <2>2 DEF IInv, Truthful
<1>7. Walked'
  <2>1. \A c \in rows' : ~Running(c)'
    BY <1>1, <1>4 DEF IInv, TypeOK
  <2>2. UNCHANGED <<loop, detectors, queue, cam, said, lost>>
    BY <1>1
  <2>. HIDE DEF Running
  <2>. QED  BY <1>4, <2>1, <2>2 DEF IInv, Walked
<1>8. Followed'
  BY <1>1, <1>4 DEF IInv, Followed
<1>9. Ordered'
  BY <1>1 DEF IInv, Ordered
<1>. QED  BY <1>3, <1>5, <1>6, <1>7, <1>8, <1>9 DEF IInv

LEMMA ShutdownStep == ASSUME IInv, Shutdown PROVE IInv'
<1>1. CASE MotionCancel
  <2>1. /\ main = "recorders"
        /\ main' = IF loop = "died" THEN "raised" ELSE "await"
        /\ \/ UNCHANGED <<loop, cam, torn>>
           \/ /\ loop' = "ended" /\ cam' = None
              /\ torn' = IF loop \in Stopping THEN torn \cup {cam} ELSE torn
        /\ UNCHANGED <<entry, draining, rows, queue, said, lost, detectors, size,
                       left, ahead>>
    BY <1>1 DEF MotionCancel, NextAfterCancel, Goto, recorder, bus, walk
  <2>2. torn = {} /\ loop # "ended" /\ (loop \in Stopping => cam \in Camera)
    BY <2>1 DEF IInv, Ordered
  <2>3. TypeOK'
    BY <2>1, <2>2 DEF IInv, TypeOK, Loop
  <2>4. Heard' /\ Truthful' /\ Walked'
    <3>1. loop = "boot" => Len(queue) = 0
      BY DEF IInv, Walked
    <3>2. \A c \in Camera : ~Running(c)'
      BY <2>1 DEF IInv, Ordered
    <3>3. Heard'
      BY <2>1, <3>1 DEF IInv, Heard
    <3>4. Truthful' /\ Walked'
      BY <2>1, <3>2 DEF IInv, Truthful, Walked
    <3>. QED  BY <3>3, <3>4
  <2>5. Followed'
    BY <2>1 DEF IInv, Followed
  <2>6. Ordered'
    BY <2>1, <2>2 DEF IInv, Ordered
  <2>. QED  BY <2>3, <2>4, <2>5, <2>6 DEF IInv
<1>2. CASE MotionEnded \/ ShutdownStops
  <2>1. /\ detectors' \subseteq detectors /\ loop = "ended"
        /\ \/ main = "await" /\ main' = "motion"
           \/ main = "motion" /\ main' = main
           \/ main = "motion" /\ main' = "down" /\ detectors' = {}
        /\ UNCHANGED <<entry, draining, rows, queue, said, lost, loop, cam, size,
                       left, ahead, torn>>
    BY <1>2 DEF MotionEnded, ShutdownStops, recorder, bus, walk, IInv, Ordered
  <2>2. TypeOK'
    BY <2>1 DEF IInv, TypeOK
  <2>3. Heard' /\ Truthful' /\ Walked'
    BY <2>1 DEF IInv, Heard, Truthful, Walked
  <2>4. Followed' /\ Ordered'
    BY <2>1 DEF IInv, Followed, Ordered
  <2>. QED  BY <2>2, <2>3, <2>4 DEF IInv
<1>. QED  BY <1>1, <1>2 DEF Shutdown

(***************************************************************************)
(* The theorems.                                                           *)
(***************************************************************************)
LEMMA NextIInv == IInv /\ [Next]_vars => IInv'
<1>. SUFFICES ASSUME IInv, [Next]_vars PROVE IInv'
  OBVIOUS
<1>1. CASE Recorders
  BY <1>1, RecordersStep
<1>2. CASE LoopStep
  BY <1>2, LoopSubscribeStep, BootStep, LoopTakeStep, LoopRestStep DEF LoopStep
<1>3. CASE ShutdownBegins \/ Shutdown
  BY <1>3, ShutdownBeginsStep, ShutdownStep
<1>4. CASE UNCHANGED vars
  <2>1. UNCHANGED <<entry, draining, rows, queue, said, lost, detectors, loop, cam, size,
                   left, ahead, main, torn>>
    BY <1>4 DEF vars, recorder, bus, walk
  <2>2. TypeOK'
    BY <2>1 DEF IInv, TypeOK
  <2>3. Heard' /\ Truthful' /\ Walked'
    BY <2>1 DEF IInv, Heard, Truthful, Walked
  <2>4. Followed' /\ Ordered'
    BY <2>1 DEF IInv, Followed, Ordered
  <2>. QED  BY <2>2, <2>3, <2>4 DEF IInv
<1>. QED  BY <1>1, <1>2, <1>3, <1>4 DEF Next

\* The inductive invariant holds in every state of the motion manager.
THEOREM Invariance == Spec => []IInv
<1>1. Init => IInv
  BY InitIInv
<1>2. IInv /\ [Next]_vars => IInv'
  BY NextIInv
<1>. QED  BY <1>1, <1>2, PTL DEF Spec

\* The state of the motion manager, the bus and the recorders has its type:
\* the queue stays within its bound.
THEOREM TypeCorrect == Spec => []TypeOK
<1>1. IInv => TypeOK
  BY DEF IInv
<1>. QED  BY <1>1, Invariance, PTL

\* At rest the detectors are those of the recorders: what has one is recording,
\* or gave up or is being stopped without a word so far; and what is recording
\* has one, unless the last word about it is that it stopped, or was lost.
THEOREM FollowsRecordersAlways == Spec => []FollowsRecorders
<1>1. IInv => FollowsRecorders
  <2>. SUFFICES ASSUME IInv, AtRest, NEW c \in Camera \ lost
                PROVE  /\ c \in detectors => Held(c)
                       /\ Running(c) /\ c \in rows /\ ~ToldOff(c) => c \in detectors
    BY DEF FollowsRecorders
  <2>1. loop = "idle" /\ Len(queue) = 0
    BY DEF AtRest
  <2>2. /\ c \in detectors => said[c] = "started"
        /\ said[c] = "started" /\ Running(c) /\ c \in rows => c \in detectors
    BY <2>1 DEF IInv, Followed
  <2>3. said[c] = "started" => Held(c)
    BY DEF IInv, Truthful
  <2>4. Running(c) /\ ~ToldOff(c) => said[c] = "started"
    BY <2>1 DEF IInv, TypeOK, Walked, Said, ToldOff
  <2>. QED  BY <2>2, <2>3, <2>4
<1>. QED  BY <1>1, Invariance, PTL

\* When the shutdown is over no detector is left, and at most one was not
\* stopped in order.
THEOREM ShutdownLeavesNoneAlways == Spec => []ShutdownLeavesNone
<1>1. IInv => ShutdownLeavesNone
  <2>. SUFFICES ASSUME IInv, main = "down"
                PROVE  detectors = {} /\ loop = "ended" /\ Cardinality(torn) <= 1
    BY DEF ShutdownLeavesNone
  <2>1. Cardinality(torn) <= 1
    <3>1. CASE torn = {}
      BY <3>1, FS_EmptySet
    <3>2. CASE \E c \in Camera : torn = {c}
      BY <3>2, FS_Singleton
    <3>. QED  BY <3>1, <3>2 DEF IInv, Ordered
  <2>. QED  BY <2>1 DEF IInv, Ordered
<1>. QED  BY <1>1, Invariance, PTL
=============================================================================
