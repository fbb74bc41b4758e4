----------------------- MODULE RecordingManagerProofs -----------------------
(***************************************************************************)
(* For any number of cameras, requests and recorders: type correctness of  *)
(* RecordingManager, that the dict, the _starting set and the calls in     *)
(* progress account for every recorder (OneActive, NoOrphan, StartLock),   *)
(* and that what is recorded comes to agree with the rows (Settled).       *)
(***************************************************************************)
EXTENDS RecordingManager, TLAPS

(***************************************************************************)
(* The inductive invariant.                                                *)
(***************************************************************************)

\* A task that is between calls has none in progress, so starting one, or
\* scheduling a gather, never forgets another.
BetweenCalls == {"boot", "loaded", "idle", "saw_online", "saw_other", "retry",
                 "logout_emit", "reload", "apply"}
CallsFollowPc == \A t \in Task : pc[t] \in BetweenCalls => Quiet(t)

MgrType ==
    /\ recorders \in [Camera -> Rec \cup {None}]
    /\ starting \subseteq Camera
    /\ inst \in [Rec -> Instance]
    /\ call \in [Task -> [Camera -> Call]]

\* A recorder that is neither finished nor unborn was built for a camera.
Owned == \A i \in Rec : inst[i] = Gone \/ (/\ inst[i].life # "gone"
                                           /\ inst[i].owner \in Camera)

\* What an entry of the dict can be.
DictSound ==
    \A c \in Camera : recorders[c] # None =>
        /\ inst[recorders[c]].owner = c
        /\ inst[recorders[c]].life \in {"running", "failed", "dead"}

\* What a call in progress knows of the recorder it holds.
NoneHeld ==
    \A t \in Task, c \in Camera :
        call[t][c].at \in {"idle", "start", "stop"} => call[t][c].rec = None
StartHeld ==
    \A t \in Task, c \in Camera :
        call[t][c].at = "start_wait" =>
            /\ call[t][c].rec \in Rec
            /\ inst[call[t][c].rec].life = "starting"
            /\ inst[call[t][c].rec].owner = c
            /\ recorders[c] = None
StaleHeld ==
    \A t \in Task, c \in Camera :
        call[t][c].at = "clear_stale" =>
            /\ call[t][c].rec \in Rec
            /\ inst[call[t][c].rec].life \in {"dead", "stopping", "gone"}
            /\ inst[call[t][c].rec].life # "gone" =>
                   inst[call[t][c].rec].owner = c
            /\ recorders[c] \in {call[t][c].rec, None}
StopHeld ==
    \A t \in Task, c \in Camera :
        call[t][c].at = "stop_wait" =>
            /\ call[t][c].rec \in Rec
            /\ inst[call[t][c].rec].life \in {"stopping", "gone"}

CallSound == NoneHeld /\ StartHeld /\ StaleHeld /\ StopHeld

MgrInv == /\ MgrType /\ Owned /\ DictSound /\ CallSound
          /\ NoOrphan /\ StartLock


(***************************************************************************)
(* Each operation on the manager's state keeps MgrInv.                     *)
(***************************************************************************)

\* Building a recorder: from an empty or failed entry, or after clear_stale.
LEMMA ConstructKeeps ==
    ASSUME MgrInv, settings.config \in Config,
           NEW t \in Task, NEW c \in Camera, NEW i \in Rec,
           NEW old \in Rec \cup {None}, i # old,
           old # None => /\ inst[old].life \in {"failed", "dead", "stopping", "gone"}
                         /\ inst[old].life # "gone" => inst[old].owner = c,
           recorders[c] \in {old, None},
           call[t][c].at \in {"idle", "start", "clear_stale"},
           Holders(c) \subseteq {t},
           starting' = starting \cup {c},
           Construct(t, c, i, old)
    PROVE  MgrInv'
<1> USE NoneAssumption DEF MgrInv, MgrType, Construct, Unused, At, Gone
<1>1. /\ inst' \in [Rec -> Instance]
      /\ inst'[i] = [life |-> "starting", owner |-> c, built |-> settings.config]
      /\ \A j \in Rec : j # i /\ j # old => inst'[j] = inst[j]
      /\ old \in Rec => inst'[old] = Gone
  BY DEF Instance, Life
<1>2. /\ call' \in [Task -> [Camera -> Call]]
      /\ call'[t][c] = At("start_wait", i)
      /\ \A u \in Task, d \in Camera :
            <<u, d>> # <<t, c>> => call'[u][d] = call[u][d]
  BY DEF Call
<1>3. /\ recorders' \in [Camera -> Rec \cup {None}]
      /\ recorders'[c] = None
      /\ \A d \in Camera : d # c => recorders'[d] = recorders[d]
  OBVIOUS
<1> HIDE DEF Construct
<1>4. MgrType'
  BY <1>1, <1>2, <1>3
<1>5. Owned'
  BY <1>1 DEF Owned
<1>6. DictSound'
  BY <1>1, <1>3 DEF DictSound, Construct
<1>7. NoneHeld'
  BY <1>2 DEF CallSound, NoneHeld
<1>8. StartHeld'
  BY <1>1, <1>2, <1>3 DEF CallSound, StartHeld, Construct
<1>9. StaleHeld'
  BY <1>1, <1>2, <1>3 DEF CallSound, StaleHeld, Construct, Holders
<1>10. StopHeld'
  BY <1>1, <1>2 DEF CallSound, StopHeld, Construct
<1>11. NoOrphan'
  <2> SUFFICES ASSUME NEW j \in Rec
               PROVE  LET d == inst'[j].owner IN
                      /\ inst'[j].life \in {"running", "failed", "dead"}
                            => recorders'[d] = j
                      /\ inst'[j].life = "starting" =>
                            \E u \in Task : call'[u][d] = At("start_wait", j)
                      /\ inst'[j].life = "stopping" =>
                            \E u \in Task : call'[u][d] = At("stop_wait", j)
    BY DEF NoOrphan
  <2>1. CASE j = i
    BY <2>1, <1>1, <1>2
  <2>2. CASE j = old
    BY <2>2, <1>1
  <2>3. CASE j # i /\ j # old
    <3>1. inst'[j] = inst[j] /\ (inst[j] = Gone \/ inst[j].owner \in Camera)
      BY <2>3, <1>1 DEF Owned
    <3>2. \A u \in Task : call[u][inst[j].owner].at \in {"start_wait", "stop_wait"}
             => <<u, inst[j].owner>> # <<t, c>>
      OBVIOUS
    <3>3. recorders[inst[j].owner] = j => inst[j].owner # c
      BY <2>3
    <3>4. CASE inst[j] = Gone
      BY <3>1, <3>4
    <3>5. CASE inst[j].owner \in Camera
      <4> DEFINE d == inst[j].owner
      <4>1. inst[j].life \in {"running", "failed", "dead"} => recorders'[d] = j
        BY <3>3, <3>5, <1>3 DEF NoOrphan
      <4>2. \A u \in Task : call[u][d].at \in {"start_wait", "stop_wait"}
              => call'[u][d] = call[u][d]
        BY <3>2, <3>5, <1>2
      <4>3. ASSUME inst[j].life = "starting"
            PROVE  \E u \in Task : call'[u][d] = At("start_wait", j)
        <5>1. PICK u \in Task : call[u][d] = At("start_wait", j)
          BY <4>3 DEF NoOrphan
        <5> QED
          BY <5>1, <4>2
      <4>4. ASSUME inst[j].life = "stopping"
            PROVE  \E u \in Task : call'[u][d] = At("stop_wait", j)
        <5>1. PICK u \in Task : call[u][d] = At("stop_wait", j)
          BY <4>4 DEF NoOrphan
        <5> QED
          BY <5>1, <4>2
      <4> QED
        BY <3>1, <4>1, <4>3, <4>4
    <3> QED
      BY <3>1, <3>4, <3>5
  <2> QED
    BY <2>1, <2>2, <2>3
<1>12. StartLock'
  <2>1. Holders(c)' = {t}
    BY <1>2 DEF Holders
  <2>2. \A d \in Camera : d # c => Holders(d)' = Holders(d)
    BY <1>2 DEF Holders
  <2> QED
    BY <2>1, <2>2 DEF StartLock
<1> QED
  BY <1>4, <1>5, <1>6, <1>7, <1>8, <1>9, <1>10, <1>11, <1>12 DEF CallSound

\* A call that returns at once, or goes from one form of waiting for the
\* scheduler to another, changes nothing else.
LEMMA CallKeeps ==
    ASSUME MgrInv, NEW t \in Task, NEW c \in Camera, NEW k \in Call,
           k.rec = None, k.at \in {"idle", "start", "stop"},
           call[t][c].at \in {"idle", "start", "stop"},
           call' = [call EXCEPT ![t][c] = k],
           UNCHANGED <<recorders, starting, inst>>
    PROVE  MgrInv'
<1> USE DEF MgrInv, MgrType
<1>1. /\ call' \in [Task -> [Camera -> Call]]
      /\ call'[t][c] = k
      /\ \A u \in Task, d \in Camera :
            <<u, d>> # <<t, c>> => call'[u][d] = call[u][d]
  OBVIOUS
<1>2. CallSound'
  BY <1>1 DEF CallSound, NoneHeld, StartHeld, StaleHeld, StopHeld
<1>3. ASSUME NEW i \in Rec, NEW d, NEW phase \in {"start_wait", "stop_wait"},
             NEW u \in Task, call[u][d] = At(phase, i)
      PROVE  call'[u][d] = At(phase, i)
  <2>1. call[u][d].at = phase
    BY <1>3 DEF At
  <2>2. call'[u][d] = call[u][d]
    BY <2>1
  <2> QED
    BY <2>2, <1>3
<1>4. NoOrphan'
  <2> SUFFICES ASSUME NEW i \in Rec
               PROVE  LET d == inst[i].owner IN
                      /\ inst[i].life \in {"running", "failed", "dead"}
                            => recorders[d] = i
                      /\ inst[i].life = "starting" =>
                            \E u \in Task : call'[u][d] = At("start_wait", i)
                      /\ inst[i].life = "stopping" =>
                            \E u \in Task : call'[u][d] = At("stop_wait", i)
    BY DEF NoOrphan
  <2> QED
    BY <1>3 DEF NoOrphan
<1>5. \A d \in Camera : Holders(d)' = Holders(d)
  BY <1>1 DEF Holders
<1>6. StartLock'
  BY <1>5 DEF StartLock
<1> QED
  BY <1>1, <1>2, <1>4, <1>6 DEF Owned, DictSound

\* The guard was open: nobody holds the camera's lock.
LEMMA NoHolder ==
    ASSUME MgrInv, NEW c \in Camera, ~Locked(c)
    PROVE  Holders(c) = {}
BY DEF MgrInv, StartLock, Locked

LEMMA BeginStartKeeps ==
    ASSUME MgrInv, settings.config \in Config,
           NEW t \in Task, NEW c \in Camera,
           call[t][c].at \in {"idle", "start"},
           BeginStart(t, c)
    PROVE  MgrInv'
<1> USE NoneAssumption
<1>1. CASE call' = [call EXCEPT ![t][c] = Idle] /\ UNCHANGED <<recorders, starting, inst>>
  <2>1. Idle \in Call /\ Idle.rec = None /\ Idle.at = "idle"
    BY DEF Idle, Call
  <2>2. call[t][c].at \in {"idle", "start", "stop"}
    OBVIOUS
  <2> HIDE DEF Idle
  <2> QED
    BY <1>1, <2>1, <2>2, CallKeeps
<1>2. CASE /\ ~Locked(c) /\ Entry(c) \in {"none", "failed"}
           /\ starting' = starting \cup {c}
           /\ \E i \in Rec : Construct(t, c, i, recorders[c])
  <2>1. PICK i \in Rec : Construct(t, c, i, recorders[c])
    BY <1>2
  <2>2. recorders[c] \in Rec \cup {None} /\ i # recorders[c]
    BY <2>1 DEF MgrInv, MgrType, Construct, Unused
  <2>3. recorders[c] # None => /\ inst[recorders[c]].life = "failed"
                               /\ inst[recorders[c]].owner = c
    BY <1>2 DEF Entry, MgrInv, DictSound
  <2>4. Holders(c) \subseteq {t}
    BY <1>2, NoHolder
  <2> QED
    BY <1>2, <2>1, <2>2, <2>3, <2>4, ConstructKeeps
<1>3. CASE /\ ~Locked(c) /\ Entry(c) = "dead"
           /\ starting' = starting \cup {c}
           /\ call' = [call EXCEPT ![t][c] = At("clear_stale", recorders[c])]
           /\ UNCHANGED <<recorders, inst>>
  <2> DEFINE i == recorders[c]
  <2>1. i \in Rec /\ inst[i].life = "dead" /\ inst[i].owner = c
    BY <1>3 DEF MgrInv, MgrType, Entry, DictSound
  <2>2. Holders(c) = {}
    BY <1>3, NoHolder
  <2>3. /\ call' \in [Task -> [Camera -> Call]]
        /\ call'[t][c] = At("clear_stale", i)
        /\ \A u \in Task, d \in Camera :
              <<u, d>> # <<t, c>> => call'[u][d] = call[u][d]
    BY <1>3, <2>1 DEF MgrInv, MgrType, Call, At
  <2>4. CallSound'
    BY <1>3, <2>1, <2>3
       DEF MgrInv, CallSound, NoneHeld, StartHeld, StaleHeld, StopHeld, At
  <2>5. ASSUME NEW j \in Rec, NEW u \in Task, NEW d,
               NEW phase \in {"start_wait", "stop_wait"},
               call[u][d] = At(phase, j)
        PROVE  call'[u][d] = At(phase, j)
    <3>1. call[u][d].at = phase
      BY <2>5 DEF At
    <3>2. call'[u][d] = call[u][d]
      BY <1>3, <3>1 DEF MgrInv, MgrType
    <3> QED
      BY <3>2, <2>5
  <2>6. NoOrphan'
    BY <1>3, <2>5 DEF MgrInv, NoOrphan
  <2>7. Holders(c)' = {t} /\ \A d \in Camera : d # c => Holders(d)' = Holders(d)
    BY <2>2, <2>3 DEF Holders, At
  <2>8. StartLock'
    BY <1>3, <2>7 DEF MgrInv, StartLock
  <2> QED
    BY <1>3, <2>3, <2>4, <2>6, <2>8 DEF MgrInv, MgrType, Owned, DictSound
<1> QED
  BY <1>1, <1>2, <1>3 DEF BeginStart

LEMMA StaleStoppedKeeps ==
    ASSUME MgrInv, settings.config \in Config,
           NEW t \in Task, NEW c \in Camera, StaleStopped(t, c)
    PROVE  MgrInv'
<1> DEFINE old == call[t][c].rec
<1>1. PICK i \in Rec : Construct(t, c, i, old)
  BY DEF StaleStopped
<1>2. /\ old \in Rec
      /\ inst[old].life \in {"dead", "stopping", "gone"}
      /\ inst[old].life # "gone" => inst[old].owner = c
      /\ recorders[c] \in {old, None}
  BY DEF StaleStopped, MgrInv, CallSound, StaleHeld
<1>3. i # old
  BY <1>1 DEF Construct, Unused
<1>4. t \in Holders(c)
  BY DEF StaleStopped, Holders
<1>5. c \in starting /\ Holders(c) = {t}
  BY <1>4 DEF MgrInv, StartLock
<1>6. starting' = starting \cup {c}
  BY <1>5 DEF StaleStopped
<1> QED
  BY <1>1, <1>2, <1>3, <1>5, <1>6, ConstructKeeps, NoneAssumption DEF StaleStopped

\* The end of start_recording: the recorder goes into the dict, or is lost.
LEMMA StartReturnsKeeps ==
    ASSUME MgrInv, NEW t \in Task, NEW c \in Camera, StartReturns(t, c)
    PROVE  MgrInv'
<1> DEFINE i == call[t][c].rec
<1> USE NoneAssumption DEF MgrInv, MgrType
<1>1. /\ i \in Rec /\ inst[i].life = "starting" /\ inst[i].owner = c
      /\ recorders[c] = None /\ inst[i] # Gone
  BY DEF StartReturns, CallSound, StartHeld, Gone
<1>2. /\ call' \in [Task -> [Camera -> Call]]
      /\ call'[t][c] = Idle
      /\ \A u \in Task, d \in Camera :
            <<u, d>> # <<t, c>> => call'[u][d] = call[u][d]
  BY DEF StartReturns, Idle, Call
<1>3. \/ /\ \E l \in {"running", "failed"} : inst' = [inst EXCEPT ![i].life = l]
         /\ recorders' = [recorders EXCEPT ![c] = i]
      \/ inst' = [inst EXCEPT ![i] = Gone] /\ recorders' = recorders
  BY DEF StartReturns
<1>4. /\ inst' \in [Rec -> Instance] /\ recorders' \in [Camera -> Rec \cup {None}]
      /\ \A j \in Rec : j # i => inst'[j] = inst[j]
      /\ \A d \in Camera : d # c => recorders'[d] = recorders[d]
      /\ \/ /\ inst'[i].life \in {"running", "failed"} /\ inst'[i].owner = c
            /\ recorders'[c] = i
         \/ inst'[i] = Gone /\ recorders'[c] = None
  <2>1. ASSUME NEW l \in {"running", "failed"},
               inst' = [inst EXCEPT ![i].life = l]
        PROVE  /\ inst' \in [Rec -> Instance]
               /\ \A j \in Rec : j # i => inst'[j] = inst[j]
               /\ inst'[i].life = l /\ inst'[i].owner = c
    <3>1. inst'[i] = [inst[i] EXCEPT !.life = l]
      BY <1>1, <2>1
    <3>2. inst'[i] \in Instance /\ inst'[i].life = l /\ inst'[i].owner = c
      BY <1>1, <3>1 DEF Instance, Life
    <3> QED
      BY <1>1, <2>1, <3>2
  <2>2. CASE inst' = [inst EXCEPT ![i] = Gone] /\ recorders' = recorders
    BY <1>1, <2>2 DEF Instance, Life, Gone
  <2>3. CASE recorders' = [recorders EXCEPT ![c] = i]
    BY <1>1, <1>3, <2>1, <2>2, <2>3
  <2> QED
    BY <1>3, <2>2, <2>3
<1>5. starting' = starting \ {c}
  BY DEF StartReturns, Release
<1>6. Holders(c) = {t}
  BY DEF StartReturns, Holders, StartLock
<1>7. \A u \in Task, d \in Camera :
          call[u][d].at = "start_wait" /\ call[u][d].rec = i => <<u, d>> = <<t, c>>
  BY <1>1, <1>6 DEF CallSound, StartHeld, Holders
<1>8. \A u \in Task, d \in Camera : \* nobody else holds this recorder
          <<u, d>> # <<t, c>> => call[u][d].rec # i
  BY <1>1, <1>7 DEF CallSound, NoneHeld, StaleHeld, StopHeld, Call
<1>9. MgrType' /\ Owned'
  <2>1. MgrType'
    BY <1>2, <1>4, <1>5
  <2>2. Owned'
    BY <1>4 DEF Owned
  <2> QED
    BY <2>1, <2>2
<1>10. DictSound'
  BY <1>1, <1>4 DEF DictSound
<1>11. NoneHeld' /\ StopHeld'
  <2>1. NoneHeld'
    BY <1>2 DEF CallSound, NoneHeld, Idle
  <2>2. StopHeld'
    BY <1>2, <1>4, <1>8 DEF CallSound, StopHeld, Idle
  <2> QED
    BY <2>1, <2>2
<1>12. StartHeld' /\ StaleHeld'
  <2>1. \A u \in Task : u # t => call[u][c].at \notin {"start_wait", "clear_stale"}
    BY <1>6 DEF Holders
  <2>2. StartHeld'
    BY <1>2, <1>4, <1>8, <2>1 DEF CallSound, StartHeld, Idle
  <2>3. StaleHeld'
    BY <1>2, <1>4, <1>8, <2>1 DEF CallSound, StaleHeld, Idle
  <2> QED
    BY <2>2, <2>3
<1>13. NoOrphan'
  <2> SUFFICES ASSUME NEW j \in Rec
               PROVE  LET d == inst'[j].owner IN
                      /\ inst'[j].life \in {"running", "failed", "dead"}
                            => recorders'[d] = j
                      /\ inst'[j].life = "starting" =>
                            \E u \in Task : call'[u][d] = At("start_wait", j)
                      /\ inst'[j].life = "stopping" =>
                            \E u \in Task : call'[u][d] = At("stop_wait", j)
    BY DEF NoOrphan
  <2>1. CASE j = i
    <3>1. CASE inst'[i] = Gone
      BY <2>1, <3>1 DEF Gone
    <3>2. CASE /\ inst'[i].life \in {"running", "failed"} /\ inst'[i].owner = c
               /\ recorders'[c] = i
      BY <2>1, <3>2
    <3> QED
      BY <1>4, <3>1, <3>2
  <2>2. CASE j # i /\ inst[j] = Gone
    BY <2>2, <1>4 DEF Gone
  <2>3. CASE j # i /\ inst[j].owner \in Camera
    <3> DEFINE d == inst[j].owner
    <3>1. inst'[j] = inst[j]
      BY <2>3, <1>4
    <3>2. inst[j].life \in {"running", "failed", "dead"} => recorders'[d] = j
      BY <2>3, <1>1, <1>4 DEF NoOrphan
    <3>3. \A u \in Task : call[u][d].rec = j => call'[u][d] = call[u][d]
      BY <2>3, <1>2
    <3>4. ASSUME inst[j].life = "starting"
          PROVE  \E u \in Task : call'[u][d] = At("start_wait", j)
      <4>1. PICK u \in Task : call[u][d] = At("start_wait", j)
        BY <3>4 DEF NoOrphan
      <4> QED
        BY <4>1, <3>3 DEF At
    <3>5. ASSUME inst[j].life = "stopping"
          PROVE  \E u \in Task : call'[u][d] = At("stop_wait", j)
      <4>1. PICK u \in Task : call[u][d] = At("stop_wait", j)
        BY <3>5 DEF NoOrphan
      <4> QED
        BY <4>1, <3>3 DEF At
    <3> QED
      BY <3>1, <3>2, <3>4, <3>5
  <2> QED
    BY <2>1, <2>2, <2>3 DEF Owned
<1>14. StartLock'
  <2>1. Holders(c)' = {}
    BY <1>2, <1>6 DEF Holders, Idle
  <2>2. \A d \in Camera : d # c => Holders(d)' = Holders(d)
    BY <1>2 DEF Holders
  <2> QED
    BY <1>5, <2>1, <2>2 DEF StartLock
<1> QED
  BY <1>9, <1>10, <1>11, <1>12, <1>13, <1>14 DEF CallSound

\* A recorder leaves the dict to be stopped, or finishes stopping.
LEMMA RetireKeeps ==
    ASSUME MgrInv, NEW t \in Task, NEW c \in Camera, NEW i \in Rec,
           NEW k \in {Idle, At("stop_wait", i)},
           inst' \in [Rec -> Instance],
           recorders' \in [Camera -> Rec \cup {None}],
           \A j \in Rec : j # i => inst'[j] = inst[j],
           \A d \in Camera : \/ recorders'[d] = recorders[d]
                             \/ recorders'[d] = None,
           \A d \in Camera : recorders'[d] # i,
           \A d \in Camera : recorders[d] # i => recorders'[d] = recorders[d],
           inst[i].life # "starting",
           \/ inst'[i] = Gone
           \/ /\ inst'[i].life = "stopping" /\ inst[i].life # "gone"
              /\ inst[i].owner = c /\ inst'[i].owner = c
              /\ k = At("stop_wait", i),
           call[t][c].at \in {"idle", "start", "stop", "stop_wait"},
           call[t][c].at = "stop_wait" => call[t][c].rec = i,
           call' = [call EXCEPT ![t][c] = k],
           UNCHANGED starting
    PROVE  MgrInv'
<1> USE NoneAssumption DEF MgrInv, MgrType
<1>1. k \in Call /\ k.at \in {"idle", "stop_wait"}
      /\ (k.at = "idle" => k.rec = None) /\ (k.at = "stop_wait" => k.rec = i)
  BY DEF Idle, At, Call
<1>2. /\ call' \in [Task -> [Camera -> Call]]
      /\ call'[t][c] = k
      /\ \A u \in Task, d \in Camera :
            <<u, d>> # <<t, c>> => call'[u][d] = call[u][d]
  BY <1>1
<1>3. inst'[i].life \in {"stopping", "gone"}
  BY DEF Gone
<1>4. Owned'
  BY DEF Owned
<1>5. DictSound'
  BY DEF DictSound
<1>6. NoneHeld'
  BY <1>1, <1>2 DEF CallSound, NoneHeld
<1>7. StartHeld'
  <2> SUFFICES ASSUME NEW u \in Task, NEW d \in Camera,
                      call'[u][d].at = "start_wait"
               PROVE  /\ call'[u][d].rec \in Rec
                      /\ inst'[call'[u][d].rec].life = "starting"
                      /\ inst'[call'[u][d].rec].owner = d
                      /\ recorders'[d] = None
    BY DEF StartHeld
  <2>1. call'[u][d] = call[u][d]
    BY <1>1, <1>2
  <2>2. call[u][d].rec \in Rec /\ call[u][d].rec # i
    BY <2>1 DEF CallSound, StartHeld
  <2> QED
    BY <2>1, <2>2 DEF CallSound, StartHeld
<1>8. StaleHeld'
  <2> SUFFICES ASSUME NEW u \in Task, NEW d \in Camera,
                      call'[u][d].at = "clear_stale"
               PROVE  /\ call'[u][d].rec \in Rec
                      /\ inst'[call'[u][d].rec].life \in {"dead", "stopping", "gone"}
                      /\ inst'[call'[u][d].rec].life # "gone" =>
                             inst'[call'[u][d].rec].owner = d
                      /\ recorders'[d] \in {call'[u][d].rec, None}
    BY DEF StaleHeld
  <2>1. call'[u][d] = call[u][d]
    BY <1>1, <1>2
  <2>2. CASE call[u][d].rec = i
    BY <2>1, <2>2, <1>3 DEF CallSound, StaleHeld, Gone
  <2>3. CASE call[u][d].rec # i
    BY <2>1, <2>3 DEF CallSound, StaleHeld
  <2> QED
    BY <2>2, <2>3
<1>9. StopHeld'
  <2> SUFFICES ASSUME NEW u \in Task, NEW d \in Camera,
                      call'[u][d].at = "stop_wait"
               PROVE  /\ call'[u][d].rec \in Rec
                      /\ inst'[call'[u][d].rec].life \in {"stopping", "gone"}
    BY DEF StopHeld
  <2>1. CASE <<u, d>> = <<t, c>>
    BY <2>1, <1>1, <1>2, <1>3
  <2>2. CASE <<u, d>> # <<t, c>>
    <3>1. call'[u][d] = call[u][d]
      BY <2>2, <1>2
    <3>2. \A j \in Rec : inst'[j].life \in {"stopping", "gone"} \/ inst'[j] = inst[j]
      BY <1>3
    <3>3. call[u][d].rec \in Rec /\ inst[call[u][d].rec].life \in {"stopping", "gone"}
      BY <3>1 DEF CallSound, StopHeld
    <3> QED
      BY <3>1, <3>2, <3>3
  <2> QED
    BY <2>1, <2>2
<1>10. NoOrphan'
  <2> SUFFICES ASSUME NEW j \in Rec
               PROVE  LET d == inst'[j].owner IN
                      /\ inst'[j].life \in {"running", "failed", "dead"}
                            => recorders'[d] = j
                      /\ inst'[j].life = "starting" =>
                            \E u \in Task : call'[u][d] = At("start_wait", j)
                      /\ inst'[j].life = "stopping" =>
                            \E u \in Task : call'[u][d] = At("stop_wait", j)
    BY DEF NoOrphan
  <2>1. CASE j = i
    BY <2>1, <1>2, <1>3 DEF Gone
  <2>2. CASE j # i /\ inst[j] = Gone
    BY <2>2 DEF Gone
  <2>3. CASE j # i /\ inst[j].owner \in Camera
    <3> DEFINE d == inst[j].owner
    <3>1. inst'[j] = inst[j]
      BY <2>3
    <3>2. inst[j].life \in {"running", "failed", "dead"} => recorders'[d] = j
      BY <2>3 DEF NoOrphan
    <3>3. \A u \in Task : /\ call[u][d].rec = j
                          /\ call[u][d].at \in {"start_wait", "stop_wait"}
                          => call'[u][d] = call[u][d]
      BY <2>3, <1>2
    <3>4. ASSUME inst[j].life = "starting"
          PROVE  \E u \in Task : call'[u][d] = At("start_wait", j)
      <4>1. PICK u \in Task : call[u][d] = At("start_wait", j)
        BY <3>4 DEF NoOrphan
      <4> QED
        BY <4>1, <3>3 DEF At
    <3>5. ASSUME inst[j].life = "stopping"
          PROVE  \E u \in Task : call'[u][d] = At("stop_wait", j)
      <4>1. PICK u \in Task : call[u][d] = At("stop_wait", j)
        BY <3>5 DEF NoOrphan
      <4> QED
        BY <4>1, <3>3 DEF At
    <3> QED
      BY <3>1, <3>2, <3>4, <3>5
  <2> QED
    BY <2>1, <2>2, <2>3 DEF Owned
<1>11. StartLock'
  <2>1. \A d \in Camera : Holders(d)' = Holders(d)
    BY <1>1, <1>2 DEF Holders
  <2> QED
    BY <2>1 DEF StartLock
<1> QED
  BY <1>2, <1>4, <1>5, <1>6, <1>7, <1>8, <1>9, <1>10, <1>11 DEF CallSound

LEMMA BeginStopKeeps ==
    ASSUME MgrInv, NEW t \in Task, NEW c \in Camera,
           call[t][c].at \in {"idle", "stop"},
           BeginStop(t, c)
    PROVE  MgrInv'
<1> USE NoneAssumption DEF MgrInv, MgrType
<1> DEFINE i == recorders[c]
<1>1. recorders' = [recorders EXCEPT ![c] = None] /\ UNCHANGED starting
  BY DEF BeginStop
<1>2. CASE /\ Entry(c) = "none"
           /\ call' = [call EXCEPT ![t][c] = Idle]
           /\ UNCHANGED inst
  <2>1. i = None
    BY <1>2 DEF Entry, Instance, Life
  <2>2. UNCHANGED recorders
    BY <1>1, <2>1
  <2>3. Idle \in Call /\ Idle.rec = None /\ Idle.at = "idle"
    BY DEF Idle, Call
  <2>4. call[t][c].at \in {"idle", "start", "stop"}
    OBVIOUS
  <2> HIDE DEF Idle
  <2> QED
    BY <1>1, <1>2, <2>2, <2>3, <2>4, CallKeeps
<1>3. ASSUME i # None
      PROVE  /\ i \in Rec /\ inst[i].owner = c
             /\ inst[i].life \in {"running", "failed", "dead"}
             /\ \A d \in Camera : recorders[d] = i => d = c
  BY <1>3 DEF DictSound
<1>4. CASE /\ Entry(c) = "failed"
           /\ call' = [call EXCEPT ![t][c] = Idle]
           /\ inst' = [inst EXCEPT ![i] = Gone]
  <2>1. i # None
    BY <1>4 DEF Entry
  <2>2. inst' \in [Rec -> Instance] /\ inst'[i] = Gone
    BY <1>3, <1>4, <2>1 DEF Instance, Life, Gone
  <2>3. recorders' \in [Camera -> Rec \cup {None}] /\ recorders'[c] = None
    BY <1>1
  <2>4. /\ \A j \in Rec : j # i => inst'[j] = inst[j]
        /\ \A d \in Camera : recorders'[d] = recorders[d] \/ recorders'[d] = None
        /\ \A d \in Camera : recorders'[d] # i
        /\ \A d \in Camera : recorders[d] # i => recorders'[d] = recorders[d]
    BY <1>1, <1>3, <1>4, <2>1
  <2> HIDE DEF Idle, Gone, MgrInv
  <2> QED
    BY <1>1, <1>3, <1>4, <2>1, <2>2, <2>3, <2>4, RetireKeeps, ZenonT(40)
<1>5. CASE /\ Entry(c) \in {"running", "dead"}
           /\ call' = [call EXCEPT ![t][c] = At("stop_wait", i)]
           /\ inst' = [inst EXCEPT ![i].life = "stopping"]
  <2>1. i # None
    BY <1>5 DEF Entry
  <2>2. inst'[i] = [inst[i] EXCEPT !.life = "stopping"]
    BY <1>3, <1>5, <2>1
  <2>3. /\ inst' \in [Rec -> Instance]
        /\ inst'[i].life = "stopping" /\ inst'[i].owner = c
    BY <1>3, <1>5, <2>1, <2>2 DEF Instance, Life
  <2>4. recorders' \in [Camera -> Rec \cup {None}] /\ recorders'[c] = None
    BY <1>1
  <2>5. /\ \A j \in Rec : j # i => inst'[j] = inst[j]
        /\ \A d \in Camera : recorders'[d] = recorders[d] \/ recorders'[d] = None
        /\ \A d \in Camera : recorders'[d] # i
        /\ \A d \in Camera : recorders[d] # i => recorders'[d] = recorders[d]
    BY <1>1, <1>3, <1>5, <2>1
  <2>6. inst[i].life \notin {"starting", "gone"} /\ inst[i].owner = c /\ i \in Rec
    BY <1>3, <2>1
  <2> DEFINE k == At("stop_wait", i)
  <2>7. k \in {Idle, At("stop_wait", i)} /\ call' = [call EXCEPT ![t][c] = k]
    BY <1>5
  <2> HIDE DEF MgrInv, k, i
  <2> QED
    BY <1>1, <2>3, <2>4, <2>5, <2>6, <2>7, RetireKeeps DEF k
<1> QED
  BY <1>2, <1>4, <1>5 DEF BeginStop

LEMMA StopReturnsKeeps ==
    ASSUME MgrInv, NEW t \in Task, NEW c \in Camera, StopReturns(t, c)
    PROVE  MgrInv'
<1> USE NoneAssumption DEF MgrInv, MgrType
<1> DEFINE i == call[t][c].rec
<1>1. i \in Rec /\ inst[i].life \in {"stopping", "gone"}
  BY DEF StopReturns, CallSound, StopHeld
<1>2. \A d \in Camera : recorders[d] # i
  BY <1>1 DEF DictSound
<1>3. inst' \in [Rec -> Instance] /\ inst'[i] = Gone
      /\ \A j \in Rec : j # i => inst'[j] = inst[j]
  BY <1>1 DEF StopReturns, Instance, Life, Gone
<1>4. call[t][c].at = "stop_wait" /\ call' = [call EXCEPT ![t][c] = Idle]
      /\ UNCHANGED <<recorders, starting>>
  BY DEF StopReturns
<1> HIDE DEF Idle, Gone
<1> QED
  BY <1>1, <1>2, <1>3, <1>4, RetireKeeps

\* A gather is scheduled by a task with no call in progress.
LEMMA ScheduleKeeps ==
    ASSUME MgrInv, NEW t \in Task, NEW phase \in {"start", "stop"},
           NEW S \in SUBSET Camera, Quiet(t), Schedule(t, phase, S)
    PROVE  MgrInv'
<1> USE NoneAssumption DEF MgrInv, MgrType
<1>1. /\ UNCHANGED <<recorders, starting, inst>>
      /\ call' = [call EXCEPT ![t] = [c \in Camera |->
                     IF c \in S THEN At(phase, None) ELSE Idle]]
  BY DEF Schedule
<1>2. \A c \in Camera : call'[t][c] \in {At(phase, None), Idle}
  BY <1>1
<1>3. \A c \in Camera : /\ call'[t][c].rec = None
                        /\ call'[t][c].at \in {"idle", "start", "stop"}
  BY <1>2 DEF At, Idle
<1>4. \A u \in Task : u # t => call'[u] = call[u]
  BY <1>1
<1>5. call' \in [Task -> [Camera -> Call]]
  BY <1>1 DEF At, Idle, Call
<1>6. \A c \in Camera : call[t][c].at = "idle"
  BY DEF Quiet, Idle
<1>7. CallSound'
  <2>1. NoneHeld'
    BY <1>3, <1>4 DEF CallSound, NoneHeld
  <2>2. StartHeld'
    BY <1>1, <1>3, <1>4 DEF CallSound, StartHeld
  <2>3. StaleHeld'
    BY <1>1, <1>3, <1>4 DEF CallSound, StaleHeld
  <2>4. StopHeld'
    BY <1>1, <1>3, <1>4 DEF CallSound, StopHeld
  <2> QED
    BY <2>1, <2>2, <2>3, <2>4 DEF CallSound
<1>8. NoOrphan'
  <2>1. \A i \in Rec, u \in Task : inst[i] = Gone \/
           /\ call[u][inst[i].owner] = At("start_wait", i) => u # t
           /\ call[u][inst[i].owner] = At("stop_wait", i) => u # t
    BY <1>6 DEF Owned, At
  <2>2. \A i \in Rec, u \in Task : u # t =>
           call'[u][inst[i].owner] = call[u][inst[i].owner]
    BY <1>4
  <2>3. \A i \in Rec : inst[i] = Gone => inst[i].life = "gone"
    BY DEF Gone
  <2> SUFFICES ASSUME NEW i \in Rec
               PROVE  LET d == inst[i].owner IN
                      /\ inst[i].life \in {"running", "failed", "dead"}
                            => recorders[d] = i
                      /\ inst[i].life = "starting" =>
                            \E u \in Task : call'[u][d] = At("start_wait", i)
                      /\ inst[i].life = "stopping" =>
                            \E u \in Task : call'[u][d] = At("stop_wait", i)
    BY <1>1 DEF NoOrphan
  <2> QED
    BY <2>1, <2>2, <2>3 DEF NoOrphan
<1>9. \A c \in Camera : Holders(c)' = Holders(c)
  BY <1>3, <1>4, <1>6 DEF Holders
<1>10. StartLock'
  BY <1>1, <1>9 DEF StartLock
<1> QED
  BY <1>1, <1>5, <1>7, <1>8, <1>10 DEF Owned, DictSound

LEMMA GiveUpKeeps ==
    ASSUME MgrInv, NEW i \in Rec, GiveUp(i)
    PROVE  MgrInv'
<1> USE NoneAssumption DEF MgrInv, MgrType
<1>1. /\ inst[i].life = "running"
      /\ inst' = [inst EXCEPT ![i].life = "dead"]
      /\ UNCHANGED <<recorders, starting, call>>
  BY DEF GiveUp
<1>2. inst'[i] = [inst[i] EXCEPT !.life = "dead"]
  BY <1>1
<1>3. /\ inst' \in [Rec -> Instance]
      /\ \A j \in Rec : j # i => inst'[j] = inst[j]
      /\ inst'[i].life = "dead" /\ inst'[i].owner = inst[i].owner
  BY <1>1, <1>2 DEF Instance, Life
<1>4. inst[i] # Gone
  BY <1>1 DEF Gone
<1>5. Owned' /\ DictSound'
  BY <1>1, <1>3, <1>4 DEF Owned, DictSound
<1>6. CallSound'
  BY <1>1, <1>3 DEF CallSound, NoneHeld, StartHeld, StaleHeld, StopHeld
<1>7. NoOrphan'
  BY <1>1, <1>3 DEF NoOrphan
<1>8. StartLock'
  BY <1>1 DEF StartLock, Holders
<1> QED
  BY <1>1, <1>3, <1>5, <1>6, <1>7, <1>8

(***************************************************************************)
(* Types of the rest of the state.                                         *)
(***************************************************************************)
EnvType ==
    /\ row \in [Camera -> Row]
    /\ stored \in Settings /\ settings \in Settings
    /\ pc \in [Task -> PC]
    /\ cam \in [Task -> Camera \cup {None}]
    /\ todo \in [Task -> SUBSET Camera]
    /\ was \in [Task -> Settings \cup {None}]
    /\ queue \in Seq(Event) /\ Len(queue) <= MaxQueue
    /\ scan \in Event \cup {None}
    /\ changes \in 0..MaxChanges
    /\ heard \subseteq Camera

\* The working camera of a handler is a camera.
AtWork == {"saw_online", "saw_other", "retry", "retry_stop", "retry_start",
           "logout", "logout_emit", "delete"}
CamKnown == \A t \in Task : pc[t] \in AtWork => cam[t] \in Camera

\* The bus never holds more than MaxQueue events.
LEMMA EmitType ==
    ASSUME EnvType, NEW type \in {"camera_updated", "camera_lost"},
           NEW c \in Camera, Emit(type, c)
    PROVE  queue' \in Seq(Event) /\ Len(queue') <= MaxQueue /\ heard' \subseteq Camera
<1> USE QueueAssumption DEF EnvType
<1> DEFINE e == [type |-> type, camera |-> c]
<1>1. e \in Event
  BY DEF Event
<1> HIDE DEF e
<1>2. CASE ~Subscribed /\ heard' = heard \ {c} /\ UNCHANGED queue
  BY <1>2
<1>3. CASE /\ Len(queue) < MaxQueue /\ queue' = Append(queue, e)
           /\ heard' = heard \cup {c}
  BY <1>1, <1>3
<1>4. CASE /\ Len(queue) = MaxQueue /\ queue' = Append(Tail(queue), e)
           /\ heard' = (heard \ {Head(queue).camera}) \cup {c}
  <2>1. queue # << >>
    BY <1>4
  <2>2. Tail(queue) \in Seq(Event) /\ Len(Tail(queue)) = Len(queue) - 1
    BY <2>1
  <2> QED
    BY <1>1, <1>4, <2>2
<1> QED
  BY <1>2, <1>3, <1>4 DEF Emit, e

LEMMA EnvStep ==
    ASSUME EnvType, CamKnown, Next
    PROVE  EnvType' /\ CamKnown'
<1> USE NoneAssumption, LoopAssumption, QueueAssumption
    DEF EnvType, CamKnown, Task, Row, PC, AtWork, Goto, Finish, Online
<1>1. ASSUME LoopStep PROVE EnvType' /\ CamKnown'
  <2>1. CASE LoopLoad
    BY <2>1 DEF LoopLoad, mgr, bus
  <2>2. CASE LoopBootstrap
    BY <2>2 DEF LoopBootstrap, mgr, env, bus
  <2>3. CASE LoopSubscribe
    BY <2>3 DEF LoopSubscribe, mgr, env, bus
  <2>4. CASE LoopTake
    <3>1. /\ Head(queue) \in Event
          /\ Tail(queue) \in Seq(Event) /\ Len(Tail(queue)) <= MaxQueue
      BY <2>4 DEF LoopTake
    <3>2. Head(queue).camera \in Camera
      BY <3>1 DEF Event
    <3> QED
      BY <2>4, <3>1, <3>2 DEF LoopTake, mgr
  <2>5. CASE LoopAct
    BY <2>5 DEF LoopAct, env, bus
  <2>6. CASE LoopDone
    BY <2>6 DEF LoopDone, mgr, env, bus
  <2> QED
    BY <1>1, <2>1, <2>2, <2>3, <2>4, <2>5, <2>6 DEF LoopStep
<1>2. ASSUME NEW r \in Request, Arrive(r) PROVE EnvType' /\ CamKnown'
  <2>1. CASE \E c \in Camera : RetryMain(r, c)
    BY <2>1 DEF RetryMain, Begin, mgr, env, bus
  <2>2. CASE \E c \in Camera : Logout(r, c)
    BY <2>2 DEF Logout, Begin, env, bus
  <2>3. CASE \E c \in Camera : Delete(r, c)
    BY <2>3 DEF Delete, Begin, env, bus
  <2>4. CASE \E c \in Camera : Rename(r, c)
    BY <2>4, EmitType DEF Rename, prog
  <2>5. CASE \E new \in Settings : SettingsPost(r, new)
    BY <2>5 DEF SettingsPost, bus
  <2>6. CASE ClearData(r)
    BY <2>6 DEF ClearData, env, bus
  <2>7. CASE Reset(r)
    BY <2>7 DEF Reset, env, bus
  <2> QED
    BY <1>2, <2>1, <2>2, <2>3, <2>4, <2>5, <2>6, <2>7 DEF Arrive
<1>3. ASSUME NEW r \in Request, Continue(r) PROVE EnvType' /\ CamKnown'
  <2>1. CASE RetryStop(r)
    BY <2>1 DEF RetryStop, env, bus
  <2>2. CASE RetryStart(r)
    BY <2>2 DEF RetryStart, env, bus
  <2>3. CASE RetryEmit(r)
    <3>1. cam[r] \in Camera
      BY <2>3 DEF RetryEmit
    <3> QED
      BY <2>3, <3>1, EmitType DEF RetryEmit
  <2>4. CASE LogoutClear(r)
    BY <2>4 DEF LogoutClear, bus
  <2>5. CASE LogoutEmit(r)
    <3>1. cam[r] \in Camera
      BY <2>5 DEF LogoutEmit
    <3> QED
      BY <2>5, <3>1, EmitType DEF LogoutEmit
  <2>6. CASE DeleteRow(r)
    BY <2>6 DEF DeleteRow, bus
  <2>7. CASE SettingsLoad(r)
    BY <2>7 DEF SettingsLoad, bus
  <2>8. CASE ApplySettings(r)
    BY <2>8 DEF ApplySettings, env, bus, Keys
  <2>9. CASE RestartStart(r)
    BY <2>9 DEF RestartStart, env, bus
  <2>10. CASE ClearResume(r)
    BY <2>10 DEF ClearResume, env, bus
  <2>11. CASE ResetRows(r)
    BY <2>11 DEF ResetRows, bus
  <2>12. CASE EveryDone(r)
    BY <2>12 DEF EveryDone, env, bus
  <2> QED
    BY <1>3, <2>1, <2>2, <2>3, <2>4, <2>5, <2>6, <2>7, <2>8, <2>9, <2>10,
       <2>11, <2>12 DEF Continue
<1>4. ASSUME NEW t \in Task, StartNext(t) PROVE EnvType' /\ CamKnown'
  BY <1>4 DEF StartNext, env, bus
<1>5. ASSUME NEW t \in Task, NEW c \in Camera, CallStep(t, c)
      PROVE  EnvType' /\ CamKnown'
  BY <1>5 DEF CallStep, RunStart, StaleStopped, StartReturns, RunStop,
              StopReturns, prog, env, bus
<1>6. ASSUME NEW i \in Rec, GiveUp(i) PROVE EnvType' /\ CamKnown'
  BY <1>6 DEF GiveUp, prog, env, bus
<1>7. ASSUME NEW c \in Camera, ScanChange(c) PROVE EnvType' /\ CamKnown'
  BY <1>7, SMTT(30) DEF ScanChange, Event, prog, bus
<1>8. ASSUME ScanEmit PROVE EnvType' /\ CamKnown'
  <2>1. scan \in Event
    BY <1>8 DEF ScanEmit
  <2>2. scan.type \in {"camera_updated", "camera_lost"} /\ scan.camera \in Camera
    BY <2>1 DEF Event
  <2> QED
    BY <1>8, <2>2, EmitType DEF ScanEmit, prog
<1> QED
  BY <1>1, <1>2, <1>3, <1>4, <1>5, <1>6, <1>7, <1>8 DEF Next

(***************************************************************************)
(* Every step keeps the manager's invariant, and with it the rule that a   *)
(* task between calls has none in progress.                                *)
(***************************************************************************)
IInv == EnvType /\ CamKnown /\ CallsFollowPc /\ MgrInv

\* A step of task t that ends with no call of t in progress, or at a place
\* where one may be.
LEMMA PcKeeps ==
    ASSUME CallsFollowPc, NEW t \in Task,
           \A u \in Task : u # t => pc'[u] = pc[u] /\ call'[u] = call[u],
           pc'[t] \in BetweenCalls => \A c \in Camera : call'[t][c] = Idle
    PROVE  CallsFollowPc'
BY DEF CallsFollowPc, Quiet

\* The operations touch no other task's calls.
LEMMA OthersCalls ==
    ASSUME MgrInv, NEW t \in Task, NEW c \in Camera,
           \/ BeginStart(t, c) \/ BeginStop(t, c)
           \/ StartReturns(t, c) \/ StopReturns(t, c) \/ StaleStopped(t, c)
    PROVE  \A u \in Task : u # t => call'[u] = call[u]
BY DEF MgrInv, MgrType, BeginStart, BeginStop, StartReturns, StopReturns,
       StaleStopped, Construct

LEMMA UnchangedKeeps ==
    ASSUME MgrInv, UNCHANGED mgr
    PROVE  MgrInv'
BY DEF mgr, MgrInv, MgrType, Owned, DictSound, CallSound, NoneHeld, StartHeld,
       StaleHeld, StopHeld, NoOrphan, StartLock, Holders

LEMMA MgrStep ==
    ASSUME IInv, Next
    PROVE  MgrInv' /\ CallsFollowPc'
<1> USE DEF IInv, EnvType
<1>0. settings.config \in Config
  BY DEF Settings
<1>a. \A t \in Task, c \in Camera : Quiet(t) => call[t][c].at = "idle"
  BY DEF Quiet, Idle
<1>b. \A t \in Task : pc[t] \in BetweenCalls => Quiet(t)
  BY DEF CallsFollowPc
<1>c. Loop \in Task /\ \A r \in Request : r \in Task
  BY DEF Task
<1>1. ASSUME NEW t \in Task, UNCHANGED mgr, Quiet(t),
             \A u \in Task : u # t => pc'[u] = pc[u]
      PROVE  MgrInv' /\ CallsFollowPc'
  BY <1>1, UnchangedKeeps, PcKeeps DEF mgr, Quiet
<1>2. ASSUME NEW t \in Task, NEW c \in Camera, Quiet(t),
             BeginStart(t, c) \/ BeginStop(t, c),
             \A u \in Task : u # t => pc'[u] = pc[u],
             pc'[t] \notin BetweenCalls
      PROVE  MgrInv' /\ CallsFollowPc'
  <2>1. call[t][c].at = "idle"
    BY <1>2, <1>a
  <2>2. MgrInv'
    BY <1>0, <1>2, <2>1, BeginStartKeeps, BeginStopKeeps
  <2>3. \A u \in Task : u # t => call'[u] = call[u]
    BY <1>2, OthersCalls
  <2> QED
    BY <1>2, <2>2, <2>3, PcKeeps
<1>3. ASSUME NEW t \in Task, Quiet(t), NEW phase \in {"start", "stop"},
             NEW S \in SUBSET Camera, Schedule(t, phase, S),
             \A u \in Task : u # t => pc'[u] = pc[u],
             pc'[t] \notin BetweenCalls
      PROVE  MgrInv' /\ CallsFollowPc'
  <2>1. \A u \in Task : u # t => call'[u] = call[u]
    BY <1>3 DEF Schedule, MgrInv, MgrType
  <2> QED
    BY <1>3, <2>1, ScheduleKeeps, PcKeeps
<1>4. ASSUME LoopStep PROVE MgrInv' /\ CallsFollowPc'
  <2> USE <1>c DEF Goto, Finish, BetweenCalls
  <2>1. CASE LoopLoad
    BY <2>1, <1>1, <1>b DEF LoopLoad
  <2>2. CASE LoopBootstrap
    BY <2>2, <1>1, <1>b DEF LoopBootstrap
  <2>3. CASE LoopSubscribe
    BY <2>3, <1>1 DEF LoopSubscribe
  <2>4. CASE LoopTake
    <3>1. Quiet(Loop) /\ \A u \in Task : u # Loop => pc'[u] = pc[u]
      BY <2>4, <1>b DEF LoopTake
    <3>2. Head(queue).camera \in Camera
      <4>1. queue # << >> /\ queue \in Seq(Event)
        BY <2>4 DEF LoopTake
      <4>2. Head(queue) \in Event
        BY <4>1
      <4> QED
        BY <4>2 DEF Event
    <3>3. CASE UNCHANGED mgr
      BY <3>1, <3>3, <1>1
    <3>4. CASE BeginStop(Loop, Head(queue).camera) /\ Goto(Loop, "handling")
      BY <3>1, <3>2, <3>4, <1>2
    <3> QED
      BY <2>4, <3>3, <3>4 DEF LoopTake
  <2>5. CASE LoopAct
    <3>1. /\ pc[Loop] \in {"saw_online", "saw_other"}
          /\ pc' = [pc EXCEPT ![Loop] = "handling"]
      BY <2>5 DEF LoopAct
    <3>2. Quiet(Loop) /\ cam[Loop] \in Camera
      BY <3>1, <1>b DEF CamKnown, AtWork
    <3>3. \/ UNCHANGED mgr
          \/ BeginStart(Loop, cam[Loop]) \/ BeginStop(Loop, cam[Loop])
      BY <2>5 DEF LoopAct
    <3> QED
      BY <3>1, <3>2, <3>3, <1>1, <1>2
  <2>6. CASE LoopDone
    BY <2>6, <1>1 DEF LoopDone
  <2> QED
    BY <1>4, <2>1, <2>2, <2>3, <2>4, <2>5, <2>6 DEF LoopStep
<1>5. ASSUME NEW r \in Request, Arrive(r) PROVE MgrInv' /\ CallsFollowPc'
  <2> USE <1>c DEF Goto, BetweenCalls
  <2>1. pc[r] = "idle" /\ Quiet(r)
    BY <1>5, <1>b DEF Arrive, RetryMain, Logout, Delete, Begin, Rename,
                      SettingsPost, ClearData, Reset
  <2>2. CASE \E c \in Camera : RetryMain(r, c)
    BY <2>1, <2>2, <1>1 DEF RetryMain, Begin
  <2>3. CASE \E c \in Camera : Logout(r, c)
    BY <2>1, <2>3, <1>2 DEF Logout, Begin
  <2>4. CASE \E c \in Camera : Delete(r, c)
    BY <2>1, <2>4, <1>2 DEF Delete, Begin
  <2>5. CASE \E c \in Camera : Rename(r, c)
    BY <2>1, <2>5, <1>1 DEF Rename, prog
  <2>6. CASE \E new \in Settings : SettingsPost(r, new)
    BY <2>1, <2>6, <1>1 DEF SettingsPost
  <2>7. CASE ClearData(r)
    BY <2>1, <2>7, <1>3 DEF ClearData, Keys
  <2>8. CASE Reset(r)
    BY <2>1, <2>8, <1>3 DEF Reset, Keys
  <2> QED
    BY <1>5, <2>2, <2>3, <2>4, <2>5, <2>6, <2>7, <2>8 DEF Arrive
<1>6. ASSUME NEW r \in Request, Continue(r) PROVE MgrInv' /\ CallsFollowPc'
  <2> USE <1>c DEF Goto, Finish, BetweenCalls
  <2>1. CASE RetryStop(r)
    <3>1. cam[r] \in Camera
      BY <2>1 DEF RetryStop, CamKnown, AtWork
    <3> QED
      BY <2>1, <3>1, <1>2, <1>b DEF RetryStop
  <2>2. CASE RetryStart(r)
    <3>1. cam[r] \in Camera
      BY <2>2 DEF RetryStart, CamKnown, AtWork
    <3> QED
      BY <2>2, <3>1, <1>2 DEF RetryStart
  <2>3. CASE RetryEmit(r)
    BY <2>3, <1>1 DEF RetryEmit
  <2>4. CASE LogoutClear(r)
    BY <2>4, <1>1 DEF LogoutClear
  <2>5. CASE LogoutEmit(r)
    BY <2>5, <1>1, <1>b DEF LogoutEmit
  <2>6. CASE DeleteRow(r)
    BY <2>6, <1>1 DEF DeleteRow
  <2>7. CASE SettingsLoad(r)
    BY <2>7, <1>1, <1>b DEF SettingsLoad
  <2>8. CASE ApplySettings(r)
    <3>1. Quiet(r) /\ \A u \in Task : u # r => pc'[u] = pc[u]
      BY <2>8, <1>b DEF ApplySettings
    <3>2. CASE UNCHANGED mgr
      BY <3>1, <3>2, <1>1
    <3>3. CASE Schedule(r, "stop", Keys) /\ pc'[r] \in {"apply_wait", "restart"}
      <4>1. Keys \in SUBSET Camera
        BY DEF Keys
      <4> HIDE DEF IInv, EnvType
      <4> QED
        BY <3>1, <3>3, <4>1, <1>3, <1>c
    <3> QED
      BY <2>8, <3>2, <3>3 DEF ApplySettings
  <2>9. CASE RestartStart(r)
    <3>1. todo[r] \in SUBSET Camera
      OBVIOUS
    <3> QED
      BY <2>9, <3>1, <1>3 DEF RestartStart
  <2>10. CASE ClearResume(r)
    BY <2>10, <1>1 DEF ClearResume
  <2>11. CASE ResetRows(r)
    BY <2>11, <1>1 DEF ResetRows
  <2>12. CASE EveryDone(r)
    BY <2>12, <1>1 DEF EveryDone
  <2> QED
    BY <1>6, <2>1, <2>2, <2>3, <2>4, <2>5, <2>6, <2>7, <2>8, <2>9, <2>10,
       <2>11, <2>12 DEF Continue
<1>7. ASSUME NEW t \in Task, StartNext(t) PROVE MgrInv' /\ CallsFollowPc'
  <2>1. PICK c \in todo[t] : BeginStart(t, c)
    BY <1>7 DEF StartNext
  <2>2. c \in Camera /\ Quiet(t) /\ UNCHANGED pc /\ pc[t] \notin BetweenCalls
    BY <1>7 DEF StartNext, BetweenCalls
  <2> QED
    BY <2>1, <2>2, <1>2
<1>8. ASSUME NEW t \in Task, NEW c \in Camera, CallStep(t, c)
      PROVE  MgrInv' /\ CallsFollowPc'
  <2>1. UNCHANGED pc /\ call[t][c] # Idle
    BY <1>8 DEF CallStep, RunStart, StaleStopped, StartReturns, RunStop,
                StopReturns, prog, Idle
  <2>2. pc[t] \notin BetweenCalls
    BY <2>1, <1>b DEF Quiet
  <2>3. CASE RunStart(t, c) \/ RunStop(t, c)
    BY <2>3, <1>0, BeginStartKeeps, BeginStopKeeps, OthersCalls, PcKeeps,
       <2>1, <2>2 DEF RunStart, RunStop
  <2>4. CASE StaleStopped(t, c) \/ StartReturns(t, c) \/ StopReturns(t, c)
    BY <2>4, <1>0, StaleStoppedKeeps, StartReturnsKeeps, StopReturnsKeeps,
       OthersCalls, PcKeeps, <2>1, <2>2
  <2> QED
    BY <1>8, <2>3, <2>4 DEF CallStep
<1>9. ASSUME NEW i \in Rec, GiveUp(i) PROVE MgrInv' /\ CallsFollowPc'
  <2>1. UNCHANGED <<pc, call>>
    BY <1>9 DEF GiveUp, prog
  <2> QED
    BY <1>9, <2>1, GiveUpKeeps DEF CallsFollowPc, Quiet
<1>10. ASSUME \/ \E c \in Camera : ScanChange(c)
              \/ ScanEmit
       PROVE  MgrInv' /\ CallsFollowPc'
  <2>1. UNCHANGED mgr /\ UNCHANGED pc
    BY <1>10 DEF ScanChange, ScanEmit, prog
  <2> QED
    BY <2>1, UnchangedKeeps DEF mgr, CallsFollowPc, Quiet
<1> QED
  BY <1>4, <1>5, <1>6, <1>7, <1>8, <1>9, <1>10 DEF Next

(***************************************************************************)
(* The theorems.                                                           *)
(***************************************************************************)
LEMMA InitIInv == ASSUME Init PROVE IInv
<1> USE NoneAssumption, QueueAssumption, LoopAssumption DEF Init, Gone, Idle, Task
<1>1. EnvType
  <2>1. /\ row \in [Camera -> Row]
        /\ stored \in Settings /\ settings \in Settings
        /\ pc \in [Task -> PC]
    BY DEF Row, PC, Settings
  <2>2. /\ cam \in [Task -> Camera \cup {None}]
        /\ todo \in [Task -> SUBSET Camera]
        /\ was \in [Task -> Settings \cup {None}]
    OBVIOUS
  <2>3. queue \in Seq(Event) /\ Len(queue) <= MaxQueue
    OBVIOUS
  <2>4. /\ scan \in Event \cup {None}
        /\ changes \in 0..MaxChanges
        /\ heard \subseteq Camera
    OBVIOUS
  <2> QED
    BY <2>1, <2>2, <2>3, <2>4 DEF EnvType
<1>2. CamKnown /\ CallsFollowPc
  BY DEF CamKnown, AtWork, CallsFollowPc, Quiet, PC
<1>3. MgrType /\ Owned /\ DictSound /\ CallSound
  BY DEF MgrType, Owned, DictSound, CallSound, NoneHeld, StartHeld, StaleHeld,
         StopHeld, Instance, Life, Call
<1>4. NoOrphan /\ StartLock
  BY DEF NoOrphan, StartLock, Holders
<1> QED
  BY <1>1, <1>2, <1>3, <1>4 DEF IInv, MgrInv

\* The inductive invariant holds throughout every behaviour.
THEOREM Invariance == Spec => []IInv
<1>1. Init => IInv
  BY InitIInv
<1>2. IInv /\ [Next]_vars => IInv'
  <2> SUFFICES ASSUME IInv, [Next]_vars PROVE IInv'
    OBVIOUS
  <2>1. CASE Next
    BY <2>1, EnvStep, MgrStep DEF IInv
  <2>2. CASE UNCHANGED vars
    <3>1. UNCHANGED <<mgr, prog, env>>
      BY <2>2 DEF vars
    <3>2. MgrInv'
      BY <3>1, UnchangedKeeps DEF IInv
    <3> QED
      BY <3>1, <3>2 DEF IInv, EnvType, CamKnown, CallsFollowPc, Quiet, mgr,
                        prog, env, bus
  <2> QED
    BY <2>1, <2>2
<1> QED
  BY <1>1, <1>2, PTL DEF Spec

\* Every variable keeps its type, and the bus queue its bound.
THEOREM TypeCorrect == Spec => []TypeOK
<1>1. IInv => TypeOK
  BY DEF IInv, EnvType, MgrInv, MgrType, TypeOK
<1> QED
  BY <1>1, Invariance, PTL

\* Every recorder with a process can still be reached to be stopped, whatever
\* requests, events and failures interleave.
THEOREM NoOrphanAlways == Spec => []NoOrphan
<1>1. IInv => NoOrphan
  BY DEF IInv, MgrInv
<1> QED
  BY <1>1, Invariance, PTL

\* _starting is exact: held by one call while it starts a camera, else free.
THEOREM StartLockAlways == Spec => []StartLock
<1>1. IInv => StartLock
  BY DEF IInv, MgrInv
<1> QED
  BY <1>1, Invariance, PTL

\* No camera ever has two recorders starting or recording.
THEOREM OneActiveAlways == Spec => []OneActive
<1>1. IInv => OneActive
  <2> SUFFICES ASSUME IInv, NEW i \in Rec, NEW j \in Rec,
                      inst[i].life \in {"starting", "running"},
                      inst[j].life \in {"starting", "running"},
                      inst[i].owner = inst[j].owner
               PROVE  i = j
    BY DEF OneActive
  <2> DEFINE c == inst[i].owner
  <2> USE DEF IInv, MgrInv
  <2>1. c \in Camera
    BY DEF Owned, Gone
  <2>2. ASSUME NEW k \in {i, j}, inst[k].life = "starting"
        PROVE  \E t \in Task : call[t][c] = At("start_wait", k) /\ Holders(c) = {t}
    <3>1. PICK t \in Task : call[t][c] = At("start_wait", k)
      BY <2>2 DEF NoOrphan
    <3>2. t \in Holders(c)
      BY <3>1 DEF Holders, At
    <3> QED
      BY <2>1, <3>1, <3>2 DEF StartLock
  <2>3. ASSUME NEW k \in {i, j}, inst[k].life = "starting" PROVE recorders[c] = None
    BY <2>1, <2>2, <2>3 DEF CallSound, StartHeld, At
  <2>4. ASSUME NEW k \in {i, j}, inst[k].life = "running" PROVE recorders[c] = k
    BY <2>4 DEF NoOrphan
  <2>5. CASE inst[i].life = "starting" /\ inst[j].life = "starting"
    <3>1. PICK t \in Task : call[t][c] = At("start_wait", i) /\ Holders(c) = {t}
      BY <2>2, <2>5
    <3>2. PICK u \in Task : call[u][c] = At("start_wait", j) /\ Holders(c) = {u}
      BY <2>2, <2>5
    <3>3. t = u
      BY <3>1, <3>2
    <3> QED
      BY <3>1, <3>2, <3>3 DEF At
  <2>6. CASE inst[i].life = "running" /\ inst[j].life = "running"
    BY <2>4, <2>6
  <2>7. CASE inst[i].life # inst[j].life
    BY <2>3, <2>4, <2>7, NoneAssumption
  <2> QED
    BY <2>5, <2>6, <2>7
<1> QED
  BY <1>1, Invariance, PTL

(***************************************************************************)
(* When everything has settled: what is still to come keeps what is        *)
(* recorded and what the rows say together.  Retry-main, logout and rename *)
(* announce the camera after the last change they make; each of the other  *)
(* requests, alone, breaks SettledOffline.                                 *)
(***************************************************************************)
Announces == {"retry", "logout", "name"}

Working == {"retry", "retry_stop", "retry_start", "logout", "logout_emit"}
LoopPlaces == {"boot", "loaded", "bootstrap", "idle", "saw_online",
               "saw_other", "handling"}

\* Where the tasks can be, and the calls that they can have in progress.
Places ==
    /\ pc[Loop] \in LoopPlaces
    /\ \A r \in Request : pc[r] \in Working \cup {"idle"}
    /\ \A t \in Task, c \in Camera : call[t][c].at # "stop"
    /\ \A r \in Request, c \in Camera :
          call[r][c] # Idle => (pc[r] \in Working /\ cam[r] = c)
    /\ \A c \in Camera : row[c] # "deleted"
    /\ ~Subscribed => queue = << >> /\ heard = {}

Updated(c) == [type |-> "camera_updated", camera |-> c]
Lost(c) == [type |-> "camera_lost", camera |-> c]

\* A recorder runs for the camera, or a call is about to give it one.
StartCall(t, c) == call[t][c].at \in {"start", "clear_stale", "start_wait"}
Coming(c) == Running(c) \/ \E t \in Task : StartCall(t, c)

\* An event for the camera that the loop will still see.
InQueue(e) == \E p \in 1..Len(queue) : queue[p] = e
Announcing(c) == \E r \in Request : pc[r] \in Working /\ cam[r] = c
Announced(c) == Announcing(c) \/ scan = Updated(c) \/ InQueue(Updated(c))
Mentioned(c) == Announced(c) \/ scan = Lost(c) \/ InQueue(Lost(c))

\* The loop has read the camera's row and not yet acted on it.
Saw(where, c) == pc[Loop] = where /\ cam[Loop] = c

Off(c) == row[c] # "online" /\ (Coming(c) \/ Saw("saw_online", c))
             => Mentioned(c) \/ Saw("saw_other", c)
On(c) == row[c] = "online" /\ settings.enabled /\ ~MayFail
             => Coming(c) \/ Announced(c) \/ Saw("saw_online", c)
Wrong(c) == row[c] = "online" /\ Saw("saw_other", c) => Announced(c)
Told == \A c \in heard : Off(c) /\ On(c) /\ Wrong(c)

\* A camera_lost event is overtaken by the row only if another follows it.
LostTold ==
    \A p \in 1..Len(queue), c \in Camera :
        queue[p] = Lost(c) /\ row[c] = "online" =>
            \/ scan = Updated(c)
            \/ \E q \in 1..Len(queue) : q > p /\ queue[q] = Updated(c)
ScanTold == \A c \in Camera : scan = Lost(c) => row[c] # "online"

(***************************************************************************)
(* What the operations do to Coming.                                       *)
(***************************************************************************)
\* Only the call of one task for one camera changes.
OnlyCall(t, c) == \A u \in Task, d \in Camera :
                      <<u, d>> # <<t, c>> => call'[u][d] = call[u][d]

LEMMA RunningFrame ==
    ASSUME MgrInv, NEW d \in Camera, recorders'[d] = recorders[d],
           \A i \in Rec : inst[i].life # "gone" /\ inst[i].owner = d
                             => inst'[i] = inst[i] 
    PROVE  Running(d)' <=> Running(d)
<1>1. CASE recorders[d] = None
  BY <1>1 DEF Running, Entry
<1>2. CASE recorders[d] # None
  <2>1. recorders[d] \in Rec /\ inst[recorders[d]].owner = d
        /\ inst[recorders[d]].life # "gone"
    BY <1>2 DEF MgrInv, MgrType, DictSound
  <2> QED
    BY <2>1, <1>2 DEF Running, Entry
<1> QED
  BY <1>1, <1>2

LEMMA ComingFrame ==
    ASSUME NEW t \in Task, NEW c \in Camera, OnlyCall(t, c),
           NEW d \in Camera, d # c, Running(d)' <=> Running(d)
    PROVE  Coming(d)' <=> Coming(d)
BY DEF OnlyCall, Coming, StartCall

LEMMA ConstructEffect ==
    ASSUME MgrInv, NEW t \in Task, NEW c \in Camera, NEW i \in Rec,
           NEW old \in Rec \cup {None}, Construct(t, c, i, old),
           old # None /\ inst[old].life # "gone" => inst[old].owner = c
    PROVE  /\ Coming(c)' /\ OnlyCall(t, c) /\ call'[t][c].at = "start_wait"
           /\ \A d \in Camera : d # c => (Coming(d)' <=> Coming(d))
<1>1. OnlyCall(t, c) /\ call'[t][c].at = "start_wait"
  BY DEF Construct, OnlyCall, At, MgrInv, MgrType
<1>2. Coming(c)'
  BY <1>1 DEF Coming, StartCall
<1>3. ASSUME NEW d \in Camera, d # c
      PROVE  Coming(d)' <=> Coming(d)
  <2>1. recorders'[d] = recorders[d]
    BY <1>3 DEF Construct, MgrInv, MgrType
  <2>2. inst[i].life = "gone"
    BY DEF Construct, Unused, Gone
  <2>3. \A j \in Rec : inst[j].life # "gone" /\ inst[j].owner = d
                          => inst'[j] = inst[j]
    BY <1>3, <2>2, NoneAssumption DEF Construct
  <2>4. Running(d)' <=> Running(d)
    BY <2>1, <2>3, RunningFrame
  <2> QED
    BY <1>1, <1>3, <2>4, ComingFrame
<1> QED
  BY <1>1, <1>2, <1>3

LEMMA BeginStartEffect ==
    ASSUME MgrInv, NEW t \in Task, NEW c \in Camera,
           call[t][c].at \in {"idle", "start"}, BeginStart(t, c)
    PROVE  /\ Coming(c)' /\ OnlyCall(t, c) /\ call'[t][c].at # "stop"
           /\ \A d \in Camera : d # c => (Coming(d)' <=> Coming(d))
<1>1. CASE /\ Locked(c) \/ Entry(c) = "running"
           /\ call' = [call EXCEPT ![t][c] = Idle]
           /\ UNCHANGED <<recorders, starting, inst>>
  <2>1. OnlyCall(t, c) /\ call'[t][c].at = "idle"
    BY <1>1 DEF OnlyCall, Idle, MgrInv, MgrType
  <2>2. \A d \in Camera : Running(d)' <=> Running(d)
    BY <1>1 DEF Running, Entry
  <2>3. Coming(c)'
    <3>1. CASE Entry(c) = "running"
      BY <2>2, <3>1 DEF Coming, Running
    <3>2. CASE Locked(c)
      <4>1. PICK u \in Task : Holders(c) = {u}
        BY <3>2 DEF Locked, MgrInv, StartLock
      <4>2. call[u][c].at \in {"clear_stale", "start_wait"}
        BY <4>1 DEF Holders
      <4>3. call'[u][c] = call[u][c]
        BY <2>1, <4>2 DEF OnlyCall
      <4> QED
        BY <4>2, <4>3 DEF Coming, StartCall
    <3> QED
      BY <1>1, <3>1, <3>2
  <2> QED
    BY <2>1, <2>2, <2>3, ComingFrame
<1>2. CASE /\ Entry(c) \in {"none", "failed"}
           /\ \E i \in Rec : Construct(t, c, i, recorders[c])
  <2>1. PICK i \in Rec : Construct(t, c, i, recorders[c])
    BY <1>2
  <2>2. recorders[c] \in Rec \cup {None}
        /\ (recorders[c] # None => inst[recorders[c]].owner = c)
    BY DEF MgrInv, MgrType, DictSound
  <2> QED
    BY <2>1, <2>2, ConstructEffect
<1>3. CASE /\ call' = [call EXCEPT ![t][c] = At("clear_stale", recorders[c])]
           /\ UNCHANGED <<recorders, inst>>
  <2>1. OnlyCall(t, c) /\ call'[t][c].at = "clear_stale"
    BY <1>3 DEF OnlyCall, At, MgrInv, MgrType
  <2>2. \A d \in Camera : Running(d)' <=> Running(d)
    BY <1>3 DEF Running, Entry
  <2> QED
    BY <2>1, <2>2, ComingFrame DEF Coming, StartCall
<1> QED
  BY <1>1, <1>2, <1>3 DEF BeginStart

\* After a stop the camera has a recorder again only by another task's call.
LEMMA BeginStopEffect ==
    ASSUME MgrInv, NEW t \in Task, NEW c \in Camera, BeginStop(t, c)
    PROVE  /\ Coming(c)' => \E u \in Task : u # t /\ StartCall(u, c)
           /\ OnlyCall(t, c) /\ call'[t][c].at # "stop"
           /\ \A d \in Camera : d # c => (Coming(d)' <=> Coming(d))
<1>1. /\ recorders' = [recorders EXCEPT ![c] = None]
      /\ \/ call' = [call EXCEPT ![t][c] = Idle] 
         \/ call' = [call EXCEPT ![t][c] = At("stop_wait", recorders[c])]
  BY DEF BeginStop
<1>2. OnlyCall(t, c) /\ call'[t][c].at \in {"idle", "stop_wait"}
  BY <1>1 DEF OnlyCall, Idle, At, MgrInv, MgrType
<1>3. ~Running(c)'
  BY <1>1 DEF Running, Entry, MgrInv, MgrType
<1>4. Coming(c)' => \E u \in Task : u # t /\ StartCall(u, c)
  BY <1>2, <1>3 DEF Coming, StartCall, OnlyCall
<1>5. ASSUME NEW d \in Camera, d # c
      PROVE  Coming(d)' <=> Coming(d)
  <2>1. recorders'[d] = recorders[d]
    BY <1>1, <1>5 DEF MgrInv, MgrType
  <2>2. recorders[c] # None => inst[recorders[c]].owner = c
    BY DEF MgrInv, DictSound
  <2>3. \A j \in Rec : inst[j].owner = d => inst'[j] = inst[j]
    BY <1>5, <2>2, NoneAssumption DEF BeginStop, Entry, MgrInv, MgrType
  <2>4. Running(d)' <=> Running(d)
    BY <2>1, <2>3, RunningFrame
  <2> QED
    BY <1>2, <1>5, <2>4, ComingFrame
<1> QED
  BY <1>2, <1>4, <1>5

\* A call that goes on takes the camera no further from having a recorder,
\* unless it fails, and no nearer.
LEMMA CallEffect ==
    ASSUME MgrInv, NEW t \in Task, NEW c \in Camera, CallStep(t, c),
           call[t][c].at # "stop"
    PROVE  /\ OnlyCall(t, c) /\ call'[t][c].at # "stop" /\ call[t][c] # Idle
           /\ \A d \in Camera : Coming(d)' => Coming(d)
           /\ ~MayFail => \A d \in Camera : Coming(d) => Coming(d)'
<1>0. call[t][c] # Idle
  BY DEF CallStep, RunStart, StaleStopped, StartReturns, RunStop, StopReturns,
         Idle
<1>1. CASE RunStart(t, c)
  <2>1. StartCall(t, c)
    BY <1>1 DEF RunStart, StartCall
  <2> QED
    BY <1>0, <1>1, <2>1, BeginStartEffect DEF RunStart, Coming
<1>2. CASE StaleStopped(t, c)
  <2>1. PICK i \in Rec : Construct(t, c, i, call[t][c].rec)
    BY <1>2 DEF StaleStopped
  <2>2. /\ call[t][c].rec \in Rec
        /\ inst[call[t][c].rec].life # "gone" => inst[call[t][c].rec].owner = c
        /\ StartCall(t, c)
    BY <1>2 DEF StaleStopped, MgrInv, CallSound, StaleHeld, StartCall
  <2>3. /\ Coming(c)' /\ OnlyCall(t, c) /\ call'[t][c].at = "start_wait"
        /\ \A d \in Camera : d # c => (Coming(d)' <=> Coming(d))
    BY <2>1, <2>2, ConstructEffect
  <2> QED
    BY <1>0, <2>2, <2>3 DEF Coming
<1>3. CASE StartReturns(t, c)
  <2> DEFINE i == call[t][c].rec
  <2>1. /\ i \in Rec /\ inst[i].life = "starting" /\ inst[i].owner = c
        /\ StartCall(t, c)
    BY <1>3 DEF StartReturns, MgrInv, CallSound, StartHeld, StartCall
  <2>2. OnlyCall(t, c) /\ call'[t][c].at = "idle"
    BY <1>3 DEF StartReturns, OnlyCall, Idle, MgrInv, MgrType
  <2>3. ASSUME NEW d \in Camera, d # c PROVE Coming(d)' <=> Coming(d)
    <3>1. recorders'[d] = recorders[d]
      BY <1>3, <2>3 DEF StartReturns, MgrInv, MgrType
    <3>2. \A j \in Rec : inst[j].owner = d => inst'[j] = inst[j]
      BY <1>3, <2>1, <2>3 DEF StartReturns, MgrInv, MgrType
    <3>3. Running(d)' <=> Running(d)
      BY <3>1, <3>2, RunningFrame
    <3> QED
      BY <2>2, <2>3, <3>3, ComingFrame
  <2>4. ~MayFail => Running(c)'
    <3> SUFFICES ASSUME ~MayFail PROVE Running(c)'
      OBVIOUS
    <3>1. /\ inst' = [inst EXCEPT ![i].life = "running"]
          /\ recorders' = [recorders EXCEPT ![c] = i]
      BY <1>3 DEF StartReturns
    <3>2. recorders'[c] = i /\ inst'[i].life = "running" /\ i # None
      BY <2>1, <3>1, NoneAssumption DEF MgrInv, MgrType, Instance
    <3> QED
      BY <3>2 DEF Running, Entry
  <2> QED
    BY <1>0, <2>1, <2>2, <2>3, <2>4 DEF Coming
<1>4. CASE StopReturns(t, c)
  <2> DEFINE i == call[t][c].rec
  <2>1. i \in Rec /\ inst[i].life \in {"stopping", "gone"}
    BY <1>4 DEF StopReturns, MgrInv, CallSound, StopHeld
  <2>2. OnlyCall(t, c) /\ call'[t][c].at = "idle" /\ ~StartCall(t, c)
    BY <1>4 DEF StopReturns, OnlyCall, Idle, StartCall, MgrInv, MgrType
  <2>3. ASSUME NEW d \in Camera PROVE Running(d)' <=> Running(d)
    <3>1. recorders' = recorders /\ inst' = [inst EXCEPT ![i] = Gone]
      BY <1>4 DEF StopReturns
    <3>2. recorders[d] # None =>
            recorders[d] \in Rec /\ recorders[d] # i
      BY <2>1 DEF MgrInv, MgrType, DictSound
    <3> QED
      BY <3>1, <3>2 DEF Running, Entry, MgrInv, MgrType
  <2>4. \A u \in Task, d \in Camera : StartCall(u, d)' <=> StartCall(u, d)
    BY <2>2 DEF OnlyCall, StartCall
  <2>5. \A d \in Camera : Coming(d)' <=> Coming(d)
    BY <2>3, <2>4 DEF Coming
  <2> QED
    BY <1>0, <2>2, <2>5
<1> QED
  BY <1>1, <1>2, <1>3, <1>4 DEF CallStep, RunStop

LEMMA GiveUpEffect ==
    ASSUME MgrInv, NEW i \in Rec, GiveUp(i), NEW c \in Camera, Coming(c)'
    PROVE  Coming(c)
<1>1. UNCHANGED <<recorders, call>> /\ inst' = [inst EXCEPT ![i].life = "dead"]
  BY DEF GiveUp
<1>2. Running(c)' => Running(c)
  BY <1>1 DEF Running, Entry, MgrInv, MgrType, Instance
<1> QED
  BY <1>1, <1>2 DEF Coming, StartCall

(***************************************************************************)
(* Places.                                                                 *)
(***************************************************************************)
\* A step of task t that changes at most its own call for one camera.
LEMMA PlacesKeeps ==
    ASSUME Places, NEW t \in Task, NEW c \in Camera, OnlyCall(t, c),
           call'[t][c].at # "stop",
           \A u \in Task : u # t => pc'[u] = pc[u] /\ cam'[u] = cam[u],
           t = Loop => pc'[Loop] \in LoopPlaces,
           t \in Request =>
               /\ pc'[t] \in Working \cup {"idle"}
               /\ \A d \in Camera : call'[t][d] # Idle
                                       => (pc'[t] \in Working /\ cam'[t] = d),
           \A d \in Camera : row'[d] # "deleted",
           ~Subscribed' => queue' = << >> /\ heard' = {}
    PROVE  Places'
<1> USE LoopAssumption DEF Task
<1>1. pc'[Loop] \in LoopPlaces
  BY DEF Places
<1>2. \A r \in Request : pc'[r] \in Working \cup {"idle"}
  BY DEF Places
<1>3. \A u \in Task, d \in Camera : call'[u][d].at # "stop"
  BY DEF Places, OnlyCall
<1>4. \A r \in Request, d \in Camera :
          call'[r][d] # Idle => (pc'[r] \in Working /\ cam'[r] = d)
  <2> SUFFICES ASSUME NEW r \in Request, NEW d \in Camera, call'[r][d] # Idle
               PROVE  pc'[r] \in Working /\ cam'[r] = d
    OBVIOUS
  <2>1. CASE r = t
    BY <2>1
  <2>2. CASE r # t
    BY <2>2 DEF Places, OnlyCall
  <2> QED
    BY <2>1, <2>2
<1> QED
  BY <1>1, <1>2, <1>3, <1>4 DEF Places

LEMMA EmitEffect ==
    ASSUME EnvType, Places, NEW type \in {"camera_updated", "camera_lost"},
           NEW c \in Camera, Emit(type, c)
    PROVE  \/ ~Subscribed /\ queue' = << >> /\ heard' = {}
           \/ \E k \in {0, 1} :
                 /\ Subscribed /\ k <= Len(queue)
                 /\ Len(queue') = Len(queue) + 1 - k
                 /\ \A p \in 1..(Len(queue) - k) : queue'[p] = queue[p + k]
                 /\ queue'[Len(queue')] = [type |-> type, camera |-> c]
                 /\ heard' \subseteq heard \cup {c}
                 /\ k = 1 => queue[1].camera \notin heard' \ {c}
<1> DEFINE e == [type |-> type, camera |-> c]
<1>1. e \in Event /\ queue \in Seq(Event) /\ Len(queue) \in Nat
  BY DEF Event, EnvType
<1>2. CASE ~Subscribed /\ heard' = heard \ {c} /\ UNCHANGED queue
  BY <1>2 DEF Places
<1> HIDE DEF e
<1>3. CASE /\ Subscribed /\ queue' = Append(queue, e)
           /\ heard' = heard \cup {c}
  <2>1. /\ Len(queue') = Len(queue) + 1 /\ queue'[Len(queue) + 1] = e
        /\ \A p \in 1..Len(queue) : queue'[p] = queue[p]
    BY <1>1, <1>3
  <2>2. /\ Subscribed /\ 0 <= Len(queue)
        /\ Len(queue') = Len(queue) + 1 - 0
        /\ \A p \in 1..(Len(queue) - 0) : queue'[p] = queue[p + 0]
        /\ queue'[Len(queue')] = e
        /\ heard' \subseteq heard \cup {c}
    BY <1>1, <1>3, <2>1
  <2> QED
    BY <2>2 DEF e
<1>4. CASE /\ Subscribed /\ Len(queue) = MaxQueue
           /\ queue' = Append(Tail(queue), e)
           /\ heard' = (heard \ {Head(queue).camera}) \cup {c}
  <2>1. queue # << >> /\ Len(queue) >= 1
    BY <1>1, <1>4, QueueAssumption
  <2>2. /\ Tail(queue) \in Seq(Event) /\ Len(Tail(queue)) = Len(queue) - 1
        /\ \A p \in 1..(Len(queue) - 1) : Tail(queue)[p] = queue[p + 1]
        /\ Head(queue) = queue[1]
    BY <1>1, <2>1
  <2>3. /\ Len(queue') = Len(queue) /\ queue'[Len(queue)] = e
        /\ \A p \in 1..(Len(queue) - 1) : queue'[p] = queue[p + 1]
    BY <1>1, <1>4, <2>1, <2>2
  <2>4. heard' \subseteq heard \cup {c} /\ queue[1].camera \notin heard' \ {c}
    BY <1>4, <2>2
  <2>5. /\ Subscribed /\ 1 <= Len(queue)
        /\ Len(queue') = Len(queue) + 1 - 1
        /\ \A p \in 1..(Len(queue) - 1) : queue'[p] = queue[p + 1]
        /\ queue'[Len(queue')] = e
    BY <1>1, <1>4, <2>1, <2>3
  <2> QED
    BY <2>4, <2>5 DEF e
<1> QED
  BY <1>2, <1>3, <1>4 DEF Emit, e

\* The steps that are left with these requests.
RequestStep(r) == \/ \E c \in Camera : RetryMain(r, c) \/ Logout(r, c)
                  \/ RetryStop(r) \/ RetryStart(r) \/ LogoutClear(r)
EmitStep(r) == \/ \E c \in Camera : Rename(r, c)
               \/ RetryEmit(r) \/ LogoutEmit(r)
FewerSteps == \/ LoopStep \/ StartNext(Loop)
              \/ \E r \in Request : RequestStep(r) \/ EmitStep(r)
              \/ \E t \in Task, c \in Camera : CallStep(t, c)
              \/ \E i \in Rec : GiveUp(i)
              \/ \E c \in Camera : ScanChange(c)
              \/ ScanEmit

LEMMA OnlyFewer ==
    ASSUME Ops \subseteq Announces, Places, Next
    PROVE  FewerSteps
<1>1. \A r \in Request : pc[r] \in {"idle", "retry", "retry_stop",
                                    "retry_start", "logout", "logout_emit"}
  BY DEF Places, Working
<1>2. \A r \in Request : ~StartNext(r)
  BY <1>1 DEF StartNext
<1>3. \A r \in Request : Continue(r) => RequestStep(r) \/ EmitStep(r)
  BY <1>1 DEF Continue, RequestStep, EmitStep, DeleteRow, SettingsLoad,
     ApplySettings, RestartStart, ClearResume, ResetRows, EveryDone
<1>4. \A r \in Request : Arrive(r) => RequestStep(r) \/ EmitStep(r)
  BY DEF Arrive, RequestStep, EmitStep, Delete, Begin, SettingsPost, ClearData,
     Reset, Announces
<1> QED
  BY <1>2, <1>3, <1>4 DEF Next, FewerSteps, Task

\* What a request's step does: it works on one camera, for which it will
\* announce something, and no row comes online.
Works(r, c) ==
    /\ pc'[r] \in Working /\ cam'[r] = c
    /\ pc[r] \in Working => cam[r] = c
    /\ \A u \in Task : u # r => pc'[u] = pc[u] /\ cam'[u] = cam[u]
    /\ OnlyCall(r, c) /\ call'[r][c].at # "stop"
    /\ \A d \in Camera : d # c => /\ Coming(d)' <=> Coming(d)
                                  /\ row'[d] = row[d]
    /\ row'[c] \in {row[c], "offline"}
    /\ UNCHANGED <<settings, bus, scan>>

LEMMA RequestWorks ==
    ASSUME IInv, Places, NEW r \in Request, RequestStep(r)
    PROVE  \E c \in Camera : Works(r, c)
<1>1. r \in Task /\ r # Loop
  BY LoopAssumption DEF Task
<1>2. \A c \in Camera : Quiet(r) => call[r][c].at = "idle"
  BY DEF Quiet, Idle
<1>4. pc \in [Task -> PC] /\ cam \in [Task -> Camera \cup {None}]
      /\ row \in [Camera -> Row]
  BY DEF IInv, EnvType
<1>5. \A d \in Camera : UNCHANGED mgr => (Coming(d)' <=> Coming(d))
  BY DEF mgr, Coming, StartCall, Running, Entry
<1>6. ASSUME NEW c \in Camera, RetryMain(r, c)
      PROVE  Works(r, c)
  <2>1. OnlyCall(r, c) /\ call'[r][c].at # "stop"
    BY <1>1, <1>6 DEF RetryMain, OnlyCall, mgr, Places
  <2> QED
    BY <1>1, <1>4, <1>5, <1>6, <2>1
       DEF RetryMain, Begin, Goto, Works, Working, env
<1>7. ASSUME NEW c \in Camera, Logout(r, c)
      PROVE  Works(r, c)
  <2>1. BeginStop(r, c)
    BY <1>7 DEF Logout
  <2>2. /\ OnlyCall(r, c) /\ call'[r][c].at # "stop"
        /\ \A d \in Camera : d # c => (Coming(d)' <=> Coming(d))
    BY <1>1, <2>1, BeginStopEffect DEF IInv
  <2> QED
    BY <1>1, <1>4, <1>7, <2>2 DEF Logout, Begin, Goto, Works, Working, env
<1>8. CASE RetryStop(r)
  <2>1. BeginStop(r, cam[r]) /\ cam[r] \in Camera
    BY <1>1, <1>8 DEF RetryStop, IInv, CamKnown, AtWork
  <2>2. /\ OnlyCall(r, cam[r]) /\ call'[r][cam[r]].at # "stop"
        /\ \A d \in Camera : d # cam[r] => (Coming(d)' <=> Coming(d))
    BY <1>1, <2>1, BeginStopEffect DEF IInv
  <2>3. Works(r, cam[r])
    BY <1>1, <1>4, <1>8, <2>1, <2>2 DEF RetryStop, Goto, Works, Working, env
  <2> QED
    BY <2>1, <2>3
<1>9. CASE RetryStart(r)
  <2>1. BeginStart(r, cam[r]) /\ cam[r] \in Camera /\ Quiet(r)
    BY <1>1, <1>9 DEF RetryStart, IInv, CamKnown, AtWork
  <2>2. /\ OnlyCall(r, cam[r]) /\ call'[r][cam[r]].at # "stop"
        /\ \A d \in Camera : d # cam[r] => (Coming(d)' <=> Coming(d))
    BY <1>1, <1>2, <2>1, BeginStartEffect DEF IInv
  <2>3. Works(r, cam[r])
    BY <1>1, <1>4, <1>9, <2>1, <2>2 DEF RetryStart, Goto, Works, Working, env
  <2> QED
    BY <2>1, <2>3
<1>10. CASE LogoutClear(r)
  <2>1. cam[r] \in Camera /\ row[cam[r]] # "deleted" /\ UNCHANGED mgr
    BY <1>1, <1>10 DEF LogoutClear, IInv, CamKnown, AtWork, Places
  <2>2. OnlyCall(r, cam[r]) /\ call'[r][cam[r]].at # "stop"
    BY <1>1, <2>1 DEF OnlyCall, mgr, Places
  <2>3. Works(r, cam[r])
    BY <1>1, <1>4, <1>5, <1>10, <2>1, <2>2
       DEF LogoutClear, Goto, Works, Working, bus
  <2> QED
    BY <2>1, <2>3
<1> QED
  BY <1>6, <1>7, <1>8, <1>9, <1>10 DEF RequestStep

LEMMA PlacesStep ==
    ASSUME IInv, Places, FewerSteps
    PROVE  Places'
<1>1. Loop \in Task /\ Loop \notin Request /\ Request \subseteq Task
  BY LoopAssumption DEF Task
<1>2. pc \in [Task -> PC] /\ cam \in [Task -> Camera \cup {None}]
      /\ row \in [Camera -> Row]
  BY DEF IInv, EnvType
<1>3. \A r \in Request : pc[r] \in BetweenCalls => Quiet(r)
  BY <1>1 DEF IInv, CallsFollowPc
<1>4. CASE LoopStep \/ StartNext(Loop)
  <2>1. /\ \A u \in Task : u # Loop => pc'[u] = pc[u] /\ cam'[u] = cam[u]
        /\ pc'[Loop] \in LoopPlaces
        /\ row' = row /\ heard' = heard
    BY <1>1, <1>2, <1>4
       DEF LoopStep, LoopLoad, LoopBootstrap, LoopSubscribe, LoopTake, LoopAct,
           LoopDone, StartNext, Goto, Finish, LoopPlaces, Places, env, bus
  <2>2. ~Subscribed' => ~Subscribed /\ queue' = queue
    BY <1>1, <1>2, <1>4
       DEF LoopStep, LoopLoad, LoopBootstrap, LoopSubscribe, LoopTake, LoopAct,
           LoopDone, StartNext, Goto, Finish, Subscribed, env, bus
  <2>3. ~Subscribed' => queue' = << >> /\ heard' = {}
    BY <2>1, <2>2 DEF Places
  <2>4. ASSUME UNCHANGED call
        PROVE  Places'
    BY <1>1, <2>1, <2>3, <2>4 DEF Places
  <2>5. ASSUME NEW c \in Camera, OnlyCall(Loop, c), call'[Loop][c].at # "stop"
        PROVE  Places'
    BY <1>1, <2>1, <2>3, <2>5, PlacesKeeps DEF Places
  <2>6. ASSUME NEW c \in Camera, Quiet(Loop),
               BeginStart(Loop, c) \/ BeginStop(Loop, c)
        PROVE  Places'
    <3>1. call[Loop][c].at = "idle"
      BY <2>6 DEF Quiet, Idle
    <3>2. OnlyCall(Loop, c) /\ call'[Loop][c].at # "stop"
      BY <1>1, <2>6, <3>1, BeginStartEffect, BeginStopEffect DEF IInv
    <3> QED
      BY <2>5, <3>2
  <2>7. CASE LoopLoad \/ LoopBootstrap \/ LoopSubscribe \/ LoopDone
    BY <2>4, <2>7 DEF LoopLoad, LoopBootstrap, LoopSubscribe, LoopDone, mgr
  <2>8. CASE LoopTake
    <3>1. Quiet(Loop)
      BY <1>1, <2>8 DEF LoopTake, IInv, CallsFollowPc, BetweenCalls
    <3>2. Head(queue).camera \in Camera
      <4>1. queue # << >> /\ queue \in Seq(Event)
        BY <2>8 DEF LoopTake, IInv, EnvType
      <4>2. Head(queue) \in Event
        BY <4>1
      <4> QED
        BY <4>2 DEF Event
    <3> QED
      BY <2>4, <2>6, <2>8, <3>1, <3>2 DEF LoopTake, mgr
  <2>9. CASE LoopAct
    <3>1. Quiet(Loop) /\ cam[Loop] \in Camera
      BY <1>1, <2>9 DEF LoopAct, IInv, CallsFollowPc, BetweenCalls, CamKnown,
         AtWork
    <3> QED
      BY <2>4, <2>6, <2>9, <3>1 DEF LoopAct, mgr
  <2>10. CASE StartNext(Loop)
    <3>1. PICK c \in todo[Loop] : BeginStart(Loop, c)
      BY <2>10 DEF StartNext
    <3>2. c \in Camera /\ Quiet(Loop)
      BY <1>1, <2>10 DEF StartNext, IInv, EnvType
    <3> QED
      BY <2>6, <3>1, <3>2
  <2> QED
    BY <1>4, <2>7, <2>8, <2>9, <2>10 DEF LoopStep
<1>5. ASSUME NEW r \in Request, RequestStep(r)
      PROVE  Places'
  <2>1. PICK c \in Camera : Works(r, c)
    BY <1>5, RequestWorks
  <2>2. \A d \in Camera : call'[r][d] # Idle => d = c
    BY <1>1, <2>1 DEF Works, OnlyCall, Places
  <2>3. pc'[Loop] = pc[Loop] /\ UNCHANGED <<queue, heard>>
    BY <1>1, <2>1 DEF Works, bus
  <2>4. ~Subscribed' => queue' = << >> /\ heard' = {}
    BY <2>3 DEF Places, Subscribed
  <2>5. \A d \in Camera : row'[d] # "deleted"
    BY <2>1 DEF Works, Places
  <2> QED
    BY <1>1, <2>1, <2>2, <2>4, <2>5, PlacesKeeps DEF Works
<1>6. ASSUME NEW r \in Request, EmitStep(r)
      PROVE  Places'
  <2>1. \A u \in Task : pc'[u] # pc[u] \/ cam'[u] # cam[u] =>
            /\ u = r /\ pc'[r] = "idle" /\ Quiet(r)
    BY <1>1, <1>2, <1>3, <1>6
       DEF EmitStep, Rename, RetryEmit, LogoutEmit, Finish, BetweenCalls, prog
  <2>2. UNCHANGED <<call, row>>
    BY <1>6 DEF EmitStep, Rename, RetryEmit, LogoutEmit, mgr
  <2>3. ~Subscribed' => queue' = << >> /\ heard' = {}
    <3>1. ~Subscribed' => ~Subscribed
      BY <1>1, <2>1 DEF Subscribed
    <3>2. PICK c \in Camera : Emit("camera_updated", c)
      BY <1>1, <1>6 DEF EmitStep, Rename, RetryEmit, LogoutEmit, IInv, CamKnown,
         AtWork
    <3> QED
      BY <3>1, <3>2, EmitEffect DEF IInv
  <2> QED
    BY <1>1, <2>1, <2>2, <2>3 DEF Places, Quiet
<1>7. ASSUME NEW t \in Task, NEW c \in Camera, CallStep(t, c)
      PROVE  Places'
  <2>1. call[t][c].at # "stop"
    BY DEF Places
  <2>2. OnlyCall(t, c) /\ call'[t][c].at # "stop" /\ call[t][c] # Idle
    BY <1>7, <2>1, CallEffect DEF IInv
  <2>3. UNCHANGED <<prog, env>>
    BY <1>7 DEF CallStep, RunStart, StaleStopped, StartReturns, RunStop,
       StopReturns
  <2>4. t \in Request => \A d \in Camera :
            call'[t][d] # Idle => (pc[t] \in Working /\ cam[t] = d)
    BY <2>2 DEF Places, OnlyCall
  <2>5. ~Subscribed' => queue' = << >> /\ heard' = {}
    BY <2>3 DEF Places, Subscribed, prog, env, bus
  <2> QED
    BY <2>2, <2>3, <2>4, <2>5, PlacesKeeps DEF Places, prog, env
<1>8. CASE \/ \E i \in Rec : GiveUp(i)
           \/ \E c \in Camera : ScanChange(c)
  <2>1. UNCHANGED <<call, pc, cam, queue, heard>>
    BY <1>8 DEF GiveUp, ScanChange, mgr, prog, env, bus
  <2>2. \A c \in Camera : row'[c] # "deleted"
    BY <1>2, <1>8 DEF GiveUp, ScanChange, env, Places
  <2> QED
    BY <2>1, <2>2 DEF Places, Subscribed
<1>9. CASE ScanEmit
  <2>1. UNCHANGED <<call, pc, cam, row>>
    BY <1>9 DEF ScanEmit, mgr, prog
  <2>2. scan.type \in {"camera_updated", "camera_lost"} /\ scan.camera \in Camera
    BY <1>9 DEF ScanEmit, IInv, EnvType, Event
  <2>3. ~Subscribed' => queue' = << >> /\ heard' = {}
    BY <1>9, <2>1, <2>2, EmitEffect DEF ScanEmit, IInv, Subscribed
  <2> QED
    BY <2>1, <2>3 DEF Places
<1> QED
  BY <1>4, <1>5, <1>6, <1>7, <1>8, <1>9 DEF FewerSteps

(***************************************************************************)
(* Told.                                                                   *)
(***************************************************************************)
Heeded == Told /\ LostTold /\ ScanTold

\* Before it subscribes nothing is heard.
LEMMA UnheardHeeded ==
    ASSUME heard' = {}, queue' = << >>, ScanTold, UNCHANGED <<row, scan>>
    PROVE  Heeded'
BY DEF Heeded, Told, LostTold, ScanTold

\* Steps that leave the bus, the scanner and the rows alone.
LEMMA BusFrame ==
    ASSUME UNCHANGED <<bus, scan, row>>,
           \A r \in Request : UNCHANGED <<pc[r], cam[r]>>
    PROVE  /\ \A c \in Camera : /\ Announced(c)' <=> Announced(c)
                                /\ Mentioned(c)' <=> Mentioned(c)
           /\ LostTold => LostTold'
           /\ ScanTold => ScanTold'
BY DEF bus, Announced, Mentioned, Announcing, InQueue, LostTold, ScanTold,
       Updated, Lost

LEMMA RequestHeeded ==
    ASSUME EnvType, Heeded, NEW r \in Request, NEW c \in Camera, Works(r, c)
    PROVE  Heeded'
<1>1. /\ UNCHANGED <<settings, queue, heard, scan>>
      /\ pc'[Loop] = pc[Loop] /\ cam'[Loop] = cam[Loop]
  BY LoopAssumption DEF Works, bus, Task
<1>2. \A d \in Camera : row'[d] = "online" => row[d] = "online"
  BY DEF Works
<1>3. Announcing(c)'
  BY DEF Works, Announcing
<1>4. \A d \in Camera : d # c => (Announcing(d)' <=> Announcing(d))
  BY DEF Works, Announcing, Task
<1>5. Off(c)' /\ On(c)' /\ Wrong(c)'
  BY <1>3 DEF Off, On, Wrong, Mentioned, Announced
<1>6. ASSUME NEW d \in heard, d # c
      PROVE  Off(d)' /\ On(d)' /\ Wrong(d)'
  <2>1. d \in Camera /\ Off(d) /\ On(d) /\ Wrong(d)
    BY <1>6 DEF Heeded, Told, EnvType
  <2>2. /\ Announced(d)' <=> Announced(d)
        /\ Mentioned(d)' <=> Mentioned(d)
        /\ \A where : Saw(where, d)' <=> Saw(where, d)
    BY <1>1, <1>4, <1>6, <2>1
       DEF Announced, Mentioned, InQueue, Saw, Updated, Lost
  <2>3. (Coming(d)' <=> Coming(d)) /\ row'[d] = row[d] /\ settings' = settings
    BY <1>6, <2>1 DEF Works
  <2> QED
    BY <2>1, <2>2, <2>3 DEF Off, On, Wrong
<1>7. Told'
  BY <1>1, <1>5, <1>6 DEF Told
<1>8. LostTold' /\ ScanTold'
  BY <1>1, <1>2 DEF Heeded, LostTold, ScanTold, Updated, Lost
<1> QED
  BY <1>7, <1>8 DEF Heeded

\* What an announcement does besides.
Emits(type, c) ==
    /\ Emit(type, c)
    /\ type = "camera_lost" => row[c] # "online"
    /\ UNCHANGED <<mgr, row, settings>>
    /\ pc'[Loop] = pc[Loop] /\ cam'[Loop] = cam[Loop]
    /\ \A d \in Camera : d # c /\ Announcing(d) => Announcing(d)'
    /\ scan' = scan \/ (scan' = None /\ scan = [type |-> type, camera |-> c])

LEMMA EmitHeeded ==
    ASSUME EnvType, Places, Heeded,
           NEW type \in {"camera_updated", "camera_lost"}, NEW c \in Camera,
           Emits(type, c)
    PROVE  Heeded'
<1> DEFINE e == [type |-> type, camera |-> c]
<1>1. Len(queue) \in Nat /\ queue \in Seq(Event)
  BY DEF EnvType
<1>2. ScanTold'
  BY EventAssumption DEF Emits, Heeded, ScanTold, Lost, Event
<1>3. CASE queue' = << >> /\ heard' = {}
  BY <1>2, <1>3 DEF Heeded, Told, LostTold
<1>4. ASSUME NEW k \in {0, 1}, k <= Len(queue),
             Len(queue') = Len(queue) + 1 - k,
             \A p \in 1..(Len(queue) - k) : queue'[p] = queue[p + k],
             queue'[Len(queue')] = e,
             heard' \subseteq heard \cup {c},
             k = 1 => queue[1].camera \notin heard' \ {c}
      PROVE  Told' /\ LostTold'
  <2>1. InQueue(e)'
    <3>1. Len(queue') \in 1..Len(queue')
      BY <1>1, <1>4
    <3> QED
      BY <1>4, <3>1 DEF InQueue
  <2>2. ASSUME NEW f, InQueue(f), k = 1 => queue[1] # f
        PROVE  InQueue(f)'
    <3>1. PICK p \in 1..Len(queue) : queue[p] = f
      BY <2>2 DEF InQueue
    <3>2. k = 1 => p # 1
      BY <2>2, <3>1
    <3>3. p - k \in 1..(Len(queue) - k) /\ p - k + k = p /\ p - k \in 1..Len(queue')
      BY <1>1, <1>4, <3>1, <3>2
    <3>4. queue'[p - k] = f
      BY <1>4, <3>1, <3>3
    <3> QED
      BY <3>3, <3>4 DEF InQueue
  <2>3. \A d : Updated(d).camera = d /\ Lost(d).camera = d
    BY DEF Updated, Lost
  <2>4. ASSUME NEW d \in heard', d # c
        PROVE  Off(d)' /\ On(d)' /\ Wrong(d)'
    <3>1. d \in heard /\ d \in Camera
      BY <1>4, <2>4 DEF EnvType
    <3>2. k = 1 => queue[1] # Updated(d) /\ queue[1] # Lost(d)
      BY <1>4, <2>3, <2>4
    <3>3. /\ InQueue(Updated(d)) => InQueue(Updated(d))'
          /\ InQueue(Lost(d)) => InQueue(Lost(d))'
      BY <2>2, <3>2 DEF Updated, Lost
    <3>4. /\ scan = Updated(d) => scan' = Updated(d)
          /\ scan = Lost(d) => scan' = Lost(d)
      BY <2>4 DEF Emits, Updated, Lost
    <3>5. /\ Announced(d) => Announced(d)'
          /\ Mentioned(d) => Mentioned(d)'
      BY <2>4, <3>1, <3>3, <3>4 DEF Announced, Mentioned, Emits, Updated, Lost
    <3>6. /\ Coming(d)' <=> Coming(d)
          /\ \A where : Saw(where, d)' <=> Saw(where, d)
          /\ row'[d] = row[d] /\ settings' = settings
      BY DEF Emits, mgr, Coming, StartCall, Running, Entry, Saw
    <3>7. Off(d) /\ On(d) /\ Wrong(d)
      BY <3>1 DEF Heeded, Told
    <3> QED
      BY <3>5, <3>6, <3>7 DEF Off, On, Wrong
  <2>5. Off(c)' /\ On(c)' /\ Wrong(c)'
    <3>1. CASE type = "camera_updated"
      <4>1. Announced(c)'
        BY <2>1, <3>1 DEF Announced, Updated
      <4> QED
        BY <4>1 DEF Off, On, Wrong, Mentioned
    <3>2. CASE type = "camera_lost"
      <4>1. Mentioned(c)' /\ row'[c] # "online"
        BY <2>1, <3>2 DEF Mentioned, Lost, Emits
      <4> QED
        BY <4>1 DEF Off, On, Wrong
    <3> QED
      BY <3>1, <3>2
  <2>6. Told'
    BY <2>4, <2>5 DEF Told
  <2>7. LostTold'
    <3> SUFFICES ASSUME NEW p \in 1..Len(queue'), NEW d \in Camera,
                        queue'[p] = Lost(d), row'[d] = "online"
                 PROVE  \/ scan' = Updated(d)
                        \/ \E q \in 1..Len(queue') : q > p /\ queue'[q] = Updated(d)
      BY DEF LostTold, Updated, Lost
    <3>1. row[d] = "online"
      BY DEF Emits
    <3>2. p # Len(queue')
      BY <1>4, <3>1 DEF Emits, Lost
    <3>3. /\ p \in 1..(Len(queue) - k) /\ p + k \in 1..Len(queue)
          /\ Len(queue') \in 1..Len(queue') /\ Len(queue') > p
      BY <1>1, <1>4, <3>2
    <3>4. queue[p + k] = Lost(d)
      BY <1>4, <3>3
    <3>5. CASE scan = Updated(d)
      <4>1. CASE scan' = scan
        BY <3>5, <4>1
      <4>2. CASE scan = e
        BY <1>4, <3>3, <3>5, <4>2
      <4> QED
        BY <4>1, <4>2 DEF Emits
    <3>6. CASE \E q \in 1..Len(queue) : q > p + k /\ queue[q] = Updated(d)
      <4>1. PICK q \in 1..Len(queue) : q > p + k /\ queue[q] = Updated(d)
        BY <3>6
      <4>2. /\ q - k \in 1..(Len(queue) - k) /\ q - k + k = q
            /\ q - k \in 1..Len(queue') /\ q - k > p
        BY <1>1, <1>4, <4>1
      <4>3. queue'[q - k] = Updated(d)
        BY <1>4, <4>1, <4>2
      <4> QED
        BY <4>2, <4>3
    <3> QED
      BY <3>1, <3>3, <3>4, <3>5, <3>6 DEF Heeded, LostTold
  <2> QED
    BY <2>6, <2>7
<1>5. \/ queue' = << >> /\ heard' = {}
      \/ \E k \in {0, 1} :
            /\ k <= Len(queue)
            /\ Len(queue') = Len(queue) + 1 - k
            /\ \A p \in 1..(Len(queue) - k) : queue'[p] = queue[p + k]
            /\ queue'[Len(queue')] = e
            /\ heard' \subseteq heard \cup {c}
            /\ k = 1 => queue[1].camera \notin heard' \ {c}
  <2>1. Emit(type, c)
    BY DEF Emits
  <2> QED
    BY <2>1, EmitEffect
<1> HIDE DEF e
<1>6. ASSUME ~(queue' = << >> /\ heard' = {})
      PROVE  Told' /\ LostTold'
  <2>1. PICK k \in {0, 1} :
            /\ k <= Len(queue)
            /\ Len(queue') = Len(queue) + 1 - k
            /\ \A p \in 1..(Len(queue) - k) : queue'[p] = queue[p + k]
            /\ queue'[Len(queue')] = e
            /\ heard' \subseteq heard \cup {c}
            /\ k = 1 => queue[1].camera \notin heard' \ {c}
    BY <1>5, <1>6
  <2> QED
    BY <2>1, <1>4
<1> QED
  BY <1>2, <1>3, <1>6 DEF Heeded

\* Steps that only let the manager's calls go on.
LEMMA CallHeeded ==
    ASSUME EnvType, Heeded, UNCHANGED <<prog, env>>,
           \A d \in Camera : Coming(d)' => Coming(d),
           ~MayFail => \A d \in Camera : Coming(d) => Coming(d)'
    PROVE  Heeded'
<1>1. UNCHANGED <<row, settings, bus, scan, heard, pc, cam>>
  BY DEF prog, env, bus
<1>2. /\ \A c \in Camera : /\ Announced(c)' <=> Announced(c)
                           /\ Mentioned(c)' <=> Mentioned(c)
      /\ LostTold' /\ ScanTold'
  BY <1>1, BusFrame DEF Heeded
<1>3. \A c, where : Saw(where, c)' <=> Saw(where, c)
  BY <1>1 DEF Saw
<1>4. ASSUME NEW c \in heard
      PROVE  Off(c)' /\ On(c)' /\ Wrong(c)'
  <2>1. c \in Camera /\ Off(c) /\ On(c) /\ Wrong(c)
    BY DEF Heeded, Told, EnvType
  <2> QED
    BY <1>1, <1>2, <1>3, <2>1 DEF Off, On, Wrong
<1> QED
  BY <1>1, <1>2, <1>4 DEF Heeded, Told

LEMMA ScanHeeded ==
    ASSUME EnvType, Heeded, NEW c \in Camera, ScanChange(c)
    PROVE  Heeded'
<1>1. /\ UNCHANGED <<settings, queue, heard, pc, cam, mgr>> /\ scan = None
      /\ row \in [Camera -> Row]
      /\ \A d \in Camera : d # c => row'[d] = row[d]
  BY DEF ScanChange, prog, bus, EnvType
<1>2. \/ row'[c] = "online" /\ scan' = Updated(c)
      \/ row'[c] = "offline" /\ scan' \in {Updated(c), Lost(c)}
  BY <1>1 DEF ScanChange, Updated, Lost
<1>3. \A d \in Camera : Announcing(d)' <=> Announcing(d)
  BY <1>1 DEF Announcing
<1>4. \A d \in Camera : scan # Updated(d) /\ scan # Lost(d)
  BY <1>1, EventAssumption DEF Event, Updated, Lost
<1>5. \A d \in Camera : /\ Announced(d) => Announced(d)'
                        /\ Mentioned(d) => Mentioned(d)'
  BY <1>1, <1>3, <1>4 DEF Announced, Mentioned, InQueue, Updated, Lost
<1>6. Off(c)' /\ On(c)' /\ Wrong(c)'
  <2>1. CASE scan' = Updated(c)
    <3>1. Announced(c)'
      BY <2>1 DEF Announced, Updated
    <3> QED
      BY <3>1 DEF Off, On, Wrong, Mentioned
  <2>2. CASE row'[c] = "offline" /\ scan' = Lost(c)
    <3>1. Mentioned(c)'
      BY <2>2 DEF Mentioned, Lost
    <3> QED
      BY <2>2, <3>1 DEF Off, On, Wrong
  <2> QED
    BY <1>2, <2>1, <2>2
<1>7. ASSUME NEW d \in heard, d # c
      PROVE  Off(d)' /\ On(d)' /\ Wrong(d)'
  <2>1. d \in Camera /\ Off(d) /\ On(d) /\ Wrong(d)
    BY DEF Heeded, Told, EnvType
  <2>2. /\ Coming(d)' <=> Coming(d)
        /\ \A where : Saw(where, d)' <=> Saw(where, d)
        /\ row'[d] = row[d] /\ settings' = settings
    BY <1>1, <1>7, <2>1 DEF mgr, Coming, StartCall, Running, Entry, Saw
  <2> QED
    BY <1>5, <2>1, <2>2 DEF Off, On, Wrong
<1>8. Told'
  BY <1>1, <1>6, <1>7 DEF Told
<1>9. LostTold'
  <2> SUFFICES ASSUME NEW p \in 1..Len(queue), NEW d \in Camera,
                      queue[p] = Lost(d), row'[d] = "online"
               PROVE  \/ scan' = Updated(d)
                      \/ \E q \in 1..Len(queue) : q > p /\ queue[q] = Updated(d)
    BY <1>1 DEF LostTold, Updated, Lost
  <2>1. CASE d = c
    BY <1>2, <2>1
  <2>2. CASE d # c
    BY <1>1, <1>4, <2>2 DEF Heeded, LostTold
  <2> QED
    BY <2>1, <2>2
<1>10. ScanTold'
  BY <1>2 DEF ScanTold, Updated, Lost
<1> QED
  BY <1>8, <1>9, <1>10 DEF Heeded

\* The loop takes an event: what is left of the queue, and what it has seen.
LEMMA TakeHeeded ==
    ASSUME IInv, Places, Heeded, LoopTake
    PROVE  Heeded'
<1>1. /\ pc[Loop] = "idle" /\ queue # << >> /\ queue \in Seq(Event)
      /\ queue' = Tail(queue) /\ Loop \in Task /\ Loop \notin Request
      /\ pc \in [Task -> PC] /\ cam \in [Task -> Camera \cup {None}]
      /\ UNCHANGED <<row, settings, scan, heard>>
  BY LoopAssumption DEF LoopTake, IInv, EnvType, Task
<1>2. /\ Len(queue) \in Nat /\ Len(queue) >= 1 /\ Len(queue') = Len(queue) - 1
      /\ \A p \in 1..(Len(queue) - 1) : queue'[p] = queue[p + 1]
      /\ Head(queue) = queue[1] /\ Head(queue) \in Event
  BY <1>1
<1>3. PICK c \in Camera :
          /\ c = Head(queue).camera /\ queue[1] \in {Updated(c), Lost(c)}
          /\ Head(queue).type = "camera_lost" => queue[1] = Lost(c)
  BY <1>2 DEF Event, Updated, Lost
<1>4. \A r \in Request : UNCHANGED <<pc[r], cam[r]>>
  BY <1>1 DEF LoopTake, Goto, Task
<1>5. \A d \in Camera : Announcing(d)' <=> Announcing(d)
  BY <1>4 DEF Announcing
<1>6. ASSUME NEW f, NEW q \in 1..Len(queue), queue[q] = f, q # 1
      PROVE  InQueue(f)'
  <2>1. q - 1 \in 1..(Len(queue) - 1) /\ q - 1 + 1 = q /\ q - 1 \in 1..Len(queue')
    BY <1>2, <1>6
  <2>2. queue'[q - 1] = f
    BY <1>2, <1>6, <2>1
  <2> QED
    BY <2>1, <2>2 DEF InQueue
<1>7. ASSUME NEW d \in Camera, d # c
      PROVE  /\ Announced(d) => Announced(d)'
             /\ Mentioned(d) => Mentioned(d)'
  <2>1. queue[1] # Updated(d) /\ queue[1] # Lost(d)
    BY <1>3, <1>7 DEF Updated, Lost
  <2>2. /\ InQueue(Updated(d)) => InQueue(Updated(d))'
        /\ InQueue(Lost(d)) => InQueue(Lost(d))'
    BY <1>6, <2>1 DEF InQueue, Updated, Lost
  <2> QED
    BY <1>1, <1>5, <2>2 DEF Announced, Mentioned, Updated, Lost
<1>8. LostTold'
  <2> SUFFICES ASSUME NEW p \in 1..Len(queue'), NEW d \in Camera,
                      queue'[p] = Lost(d), row[d] = "online"
               PROVE  \/ scan = Updated(d)
                      \/ \E q \in 1..Len(queue') : q > p /\ queue'[q] = Updated(d)
    BY <1>1 DEF LostTold, Updated, Lost
  <2>1. p + 1 \in 1..Len(queue) /\ queue[p + 1] = Lost(d) /\ p \in Nat
    BY <1>2
  <2>2. CASE \E q \in 1..Len(queue) : q > p + 1 /\ queue[q] = Updated(d)
    <3>1. PICK q \in 1..Len(queue) : q > p + 1 /\ queue[q] = Updated(d)
      BY <2>2
    <3>2. /\ q - 1 \in 1..(Len(queue) - 1) /\ q - 1 + 1 = q
          /\ q - 1 \in 1..Len(queue') /\ q - 1 > p
      BY <1>2, <2>1, <3>1
    <3>3. queue'[q - 1] = Updated(d)
      BY <1>2, <3>1, <3>2
    <3> QED
      BY <3>2, <3>3
  <2> QED
    BY <2>1, <2>2 DEF Heeded, LostTold
<1>9. ScanTold'
  BY <1>1 DEF Heeded, ScanTold, Lost
\* Whatever the event, the other cameras keep what they had.
<1>10. ASSUME NEW d \in heard, d # c, Coming(d)' <=> Coming(d),
              \A where \in {"saw_online", "saw_other"} : ~Saw(where, d)'
       PROVE  Off(d)' /\ On(d)' /\ Wrong(d)'
  <2>1. d \in Camera /\ Off(d) /\ On(d) /\ Wrong(d)
    BY DEF Heeded, Told, IInv, EnvType
  <2>2. ~Saw("saw_online", d) /\ ~Saw("saw_other", d)
    BY <1>1 DEF Saw
  <2>3. ~Saw("saw_online", d)' /\ ~Saw("saw_other", d)'
    BY <1>10
  <2>4. /\ Announced(d) => Announced(d)'
        /\ Mentioned(d) => Mentioned(d)'
    BY <1>7, <1>10, <2>1
  <2> QED
    BY <1>1, <1>10, <2>1, <2>2, <2>3, <2>4 DEF Off, On, Wrong
<1>11. \A d \in Camera : UNCHANGED mgr => (Coming(d)' <=> Coming(d))
  BY DEF mgr, Coming, StartCall, Running, Entry
<1>12. CASE /\ queue[1] = Lost(c) /\ BeginStop(Loop, c)
            /\ Goto(Loop, "handling")
  <2>1. /\ Coming(c)' => \E u \in Task : u # Loop /\ StartCall(u, c)
        /\ \A d \in Camera : d # c => (Coming(d)' <=> Coming(d))
    BY <1>1, <1>3, <1>12, BeginStopEffect DEF IInv
  <2>2. pc'[Loop] = "handling"
    BY <1>1, <1>12 DEF Goto
  <2>3. Coming(c)' => Announcing(c)
    <3>1. \A u \in Task : u # Loop /\ StartCall(u, c) => Announcing(c)
      BY <1>3 DEF StartCall, Idle, Places, Announcing, Task
    <3> QED
      BY <2>1, <3>1
  <2>4. row[c] = "online" => Announced(c)'
    <3> SUFFICES ASSUME row[c] = "online" PROVE Announced(c)'
      OBVIOUS
    <3>1. 1 \in 1..Len(queue)
      BY <1>2
    <3>2. CASE scan = Updated(c)
      BY <1>1, <3>2 DEF Announced, Updated
    <3>3. CASE \E q \in 1..Len(queue) : q > 1 /\ queue[q] = Updated(c)
      <4>1. PICK q \in 1..Len(queue) : q > 1 /\ queue[q] = Updated(c)
        BY <3>3
      <4>2. q # 1
        BY <4>1
      <4>3. InQueue(Updated(c))'
        BY <1>6, <4>1, <4>2 DEF Updated
      <4> QED
        BY <4>3 DEF Announced, Updated
    <3> QED
      BY <1>3, <1>12, <3>1, <3>2, <3>3 DEF Heeded, LostTold
  <2>5. Off(c)' /\ On(c)' /\ Wrong(c)'
    BY <1>1, <1>3, <1>5, <2>2, <2>3, <2>4
       DEF Off, On, Wrong, Saw, Mentioned, Announced
  <2>6. \A d : ~Saw("saw_online", d)' /\ ~Saw("saw_other", d)'
    BY <2>2 DEF Saw
  <2>7. \A d \in heard : d # c => Off(d)' /\ On(d)' /\ Wrong(d)'
    BY <1>10, <2>1, <2>6 DEF IInv, EnvType
  <2> QED
    BY <1>1, <1>8, <1>9, <2>5, <2>7 DEF Heeded, Told
<1>13. CASE /\ Goto(Loop, IF row[c] = "online" THEN "saw_online"
                                               ELSE "saw_other")
            /\ cam' = [cam EXCEPT ![Loop] = c]
            /\ UNCHANGED mgr
  <2>1. /\ cam'[Loop] = c
        /\ pc'[Loop] = IF row[c] = "online" THEN "saw_online" ELSE "saw_other"
    BY <1>1, <1>13 DEF Goto
  <2>2. Off(c)' /\ On(c)' /\ Wrong(c)'
    BY <1>1, <2>1 DEF Off, On, Wrong, Saw
  <2>3. \A d : d # c => ~Saw("saw_online", d)' /\ ~Saw("saw_other", d)'
    BY <2>1 DEF Saw
  <2>4. \A d \in heard : d # c => Off(d)' /\ On(d)' /\ Wrong(d)'
    BY <1>10, <1>11, <1>13, <2>3 DEF IInv, EnvType
  <2> QED
    BY <1>1, <1>8, <1>9, <2>2, <2>4 DEF Heeded, Told
<1>14. row[c] # "deleted"
  BY <1>3 DEF Places
<1> QED
  BY <1>3, <1>12, <1>13, <1>14 DEF LoopTake

LEMMA ActHeeded ==
    ASSUME IInv, Places, Heeded, LoopAct
    PROVE  Heeded'
<1>1. /\ Loop \in Task /\ Loop \notin Request
      /\ cam[Loop] \in Camera /\ Quiet(Loop)
      /\ pc'[Loop] = "handling" /\ pc[Loop] \in {"saw_online", "saw_other"}
      /\ UNCHANGED <<row, settings, scan, bus, heard>>
      /\ \A r \in Request : UNCHANGED <<pc[r], cam[r]>>
  BY LoopAssumption
     DEF LoopAct, Goto, IInv, EnvType, CamKnown, AtWork, CallsFollowPc,
         BetweenCalls, Task, env, bus
<1>2. PICK c \in Camera : c = cam[Loop]
  BY <1>1
<1>3. /\ \A d \in Camera : /\ Announced(d)' <=> Announced(d)
                           /\ Mentioned(d)' <=> Mentioned(d)
      /\ LostTold' /\ ScanTold'
  BY <1>1, BusFrame DEF Heeded
<1>4. \A d : ~Saw("saw_online", d)' /\ ~Saw("saw_other", d)'
  BY <1>1 DEF Saw
<1>5. \A d : d # c => ~Saw("saw_online", d) /\ ~Saw("saw_other", d)
  BY <1>2 DEF Saw
<1>6. ASSUME NEW d \in heard, d # c, Coming(d)' <=> Coming(d)
      PROVE  Off(d)' /\ On(d)' /\ Wrong(d)'
  <2>1. d \in Camera /\ Off(d) /\ On(d) /\ Wrong(d)
    BY DEF Heeded, Told, IInv, EnvType
  <2> QED
    BY <1>1, <1>3, <1>4, <1>5, <1>6, <2>1 DEF Off, On, Wrong
<1>7. c \in heard => Off(c) /\ On(c) /\ Wrong(c)
  BY DEF Heeded, Told
<1>8. CASE pc[Loop] = "saw_online" /\ BeginStart(Loop, c)
  <2>1. call[Loop][c].at = "idle"
    BY <1>1 DEF Quiet, Idle
  <2>2. Coming(c)' /\ \A d \in Camera : d # c => (Coming(d)' <=> Coming(d))
    BY <1>1, <1>8, <2>1, BeginStartEffect DEF IInv
  <2>3. Saw("saw_online", c) /\ ~Saw("saw_other", c)
    BY <1>2, <1>8 DEF Saw
  <2>4. c \in heard => Off(c)' /\ On(c)' /\ Wrong(c)'
    BY <1>1, <1>3, <1>4, <1>7, <2>2, <2>3 DEF Off, On, Wrong
  <2>5. \A d \in heard : d # c => Off(d)' /\ On(d)' /\ Wrong(d)'
    BY <1>6, <2>2 DEF IInv, EnvType
  <2> QED
    BY <1>1, <1>3, <2>4, <2>5 DEF Heeded, Told
<1>9. CASE pc[Loop] = "saw_online" /\ ~settings.enabled /\ UNCHANGED mgr
  <2>1. \A d \in Camera : Coming(d)' <=> Coming(d)
    BY <1>9 DEF mgr, Coming, StartCall, Running, Entry
  <2>2. Saw("saw_online", c) /\ ~Saw("saw_other", c)
    BY <1>2, <1>9 DEF Saw
  <2>3. c \in heard => Off(c)' /\ On(c)' /\ Wrong(c)'
    BY <1>1, <1>3, <1>4, <1>7, <1>9, <2>1, <2>2 DEF Off, On, Wrong
  <2>4. \A d \in heard : d # c => Off(d)' /\ On(d)' /\ Wrong(d)'
    BY <1>6, <2>1 DEF IInv, EnvType
  <2> QED
    BY <1>1, <1>3, <2>3, <2>4 DEF Heeded, Told
<1>10. CASE pc[Loop] = "saw_other" /\ BeginStop(Loop, c)
  <2>1. /\ Coming(c)' => \E u \in Task : u # Loop /\ StartCall(u, c)
        /\ \A d \in Camera : d # c => (Coming(d)' <=> Coming(d))
    BY <1>1, <1>10, BeginStopEffect DEF IInv
  <2>2. \A u \in Task : u # Loop /\ StartCall(u, c) => Announcing(c)
    BY <1>1 DEF StartCall, Idle, Places, Announcing, Task
  <2>3. Saw("saw_other", c)
    BY <1>2, <1>10 DEF Saw
  <2>4. c \in heard => Off(c)' /\ On(c)' /\ Wrong(c)'
    <3>1. Coming(c)' => Mentioned(c)'
      BY <1>1, <1>3, <2>1, <2>2 DEF Mentioned, Announced
    <3> QED
      BY <1>1, <1>3, <1>4, <1>7, <2>3, <3>1 DEF Off, On, Wrong
  <2>5. \A d \in heard : d # c => Off(d)' /\ On(d)' /\ Wrong(d)'
    BY <1>6, <2>1 DEF IInv, EnvType
  <2> QED
    BY <1>1, <1>3, <2>4, <2>5 DEF Heeded, Told
<1> QED
  BY <1>2, <1>8, <1>9, <1>10 DEF LoopAct

LEMMA HeededStep ==
    ASSUME IInv, Places, Heeded, FewerSteps, Places'
    PROVE  Heeded'
<1>1. Loop \in Task /\ Loop \notin Request /\ Request \subseteq Task
  BY LoopAssumption DEF Task
<1>2. pc \in [Task -> PC] /\ cam \in [Task -> Camera \cup {None}] /\ EnvType
  BY DEF IInv, EnvType
<1>3. CASE LoopLoad \/ LoopBootstrap \/ LoopSubscribe \/ StartNext(Loop)
  <2>1. ~Subscribed
    BY <1>1, <1>3 DEF LoopLoad, LoopBootstrap, LoopSubscribe, StartNext,
       Subscribed, Places, LoopPlaces
  <2>2. UNCHANGED <<row, scan, queue, heard>>
    BY <1>3 DEF LoopLoad, LoopBootstrap, LoopSubscribe, StartNext, env, bus
  <2> QED
    BY <2>1, <2>2, UnheardHeeded DEF Heeded, Places
<1>4. CASE LoopDone
  <2>1. /\ pc[Loop] = "handling" /\ pc'[Loop] = "idle" /\ UNCHANGED <<mgr, env>>
        /\ \A r \in Request : UNCHANGED <<pc[r], cam[r]>>
    BY <1>1, <1>2, <1>4 DEF LoopDone, Finish
  <2>2. /\ \A c \in Camera : /\ Announced(c)' <=> Announced(c)
                             /\ Mentioned(c)' <=> Mentioned(c)
        /\ LostTold' /\ ScanTold'
    BY <2>1, BusFrame DEF Heeded, env
  <2>3. ASSUME NEW c \in heard
        PROVE  Off(c)' /\ On(c)' /\ Wrong(c)'
    <3>1. /\ Coming(c)' <=> Coming(c)
          /\ row' = row /\ settings' = settings
      BY <2>1 DEF mgr, env, Coming, StartCall, Running, Entry
    <3>2. /\ ~Saw("saw_online", c) /\ ~Saw("saw_other", c)
          /\ ~Saw("saw_online", c)' /\ ~Saw("saw_other", c)'
      BY <2>1 DEF Saw
    <3>3. c \in Camera /\ Off(c) /\ On(c) /\ Wrong(c)
      BY <1>2 DEF Heeded, Told, EnvType
    <3> QED
      BY <2>2, <3>1, <3>2, <3>3 DEF Off, On, Wrong
  <2> QED
    BY <2>1, <2>2, <2>3 DEF Heeded, Told, env, bus
<1>5. CASE LoopTake
  BY <1>5, TakeHeeded
<1>6. CASE LoopAct
  BY <1>6, ActHeeded
<1>7. ASSUME NEW r \in Request, RequestStep(r)
      PROVE  Heeded'
  <2>1. PICK c \in Camera : Works(r, c)
    BY <1>7, RequestWorks
  <2> QED
    BY <1>2, <2>1, RequestHeeded
<1>8. ASSUME NEW r \in Request, EmitStep(r)
      PROVE  Heeded'
  <2>1. PICK c \in Camera : /\ Emit("camera_updated", c)
                            /\ cam[r] = c \/ UNCHANGED prog
    BY <1>1, <1>8 DEF EmitStep, Rename, RetryEmit, LogoutEmit, IInv, CamKnown,
       AtWork
  <2>2. /\ UNCHANGED <<mgr, row, settings, scan>>
        /\ \A u \in Task : u # r => pc'[u] = pc[u] /\ cam'[u] = cam[u]
    BY <1>8, <1>2 DEF EmitStep, Rename, RetryEmit, LogoutEmit, Finish, prog
  <2>3. \A d \in Camera : d # c /\ Announcing(d) => Announcing(d)'
    BY <1>1, <2>1, <2>2 DEF Announcing, prog
  <2>4. Emits("camera_updated", c)
    BY <1>1, <2>1, <2>2, <2>3 DEF Emits
  <2> QED
    BY <1>2, <2>4, EmitHeeded
<1>9. ASSUME NEW t \in Task, NEW c \in Camera, CallStep(t, c)
      PROVE  Heeded'
  <2>1. UNCHANGED <<prog, env>>
    BY <1>9 DEF CallStep, RunStart, StaleStopped, StartReturns, RunStop,
       StopReturns
  <2>2. /\ \A d \in Camera : Coming(d)' => Coming(d)
        /\ ~MayFail => \A d \in Camera : Coming(d) => Coming(d)'
    BY <1>9, CallEffect DEF IInv, Places
  <2> QED
    BY <1>2, <2>1, <2>2, CallHeeded
<1>10. ASSUME NEW i \in Rec, GiveUp(i)
       PROVE  Heeded'
  <2>1. UNCHANGED <<prog, env>> /\ MayFail
    BY <1>10 DEF GiveUp
  <2>2. \A d \in Camera : Coming(d)' => Coming(d)
    BY <1>10, GiveUpEffect DEF IInv
  <2> QED
    BY <1>2, <2>1, <2>2, CallHeeded
<1>11. ASSUME NEW c \in Camera, ScanChange(c)
       PROVE  Heeded'
  BY <1>2, <1>11, ScanHeeded
<1>12. CASE ScanEmit
  <2> DEFINE type == scan.type
             c == scan.camera
  <2>1. /\ scan \in Event /\ type \in {"camera_updated", "camera_lost"}
        /\ c \in Camera /\ scan = [type |-> type, camera |-> c]
    BY <1>2, <1>12 DEF ScanEmit, EnvType, Event
  <2>2. Emit(type, c) /\ scan' = None /\ UNCHANGED <<mgr, prog, row, settings>>
    BY <1>12 DEF ScanEmit
  <2> HIDE DEF type, c
  <2>3. type = "camera_lost" => row[c] # "online"
    BY <2>1 DEF Heeded, ScanTold, Lost
  <2>4. \A d \in Camera : Announcing(d) => Announcing(d)'
    BY <2>2 DEF Announcing, prog
  <2>5. Emits(type, c)
    BY <2>1, <2>2, <2>3, <2>4 DEF Emits, prog
  <2> QED
    BY <1>2, <2>1, <2>5, EmitHeeded
<1> QED
  BY <1>3, <1>4, <1>5, <1>6, <1>7, <1>8, <1>9, <1>10, <1>11, <1>12
     DEF FewerSteps, LoopStep

LEMMA InitHeeded == Init => Places /\ Heeded
<1> SUFFICES ASSUME Init PROVE Places /\ Heeded
  OBVIOUS
<1>1. Loop \in Task /\ Loop \notin Request /\ Request \subseteq Task
  BY LoopAssumption DEF Task
<1>2. Places
  BY <1>1 DEF Init, Places, LoopPlaces, Working, Idle, Subscribed
<1>3. \A c \in Camera : scan # Lost(c)
  BY EventAssumption DEF Init, Event, Lost
<1> QED
  BY <1>2, <1>3 DEF Init, Heeded, Told, LostTold, ScanTold

\* However retry-main, logout and rename requests interleave with the scanner,
\* the event loop and the starts and stops in progress, over any number of
\* cameras and requests: once everything is quiet, a camera of which the
\* manager has heard is recorded exactly if its row says that it is online.
THEOREM SettledAlways == Ops \subseteq Announces => (Spec => []Settled)
<1> SUFFICES ASSUME Ops \subseteq Announces PROVE Spec => []Settled
  OBVIOUS
<1>1. IInv /\ Places /\ Heeded /\ [Next]_vars => (Places /\ Heeded)'
  <2> SUFFICES ASSUME IInv, Places, Heeded, [Next]_vars
               PROVE  (Places /\ Heeded)'
    OBVIOUS
  <2>1. CASE Next
    BY <2>1, OnlyFewer, PlacesStep, HeededStep
  <2>2. CASE UNCHANGED vars
    <3>1. UNCHANGED <<mgr, prog, env>>
      BY <2>2 DEF vars
    <3>2. Places'
      BY <3>1 DEF Places, Subscribed, mgr, prog, env, bus
    <3>3. \A d \in Camera : Coming(d)' <=> Coming(d)
      BY <3>1 DEF mgr, Coming, StartCall, Running, Entry
    <3> QED
      BY <3>1, <3>2, <3>3, CallHeeded DEF IInv
  <2> QED
    BY <2>1, <2>2
<1>2. IInv /\ Places /\ Heeded => Settled
  <2> SUFFICES ASSUME IInv, Places, Heeded, AtRest, NEW c \in heard
               PROVE  /\ Running(c) => row[c] = "online"
                      /\ settings.enabled /\ ~MayFail /\ row[c] = "online"
                            => Running(c)
    BY DEF Settled, SettledOffline, SettledOnline
  <2>1. c \in Camera /\ Loop \in Task /\ Request \subseteq Task
    BY DEF IInv, EnvType, Task
  <2>2. ~Saw("saw_online", c) /\ ~Saw("saw_other", c)
    BY <2>1 DEF AtRest, Saw
  <2>3. ~Announced(c) /\ ~Mentioned(c)
    <3>1. ~Announcing(c)
      BY <2>1 DEF AtRest, Announcing, Working
    <3>2. scan # Updated(c) /\ scan # Lost(c)
      BY <2>1, EventAssumption DEF AtRest, Event, Updated, Lost
    <3>3. ~InQueue(Updated(c)) /\ ~InQueue(Lost(c))
      BY DEF AtRest, InQueue
    <3> QED
      BY <3>1, <3>2, <3>3 DEF Announced, Mentioned
  <2>4. Coming(c) <=> Running(c)
    BY <2>1 DEF AtRest, Quiet, Idle, Coming, StartCall
  <2>5. Off(c) /\ On(c)
    BY DEF Heeded, Told
  <2> QED
    BY <2>2, <2>3, <2>4, <2>5 DEF Off, On
<1> QED
  BY <1>1, <1>2, InitHeeded, Invariance, PTL DEF Spec
=============================================================================
