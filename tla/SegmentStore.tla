----------------------------- MODULE SegmentStore -----------------------------
(***************************************************************************)
(* The segments of one camera, as files and as rows: CameraRecorder's      *)
(* stderr watcher and stop() finalise them, recording/janitor.py keeps     *)
(* them within the budget, and the next start-up clears what a crash left. *)
(*                                                                         *)
(* Three tasks run _finalize_segment or enforce_storage_limit: the         *)
(* watcher, stop() and the periodic janitor.  An action runs from one      *)
(* await to the next.  A statement and its commit are one step, taken when *)
(* the database's thread executes it; a task cancelled while it waits for  *)
(* its statement does not take the statement back.                         *)
(*                                                                         *)
(* Segments are numbered by the time they start.  A segment is closed when *)
(* the next one opens or ffmpeg exits, and only then finalised, so its     *)
(* size is a constant.                                                     *)
(***************************************************************************)
EXTENDS Naturals, FiniteSets, Functions

CONSTANTS MaxSeg,     \* bound on the segments
          Bytes,      \* size of each closed segment
          LIMIT, LOW, \* max_storage_gb, before and after the user lowers it
          BATCH,      \* rows that get_oldest_recordings returns at most
          VALIDATE,   \* settings.validate_segments
          MaxCrashes, \* bound on the crashes
          MaxFaults   \* bound on the statements and unlinks that fail

Seg == 1..MaxSeg
Task == {"watcher", "stop", "janitor"}

ASSUME SegAssumption == MaxSeg \in Nat /\ BATCH \in Nat \ {0}
ASSUME BytesAssumption == Bytes \in [Seg -> Nat \ {0}]
ASSUME LimitAssumption == LIMIT \in Nat /\ LOW \in Nat /\ VALIDATE \in BOOLEAN
ASSUME FaultAssumption == MaxCrashes \in Nat /\ MaxFaults \in Nat

VARIABLES
    disk,     \* the files
    row,      \* the rows of the recordings table: in progress (open), or done
    ffmpeg,   \* whether the recording ffmpeg is alive
    opened,   \* the last segment that an ffmpeg opened
    heard,    \* the last one whose "Opening" line was read, or given up
    recorder, \* the CameraRecorder: none, run, stop (draining), final
    cur,      \* _current_segment_path; 0 is None
    phase,    \* of run_forever: boot, sweep, serve
    limit,    \* _limit_bytes
    clearing, \* POST /settings/clear-data is between the rows and the files
    at,       \* where each task is, and its local variables
    crashes, faults,
    owed,     \* history: an enforcement was due and was cut short or failed
    lost      \* history: segments that nobody will finalise any more

store == <<disk, row>>
service == <<phase, limit, clearing>>
camera == <<ffmpeg, opened, heard, recorder, cur>>
bounds == <<crashes, faults>>
history == <<owed, lost>>
vars == <<store, camera, service, at, bounds, history>>

Step == {"off", "idle", "insert", "check", "hash", "complete", "used", "list",
         "delete"}
Locals == [pc : Step,
           seg : 0..MaxSeg,     \* the segment to finalise; 0 is None
           due : Nat,           \* bytes_to_free
           freed : Nat,
           list : SUBSET Seg]   \* the rows of oldest that are still to go

Here(step) == [pc |-> step, seg |-> 0, due |-> 0, freed |-> 0, list |-> {}]

Done == {s \in Seg : row[s] = "done"}

\* get_total_used_bytes: rows in progress have no size yet.
Used == SumFunctionOnSet(Bytes, Done)

OldestMutant ==             \* ORDER BY started_at DESC
    {s \in Done : Cardinality({t \in Done : t > s}) < BATCH}

\* get_oldest_recordings.
Oldest == {s \in Done : Cardinality({t \in Done : t < s}) < BATCH}

TypeOK ==
    /\ disk \in [Seg -> {"none", "open", "closed"}]
    /\ row \in [Seg -> {"none", "open", "done"}]
    /\ ffmpeg \in BOOLEAN
    /\ opened \in 0..MaxSeg /\ heard \in 0..opened /\ cur \in 0..heard
    /\ recorder \in {"none", "run", "stop", "final"}
    /\ phase \in {"boot", "sweep", "serve"}
    /\ limit \in {LIMIT, LOW} /\ clearing \in BOOLEAN
    /\ at \in [Task -> Locals]
    /\ \A t \in Task : at[t].pc = "delete" <=> at[t].list # {}
    /\ crashes \in 0..MaxCrashes /\ faults \in 0..MaxFaults
    /\ owed \in BOOLEAN /\ lost \subseteq Seg

Init ==
    /\ disk = [s \in Seg |-> "none"] /\ row = [s \in Seg |-> "none"]
    /\ ffmpeg = FALSE /\ opened = 0 /\ heard = 0
    /\ recorder = "none" /\ cur = 0
    /\ phase = "boot" /\ limit = LIMIT /\ clearing = FALSE
    /\ at = [t \in Task |-> Here("off")]
    /\ crashes = 0 /\ faults = 0
    /\ owed = FALSE /\ lost = {}

(***************************************************************************)
(* The recorder and its ffmpeg.                                            *)
(***************************************************************************)
Closed == [s \in Seg |-> IF disk[s] = "open" THEN "closed" ELSE disk[s]]

\* The API serves before run_forever has cleaned up, and may start recorders.
StartRecorder ==
    /\ recorder = "none"
    /\ recorder' = "run" /\ ffmpeg' = TRUE
    /\ heard' = opened /\ cur' = 0
    /\ at' = [at EXCEPT !["watcher"] = Here("idle")]
    /\ UNCHANGED <<store, opened, service, bounds, history>>

Rotates ==
    /\ ffmpeg
    /\ opened < MaxSeg
    /\ opened' = opened + 1
    /\ disk' = [Closed EXCEPT ![opened + 1] = "open"]
    /\ UNCHANGED <<row, ffmpeg, heard, recorder, cur, service, at, bounds,
                   history>>

Exits ==
    /\ ffmpeg
    /\ ffmpeg' = FALSE
    /\ disk' = Closed
    /\ UNCHANGED <<row, opened, heard, recorder, cur, service, at, bounds,
                   history>>

Unheard == (heard + 1)..opened

\* The backoff is longer than what the watcher has left to read and finalise;
\* a watcher that died leaves its lines unread.
Respawns ==
    /\ recorder = "run" /\ ~ffmpeg
    /\ \/ at["watcher"].pc = "idle" /\ heard = opened
       \/ at["watcher"].pc = "off"
    /\ ffmpeg' = TRUE
    /\ heard' = opened
    /\ lost' = lost \cup Unheard
    /\ at' = [at EXCEPT !["watcher"] = Here("idle")]
    /\ UNCHANGED <<store, opened, recorder, cur, service, bounds, owed>>

(***************************************************************************)
(* _stderr_watcher and _finalize_segment.                                  *)
(***************************************************************************)
\* "Opening ... for writing".
ReadLine ==
    /\ at["watcher"].pc = "idle"
    /\ heard < opened
    /\ heard' = heard + 1
    /\ cur' = heard + 1
    /\ at' = [at EXCEPT !["watcher"].pc = "insert", !["watcher"].seg = cur]
    /\ UNCHANGED <<store, ffmpeg, opened, recorder, service, bounds, history>>

Goto(t, step) ==
    at' = [at EXCEPT ![t] = IF step = "idle" THEN Here("idle")
                            ELSE [@ EXCEPT !.pc = step]]

InsertMutant ==             \* the segment before is not finalised
    /\ at["watcher"].pc = "insert"
    /\ row' = [row EXCEPT ![cur] = "open"]
    /\ Goto("watcher", "idle")
    /\ UNCHANGED <<disk, camera, service, bounds, history>>

Insert ==
    /\ at["watcher"].pc = "insert"
    /\ row' = [row EXCEPT ![cur] = "open"]
    /\ Goto("watcher", IF at["watcher"].seg = 0 THEN "idle" ELSE "check")
    /\ UNCHANGED <<disk, camera, service, bounds, history>>

\* The file may be gone; a segment of the wrong length is deleted, and its row
\* stays in progress.
Check(t) ==
    /\ at[t].pc = "check"
    /\ \/ /\ disk[at[t].seg] = "none"
          /\ Goto(t, "idle")
          /\ UNCHANGED disk
       \/ /\ disk[at[t].seg] # "none"
          /\ Goto(t, "hash")
          /\ UNCHANGED disk
       \/ /\ VALIDATE
          /\ disk[at[t].seg] # "none"
          /\ Goto(t, "idle")
          /\ disk' = [disk EXCEPT ![at[t].seg] = "none"]
    /\ UNCHANGED <<row, camera, service, bounds, history>>

\* The size is taken before the digest is awaited.
Hash(t) ==
    /\ at[t].pc = "hash"
    /\ Goto(t, "complete")
    /\ UNCHANGED <<store, camera, service, bounds, history>>

\* UPDATE ... WHERE file_path: the row may be gone.
Completed(s) == [row EXCEPT ![s] = IF @ = "none" THEN "none" ELSE "done"]

Complete(t) ==
    /\ at[t].pc = "complete"
    /\ row' = Completed(at[t].seg)
    /\ Goto(t, "used")
    /\ UNCHANGED <<disk, camera, service, bounds, history>>

(***************************************************************************)
(* enforce_storage_limit.                                                  *)
(***************************************************************************)
JanitorWakes ==
    /\ phase = "serve"
    /\ at["janitor"].pc = "idle"
    /\ Goto("janitor", "used")
    /\ UNCHANGED <<store, camera, service, bounds, history>>

MeasureMutant(t) ==         \* no early return
    /\ at[t].pc = "used"
    /\ owed' = FALSE
    /\ at' = [at EXCEPT ![t].pc = "list", ![t].due = Used - limit]
    /\ UNCHANGED <<store, camera, service, bounds, lost>>

MeasureStale(t) ==          \* the limit of the start-up
    /\ at[t].pc = "used"
    /\ owed' = FALSE
    /\ IF Used <= LIMIT
       THEN Goto(t, "idle")
       ELSE at' = [at EXCEPT ![t].pc = "list", ![t].due = Used - LIMIT]
    /\ UNCHANGED <<store, camera, service, bounds, lost>>

Measure(t) ==
    /\ at[t].pc = "used"
    /\ owed' = FALSE
    /\ IF Used <= limit
       THEN Goto(t, "idle")
       ELSE at' = [at EXCEPT ![t].pc = "list", ![t].due = Used - limit]
    /\ UNCHANGED <<store, camera, service, bounds, lost>>

\* The row at hand loses its file, without an await before its DELETE.  An
\* unlink that fails is logged, and the row deleted all the same.
Unlink(s) ==
    \/ /\ disk' = [disk EXCEPT ![s] = "none"]
       /\ UNCHANGED <<faults, lost>>
    \/ /\ disk[s] # "none"
       /\ faults < MaxFaults
       /\ faults' = faults + 1
       /\ lost' = lost \cup {s}
       /\ UNCHANGED disk

\* Rows are taken in the order of the query.
First(list) == CHOOSE s \in list : \A t \in list : s <= t

List(t) ==
    /\ at[t].pc = "list"
    /\ \/ /\ Oldest = {}
          /\ Goto(t, "idle")
          /\ UNCHANGED <<disk, faults, lost>>
       \/ /\ Oldest # {}
          /\ at' = [at EXCEPT ![t].pc = "delete", ![t].list = Oldest]
          /\ Unlink(First(Oldest))
    /\ UNCHANGED <<row, camera, service, crashes, owed>>

Deleted(t) == [row EXCEPT ![First(at[t].list)] = "none"]
Sum(t) == at[t].freed + Bytes[First(at[t].list)]
Rest(t) == at[t].list \ {First(at[t].list)}

DeleteMutant(t) ==          \* off by one: stops a byte early
    /\ at[t].pc = "delete"
    /\ row' = Deleted(t)
    /\ \/ /\ Sum(t) + 1 >= at[t].due
          /\ Goto(t, "idle")
          /\ UNCHANGED <<disk, faults, lost>>
       \/ /\ Sum(t) + 1 < at[t].due
          /\ Rest(t) = {}
          /\ at' = [at EXCEPT ![t].pc = "list", ![t].freed = Sum(t), ![t].list = {}]
          /\ UNCHANGED <<disk, faults, lost>>
       \/ /\ Sum(t) + 1 < at[t].due
          /\ Rest(t) # {}
          /\ at' = [at EXCEPT ![t].freed = Sum(t), ![t].list = Rest(t)]
          /\ Unlink(First(Rest(t)))
    /\ UNCHANGED <<camera, service, crashes, owed>>

\* delete_recording, and on to the end, the next batch or the next row.
Delete(t) ==
    /\ at[t].pc = "delete"
    /\ row' = Deleted(t)
    /\ \/ /\ Sum(t) >= at[t].due
          /\ Goto(t, "idle")
          /\ UNCHANGED <<disk, faults, lost>>
       \/ /\ Sum(t) < at[t].due
          /\ Rest(t) = {}
          /\ at' = [at EXCEPT ![t].pc = "list", ![t].freed = Sum(t), ![t].list = {}]
          /\ UNCHANGED <<disk, faults, lost>>
       \/ /\ Sum(t) < at[t].due
          /\ Rest(t) # {}
          /\ at' = [at EXCEPT ![t].freed = Sum(t), ![t].list = Rest(t)]
          /\ Unlink(First(Rest(t)))
    /\ UNCHANGED <<camera, service, crashes, owed>>

\* A statement fails.  The watcher dies of a failed INSERT and the janitor of
\* any; _finalize_segment logs the rest.
StatementFails(t) ==
    /\ at[t].pc \in {"insert", "complete", "used", "list", "delete"}
    /\ faults < MaxFaults
    /\ faults' = faults + 1
    /\ at' = [at EXCEPT ![t] = Here(IF t = "janitor" \/ @.pc = "insert" THEN "off"
                                    ELSE "idle")]
    /\ owed' = (owed \/ at[t].pc # "insert")
    /\ lost' = lost \cup CASE at[t].pc = "insert" -> {cur, at[t].seg} \ {0}
                           [] at[t].pc = "complete" -> {at[t].seg}
                           [] OTHER -> {}
    /\ UNCHANGED <<store, camera, service, crashes>>

Busy(t) == at[t].pc \in {"complete", "used", "list", "delete"}

(***************************************************************************)
(* CameraRecorder.stop().                                                  *)
(***************************************************************************)
StopBegins ==
    /\ recorder = "run"
    /\ recorder' = "stop"
    /\ UNCHANGED <<store, ffmpeg, opened, heard, cur, service, at, bounds,
                   history>>

\* What the cancelled watcher's statement still does.
Lands == LET watcher == at["watcher"]
         IN CASE watcher.pc = "insert" -> [row EXCEPT ![cur] = "open"]
              [] watcher.pc = "complete" -> Completed(watcher.seg)
              [] watcher.pc = "delete" -> Deleted("watcher")
              [] OTHER -> row

CurExists == cur # 0 /\ disk[cur] # "none"

\* ffmpeg has exited: the watcher is cancelled wherever it is, and the segment
\* it heard of last is finalised.
StopCancels ==
    /\ recorder = "stop"
    /\ ~ffmpeg
    /\ row' = Lands
    /\ heard' = opened
    /\ lost' = lost \cup Unheard \cup
               (IF at["watcher"].pc \in {"insert", "check", "hash"}
                THEN {at["watcher"].seg} \ {0} ELSE {})
    /\ owed' = (owed \/ Busy("watcher"))
    /\ \/ /\ CurExists
          /\ recorder' = "final"
          /\ at' = [at EXCEPT !["watcher"] = Here("off"),
                              !["stop"] = [Here("check") EXCEPT !.seg = cur]]
          /\ UNCHANGED cur
       \/ /\ ~CurExists
          /\ recorder' = "none" /\ cur' = 0
          /\ at' = [at EXCEPT !["watcher"] = Here("off")]
    /\ UNCHANGED <<disk, ffmpeg, opened, service, bounds>>

StopReturns ==
    /\ recorder = "final"
    /\ at["stop"].pc = "idle"
    /\ recorder' = "none" /\ cur' = 0
    /\ Goto("stop", "off")
    /\ UNCHANGED <<store, ffmpeg, opened, heard, service, bounds, history>>

(***************************************************************************)
(* Start-up, crashes and the settings.                                     *)
(***************************************************************************)
\* cleanup_orphan_in_progress.
Purge ==
    /\ phase = "boot"
    /\ phase' = "sweep"
    /\ row' = [s \in Seg |-> IF row[s] = "open" THEN "none" ELSE row[s]]
    /\ lost' = lost \cup {s \in Seg : row[s] = "open"}
    /\ UNCHANGED <<disk, camera, limit, clearing, at, bounds, owed>>

\* cleanup_orphan_files; the janitor's loop starts after it.
Sweep ==
    /\ phase = "sweep"
    /\ phase' = "serve"
    /\ disk' = [s \in Seg |-> IF row[s] = "none" THEN "none" ELSE disk[s]]
    /\ Goto("janitor", "idle")
    /\ UNCHANGED <<row, camera, limit, clearing, bounds, history>>

\* The tether takes ffmpeg down with the program.
Crash ==
    /\ crashes < MaxCrashes
    /\ crashes' = crashes + 1
    /\ phase' = "boot"
    /\ disk' = Closed
    /\ ffmpeg' = FALSE /\ recorder' = "none" /\ cur' = 0 /\ heard' = opened
    /\ at' = [t \in Task |-> Here("off")] /\ clearing' = FALSE
    /\ owed' = TRUE
    /\ lost' = lost \cup {s \in Seg : disk[s] # "none" /\ row[s] # "done"}
    /\ UNCHANGED <<row, opened, limit, faults>>

\* POST /settings: enforced by the next segment or the next round of the
\* janitor.
LowerLimit ==
    /\ limit # LOW
    /\ limit' = LOW
    /\ owed' = TRUE
    /\ UNCHANGED <<store, camera, phase, at, bounds, lost, clearing>>

\* POST /settings/clear-data, once the recorders are shut down: the rows, then
\* the directory.  Other tasks may start a recorder in between.
ClearRows ==
    /\ phase = "serve" /\ recorder = "none" /\ ~clearing
    /\ clearing' = TRUE
    /\ row' = [s \in Seg |-> "none"]
    /\ lost' = lost \cup {s \in Seg : disk[s] # "none"}
    /\ UNCHANGED <<disk, camera, phase, limit, at, bounds, owed>>

ClearFiles ==
    /\ clearing
    /\ clearing' = FALSE
    /\ disk' = [s \in Seg |-> "none"]
    /\ UNCHANGED <<row, camera, phase, limit, at, bounds, history>>

Finalise(t) == Check(t) \/ Hash(t) \/ Complete(t)
Enforce(t) == Measure(t) \/ List(t) \/ Delete(t)
Startup == Purge \/ Sweep
Clear == ClearRows \/ ClearFiles
Ffmpeg == Rotates \/ Exits \/ Respawns
Stop == StopBegins \/ StopCancels \/ StopReturns

Next == \/ StartRecorder \/ Ffmpeg \/ ReadLine \/ Insert \/ JanitorWakes
        \/ \E t \in Task : Finalise(t) \/ Enforce(t) \/ StatementFails(t)
        \/ Stop \/ Startup \/ Clear \/ Crash \/ LowerLimit

Spec == Init /\ [][Next]_vars

\* The event loop and the database's thread are never idle while there is
\* something to do; the start-up goes on.
Fairness ==
    /\ WF_vars(Startup) /\ WF_vars(JanitorWakes)
    /\ \A t \in Task : WF_vars(Finalise(t) \/ Enforce(t))

FairSpec == Spec /\ Fairness

(***************************************************************************)
(* Properties.                                                             *)
(***************************************************************************)
\* What can be played is a ring: only the newest segment is added and only the
\* oldest is taken away, whichever tasks enforce the budget at once, wherever
\* they are cancelled or fail, and across crashes.
Ring == INSTANCE RetentionRing
            WITH Segment <- Seg, kept <- {s \in Done : disk[s] # "none"}
KeepsRing == Ring!Spec

\* A row whose file is gone (the program died, or the DELETE failed, between
\* the two) is older than any that has its file: the next enforcement takes it
\* first.
GhostsOldest ==
    \A s, t \in Done : disk[s] = "none" /\ disk[t] # "none" => s < t

\* When no task is busy the completed segments fit the budget, unless an
\* enforcement was cut short or failed, or the budget was lowered: two
\* enforcements at once never free too little.
BudgetKept == owed \/ Used <= limit \/ \E t \in Task : Busy(t)

\* A closed file that is not in the archive is about to be finalised, unless
\* the program stopped, crashed or failed a statement in the middle.
NothingForgotten ==
    \A s \in Seg : disk[s] = "closed" /\ row[s] # "done" /\ s \notin lost =>
        \/ s = cur \/ s > heard
        \/ \E t \in Task : /\ s = at[t].seg
                           /\ at[t].pc \in {"insert", "check", "hash", "complete"}

\* The budget is restored in the end, by the janitor if by nobody else, unless
\* the janitor's loop has died.
BudgetRestored ==
    (Used > limit) ~> \/ Used <= limit
                      \/ phase = "serve" /\ at["janitor"].pc = "off"

(***************************************************************************)
(* What the repository says and the code does not do.                      *)
(***************************************************************************)
\* enforce_storage_limit: "Delete oldest completed recordings until total disk
\* usage <= limit_bytes".
NoOverDeletion ==
    [][\A t \in Task : Delete(t) /\ row' # row => Used > limit]_vars

\* cleanup_orphan_in_progress: "any in_progress=1 rows are from a crashed
\* previous run".
PurgeOnlyCrashed ==
    [][Purge => \A s \in Seg : row[s] = "open" => s # cur]_vars
===============================================================================
