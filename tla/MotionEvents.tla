----------------------------- MODULE MotionEvents -----------------------------
(***************************************************************************)
(* motion/detector.py: the life of a motion event.  The consumer of frames *)
(* opens and updates it, the idle closer and stop() close it, each under   *)
(* self._lock; each waits for the database inside the lock, and stop()     *)
(* cancels the other two wherever they are.                                *)
(*                                                                         *)
(* aiosqlite executes statements in the order they were submitted; one     *)
(* whose task was cancelled is executed all the same.  A function of db.py *)
(* that executes several is one statement here, and so are the DELETEs of  *)
(* the request to clear the data.  A frame is what is left of it when the  *)
(* filters are done: the best track, if any, and whether it improves on    *)
(* what the event is classified as.                                        *)
(***************************************************************************)
EXTENDS Naturals, Sequences, FiniteSets

CONSTANTS MaxEvents,    \* bound on the events
          Track,        \* ByteTracker's ids
          NoTrack,
          MaxFaults,    \* bound on the statements that fail
          MayClear      \* whether the user clears the data

ASSUME BoundAssumption == MaxEvents \in Nat /\ MaxFaults \in Nat
ASSUME TrackAssumption == NoTrack \notin Track /\ MayClear \in BOOLEAN

Ev == 1..MaxEvents
Task == {"consumer", "closer", "stop"}

VARIABLES
    row,        \* motion_events
    tracked,    \* tracked_events: how often a row was inserted for a track
    db,         \* statements submitted and not executed
    errors,     \* tasks whose statement raised
    cur,        \* _current_event_id; 0 is None
    ids,        \* _current_event_tracked_ids
    lock,       \* who holds _lock
    at,         \* where each task is
    seen,       \* the consumer's frame: its best track, and event_id
    quiet,      \* _last_frame_at is MOTION_DEBOUNCE_SECONDS ago
    clear,      \* POST /settings/clear-data: no, sent, done
    faults,
    opened,     \* history: events that got an id
    started,    \* history: events announced by motion_started
    ended,      \* history: how often motion_ended and a clip were sent off
    spoiled     \* history: a statement about the event failed, or was cleared

event == <<cur, ids>>
store == <<row, tracked, db, errors, faults, spoiled>>
told == <<opened, started, ended>>
vars == <<store, event, lock, at, seen, quiet, clear, told>>

Statement == [by : Task \cup {"clear"},
              op : {"insert", "classify", "track", "complete", "delete"},
              ev : 0..MaxEvents, track : Track \cup {NoTrack}]

TypeOK ==
    /\ row \in [Ev -> {"none", "open", "ended"}]
    /\ tracked \in [Ev \X Track -> Nat]
    /\ db \in Seq(Statement)
    /\ errors \subseteq Task
    /\ cur \in 0..MaxEvents /\ ids \subseteq Track
    /\ lock \in Task \cup {"free"}
    /\ at \in [Task -> {"idle", "insert", "classify", "improve", "track",
                        "complete", "done"}]
    /\ seen \in [track : Track \cup {NoTrack}, ev : 0..MaxEvents]
    /\ quiet \in BOOLEAN
    /\ clear \in {"no", "sent", "done"}
    /\ faults \in 0..MaxFaults
    /\ opened \in 0..MaxEvents
    /\ started \subseteq Ev /\ ended \in [Ev -> 0..2] /\ spoiled \subseteq Ev

Nothing == [track |-> NoTrack, ev |-> 0]

Init ==
    /\ row = [e \in Ev |-> "none"]
    /\ tracked = [p \in Ev \X Track |-> 0]
    /\ db = << >> /\ errors = {}
    /\ cur = 0 /\ ids = {}
    /\ lock = "free"
    /\ at = [t \in Task |-> "idle"] /\ seen = Nothing
    /\ quiet = FALSE /\ clear = "no" /\ faults = 0
    /\ opened = 0 /\ started = {} /\ ended = [e \in Ev |-> 0] /\ spoiled = {}

(***************************************************************************)
(* The database.                                                           *)
(***************************************************************************)
Submit(by, op, e, t) ==
    /\ db' = Append(db, [by |-> by, op |-> op, ev |-> e, track |-> t])
    /\ UNCHANGED <<row, tracked, errors, faults, spoiled>>

\* The statement that the task awaits has been executed.
Answered(t) == \A k \in DOMAIN db : db[k].by # t

\* What a statement does to the rows; an UPDATE of no row does nothing.
Executes(s) ==
    \/ /\ s.op = "insert"
       /\ row' = [row EXCEPT ![s.ev] = "open"] /\ UNCHANGED <<tracked, spoiled>>
    \/ /\ s.op = "complete"
       /\ row' = [row EXCEPT ![s.ev] = IF @ = "open" THEN "ended" ELSE @]
       /\ UNCHANGED <<tracked, spoiled>>
    \/ /\ s.op = "track"
       /\ tracked' = [tracked EXCEPT ![<<s.ev, s.track>>] = @ + 1]
       /\ UNCHANGED <<row, spoiled>>
    \/ s.op = "classify" /\ UNCHANGED <<row, tracked, spoiled>>
    \/ /\ s.op = "delete"
       /\ row' = [e \in Ev |-> "none"] /\ tracked' = [p \in Ev \X Track |-> 0]
       /\ spoiled' = spoiled \cup 1..opened

DbExecutes ==
    /\ db # << >> /\ db' = Tail(db)
    /\ clear' = IF Head(db).by = "clear" THEN "done" ELSE clear
    /\ \/ /\ Executes(Head(db))
          /\ UNCHANGED <<errors, faults>>
       \/ /\ Head(db).by # "clear"
          /\ faults < MaxFaults /\ faults' = faults + 1
          /\ errors' = IF at[Head(db).by] = "done" THEN errors
                                                   ELSE errors \cup {Head(db).by}
          /\ spoiled' = spoiled \cup {Head(db).ev}
          /\ UNCHANGED <<row, tracked>>
    /\ UNCHANGED <<event, lock, at, seen, quiet, told>>

(***************************************************************************)
(* The consumer: _observe_emittable.                                       *)
(***************************************************************************)
Goto(t, where) == at' = [at EXCEPT ![t] = where]

LeaveMutant(t) == Goto(t, "idle") /\ UNCHANGED lock     \* not an async with
Leave(t) == lock' = "free" /\ Goto(t, "idle")

PersistedMutant(t) == FALSE             \* a row per frame
Persisted(t) == cur = 0 \/ t \in ids

\* _persist_tracked_if_new, and the end of the lock when there is nothing
\* to persist.
Persist(t) ==
    IF Persisted(t)
    THEN /\ Leave("consumer") /\ seen' = Nothing
         /\ UNCHANGED <<ids, db, row, tracked, faults, spoiled>>
    ELSE /\ ids' = ids \cup {t}
         /\ db' = Append(db, [by |-> "consumer", op |-> "track", ev |-> cur,
                              track |-> t])
         /\ Goto("consumer", "track") /\ lock' = "consumer"
         /\ UNCHANGED <<seen, row, tracked, faults, spoiled>>

\* A frame with an emittable track, the lock being free: the first part of
\* _observe_emittable.  Nothing waits for the lock longer than it is held.
Observes ==
    /\ at["consumer"] = "idle" /\ lock = "free"
    /\ quiet' = FALSE
    /\ UNCHANGED <<clear, started, ended>>

Open(t) ==
    LET e == opened + 1 IN
    /\ Observes
    /\ cur = 0 /\ e \in Ev
    /\ opened' = e /\ cur' = e
    /\ Submit("consumer", "insert", e, NoTrack)
    /\ Goto("consumer", "insert") /\ lock' = "consumer"
    /\ seen' = [track |-> t, ev |-> e]
    /\ UNCHANGED ids

\* The class changed, or the confidence rose.
Improve(t) ==
    /\ Observes
    /\ cur # 0
    /\ Submit("consumer", "classify", cur, NoTrack)
    /\ Goto("consumer", "improve") /\ lock' = "consumer"
    /\ seen' = [track |-> t, ev |-> cur]
    /\ UNCHANGED <<event, opened>>

SeeAgain(t) ==
    /\ Observes
    /\ cur # 0
    /\ Persist(t)
    /\ UNCHANGED <<errors, cur, opened>>

\* insert_motion_event and update_..._classification share one try.
Inserted ==
    /\ at["consumer"] = "insert" /\ Answered("consumer")
    /\ IF "consumer" \in errors
       THEN /\ started' = started \cup {seen.ev}
            /\ errors' = errors \ {"consumer"}
            /\ Persist(seen.track) /\ UNCHANGED cur
       ELSE /\ Submit("consumer", "classify", seen.ev, NoTrack)
            /\ Goto("consumer", "classify")
            /\ UNCHANGED <<event, started, lock, seen>>
    /\ UNCHANGED <<quiet, clear, opened, ended>>

\* motion_started is emitted when the row is there, or has failed to be.
Classified ==
    /\ at["consumer"] \in {"classify", "improve"} /\ Answered("consumer")
    /\ started' = IF at["consumer"] = "classify" THEN started \cup {seen.ev}
                                                 ELSE started
    /\ errors' = errors \ {"consumer"}
    /\ Persist(seen.track)
    /\ UNCHANGED <<cur, quiet, clear, opened, ended>>

TrackPersisted ==
    /\ at["consumer"] = "track" /\ Answered("consumer")
    /\ errors' = errors \ {"consumer"}
    /\ Leave("consumer") /\ seen' = Nothing
    /\ UNCHANGED <<row, tracked, db, faults, spoiled, event, quiet, clear, told>>

(***************************************************************************)
(* Closing: _close_current_event_locked, _idle_closer, stop().             *)
(***************************************************************************)
TimePasses ==
    /\ ~quiet /\ quiet' = TRUE
    /\ UNCHANGED <<store, event, lock, at, seen, clear, told>>

CloseMutant(t) ==       \* the row is not completed
    lock' = t /\ Goto(t, "complete") /\ UNCHANGED store
Close(t) ==
    /\ lock' = t
    /\ Submit(t, "complete", cur, NoTrack)
    /\ Goto(t, "complete")

FreeMutant == TRUE                      \* the closer does not take the lock
Free == lock = "free"

CloserWakes ==
    /\ at["closer"] = "idle" /\ Free
    /\ cur # 0 /\ quiet
    /\ Close("closer")
    /\ UNCHANGED <<event, seen, quiet, clear, told>>

Forget == cur' = 0 /\ ids' = {}

\* The row is completed, or has failed to be: announce, forget, ask for a clip.
Completed(t) ==
    /\ at[t] = "complete" /\ Answered(t)
    /\ ended' = [ended EXCEPT ![cur] = @ + 1] /\ Forget
    /\ errors' = errors \ {t}
    /\ IF t = "stop" THEN lock' = "free" /\ Goto(t, "done") ELSE Leave(t)
    /\ UNCHANGED <<row, tracked, db, faults, spoiled, seen, quiet, clear,
                   opened, started>>

\* cancel() and the await of a task: it ends where it is and leaves the lock;
\* what it submitted stays submitted.
Cancelled(t) ==
    /\ Goto(t, "done")
    /\ lock' = IF lock = t THEN "free" ELSE lock
    /\ errors' = errors \ {t}
    /\ UNCHANGED <<row, tracked, db, faults, spoiled>>

StopConsumer ==
    /\ at["stop"] = "idle" /\ at["consumer"] # "done"
    /\ Cancelled("consumer")
    /\ seen' = Nothing
    /\ UNCHANGED <<event, quiet, clear, told>>

StopCloser ==
    /\ at["stop"] = "idle"
    /\ at["consumer"] = "done" /\ at["closer"] # "done"
    /\ Cancelled("closer")
    /\ UNCHANGED <<event, seen, quiet, clear, told>>

AnyOpenMutant == cur # 0 /\ quiet       \* stop() leaves a fresh event open
AnyOpen == cur # 0

\* The source is stopped: close what is open.
StopCloses ==
    /\ at["stop"] = "idle" /\ at["closer"] = "done" /\ lock = "free"
    /\ IF AnyOpen THEN Close("stop")
                  ELSE Goto("stop", "done") /\ UNCHANGED <<store, lock>>
    /\ UNCHANGED <<event, seen, quiet, clear, told>>

(***************************************************************************)
(* The user clears the data: the detector is not told.                     *)
(***************************************************************************)
ClearData ==
    /\ MayClear /\ clear = "no" /\ clear' = "sent"
    /\ Submit("clear", "delete", 0, NoTrack)
    /\ UNCHANGED <<event, lock, at, seen, quiet, told>>

(***************************************************************************)
(* The specification.                                                      *)
(***************************************************************************)
Consume == Inserted \/ Classified \/ TrackPersisted
CloserStep == CloserWakes \/ Completed("closer")
StopStep == StopCloser \/ StopCloses \/ Completed("stop")

Next == \/ \E t \in Track : Open(t) \/ Improve(t) \/ SeeAgain(t)
        \/ DbExecutes \/ Consume \/ TimePasses \/ CloserStep
        \/ StopConsumer \/ StopStep \/ ClearData

Spec == Init /\ [][Next]_vars

\* Statements are executed, tasks that can run do, the closer wakes every
\* second.  Nobody owes a frame, a stop or a clear.
FairSpec ==
    /\ Spec
    /\ WF_vars(DbExecutes) /\ WF_vars(Consume) /\ WF_vars(TimePasses)
    /\ SF_vars(CloserWakes) /\ WF_vars(Completed("closer"))
    /\ WF_vars(StopStep)

(***************************************************************************)
(* Properties.                                                             *)
(***************************************************************************)

\* An event is ended and its clip asked for at most once, whoever closes it
\* and wherever stop() cancels the closer; and stop() leaves none that was
\* begun and not ended: nobody is left looking at an open event of a camera
\* that is not watched any more.
EndedOnce ==
    /\ \A e \in Ev : ended[e] <= 1
    /\ at["stop"] = "done" => \A e \in 1..opened : ended[e] = 1

\* The rows tell the same as the announcements once all statements are
\* executed, except for events whose statement failed or that were cleared.
RowsAgree ==
    db = << >> => \A e \in 1..opened \ spoiled :
        /\ ended[e] = 1 => row[e] = "ended"
        /\ e \in started /\ e # cur => row[e] = "ended"
        /\ e = cur /\ at["stop"] # "done" => row[e] # "none"

\* Nobody is told that an event started after it has ended.
StartsFirst == [][\A e \in started' \ started : ended[e] = 0]_vars

\* One tracked_events row for each track of an event: the counts of the
\* Today view are counts of these rows.
TrackedOnce == \A p \in Ev \X Track : tracked[p] <= 1

\* An event that was announced ends once nothing more is seen, or stays open
\* because something is.
QuietEnds == \A e \in Ev : e \in started ~> (ended[e] = 1 \/ ~quiet)

(***************************************************************************)
(* What the repository says and the code does not do.                      *)
(***************************************************************************)

\* The module docstring: "open - first emittable track -> motion_events row
\* + thumbnail + motion_started WS event", "close - ... motion_ended WS".
EndedWasStarted == \A e \in Ev : ended[e] = 1 => e \in started
=============================================================================
