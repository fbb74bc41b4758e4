-------------------------- MODULE MotionEventsProofs --------------------------
(***************************************************************************)
(* MotionEvents, for any number of events, tracks and failing statements:  *)
(* each event ends once, after it started, with the rows that say so.      *)
(***************************************************************************)
EXTENDS MotionEvents, TLAPS

(***************************************************************************)
(* The inductive invariant.                                                *)
(***************************************************************************)

\* The lock is held by the task that is inside, and stop() comes last.
Locked ==
    /\ \A t \in Task : lock = t <=> at[t] \notin {"idle", "done"}
    /\ at["consumer"] # "complete"
    /\ at["closer"] \in {"idle", "complete", "done"}
    /\ at["stop"] \in {"idle", "complete", "done"}
    /\ at["closer"] = "done" => at["consumer"] = "done"
    /\ at["stop"] # "idle" => at["closer"] = "done"

\* Only the last event can be the current one, and exactly the others have ended.
Ended ==
    /\ cur \in {0, opened}
    /\ \A e \in Ev : ended[e] = IF e <= opened /\ e # cur THEN 1 ELSE 0
    /\ \A t \in Task : at[t] = "complete" => cur # 0
    /\ at["consumer"] \in {"insert", "classify", "improve"}
           => seen.ev = cur /\ seen.track \in Track /\ cur # 0
    /\ at["stop"] = "done" => cur = 0

\* A task has at most one statement in the queue, and none before it begins.
Queued ==
    /\ \A j, k \in 1..Len(db) : db[j].by = db[k].by => j = k
    /\ \A t \in Task : at[t] = "idle" => \A k \in 1..Len(db) : db[k].by # t
    /\ clear = "no" => \A k \in 1..Len(db) : db[k].by # "clear"
    /\ \A k \in 1..Len(db) :
          /\ db[k].by = "clear" <=> db[k].op = "delete"
          /\ db[k].by # "clear" => db[k].ev \in 1..opened
          /\ db[k].op \in {"insert", "track"} => db[k].by = "consumer"
          /\ \A t \in Task : db[k].by = t /\ at[t] = "complete"
                 => db[k].op = "complete" /\ db[k].ev = cur

\* A track is in ids once its row is there or on its way.
Tracks ==
    /\ \A e \in Ev, t \in Track :
          /\ tracked[<<e, t>>] <= 1
          /\ tracked[<<e, t>>] # 0 => e <= opened
          /\ tracked[<<e, t>>] # 0 /\ e = cur => t \in ids
    /\ \A k \in 1..Len(db) : db[k].op = "track" =>
          /\ db[k].track \in Track
          /\ tracked[<<db[k].ev, db[k].track>>] = 0
          /\ db[k].ev = cur => db[k].track \in ids

\* A row is inserted before it is completed, and once.
Rows ==
    /\ \A e \in Ev : e > opened => row[e] = "none"
    /\ \A k \in 1..Len(db) : db[k].op = "insert" => row[db[k].ev] = "none"
    /\ \A j, k \in 1..Len(db) :
          db[j].op = "complete" /\ db[k].op = "insert" /\ db[j].ev = db[k].ev
              => k < j
    /\ \A e \in Ev : e <= opened /\ e \notin spoiled =>
          /\ row[e] = "none"
                => \E k \in 1..Len(db) : db[k].op = "insert" /\ db[k].ev = e
          /\ ended[e] = 1 => row[e] = "ended"
    /\ \A t \in Task : at[t] = "complete" /\ (\A k \in 1..Len(db) : db[k].by # t)
          => row[cur] = "ended" \/ cur \in spoiled

IInv == TypeOK /\ Locked /\ Ended /\ Queued /\ Tracks /\ Rows

(***************************************************************************)
(* The queue and the program counters.                                     *)
(***************************************************************************)
LEMMA Appended ==
    ASSUME NEW q \in Seq(Statement), NEW s \in Statement
    PROVE  /\ Append(q, s) \in Seq(Statement)
           /\ Len(q) \in Nat /\ Len(Append(q, s)) = Len(q) + 1
           /\ \A k \in 1..Len(q) : Append(q, s)[k] = q[k]
           /\ Append(q, s)[Len(q) + 1] = s
OBVIOUS

LEMMA Popped ==
    ASSUME NEW q \in Seq(Statement), q # << >>
    PROVE  /\ Tail(q) \in Seq(Statement) /\ Head(q) = q[1]
           /\ Len(q) \in Nat /\ Len(q) >= 1 /\ Len(Tail(q)) = Len(q) - 1
           /\ \A k \in 1..Len(Tail(q)) : Tail(q)[k] = q[k + 1]
           /\ Head(q) \in Statement
OBVIOUS

LEMMA Known ==
    ASSUME TypeOK
    PROVE  /\ \A k \in 1..Len(db) : db[k] \in Statement
           /\ \A t : Answered(t) <=> \A k \in 1..Len(db) : db[k].by # t
           /\ Len(db) \in Nat
BY DEF TypeOK, Answered

LEMMA Moved ==
    ASSUME TypeOK, NEW t \in Task, NEW w, Goto(t, w)
    PROVE  /\ at'[t] = w
           /\ \A u \in Task \ {t} : at'[u] = at[u]
           /\ at' = [at EXCEPT ![t] = w]
BY DEF Goto, TypeOK

\* A statement of somebody who has none in the queue.
LEMMA SubmitQueued ==
    ASSUME TypeOK, Queued, NEW s \in Statement, db' = Append(db, s),
           \A k \in 1..Len(db) : db[k].by # s.by,
           s.by = "clear" <=> s.op = "delete",
           s.by # "clear" => s.ev \in 1..opened',
           s.op \in {"insert", "track"} => s.by = "consumer",
           opened' \in Nat, opened \in Nat, opened <= opened',
           \A u \in Task : u # s.by => at'[u] = at[u],
           s.by \in Task => at'[s.by] # "idle",
           s.by \in Task /\ at'[s.by] = "complete"
               => s.op = "complete" /\ s.ev = cur',
           cur' = cur \/ \A u \in Task : at[u] # "complete",
           clear' = "no" => clear = "no" /\ s.by # "clear"
    PROVE  Queued'
<1>1. /\ Len(db) \in Nat /\ Len(db') = Len(db) + 1
      /\ \A k \in 1..Len(db) : db'[k] = db[k]
      /\ db'[Len(db) + 1] = s
  BY Appended DEF TypeOK
<1>2. \A k \in 1..Len(db') :
         \/ k \in 1..Len(db) /\ db'[k] = db[k]
         \/ k = Len(db) + 1 /\ db'[k] = s
  <2>. SUFFICES ASSUME NEW k \in 1..Len(db')
                PROVE  \/ k \in 1..Len(db) /\ db'[k] = db[k]
                       \/ k = Len(db) + 1 /\ db'[k] = s
    OBVIOUS
  <2>1. CASE k <= Len(db)
    BY <2>1, <1>1
  <2>2. CASE ~(k <= Len(db))
    <3>1. k = Len(db) + 1
      BY <2>2, <1>1
    <3>. QED  BY <3>1, <1>1
  <2>. QED  BY <2>1, <2>2
<1>3. \A j, k \in 1..Len(db') : db'[j].by = db'[k].by => j = k
  BY <1>2 DEF Queued
<1>4. \A t \in Task : at'[t] = "idle" => \A k \in 1..Len(db') : db'[k].by # t
  BY <1>2 DEF Queued
<1>5. clear' = "no" => \A k \in 1..Len(db') : db'[k].by # "clear"
  BY <1>2 DEF Queued
<1>6. ASSUME NEW k \in 1..Len(db')
      PROVE  /\ db'[k].by = "clear" <=> db'[k].op = "delete"
             /\ db'[k].by # "clear" => db'[k].ev \in 1..opened'
             /\ db'[k].op \in {"insert", "track"} => db'[k].by = "consumer"
             /\ \A t \in Task : db'[k].by = t /\ at'[t] = "complete"
                    => db'[k].op = "complete" /\ db'[k].ev = cur'
  <2>1. CASE k \in 1..Len(db) /\ db'[k] = db[k]
    BY <2>1 DEF Queued
  <2>2. CASE k = Len(db) + 1 /\ db'[k] = s
    BY <2>2
  <2>. QED  BY <2>1, <2>2, <1>2
<1>. QED  BY <1>3, <1>4, <1>5, <1>6 DEF Queued

\* A statement that neither inserts a row nor a track.
LEMMA SubmitRest ==
    ASSUME IInv, NEW s \in Statement, db' = Append(db, s),
           s.op \notin {"insert", "track"},
           UNCHANGED <<row, tracked, spoiled, opened, ended, cur, ids>>,
           \A u \in Task : u # s.by => at'[u] = at[u]
    PROVE  Tracks' /\ Rows'
<1>1. /\ Len(db) \in Nat /\ Len(db') = Len(db) + 1
      /\ \A k \in 1..Len(db) : db'[k] = db[k]
      /\ db'[Len(db) + 1] = s
  BY Appended DEF IInv, TypeOK
<1>2. \A k \in 1..Len(db') : \/ k \in 1..Len(db) /\ db'[k] = db[k]
                             \/ k = Len(db) + 1 /\ db'[k] = s
  <2>. SUFFICES ASSUME NEW k \in 1..Len(db'), k \notin 1..Len(db)
                PROVE  k = Len(db) + 1
    BY <1>1
  <2>. QED  BY <1>1
<1>3. Tracks'
  BY <1>1, <1>2 DEF IInv, Tracks
<1>4. Rows'
  <2>1. \A k \in 1..Len(db') : db'[k].op = "insert" =>
           k \in 1..Len(db) /\ db'[k] = db[k]
    BY <1>2
  <2>2. \A e \in Ev : e > opened' => row'[e] = "none"
    BY DEF IInv, Rows
  <2>3. \A k \in 1..Len(db') : db'[k].op = "insert" => row'[db'[k].ev] = "none"
    BY <2>1 DEF IInv, Rows
  <2>4. ASSUME NEW j \in 1..Len(db'), NEW k \in 1..Len(db'),
               db'[j].op = "complete", db'[k].op = "insert", db'[j].ev = db'[k].ev
        PROVE  k < j
    <3>1. k \in 1..Len(db) /\ db'[k] = db[k]
      BY <2>1, <2>4
    <3>2. CASE j \in 1..Len(db) /\ db'[j] = db[j]
      BY <3>1, <3>2, <2>4 DEF IInv, Rows
    <3>3. CASE j = Len(db) + 1
      BY <3>1, <3>3, <1>1
    <3>. QED  BY <3>2, <3>3, <1>2
  <2>5. ASSUME NEW e \in Ev, e <= opened', e \notin spoiled'
        PROVE  /\ row'[e] = "none" => \E k \in 1..Len(db') :
                                          db'[k].op = "insert" /\ db'[k].ev = e
               /\ ended'[e] = 1 => row'[e] = "ended"
    <3>1. \A k \in 1..Len(db) : k \in 1..Len(db') /\ db'[k] = db[k]
      BY <1>1
    <3>. QED  BY <2>5, <3>1 DEF IInv, Rows
  <2>6. ASSUME NEW t \in Task, at'[t] = "complete",
               \A k \in 1..Len(db') : db'[k].by # t
        PROVE  row'[cur'] = "ended" \/ cur' \in spoiled'
    <3>1. Len(db) + 1 \in 1..Len(db')
      BY <1>1
    <3>2. s.by # t /\ \A k \in 1..Len(db) : db[k].by # t
      BY <1>1, <3>1, <2>6
    <3>. QED  BY <3>2, <2>6 DEF IInv, Rows
  <2>. QED  BY <2>2, <2>3, <2>4, <2>5, <2>6 DEF Rows
<1>. QED  BY <1>3, <1>4

LEMMA InitIInv == Init => IInv
<1>. SUFFICES ASSUME Init PROVE IInv
  OBVIOUS
<1>1. TypeOK
  <2>1. quiet \in BOOLEAN
    BY DEF Init
  <2>. QED
    BY <2>1, BoundAssumption, TrackAssumption DEF Init, TypeOK, Nothing, Task, Ev
<1>2. Len(db) = 0
  BY DEF Init
<1>3. Locked /\ Ended /\ Queued
  BY <1>2, BoundAssumption DEF Init, Locked, Ended, Queued, Task, Ev
<1>4. Tracks /\ Rows
  BY <1>2, BoundAssumption DEF Init, Tracks, Rows, Task, Ev
<1>. QED  BY <1>1, <1>3, <1>4 DEF IInv

(***************************************************************************)
(* The consumer.                                                           *)
(***************************************************************************)

\* _persist_tracked_if_new, entered with nothing of the consumer's in the queue.
LEMMA PersistStep ==
    ASSUME IInv, NEW t \in Track, Persist(t),
           \/ at["consumer"] = "idle" /\ lock = "free"
           \/ at["consumer"] \in {"insert", "classify", "improve"},
           \A k \in 1..Len(db) : db[k].by # "consumer",
           errors' \subseteq errors,
           quiet' \in BOOLEAN, started' \subseteq Ev,
           UNCHANGED <<cur, clear, opened, ended>>
    PROVE  IInv'
<1>. DEFINE s == [by |-> "consumer", op |-> "track", ev |-> cur, track |-> t]
<1>0. TypeOK /\ "consumer" \in Task
  BY DEF IInv, Task
<1>1. CASE Persisted(t)
  <2>1. /\ lock' = "free" /\ at' = [at EXCEPT !["consumer"] = "idle"]
        /\ seen' = Nothing
        /\ UNCHANGED <<ids, db, row, tracked, faults, spoiled>>
    BY <1>1 DEF Persist, Leave, Goto
  <2>2. at'["consumer"] = "idle" /\ \A u \in Task \ {"consumer"} : at'[u] = at[u]
    BY <1>0, <2>1 DEF TypeOK
  <2>3. TypeOK'
    <3>1. seen' \in [track : Track \cup {NoTrack}, ev : 0..MaxEvents]
      BY <2>1, BoundAssumption DEF Nothing
    <3>2. lock' \in Task \cup {"free"} /\ at' \in [Task -> {"idle", "insert",
              "classify", "improve", "track", "complete", "done"}]
      BY <2>1, <1>0 DEF TypeOK
    <3>. QED  BY <2>1, <3>1, <3>2, <1>0 DEF TypeOK
  <2>4. Locked'
    BY <2>1, <2>2 DEF IInv, Locked, Task
  <2>5. Ended'
    BY <2>1, <2>2 DEF IInv, Ended, Task
  <2>6. Queued'
    BY <2>1, <2>2 DEF IInv, Queued, Task
  <2>7. Tracks' /\ Rows'
    BY <2>1, <2>2 DEF IInv, Tracks, Rows, Task
  <2>. QED  BY <2>3, <2>4, <2>5, <2>6, <2>7 DEF IInv
<1>2. CASE ~Persisted(t)
  <2>1. /\ ids' = ids \cup {t} /\ db' = Append(db, s)
        /\ lock' = "consumer" /\ at' = [at EXCEPT !["consumer"] = "track"]
        /\ UNCHANGED <<seen, row, tracked, faults, spoiled>>
        /\ cur # 0 /\ t \notin ids
    BY <1>2 DEF Persist, Persisted, Goto
  <2>2. at'["consumer"] = "track" /\ \A u \in Task \ {"consumer"} : at'[u] = at[u]
    BY <1>0, <2>1 DEF TypeOK
  <2>3. cur \in Ev /\ cur = opened /\ cur \in 1..opened
    BY <2>1 DEF IInv, Ended, TypeOK, Ev
  <2>4. s \in Statement
    BY <2>3 DEF Statement, Task, Ev
  <2>5. /\ db' \in Seq(Statement) /\ Len(db) \in Nat /\ Len(db') = Len(db) + 1
        /\ \A k \in 1..Len(db) : db'[k] = db[k]
        /\ db'[Len(db) + 1] = s
    BY <2>1, <2>4, <1>0, Appended DEF TypeOK
  <2>6. TypeOK'
    <3>1. lock' \in Task \cup {"free"} /\ at' \in [Task -> {"idle", "insert",
              "classify", "improve", "track", "complete", "done"}]
      BY <2>1, <1>0 DEF TypeOK
    <3>2. ids' \subseteq Track /\ errors' \subseteq Task
      BY <2>1, <1>0 DEF TypeOK
    <3>3. db' \in Seq(Statement)
      BY <2>5
    <3>4. /\ row' \in [Ev -> {"none", "open", "ended"}]
          /\ tracked' \in [Ev \X Track -> Nat]
          /\ seen' \in [track : Track \cup {NoTrack}, ev : 0..MaxEvents]
          /\ quiet' \in BOOLEAN /\ spoiled' \subseteq Ev /\ started' \subseteq Ev
      BY <2>1, <1>0 DEF TypeOK
    <3>5. /\ cur' \in 0..MaxEvents /\ clear' \in {"no", "sent", "done"}
          /\ faults' \in 0..MaxFaults /\ opened' \in 0..MaxEvents
          /\ ended' \in [Ev -> 0..2]
      BY <2>1, <1>0 DEF TypeOK
    <3>. QED  BY <3>1, <3>2, <3>3, <3>4, <3>5 DEF TypeOK
  <2>7. Locked'
    BY <2>1, <2>2 DEF IInv, Locked, Task
  <2>8. Ended'
    BY <2>1, <2>2 DEF IInv, Ended, Task
  <2>9. Queued'
    <3>1. s.by = "consumer" /\ s.op = "track" /\ s.ev = cur
      OBVIOUS
    <3>2. opened' = opened /\ cur' = cur /\ clear' = clear /\ opened \in Nat
      BY <1>0 DEF TypeOK
    <3>. HIDE DEF s
    <3>. QED
      BY <1>0, <2>1, <2>2, <2>3, <2>4, <3>1, <3>2, SubmitQueued DEF IInv, Task
  <2>10. Tracks'
    BY <2>1, <2>3, <2>5 DEF IInv, Tracks
  <2>11. Rows'
    BY <2>1, <2>2, <2>3, <2>5 DEF IInv, Rows, Task
  <2>. QED  BY <2>6, <2>7, <2>8, <2>9, <2>10, <2>11 DEF IInv
<1>. QED  BY <1>1, <1>2

LEMMA OpenStep == ASSUME IInv, NEW t \in Track, Open(t) PROVE IInv'
<1>. DEFINE e == opened + 1
            s == [by |-> "consumer", op |-> "insert", ev |-> e, track |-> NoTrack]
<1>0. TypeOK /\ opened \in Nat /\ "consumer" \in Task
  BY DEF IInv, TypeOK, Task
<1>1. /\ at["consumer"] = "idle" /\ lock = "free" /\ quiet' = FALSE
      /\ cur = 0 /\ e \in Ev /\ opened' = e /\ cur' = e
      /\ db' = Append(db, s) /\ at' = [at EXCEPT !["consumer"] = "insert"]
      /\ lock' = "consumer" /\ seen' = [track |-> t, ev |-> e]
      /\ UNCHANGED <<row, tracked, errors, faults, spoiled, ids, clear, started, ended>>
  BY DEF Open, Observes, Submit, Goto
<1>2. at'["consumer"] = "insert" /\ \A u \in Task \ {"consumer"} : at'[u] = at[u]
  BY <1>0, <1>1 DEF TypeOK
<1>3. s \in Statement
  BY <1>1 DEF Statement, Task, Ev
<1>4. /\ db' \in Seq(Statement) /\ Len(db) \in Nat /\ Len(db') = Len(db) + 1
      /\ \A k \in 1..Len(db) : db'[k] = db[k]
      /\ db'[Len(db) + 1] = s
  BY <1>0, <1>1, <1>3, Appended DEF TypeOK
<1>5. \A k \in 1..Len(db) : db[k].by # "consumer"
  BY <1>0, <1>1 DEF IInv, Queued
<1>12. \A k \in 1..Len(db') :
          \/ /\ k \in 1..Len(db) /\ db'[k] = db[k]
             /\ db[k].op # "insert"
             /\ db[k].op \in {"track", "complete"} => db[k].ev \in 1..opened
          \/ k = Len(db) + 1 /\ db'[k] = s
  <2>. SUFFICES ASSUME NEW k \in 1..Len(db')
                PROVE  \/ /\ k \in 1..Len(db) /\ db'[k] = db[k]
                          /\ db[k].op # "insert"
                          /\ db[k].op \in {"track", "complete"}
                                => db[k].ev \in 1..opened
                       \/ k = Len(db) + 1 /\ db'[k] = s
    OBVIOUS
  <2>1. CASE k <= Len(db)
    <3>1. k \in 1..Len(db) /\ db'[k] = db[k]
      BY <2>1, <1>4
    <3>2. db[k].op # "insert"
      BY <3>1, <1>5 DEF IInv, Queued
    <3>3. db[k].op \in {"track", "complete"} => db[k].ev \in 1..opened
      BY <3>1 DEF IInv, Queued
    <3>. QED  BY <3>1, <3>2, <3>3
  <2>2. CASE ~(k <= Len(db))
    <3>1. k = Len(db) + 1
      BY <2>2, <1>4
    <3>. QED  BY <3>1, <1>4
  <2>. QED  BY <2>1, <2>2
<1>6. TypeOK'
  <2>1. /\ lock' \in Task \cup {"free"} /\ at' \in [Task -> {"idle", "insert",
            "classify", "improve", "track", "complete", "done"}]
        /\ quiet' \in BOOLEAN /\ db' \in Seq(Statement)
    BY <1>0, <1>1, <1>4 DEF TypeOK
  <2>4. seen' \in [track : Track \cup {NoTrack}, ev : 0..MaxEvents]
    <3>1. e \in 0..MaxEvents
      BY <1>1, BoundAssumption DEF Ev
    <3>. QED  BY <1>1, <3>1
  <2>2. /\ row' \in [Ev -> {"none", "open", "ended"}]
        /\ tracked' \in [Ev \X Track -> Nat] /\ errors' \subseteq Task
        /\ ids' \subseteq Track /\ clear' \in {"no", "sent", "done"}
        /\ faults' \in 0..MaxFaults /\ started' \subseteq Ev
        /\ ended' \in [Ev -> 0..2] /\ spoiled' \subseteq Ev
    BY <1>0, <1>1 DEF TypeOK
  <2>3. cur' \in 0..MaxEvents /\ opened' \in 0..MaxEvents
    BY <1>1 DEF Ev
  <2>. QED  BY <2>1, <2>2, <2>3, <2>4 DEF TypeOK
<1>7. Locked'
  BY <1>1, <1>2 DEF IInv, Locked, Task
<1>8. Ended'
  <2>1. \A u \in Task : at'[u] # "complete"
    BY <1>1, <1>2 DEF IInv, Ended, Task
  <2>2. at'["stop"] # "done"
    BY <1>1, <1>2 DEF IInv, Locked, Task
  <2>3. \A f \in Ev : ended'[f] = IF f <= opened' /\ f # cur' THEN 1 ELSE 0
    <3>. SUFFICES ASSUME NEW f \in Ev
                  PROVE  ended'[f] = IF f <= opened' /\ f # cur' THEN 1 ELSE 0
      OBVIOUS
    <3>1. f \in Nat /\ f # 0
      BY BoundAssumption DEF Ev
    <3>. QED  BY <1>0, <1>1, <3>1 DEF IInv, Ended
  <2>. QED  BY <1>0, <1>1, <1>2, <2>1, <2>2, <2>3 DEF Ended
<1>9. Queued'
  <2>1. s.by = "consumer" /\ s.op = "insert" /\ s.ev = e
    OBVIOUS
  <2>2. e \in 1..opened' /\ opened' \in Nat /\ opened <= opened'
    BY <1>0, <1>1
  <2>3. \A u \in Task : at[u] # "complete"
    BY <1>1 DEF IInv, Ended
  <2>. HIDE DEF s, e
  <2>. QED
    BY <1>0, <1>1, <1>2, <1>3, <1>5, <2>1, <2>2, <2>3, SubmitQueued DEF IInv, Task
<1>10. Tracks'
  <2>1. \A k \in 1..Len(db') : db'[k].op = "track" =>
           k \in 1..Len(db) /\ db'[k] = db[k] /\ db[k].ev \in 1..opened
    BY <1>12
  <2>2. \A k \in 1..Len(db') : db'[k].op = "track" =>
          /\ db'[k].track \in Track
          /\ tracked'[<<db'[k].ev, db'[k].track>>] = 0
          /\ db'[k].ev = cur' => db'[k].track \in ids'
    BY <2>1, <1>0, <1>1 DEF IInv, Tracks
  <2>3. \A f \in Ev, u \in Track :
          /\ tracked'[<<f, u>>] <= 1
          /\ tracked'[<<f, u>>] # 0 => f <= opened'
          /\ tracked'[<<f, u>>] # 0 /\ f = cur' => u \in ids'
    <3>. SUFFICES ASSUME NEW f \in Ev, NEW u \in Track
                  PROVE  /\ tracked'[<<f, u>>] <= 1
                         /\ tracked'[<<f, u>>] # 0 => f <= opened'
                         /\ tracked'[<<f, u>>] # 0 /\ f = cur' => u \in ids'
      OBVIOUS
    <3>1. f \in Nat
      BY BoundAssumption DEF Ev
    <3>2. /\ tracked[<<f, u>>] <= 1
          /\ tracked[<<f, u>>] # 0 => f <= opened
      BY DEF IInv, Tracks
    <3>. QED  BY <1>0, <1>1, <3>1, <3>2
  <2>. QED  BY <2>2, <2>3 DEF Tracks
<1>11. Rows'
  <2>1. \A f \in Ev : f > opened' => row'[f] = "none"
    BY <1>0, <1>1, BoundAssumption DEF IInv, Rows, Ev
  <2>2. \A k \in 1..Len(db') : db'[k].op = "insert" => db'[k] = s /\ k = Len(db) + 1
    BY <1>12
  <2>3. row'[e] = "none"
    BY <1>0, <1>1 DEF IInv, Rows
  <2>4. \A j, k \in 1..Len(db') :
          db'[j].op = "complete" /\ db'[k].op = "insert" /\ db'[j].ev = db'[k].ev
              => k < j
    BY <1>0, <1>12, <2>2
  <2>5. ASSUME NEW f \in Ev, f <= opened', f \notin spoiled'
        PROVE  /\ row'[f] = "none" => \E k \in 1..Len(db') :
                                          db'[k].op = "insert" /\ db'[k].ev = f
               /\ ended'[f] = 1 => row'[f] = "ended"
    <3>1. CASE f = e
      <4>1. ended'[f] # 1
        BY <3>1, <1>0, <1>1 DEF IInv, Ended
      <4>. QED  BY <3>1, <4>1, <1>4
    <3>2. CASE f # e
      <4>1. f <= opened /\ f \notin spoiled
        BY <3>2, <2>5, <1>0, <1>1, BoundAssumption DEF Ev
      <4>2. \A k \in 1..Len(db) : db[k].op # "insert"
        BY <1>5 DEF IInv, Queued
      <4>. QED  BY <4>1, <4>2, <1>1 DEF IInv, Rows
    <3>. QED  BY <3>1, <3>2
  <2>6. \A u \in Task : at'[u] # "complete"
    BY <1>1, <1>2 DEF IInv, Ended, Task
  <2>. QED  BY <1>1, <2>1, <2>2, <2>3, <2>4, <2>5, <2>6 DEF Rows
<1>. QED  BY <1>6, <1>7, <1>8, <1>9, <1>10, <1>11 DEF IInv

\* What every action that only submits a statement does to the types.
LEMMA SubmitType ==
    ASSUME TypeOK, NEW s \in Statement, db' = Append(db, s),
           NEW t \in Task, lock' = t, NEW w \in {"classify", "improve", "complete"},
           at' = [at EXCEPT ![t] = w],
           seen' \in [track : Track \cup {NoTrack}, ev : 0..MaxEvents],
           quiet' \in BOOLEAN,
           UNCHANGED <<row, tracked, errors, faults, spoiled, cur, ids, clear,
                       opened, started, ended>>
    PROVE  TypeOK'
<1>1. db' \in Seq(Statement)
  BY Appended DEF TypeOK
<1>2. /\ lock' \in Task \cup {"free"} /\ at' \in [Task -> {"idle", "insert",
          "classify", "improve", "track", "complete", "done"}]
  BY DEF TypeOK
<1>. QED  BY <1>1, <1>2 DEF TypeOK

LEMMA ImproveStep == ASSUME IInv, NEW t \in Track, Improve(t) PROVE IInv'
<1>. DEFINE s == [by |-> "consumer", op |-> "classify", ev |-> cur, track |-> NoTrack]
<1>0. TypeOK /\ opened \in Nat /\ "consumer" \in Task
  BY DEF IInv, TypeOK, Task
<1>1. /\ at["consumer"] = "idle" /\ lock = "free" /\ quiet' = FALSE
      /\ cur # 0 /\ db' = Append(db, s) /\ lock' = "consumer"
      /\ at' = [at EXCEPT !["consumer"] = "improve"]
      /\ seen' = [track |-> t, ev |-> cur]
      /\ UNCHANGED <<row, tracked, errors, faults, spoiled, cur, ids, clear,
                     opened, started, ended>>
  BY DEF Improve, Observes, Submit, Goto, event
<1>2. at'["consumer"] = "improve" /\ \A u \in Task \ {"consumer"} : at'[u] = at[u]
  BY <1>0, <1>1 DEF TypeOK
<1>3. cur \in Ev /\ cur = opened /\ cur \in 1..opened
  BY <1>1 DEF IInv, Ended, TypeOK, Ev
<1>4. s \in Statement
  BY <1>3 DEF Statement, Task, Ev
<1>5. \A k \in 1..Len(db) : db[k].by # "consumer"
  BY <1>0, <1>1 DEF IInv, Queued
<1>6. s.by = "consumer" /\ s.op = "classify" /\ s.ev = cur
  OBVIOUS
<1>7. TypeOK'
  <2>1. seen' \in [track : Track \cup {NoTrack}, ev : 0..MaxEvents]
    BY <1>1, <1>0 DEF TypeOK
  <2>2. quiet' \in BOOLEAN
    BY <1>1
  <2>. HIDE DEF s
  <2>. QED  BY <1>0, <1>1, <1>4, <2>1, <2>2, SubmitType
<1>8. Locked'
  BY <1>1, <1>2 DEF IInv, Locked, Task
<1>9. Ended'
  <2>1. seen'.ev = cur' /\ seen'.track \in Track /\ cur' # 0
    BY <1>1
  <2>2. at'["stop"] = "done" => cur' = 0
    BY <1>1, <1>2 DEF IInv, Ended, Task
  <2>3. \A u \in Task : at'[u] = "complete" => cur' # 0
    BY <1>1
  <2>. QED  BY <1>1, <2>1, <2>2, <2>3 DEF IInv, Ended
<1>10. Queued'
  <2>. HIDE DEF s
  <2>. QED
    BY <1>0, <1>1, <1>2, <1>3, <1>4, <1>5, <1>6, SubmitQueued DEF IInv, Task
<1>11. Tracks' /\ Rows'
  <2>. HIDE DEF s
  <2>. QED  BY <1>0, <1>1, <1>2, <1>4, <1>6, SubmitRest DEF Task
<1>. QED  BY <1>7, <1>8, <1>9, <1>10, <1>11 DEF IInv

LEMMA SeeAgainStep == ASSUME IInv, NEW t \in Track, SeeAgain(t) PROVE IInv'
<1>1. \A k \in 1..Len(db) : db[k].by # "consumer"
  BY DEF SeeAgain, Observes, IInv, Queued, Task
<1>2. /\ Persist(t) /\ at["consumer"] = "idle" /\ lock = "free"
      /\ quiet' = FALSE /\ errors' = errors
      /\ UNCHANGED <<cur, clear, opened, ended, started>>
  BY DEF SeeAgain, Observes
<1>3. started' \subseteq Ev /\ quiet' \in BOOLEAN
  BY <1>2 DEF IInv, TypeOK
<1>. QED  BY <1>1, <1>2, <1>3, PersistStep

LEMMA ClassifiedStep == ASSUME IInv, Classified PROVE IInv'
<1>1. \A k \in 1..Len(db) : db[k].by # "consumer"
  BY Known DEF Classified, IInv
<1>2. /\ Persist(seen.track) /\ at["consumer"] \in {"classify", "improve"}
      /\ errors' = errors \ {"consumer"}
      /\ started' \subseteq started \cup {seen.ev}
      /\ UNCHANGED <<cur, quiet, clear, opened, ended>>
  BY DEF Classified
<1>3. seen.track \in Track /\ seen.ev = cur /\ cur \in Ev
  BY <1>2 DEF IInv, Ended, TypeOK, Ev
<1>4. started' \subseteq Ev /\ quiet' \in BOOLEAN /\ errors' \subseteq errors
  BY <1>2, <1>3 DEF IInv, TypeOK
<1>. QED  BY <1>1, <1>2, <1>3, <1>4, PersistStep

LEMMA InsertedStep == ASSUME IInv, Inserted PROVE IInv'
<1>. DEFINE s == [by |-> "consumer", op |-> "classify", ev |-> seen.ev,
                  track |-> NoTrack]
<1>0. TypeOK /\ opened \in Nat /\ "consumer" \in Task
  BY DEF IInv, TypeOK, Task
<1>1. \A k \in 1..Len(db) : db[k].by # "consumer"
  BY Known DEF Inserted, IInv
<1>2. /\ at["consumer"] = "insert"
      /\ UNCHANGED <<quiet, clear, opened, ended>>
  BY DEF Inserted
<1>3. /\ seen.track \in Track /\ seen.ev = cur /\ cur \in Ev
      /\ cur = opened /\ cur \in 1..opened
  BY <1>2 DEF IInv, Ended, TypeOK, Ev
<1>4. CASE "consumer" \in errors
  <2>1. /\ Persist(seen.track) /\ started' = started \cup {seen.ev}
        /\ errors' = errors \ {"consumer"} /\ cur' = cur
    BY <1>4 DEF Inserted
  <2>2. started' \subseteq Ev /\ quiet' \in BOOLEAN /\ errors' \subseteq errors
    BY <1>2, <1>3, <2>1 DEF IInv, TypeOK
  <2>. QED  BY <1>1, <1>2, <1>3, <2>1, <2>2, PersistStep
<1>5. CASE "consumer" \notin errors
  <2>1. /\ db' = Append(db, s) /\ at' = [at EXCEPT !["consumer"] = "classify"]
        /\ UNCHANGED <<row, tracked, errors, faults, spoiled, cur, ids, started,
                       lock, seen>>
    BY <1>5 DEF Inserted, Submit, Goto, event
  <2>2. at'["consumer"] = "classify" /\ \A u \in Task \ {"consumer"} : at'[u] = at[u]
    BY <1>0, <2>1 DEF TypeOK
  <2>3. s \in Statement
    BY <1>3 DEF Statement, Task, Ev
  <2>4. s.by = "consumer" /\ s.op = "classify" /\ s.ev = cur
    BY <1>3
  <2>5. lock' = "consumer"
    BY <1>0, <1>2, <2>1 DEF IInv, Locked
  <2>6. TypeOK'
    <3>1. /\ seen' \in [track : Track \cup {NoTrack}, ev : 0..MaxEvents]
          /\ quiet' \in BOOLEAN
      BY <1>0, <1>2, <2>1 DEF TypeOK
    <3>. HIDE DEF s
    <3>. QED  BY <1>0, <1>2, <2>1, <2>3, <2>5, <3>1, SubmitType
  <2>7. Locked'
    BY <1>2, <2>1, <2>2 DEF IInv, Locked, Task
  <2>8. Ended'
    BY <1>2, <1>3, <2>1, <2>2 DEF IInv, Ended, Task
  <2>9. Queued'
    <3>. HIDE DEF s
    <3>. QED
      BY <1>0, <1>1, <1>2, <1>3, <2>1, <2>2, <2>3, <2>4, SubmitQueued DEF IInv, Task
  <2>10. Tracks' /\ Rows'
    <3>. HIDE DEF s
    <3>. QED  BY <1>0, <1>2, <2>1, <2>2, <2>3, <2>4, SubmitRest DEF Task
  <2>. QED  BY <2>6, <2>7, <2>8, <2>9, <2>10 DEF IInv
<1>. QED  BY <1>4, <1>5

LEMMA TrackPersistedStep == ASSUME IInv, TrackPersisted PROVE IInv'
<1>0. TypeOK /\ "consumer" \in Task
  BY DEF IInv, Task
<1>1. \A k \in 1..Len(db) : db[k].by # "consumer"
  BY Known DEF TrackPersisted, IInv
<1>2. /\ at["consumer"] = "track" /\ errors' = errors \ {"consumer"}
      /\ lock' = "free" /\ at' = [at EXCEPT !["consumer"] = "idle"]
      /\ seen' = Nothing
      /\ UNCHANGED <<row, tracked, db, faults, spoiled, cur, ids, quiet, clear,
                     opened, started, ended>>
  BY DEF TrackPersisted, Leave, Goto, event, told
<1>3. at'["consumer"] = "idle" /\ \A u \in Task \ {"consumer"} : at'[u] = at[u]
  BY <1>0, <1>2 DEF TypeOK
<1>4. TypeOK'
  <2>1. seen' \in [track : Track \cup {NoTrack}, ev : 0..MaxEvents]
    BY <1>2, BoundAssumption DEF Nothing
  <2>2. lock' \in Task \cup {"free"} /\ at' \in [Task -> {"idle", "insert",
            "classify", "improve", "track", "complete", "done"}]
    BY <1>2, <1>0 DEF TypeOK
  <2>. QED  BY <1>2, <2>1, <2>2, <1>0 DEF TypeOK
<1>5. Locked'
  BY <1>2, <1>3 DEF IInv, Locked, Task
<1>6. Ended'
  BY <1>2, <1>3 DEF IInv, Ended, Task
<1>7. Queued'
  BY <1>1, <1>2, <1>3 DEF IInv, Queued, Task
<1>8. Tracks' /\ Rows'
  BY <1>2, <1>3 DEF IInv, Tracks, Rows, Task
<1>. QED  BY <1>4, <1>5, <1>6, <1>7, <1>8 DEF IInv

(***************************************************************************)
(* Closing.                                                                *)
(***************************************************************************)

\* The closer or stop() submits the completion of the current event.
LEMMA CloseStep ==
    ASSUME IInv, NEW t \in {"closer", "stop"}, at[t] = "idle", lock = "free",
           cur # 0, Close(t),
           t = "stop" => at["closer"] = "done",
           UNCHANGED <<cur, ids, seen, quiet, clear, opened, started, ended>>
    PROVE  IInv'
<1>. DEFINE s == [by |-> t, op |-> "complete", ev |-> cur, track |-> NoTrack]
<1>0. TypeOK /\ opened \in Nat /\ t \in Task
  BY DEF IInv, TypeOK, Task
<1>1. /\ db' = Append(db, s) /\ lock' = t
      /\ at' = [at EXCEPT ![t] = "complete"]
      /\ UNCHANGED <<row, tracked, errors, faults, spoiled>>
  BY DEF Close, Submit, Goto
<1>2. at'[t] = "complete" /\ \A u \in Task \ {t} : at'[u] = at[u]
  BY <1>0, <1>1 DEF TypeOK
<1>3. cur \in Ev /\ cur = opened /\ cur \in 1..opened
  BY DEF IInv, Ended, TypeOK, Ev
<1>4. s \in Statement
  BY <1>0, <1>3 DEF Statement, Ev
<1>5. \A k \in 1..Len(db) : db[k].by # t
  BY <1>0 DEF IInv, Queued
<1>6. s.by = t /\ s.op = "complete" /\ s.ev = cur
  OBVIOUS
<1>7. TypeOK'
  <2>1. /\ seen' \in [track : Track \cup {NoTrack}, ev : 0..MaxEvents]
        /\ quiet' \in BOOLEAN
    BY <1>0 DEF TypeOK
  <2>. HIDE DEF s
  <2>. QED  BY <1>0, <1>1, <1>4, <2>1, SubmitType
<1>8. Locked'
  BY <1>1, <1>2 DEF IInv, Locked, Task
<1>9. Ended'
  BY <1>1, <1>2 DEF IInv, Ended, Task
<1>10. Queued'
  <2>. HIDE DEF s
  <2>. QED
    BY <1>0, <1>1, <1>2, <1>3, <1>4, <1>5, <1>6, SubmitQueued DEF IInv, Task
<1>11. Tracks' /\ Rows'
  <2>. HIDE DEF s
  <2>. QED  BY <1>0, <1>1, <1>2, <1>4, <1>6, SubmitRest DEF Task
<1>. QED  BY <1>7, <1>8, <1>9, <1>10, <1>11 DEF IInv

LEMMA CloserWakesStep == ASSUME IInv, CloserWakes PROVE IInv'
BY CloseStep DEF CloserWakes, Free, event, told

LEMMA StopClosesStep == ASSUME IInv, StopCloses PROVE IInv'
<1>1. CASE AnyOpen
  BY <1>1, CloseStep DEF StopCloses, AnyOpen, event, told
<1>2. CASE ~AnyOpen
  <2>0. TypeOK
    BY DEF IInv
  <2>1. /\ at' = [at EXCEPT !["stop"] = "done"]
        /\ at["stop"] = "idle" /\ at["closer"] = "done" /\ cur = 0
        /\ UNCHANGED <<store, lock, event, seen, quiet, clear, told>>
    BY <1>2 DEF StopCloses, AnyOpen, Goto
  <2>2. at'["stop"] = "done" /\ \A u \in Task \ {"stop"} : at'[u] = at[u]
    BY <2>0, <2>1 DEF TypeOK, Task
  <2>3. TypeOK'
    BY <2>0, <2>1 DEF TypeOK, store, event, told
  <2>4. Locked'
    BY <2>1, <2>2 DEF IInv, Locked, Task
  <2>5. Ended'
    BY <2>1, <2>2 DEF IInv, Ended, Task, event, told
  <2>6. Queued'
    BY <2>1, <2>2 DEF IInv, Queued, Task, store, event, told
  <2>7. Tracks'
    BY <2>1 DEF IInv, Tracks, store, event, told
  <2>8. Rows'
    BY <2>1, <2>2 DEF IInv, Rows, Task, store, event, told
  <2>. QED  BY <2>3, <2>4, <2>5, <2>6, <2>7, <2>8 DEF IInv
<1>. QED  BY <1>1, <1>2

LEMMA CompletedStep ==
    ASSUME IInv, NEW t \in {"closer", "stop"}, Completed(t) PROVE IInv'
<1>0. TypeOK /\ t \in Task /\ opened \in Nat
  BY DEF IInv, TypeOK, Task
<1>1. \A k \in 1..Len(db) : db[k].by # t
  BY Known DEF Completed, IInv
<1>. DEFINE w == IF t = "stop" THEN "done" ELSE "idle"
<1>2. /\ at[t] = "complete" /\ lock' = "free" /\ at' = [at EXCEPT ![t] = w]
      /\ ended' = [ended EXCEPT ![cur] = @ + 1] /\ cur' = 0 /\ ids' = {}
      /\ errors' = errors \ {t}
      /\ UNCHANGED <<row, tracked, db, faults, spoiled, seen, quiet, clear,
                     opened, started>>
  BY DEF Completed, Leave, Goto, Forget
<1>3. at'[t] = w /\ \A u \in Task \ {t} : at'[u] = at[u]
  BY <1>0, <1>2 DEF TypeOK
<1>4. cur \in Ev /\ cur = opened /\ ended[cur] = 0
  BY <1>2, <1>0 DEF IInv, Ended, TypeOK, Ev
<1>5. \A u \in Task \ {t} : at[u] \in {"idle", "done"}
  BY <1>0, <1>2 DEF IInv, Locked, Task
<1>6. \A e \in Ev : ended'[e] = IF e = cur THEN 1 ELSE ended[e]
  BY <1>0, <1>2, <1>4 DEF TypeOK
<1>7. TypeOK'
  <2>1. ended' \in [Ev -> 0..2]
    BY <1>0, <1>2, <1>4, <1>6 DEF TypeOK
  <2>2. /\ at' \in [Task -> {"idle", "insert",
            "classify", "improve", "track", "complete", "done"}]
        /\ lock' \in Task \cup {"free"} /\ errors' \subseteq Task
    BY <1>0, <1>2 DEF TypeOK
  <2>3. cur' \in 0..MaxEvents /\ ids' \subseteq Track
    BY <1>2, BoundAssumption
  <2>4. /\ row' \in [Ev -> {"none", "open", "ended"}]
        /\ tracked' \in [Ev \X Track -> Nat] /\ db' \in Seq(Statement)
        /\ seen' \in [track : Track \cup {NoTrack}, ev : 0..MaxEvents]
        /\ quiet' \in BOOLEAN /\ clear' \in {"no", "sent", "done"}
        /\ faults' \in 0..MaxFaults /\ opened' \in 0..MaxEvents
        /\ started' \subseteq Ev /\ spoiled' \subseteq Ev
    BY <1>0, <1>2 DEF TypeOK
  <2>. QED  BY <2>1, <2>2, <2>3, <2>4 DEF TypeOK
<1>8. Locked'
  BY <1>0, <1>2, <1>3, <1>5 DEF IInv, Locked, Task
<1>9. Ended'
  <2>1. \A e \in Ev : ended'[e] = IF e <= opened' /\ e # cur' THEN 1 ELSE 0
    <3>. SUFFICES ASSUME NEW e \in Ev
                  PROVE  ended'[e] = IF e <= opened' /\ e # cur' THEN 1 ELSE 0
      OBVIOUS
    <3>1. e \in Nat /\ e # 0
      BY BoundAssumption DEF Ev
    <3>2. ended[e] = IF e <= opened /\ e # cur THEN 1 ELSE 0
      BY DEF IInv, Ended
    <3>. QED  BY <1>0, <1>2, <1>4, <1>6, <3>1, <3>2
  <2>2. \A u \in Task : at'[u] # "complete"
    BY <1>3, <1>5, <1>0
  <2>3. at'["consumer"] \notin {"insert", "classify", "improve"}
    BY <1>3, <1>5, <1>0 DEF Task
  <2>. QED  BY <1>2, <2>1, <2>2, <2>3 DEF Ended
<1>10. Queued'
  <2>1. \A u \in Task : at'[u] = "idle" => \A k \in 1..Len(db') : db'[k].by # u
    BY <1>1, <1>2, <1>3 DEF IInv, Queued
  <2>2. \A u \in Task : at'[u] # "complete"
    BY <1>3, <1>5, <1>0
  <2>. QED  BY <1>2, <2>1, <2>2 DEF IInv, Queued
<1>11. Tracks'
  <2>1. \A e \in Ev : e # cur'
    BY <1>2, BoundAssumption DEF Ev
  <2>2. \A k \in 1..Len(db') : db'[k].op = "track" => db'[k].ev # cur'
    BY <1>0, <1>2 DEF IInv, Queued
  <2>. QED  BY <1>2, <2>1, <2>2 DEF IInv, Tracks
<1>12. Rows'
  <2>1. \A u \in Task : at'[u] # "complete"
    BY <1>3, <1>5, <1>0
  <2>2. row[cur] = "ended" \/ cur \in spoiled
    BY <1>0, <1>1, <1>2 DEF IInv, Rows
  <2>3. ASSUME NEW e \in Ev, e <= opened', e \notin spoiled'
        PROVE  /\ row'[e] = "none" => \E k \in 1..Len(db') :
                                          db'[k].op = "insert" /\ db'[k].ev = e
               /\ ended'[e] = 1 => row'[e] = "ended"
    BY <1>2, <1>6, <2>2, <2>3 DEF IInv, Rows
  <2>. QED  BY <1>2, <2>1, <2>3 DEF IInv, Rows
<1>. QED  BY <1>7, <1>8, <1>9, <1>10, <1>11, <1>12 DEF IInv

\* A cancelled task leaves the lock; what it submitted stays in the queue.
LEMMA CancelledStep ==
    ASSUME IInv, NEW t \in {"consumer", "closer"}, Cancelled(t),
           at["stop"] = "idle",
           t = "closer" => at["consumer"] = "done",
           seen' = Nothing \/ (seen' = seen /\ t = "closer"),
           UNCHANGED <<cur, ids, quiet, clear, opened, started, ended, db>>
    PROVE  IInv'
<1>0. TypeOK /\ t \in Task
  BY DEF IInv, Task
<1>1. /\ at' = [at EXCEPT ![t] = "done"]
      /\ lock' = IF lock = t THEN "free" ELSE lock
      /\ errors' = errors \ {t}
      /\ UNCHANGED <<row, tracked, faults, spoiled>>
  BY DEF Cancelled, Goto
<1>2. at'[t] = "done" /\ \A u \in Task \ {t} : at'[u] = at[u]
  BY <1>0, <1>1 DEF TypeOK
<1>3. TypeOK'
  <2>1. seen' \in [track : Track \cup {NoTrack}, ev : 0..MaxEvents]
    BY <1>0, BoundAssumption DEF Nothing, TypeOK
  <2>2. /\ lock' \in Task \cup {"free"} /\ at' \in [Task -> {"idle", "insert",
            "classify", "improve", "track", "complete", "done"}]
        /\ errors' \subseteq Task
    BY <1>0, <1>1 DEF TypeOK
  <2>. QED  BY <1>0, <1>1, <2>1, <2>2 DEF TypeOK
<1>4. Locked'
  BY <1>1, <1>2 DEF IInv, Locked, Task
<1>5. Ended'
  BY <1>1, <1>2 DEF IInv, Ended, Task
<1>6. Queued'
  BY <1>1, <1>2 DEF IInv, Queued, Task
<1>7. Tracks'
  BY <1>1 DEF IInv, Tracks
<1>8. Rows'
  BY <1>1, <1>2 DEF IInv, Rows, Task
<1>. QED  BY <1>3, <1>4, <1>5, <1>6, <1>7, <1>8 DEF IInv

LEMMA StopConsumerStep == ASSUME IInv, StopConsumer PROVE IInv'
BY CancelledStep DEF StopConsumer, Cancelled, event, told

LEMMA StopCloserStep == ASSUME IInv, StopCloser PROVE IInv'
BY CancelledStep DEF StopCloser, Cancelled, event, told

LEMMA TimePassesStep == ASSUME IInv, TimePasses PROVE IInv'
<1>1. /\ quiet' = TRUE
      /\ UNCHANGED <<store, event, lock, at, seen, clear, told>>
  BY DEF TimePasses
<1>2. TypeOK'
  BY <1>1 DEF IInv, TypeOK, store, event, told
<1>3. Locked' /\ Ended' /\ Queued'
  BY <1>1 DEF IInv, Locked, Ended, Queued, store, event, told
<1>4. Tracks' /\ Rows'
  BY <1>1 DEF IInv, Tracks, Rows, store, event, told
<1>. QED  BY <1>2, <1>3, <1>4 DEF IInv

LEMMA ClearDataStep == ASSUME IInv, ClearData PROVE IInv'
<1>. DEFINE s == [by |-> "clear", op |-> "delete", ev |-> 0, track |-> NoTrack]
<1>0. TypeOK /\ opened \in Nat
  BY DEF IInv, TypeOK
<1>1. /\ clear = "no" /\ clear' = "sent" /\ db' = Append(db, s)
      /\ UNCHANGED <<row, tracked, errors, faults, spoiled, cur, ids, lock, at,
                     seen, quiet, opened, started, ended>>
  BY DEF ClearData, Submit, event, told
<1>2. s \in Statement
  BY BoundAssumption DEF Statement
<1>3. s.by = "clear" /\ s.op = "delete" /\ s.by \notin Task
  BY DEF Task
<1>4. \A k \in 1..Len(db) : db[k].by # s.by
  BY <1>1 DEF IInv, Queued
<1>. HIDE DEF s
<1>5. TypeOK'
  <2>1. db' \in Seq(Statement)
    BY <1>0, <1>1, <1>2, Appended DEF TypeOK
  <2>. QED  BY <1>0, <1>1, <2>1 DEF TypeOK
<1>6. Locked' /\ Ended'
  BY <1>1 DEF IInv, Locked, Ended
<1>7. Queued'
  BY <1>0, <1>1, <1>2, <1>3, <1>4, SubmitQueued DEF IInv
<1>8. Tracks' /\ Rows'
  BY <1>0, <1>1, <1>2, <1>3, SubmitRest
<1>. QED  BY <1>5, <1>6, <1>7, <1>8 DEF IInv

(***************************************************************************)
(* The database.                                                           *)
(***************************************************************************)

\* What the first statement is, and what is left when it is gone.
LEMMA FirstStatement ==
    ASSUME IInv, DbExecutes
    PROVE  /\ Head(db) \in Statement /\ Head(db) = db[1] /\ 1 \in 1..Len(db)
           /\ db' \in Seq(Statement)
           /\ \A k \in 1..Len(db') : /\ k + 1 \in 1..Len(db) /\ db'[k] = db[k + 1]
                                     /\ db'[k].by # Head(db).by
           /\ \A k \in 1..Len(db) : k = 1 \/ (k - 1 \in 1..Len(db') /\ db'[k - 1] = db[k])
           /\ Head(db).by # "clear" => Head(db).ev \in 1..opened /\ Head(db).ev \in Ev
           /\ Len(db') \in Nat
<1>1. db # << >> /\ db' = Tail(db) /\ db \in Seq(Statement)
  BY DEF DbExecutes, IInv, TypeOK
<1>2. /\ Tail(db) \in Seq(Statement) /\ Head(db) = db[1]
      /\ Len(db) \in Nat /\ Len(db) >= 1 /\ Len(Tail(db)) = Len(db) - 1
      /\ \A k \in 1..Len(Tail(db)) : Tail(db)[k] = db[k + 1]
      /\ Head(db) \in Statement
  BY <1>1, Popped
<1>3. ASSUME NEW k \in 1..Len(db')
      PROVE  k + 1 \in 1..Len(db) /\ db'[k] = db[k + 1] /\ db'[k].by # Head(db).by
  <2>1. k + 1 \in 1..Len(db) /\ db'[k] = db[k + 1] /\ 1 \in 1..Len(db) /\ k + 1 # 1
    BY <1>1, <1>2
  <2>. QED  BY <2>1, <1>2 DEF IInv, Queued
<1>4. ASSUME NEW k \in 1..Len(db), k # 1
      PROVE  k - 1 \in 1..Len(db') /\ db'[k - 1] = db[k]
  <2>1. k - 1 \in 1..Len(db') /\ (k - 1) + 1 = k
    BY <1>1, <1>2, <1>4
  <2>. QED  BY <2>1, <1>1, <1>2
<1>5. 1 \in 1..Len(db)
  BY <1>2
<1>6. Head(db).by # "clear" => Head(db).ev \in 1..opened /\ Head(db).ev \in Ev
  <2>1. Head(db).by # "clear" => Head(db).ev \in 1..opened
    BY <1>2, <1>5 DEF IInv, Queued
  <2>2. opened \in 0..MaxEvents
    BY DEF IInv, TypeOK
  <2>. QED  BY <2>1, <2>2, BoundAssumption DEF Ev
<1>. QED  BY <1>1, <1>2, <1>3, <1>4, <1>5, <1>6

\* A row is "none" while its insertion is awaited, so that an event whose
\* insertion is executed now has not ended; and its completion comes later.
LEMMA ExecuteStep ==
    ASSUME IInv, DbExecutes, Executes(Head(db)), UNCHANGED <<errors, faults>>
    PROVE  TypeOK' /\ Tracks' /\ Rows'
<1>. DEFINE h == Head(db)
<1>0. /\ TypeOK /\ opened \in Nat
      /\ UNCHANGED <<cur, ids, lock, at, seen, quiet, opened, started, ended>>
      /\ clear' \in {"no", "sent", "done"}
  BY DEF IInv, TypeOK, DbExecutes, event, told
<1>1. /\ h \in Statement /\ h = db[1] /\ 1 \in 1..Len(db)
      /\ db' \in Seq(Statement)
      /\ \A k \in 1..Len(db') : /\ k + 1 \in 1..Len(db) /\ db'[k] = db[k + 1]
                                /\ db'[k].by # h.by
      /\ \A k \in 1..Len(db) : k = 1 \/ (k - 1 \in 1..Len(db') /\ db'[k - 1] = db[k])
      /\ h.by # "clear" => h.ev \in 1..opened /\ h.ev \in Ev
  BY FirstStatement
<1>2. /\ h.by = "clear" <=> h.op = "delete"
      /\ h.op \in {"insert", "track"} => h.by = "consumer"
      /\ \A t \in Task : h.by = t /\ at[t] = "complete"
                             => h.op = "complete" /\ h.ev = cur
  BY <1>1 DEF IInv, Queued
<1>3. Executes(h)
  OBVIOUS
<1>4. \A j, k \in 1..Len(db') : db'[j].op = "complete" /\ db'[k].op = "insert"
                                /\ db'[j].ev = db'[k].ev => k < j
  <2>. SUFFICES ASSUME NEW j \in 1..Len(db'), NEW k \in 1..Len(db'),
                       db'[j].op = "complete", db'[k].op = "insert",
                       db'[j].ev = db'[k].ev
                PROVE  k < j
    OBVIOUS
  <2>1. k + 1 < j + 1
    BY <1>1 DEF IInv, Rows
  <2>. QED  BY <2>1
<1>5. \A k \in 1..Len(db') : db'[k].op \in {"insert", "track"} => db'[k].by = "consumer"
  <2>1. \A k \in 1..Len(db) : db[k].op \in {"insert", "track"} => db[k].by = "consumer"
    BY DEF IInv, Queued
  <2>. QED  BY <1>1, <2>1
<1>6. \A k \in 1..Len(db') : db'[k].by # "clear" => db'[k].ev \in Ev
  <2>1. \A k \in 1..Len(db) : db[k].by # "clear" => db[k].ev \in 1..opened
    BY DEF IInv, Queued
  <2>2. opened \in 0..MaxEvents
    BY <1>0 DEF TypeOK
  <2>. QED  BY <1>1, <2>1, <2>2, BoundAssumption DEF Ev
<1>13. \A k \in 1..Len(db') : db'[k].op = "track" =>
          /\ db'[k].track \in Track
          /\ tracked[<<db'[k].ev, db'[k].track>>] = 0
          /\ db'[k].ev = cur' => db'[k].track \in ids'
  <2>1. \A k \in 1..Len(db) : db[k].op = "track" =>
          /\ db[k].track \in Track
          /\ tracked[<<db[k].ev, db[k].track>>] = 0
          /\ db[k].ev = cur => db[k].track \in ids
    BY DEF IInv, Tracks
  <2>. QED  BY <1>0, <1>1, <2>1
<1>14. ASSUME tracked' = tracked PROVE Tracks'
  BY <1>0, <1>13, <1>14 DEF IInv, Tracks
<1>. HIDE DEF h
<1>7. CASE h.op = "insert"
  <2>1. /\ row' = [row EXCEPT ![h.ev] = "open"] /\ UNCHANGED <<tracked, spoiled>>
        /\ h.ev \in Ev /\ h.ev \in 1..opened /\ h.by = "consumer"
    BY <1>7, <1>1, <1>2, <1>3 DEF Executes
  <2>2. row[h.ev] = "none"
    BY <1>7, <1>1 DEF IInv, Rows
  <2>3. \A k \in 1..Len(db') : db'[k].op \notin {"insert", "track"}
    BY <2>1, <1>1, <1>5
  <2>4. \A e \in Ev : row'[e] = IF e = h.ev THEN "open" ELSE row[e]
    BY <2>1, <1>0 DEF TypeOK
  <2>5. TypeOK'
    BY <2>1, <1>0, <1>1 DEF TypeOK
  <2>6. Tracks'
    BY <2>1, <1>14
  <2>7. Rows'
    <3>1. \A e \in Ev : e > opened' => row'[e] = "none"
      BY <2>1, <2>4, <1>0 DEF IInv, Rows
    <3>2. ASSUME NEW e \in Ev, e <= opened', e \notin spoiled'
          PROVE  row'[e] # "none" /\ (ended'[e] = 1 => row'[e] = "ended")
      <4>1. CASE e = h.ev
        <5>1. ended[e] # 1
          BY <4>1, <3>2, <2>1, <2>2, <1>0 DEF IInv, Rows
        <5>. QED  BY <5>1, <4>1, <2>4, <1>0
      <4>2. CASE e # h.ev
        <5>1. row[e] # "none"
          <6>. SUFFICES ASSUME row[e] = "none" PROVE FALSE
            OBVIOUS
          <6>1. PICK k \in 1..Len(db) : db[k].op = "insert" /\ db[k].ev = e
            BY <3>2, <2>1, <1>0 DEF IInv, Rows
          <6>2. k # 1
            BY <6>1, <4>2, <1>1
          <6>. QED  BY <6>1, <6>2, <2>3, <1>1
        <5>. QED  BY <5>1, <4>2, <3>2, <2>1, <2>4, <1>0 DEF IInv, Rows
      <4>. QED  BY <4>1, <4>2
    <3>3. ASSUME NEW t \in Task, at'[t] = "complete",
                 \A k \in 1..Len(db') : db'[k].by # t
          PROVE  row'[cur'] = "ended" \/ cur' \in spoiled'
      <4>1. h.by # t
        BY <3>3, <1>0, <1>2, <1>7
      <4>2. \A k \in 1..Len(db) : db[k].by # t
        BY <4>1, <3>3, <1>1
      <4>3. row[cur] = "ended" \/ cur \in spoiled
        BY <4>2, <3>3, <1>0 DEF IInv, Rows
      <4>4. cur \in Ev
        BY <3>3, <1>0, BoundAssumption DEF IInv, Ended, TypeOK, Ev
      <4>. QED  BY <4>3, <4>4, <2>1, <2>2, <2>4, <1>0
    <3>. QED  BY <3>1, <3>2, <3>3, <2>3, <1>4 DEF Rows
  <2>. QED  BY <2>5, <2>6, <2>7
<1>8. CASE h.op = "complete"
  <2>1. /\ row' = [row EXCEPT ![h.ev] = IF @ = "open" THEN "ended" ELSE @]
        /\ UNCHANGED <<tracked, spoiled>>
        /\ h.ev \in Ev /\ h.ev \in 1..opened /\ h.by # "clear"
    BY <1>8, <1>1, <1>2, <1>3 DEF Executes
  <2>2. \A e \in Ev : row'[e] = IF e = h.ev /\ row[e] = "open" THEN "ended" ELSE row[e]
    BY <2>1, <1>0 DEF TypeOK
  <2>3. TypeOK'
    <3>1. row' \in [Ev -> {"none", "open", "ended"}]
      BY <2>1, <1>0 DEF TypeOK
    <3>. QED  BY <3>1, <2>1, <1>0, <1>1 DEF TypeOK
  <2>4. Tracks'
    BY <2>1, <1>14
  <2>5. Rows'
    <3>1. \A e \in Ev : e > opened' => row'[e] = "none"
      BY <2>2, <1>0 DEF IInv, Rows
    <3>2. ASSUME NEW k \in 1..Len(db'), db'[k].op = "insert"
          PROVE  row'[db'[k].ev] = "none"
      <4>1. db'[k].ev \in Ev
        BY <3>2, <1>5, <1>6
      <4>. QED  BY <4>1, <3>2, <2>2, <1>1 DEF IInv, Rows
    <3>3. ASSUME NEW e \in Ev, e <= opened', e \notin spoiled'
          PROVE  /\ row'[e] = "none" => \E k \in 1..Len(db') :
                                            db'[k].op = "insert" /\ db'[k].ev = e
                 /\ ended'[e] = 1 => row'[e] = "ended"
      <4>1. ASSUME row'[e] = "none"
            PROVE  \E k \in 1..Len(db') : db'[k].op = "insert" /\ db'[k].ev = e
        <5>1. row[e] = "none"
          BY <4>1, <2>2
        <5>2. PICK k \in 1..Len(db) : db[k].op = "insert" /\ db[k].ev = e
          BY <5>1, <3>3, <2>1, <1>0 DEF IInv, Rows
        <5>3. k # 1
          BY <5>2, <1>8, <1>1
        <5>. QED  BY <5>2, <5>3, <1>1
      <4>2. ended'[e] = 1 => row'[e] = "ended"
        BY <3>3, <2>1, <2>2, <1>0 DEF IInv, Rows
      <4>. QED  BY <4>1, <4>2
    <3>4. ASSUME NEW t \in Task, at'[t] = "complete",
                 \A k \in 1..Len(db') : db'[k].by # t
          PROVE  row'[cur'] = "ended" \/ cur' \in spoiled'
      <4>1. cur \in Ev /\ cur <= opened
        BY <3>4, <1>0, BoundAssumption DEF IInv, Ended, TypeOK, Ev
      <4>2. CASE h.by = t
        <5>1. h.ev = cur
          BY <4>2, <3>4, <1>0, <1>2
        <5>2. row[cur] = "none" => cur \in spoiled
          <6>. SUFFICES ASSUME row[cur] = "none", cur \notin spoiled PROVE FALSE
            OBVIOUS
          <6>1. PICK k \in 1..Len(db) : db[k].op = "insert" /\ db[k].ev = cur
            BY <4>1 DEF IInv, Rows
          <6>2. k < 1
            BY <6>1, <5>1, <1>8, <1>1 DEF IInv, Rows
          <6>. QED  BY <6>2
        <5>3. row[cur] \in {"none", "open", "ended"}
          BY <4>1, <1>0 DEF TypeOK
        <5>. QED  BY <5>1, <5>2, <5>3, <4>1, <2>1, <2>2, <1>0
      <4>3. CASE h.by # t
        <5>1. \A k \in 1..Len(db) : db[k].by # t
          BY <4>3, <3>4, <1>1
        <5>2. row[cur] = "ended" \/ cur \in spoiled
          BY <5>1, <3>4, <1>0 DEF IInv, Rows
        <5>. QED  BY <5>2, <4>1, <2>1, <2>2, <1>0
      <4>. QED  BY <4>2, <4>3
    <3>. QED  BY <3>1, <3>2, <3>3, <3>4, <1>4 DEF Rows
  <2>. QED  BY <2>3, <2>4, <2>5
<1>. DEFINE RowsKept == UNCHANGED <<row, spoiled>> /\ h.op \notin {"insert", "complete"}
<1>9. ASSUME RowsKept PROVE Rows'
  <2>1. \A k \in 1..Len(db') : db'[k].op = "insert" => row'[db'[k].ev] = "none"
    BY <1>9, <1>1 DEF IInv, Rows
  <2>2. ASSUME NEW e \in Ev, e <= opened', e \notin spoiled'
        PROVE  /\ row'[e] = "none" => \E k \in 1..Len(db') :
                                          db'[k].op = "insert" /\ db'[k].ev = e
               /\ ended'[e] = 1 => row'[e] = "ended"
    <3>1. ASSUME row'[e] = "none"
          PROVE  \E k \in 1..Len(db') : db'[k].op = "insert" /\ db'[k].ev = e
      <4>1. PICK k \in 1..Len(db) : db[k].op = "insert" /\ db[k].ev = e
        BY <3>1, <2>2, <1>9, <1>0 DEF IInv, Rows
      <4>2. k # 1
        BY <4>1, <1>9, <1>1
      <4>. QED  BY <4>1, <4>2, <1>1
    <3>. QED  BY <3>1, <2>2, <1>9, <1>0 DEF IInv, Rows
  <2>3. ASSUME NEW t \in Task, at'[t] = "complete",
               \A k \in 1..Len(db') : db'[k].by # t
        PROVE  row'[cur'] = "ended" \/ cur' \in spoiled'
    <3>1. h.by # t
      BY <2>3, <1>9, <1>0, <1>2
    <3>2. \A k \in 1..Len(db) : db[k].by # t
      BY <3>1, <2>3, <1>1
    <3>. QED  BY <3>2, <2>3, <1>9, <1>0 DEF IInv, Rows
  <2>4. \A e \in Ev : e > opened' => row'[e] = "none"
    BY <1>9, <1>0 DEF IInv, Rows
  <2>. QED  BY <2>1, <2>2, <2>3, <2>4, <1>4 DEF Rows
<1>10. CASE h.op = "track"
  <2>1. /\ tracked' = [tracked EXCEPT ![<<h.ev, h.track>>] = @ + 1]
        /\ UNCHANGED <<row, spoiled>>
        /\ h.ev \in Ev /\ h.ev \in 1..opened /\ h.by = "consumer"
    BY <1>10, <1>1, <1>2, <1>3 DEF Executes
  <2>2. /\ h.track \in Track /\ tracked[<<h.ev, h.track>>] = 0
        /\ h.ev = cur => h.track \in ids
    BY <1>10, <1>1 DEF IInv, Tracks
  <2>3. \A e \in Ev, t \in Track :
           tracked'[<<e, t>>] = IF e = h.ev /\ t = h.track THEN 1 ELSE tracked[<<e, t>>]
    BY <2>1, <2>2, <1>0 DEF TypeOK
  <2>4. TypeOK'
    <3>1. tracked' \in [Ev \X Track -> Nat]
      BY <2>1, <2>2, <1>0 DEF TypeOK
    <3>. QED  BY <3>1, <2>1, <1>0, <1>1 DEF TypeOK
  <2>5. \A k \in 1..Len(db') : db'[k].op # "track"
    BY <2>1, <1>1, <1>5
  <2>6. Tracks'
    BY <2>1, <2>2, <2>3, <2>5, <1>0 DEF IInv, Tracks
  <2>. QED  BY <2>1, <2>4, <2>6, <1>9, <1>10
<1>11. CASE h.op = "classify"
  <2>1. UNCHANGED <<row, tracked, spoiled>>
    BY <1>11, <1>3 DEF Executes
  <2>2. TypeOK'
    BY <2>1, <1>0, <1>1 DEF TypeOK
  <2>3. Tracks'
    BY <2>1, <1>14
  <2>. QED  BY <2>1, <2>2, <2>3, <1>9, <1>11
<1>12. CASE h.op = "delete"
  <2>1. /\ row' = [e \in Ev |-> "none"] /\ tracked' = [p \in Ev \X Track |-> 0]
        /\ spoiled' = spoiled \cup 1..opened
    BY <1>12, <1>3 DEF Executes
  <2>2. TypeOK'
    <3>1. /\ row' \in [Ev -> {"none", "open", "ended"}]
          /\ tracked' \in [Ev \X Track -> Nat]
      BY <2>1
    <3>2. spoiled' \subseteq Ev
      <4>1. opened \in 0..MaxEvents /\ spoiled \subseteq Ev
        BY <1>0 DEF TypeOK
      <4>. QED  BY <4>1, <2>1, BoundAssumption DEF Ev
    <3>. QED  BY <3>1, <3>2, <1>0, <1>1 DEF TypeOK
  <2>3. Tracks'
    <3>1. \A e \in Ev, t \in Track : tracked'[<<e, t>>] = 0
      BY <2>1
    <3>2. ASSUME NEW k \in 1..Len(db'), db'[k].op = "track"
          PROVE  /\ db'[k].track \in Track
                 /\ tracked'[<<db'[k].ev, db'[k].track>>] = 0
                 /\ db'[k].ev = cur' => db'[k].track \in ids'
      <4>1. db'[k].ev \in Ev
        BY <3>2, <1>5, <1>6
      <4>2. /\ db'[k].track \in Track
            /\ db'[k].ev = cur => db'[k].track \in ids
        BY <3>2, <1>0, <1>13
      <4>. QED  BY <4>1, <4>2, <3>1, <1>0
    <3>. QED  BY <3>1, <3>2, <1>0 DEF Tracks
  <2>4. Rows'
    <3>1. \A e \in Ev : row'[e] = "none"
      BY <2>1
    <3>2. \A k \in 1..Len(db') : db'[k].op = "insert" => row'[db'[k].ev] = "none"
      BY <3>1, <1>5, <1>6
    <3>3. \A e \in Ev : e <= opened' => e \in spoiled'
      BY <2>1, <1>0, BoundAssumption DEF Ev
    <3>4. ASSUME NEW t \in Task, at'[t] = "complete"
          PROVE  cur' \in spoiled'
      BY <3>4, <2>1, <1>0, BoundAssumption DEF IInv, Ended, TypeOK
    <3>. QED  BY <3>1, <3>2, <3>3, <3>4, <1>4 DEF Rows
  <2>. QED  BY <2>2, <2>3, <2>4
<1>. QED
  <2>1. h.op \in {"insert", "classify", "track", "complete", "delete"}
    BY <1>1 DEF Statement
  <2>. QED  BY <2>1, <1>7, <1>8, <1>10, <1>11, <1>12

\* A statement that fails spoils its event; whoever awaits it is told.
LEMMA FaultStep ==
    ASSUME IInv, DbExecutes, Head(db).by # "clear",
           faults < MaxFaults, faults' = faults + 1,
           errors' \subseteq errors \cup {Head(db).by},
           spoiled' = spoiled \cup {Head(db).ev},
           UNCHANGED <<row, tracked>>
    PROVE  TypeOK' /\ Tracks' /\ Rows'
<1>. DEFINE h == Head(db)
<1>0. /\ TypeOK /\ opened \in Nat
      /\ UNCHANGED <<cur, ids, lock, at, seen, quiet, opened, started, ended>>
      /\ clear' \in {"no", "sent", "done"}
  BY DEF IInv, TypeOK, DbExecutes, event, told
<1>1. /\ h \in Statement /\ h = db[1] /\ 1 \in 1..Len(db)
      /\ db' \in Seq(Statement)
      /\ \A k \in 1..Len(db') : k + 1 \in 1..Len(db) /\ db'[k] = db[k + 1]
      /\ \A k \in 1..Len(db) : k = 1 \/ (k - 1 \in 1..Len(db') /\ db'[k - 1] = db[k])
      /\ h.ev \in Ev
  BY FirstStatement
<1>2. \A t \in Task : h.by = t /\ at[t] = "complete" => h.ev = cur
  BY <1>1 DEF IInv, Queued
<1>3. TypeOK'
  <2>1. faults' \in 0..MaxFaults
    BY <1>0, BoundAssumption DEF TypeOK
  <2>2. errors' \subseteq Task
    <3>1. h.by \in Task
      BY <1>1 DEF Statement
    <3>. QED  BY <3>1, <1>0 DEF TypeOK
  <2>3. spoiled' \subseteq Ev
    BY <1>0, <1>1 DEF TypeOK
  <2>. QED  BY <2>1, <2>2, <2>3, <1>0, <1>1 DEF TypeOK
<1>4. Tracks'
  BY <1>0, <1>1 DEF IInv, Tracks
<1>5. Rows'
  <2>1. ASSUME NEW e \in Ev, e <= opened', e \notin spoiled'
        PROVE  /\ row'[e] = "none" => \E k \in 1..Len(db') :
                                          db'[k].op = "insert" /\ db'[k].ev = e
               /\ ended'[e] = 1 => row'[e] = "ended"
    <3>1. ASSUME row'[e] = "none"
          PROVE  \E k \in 1..Len(db') : db'[k].op = "insert" /\ db'[k].ev = e
      <4>1. PICK k \in 1..Len(db) : db[k].op = "insert" /\ db[k].ev = e
        BY <3>1, <2>1, <1>0 DEF IInv, Rows
      <4>2. k # 1
        BY <4>1, <2>1, <1>1
      <4>. QED  BY <4>1, <4>2, <1>1
    <3>. QED  BY <3>1, <2>1, <1>0 DEF IInv, Rows
  <2>2. ASSUME NEW t \in Task, at'[t] = "complete",
               \A k \in 1..Len(db') : db'[k].by # t
        PROVE  row'[cur'] = "ended" \/ cur' \in spoiled'
    <3>1. CASE h.by = t
      BY <3>1, <2>2, <1>0, <1>2
    <3>2. CASE h.by # t
      <4>1. \A k \in 1..Len(db) : db[k].by # t
        BY <3>2, <2>2, <1>1
      <4>. QED  BY <4>1, <2>2, <1>0 DEF IInv, Rows
    <3>. QED  BY <3>1, <3>2
  <2>3. \A j, k \in 1..Len(db') : db'[j].op = "complete" /\ db'[k].op = "insert"
                                  /\ db'[j].ev = db'[k].ev => k < j
    <3>. SUFFICES ASSUME NEW j \in 1..Len(db'), NEW k \in 1..Len(db'),
                         db'[j].op = "complete", db'[k].op = "insert",
                         db'[j].ev = db'[k].ev
                  PROVE  k < j
      OBVIOUS
    <3>1. k + 1 < j + 1
      BY <1>1 DEF IInv, Rows
    <3>. QED  BY <3>1
  <2>4. \A e \in Ev : e > opened' => row'[e] = "none"
    BY <1>0 DEF IInv, Rows
  <2>5. \A k \in 1..Len(db') : db'[k].op = "insert" => row'[db'[k].ev] = "none"
    <3>1. \A k \in 1..Len(db) : db[k].op = "insert" => row[db[k].ev] = "none"
      BY DEF IInv, Rows
    <3>. QED  BY <3>1, <1>1
  <2>. QED  BY <2>1, <2>2, <2>3, <2>4, <2>5 DEF Rows
<1>. QED  BY <1>3, <1>4, <1>5

LEMMA DbExecutesStep == ASSUME IInv, DbExecutes PROVE IInv'
<1>1. /\ UNCHANGED <<cur, ids, lock, at, seen, quiet, opened, started, ended>>
      /\ clear' = IF Head(db).by = "clear" THEN "done" ELSE clear
  BY DEF DbExecutes, event, told
<1>2. Locked' /\ Ended'
  BY <1>1 DEF IInv, Locked, Ended
<1>3. Queued'
  <2>1. /\ \A k \in 1..Len(db') : k + 1 \in 1..Len(db) /\ db'[k] = db[k + 1]
        /\ Len(db') \in Nat
    BY FirstStatement
  <2>2. ASSUME NEW j \in 1..Len(db'), NEW k \in 1..Len(db'), db'[j].by = db'[k].by
        PROVE  j = k
    <3>1. j + 1 = k + 1
      BY <2>1, <2>2 DEF IInv, Queued
    <3>. QED  BY <3>1
  <2>3. clear' = "no" => clear = "no"
    BY <1>1
  <2>4. \A t \in Task : at'[t] = "idle" => \A k \in 1..Len(db') : db'[k].by # t
    BY <2>1, <1>1 DEF IInv, Queued
  <2>5. clear' = "no" => \A k \in 1..Len(db') : db'[k].by # "clear"
    BY <2>1, <2>3 DEF IInv, Queued
  <2>6. \A k \in 1..Len(db') :
          /\ db'[k].by = "clear" <=> db'[k].op = "delete"
          /\ db'[k].by # "clear" => db'[k].ev \in 1..opened'
          /\ db'[k].op \in {"insert", "track"} => db'[k].by = "consumer"
          /\ \A t \in Task : db'[k].by = t /\ at'[t] = "complete"
                 => db'[k].op = "complete" /\ db'[k].ev = cur'
    BY <2>1, <1>1 DEF IInv, Queued
  <2>. QED  BY <2>2, <2>4, <2>5, <2>6 DEF Queued
<1>4. TypeOK' /\ Tracks' /\ Rows'
  <2>1. CASE Executes(Head(db)) /\ UNCHANGED <<errors, faults>>
    BY <2>1, ExecuteStep
  <2>2. CASE /\ Head(db).by # "clear"
             /\ faults < MaxFaults /\ faults' = faults + 1
             /\ errors' = IF at[Head(db).by] = "done" THEN errors
                                                     ELSE errors \cup {Head(db).by}
             /\ spoiled' = spoiled \cup {Head(db).ev}
             /\ UNCHANGED <<row, tracked>>
    <3>1. errors' \subseteq errors \cup {Head(db).by}
      BY <2>2
    <3>. QED  BY <2>2, <3>1, FaultStep
  <2>. QED  BY <2>1, <2>2 DEF DbExecutes
<1>. QED  BY <1>2, <1>3, <1>4 DEF IInv

(***************************************************************************)
(* The theorems.                                                           *)
(***************************************************************************)
LEMMA NextIInv == IInv /\ [Next]_vars => IInv'
<1>. SUFFICES ASSUME IInv, [Next]_vars PROVE IInv'
  OBVIOUS
<1>1. ASSUME NEW t \in Track, Open(t) \/ Improve(t) \/ SeeAgain(t) PROVE IInv'
  BY <1>1, OpenStep, ImproveStep, SeeAgainStep
<1>2. CASE DbExecutes
  BY <1>2, DbExecutesStep
<1>3. CASE Consume
  BY <1>3, InsertedStep, ClassifiedStep, TrackPersistedStep DEF Consume
<1>4. CASE TimePasses
  BY <1>4, TimePassesStep
<1>5. CASE CloserStep
  BY <1>5, CloserWakesStep, CompletedStep DEF CloserStep
<1>6. CASE StopConsumer
  BY <1>6, StopConsumerStep
<1>7. CASE StopStep
  BY <1>7, StopCloserStep, StopClosesStep, CompletedStep DEF StopStep
<1>8. CASE ClearData
  BY <1>8, ClearDataStep
<1>9. CASE UNCHANGED vars
  <2>1. TypeOK'
    BY <1>9 DEF IInv, TypeOK, vars, store, event, told
  <2>2. Locked' /\ Ended' /\ Queued'
    BY <1>9 DEF IInv, Locked, Ended, Queued, vars, store, event, told
  <2>3. Tracks' /\ Rows'
    BY <1>9 DEF IInv, Tracks, Rows, vars, store, event, told
  <2>. QED  BY <2>1, <2>2, <2>3 DEF IInv
<1>. QED
  BY <1>1, <1>2, <1>3, <1>4, <1>5, <1>6, <1>7, <1>8, <1>9 DEF Next

\* The inductive invariant holds in every state of the detector.
THEOREM Invariance == Spec => []IInv
<1>1. Init => IInv
  BY InitIInv
<1>2. IInv /\ [Next]_vars => IInv'
  BY NextIInv
<1>. QED  BY <1>1, <1>2, PTL DEF Spec

\* The state of the detector, of its rows and of its statements has its type.
THEOREM TypeCorrect == Spec => []TypeOK
<1>1. IInv => TypeOK
  BY DEF IInv
<1>. QED  BY <1>1, Invariance, PTL

\* However many events, faults and cancellations there are: an event ends at
\* most once, and a stopped detector has ended all it opened.
THEOREM EndedOnceAlways == Spec => []EndedOnce
<1>1. IInv => EndedOnce
  <2>. SUFFICES ASSUME IInv PROVE EndedOnce
    OBVIOUS
  <2>1. \A e \in Ev : ended[e] <= 1
    BY DEF IInv, Ended
  <2>2. ASSUME at["stop"] = "done", NEW e \in 1..opened PROVE ended[e] = 1
    <3>1. cur = 0 /\ e \in Ev /\ e # 0 /\ e <= opened
      BY <2>2, BoundAssumption DEF IInv, Ended, TypeOK, Ev
    <3>. QED  BY <3>1 DEF IInv, Ended
  <2>. QED  BY <2>1, <2>2 DEF EndedOnce
<1>. QED  BY <1>1, Invariance, PTL

\* A track of an event has at most one row.
THEOREM TrackedOnceAlways == Spec => []TrackedOnce
<1>1. IInv => TrackedOnce
  BY DEF IInv, Tracks, TrackedOnce
<1>. QED  BY <1>1, Invariance, PTL

\* Between statements the rows agree with what was announced.
THEOREM RowsAgreeAlways == Spec => []RowsAgree
<1>1. IInv => RowsAgree
  <2>. SUFFICES ASSUME IInv, db = << >>, NEW e \in 1..opened, e \notin spoiled
                PROVE  /\ ended[e] = 1 => row[e] = "ended"
                       /\ e \in started /\ e # cur => row[e] = "ended"
                       /\ e = cur /\ at["stop"] # "done" => row[e] # "none"
    BY DEF RowsAgree
  <2>1. e \in Ev /\ e <= opened
    BY BoundAssumption DEF IInv, TypeOK, Ev
  <2>2. ended[e] = 1 => row[e] = "ended"
    BY <2>1 DEF IInv, Rows
  <2>3. e # cur => ended[e] = 1
    BY <2>1 DEF IInv, Ended
  <2>4. row[e] # "none"
    <3>1. Len(db) = 0
      OBVIOUS
    <3>. QED  BY <3>1, <2>1 DEF IInv, Rows
  <2>. QED  BY <2>2, <2>3, <2>4
<1>. QED  BY <1>1, Invariance, PTL

\* motion_started never comes after motion_ended.
THEOREM StartsFirstAlways == Spec => StartsFirst
<1>1. ASSUME IInv, [Next]_vars
      PROVE  [\A e \in started' \ started : ended[e] = 0]_vars
  <2>. SUFFICES ASSUME Next, NEW e \in started' \ started PROVE ended[e] = 0
    BY <1>1
  <2>1. /\ started' \subseteq started \cup {seen.ev}
        /\ at["consumer"] \in {"insert", "classify"}
    <3>1. CASE Consume
      BY <3>1 DEF Consume, Inserted, Classified, TrackPersisted, told
    <3>2. CASE ~Consume
      <4>1. started' = started
        BY <3>2 DEF Next, Open, Improve, SeeAgain, Observes, DbExecutes, TimePasses,
                    CloserStep, CloserWakes, Completed, StopConsumer, StopStep,
                    StopCloser, StopCloses, ClearData, told
      <4>. QED  BY <4>1
    <3>. QED  BY <3>1, <3>2
  <2>2. e = seen.ev /\ e = cur /\ cur # 0
    BY <2>1, <1>1 DEF IInv, Ended
  <2>3. e \in Ev
    BY <2>2, <1>1, BoundAssumption DEF IInv, TypeOK, Ev
  <2>. QED  BY <2>2, <2>3, <1>1 DEF IInv, Ended
<1>. QED  BY <1>1, Invariance, PTL DEF Spec, StartsFirst
=============================================================================
