------------------------- MODULE CameraRegistryProofs -------------------------
(***************************************************************************)
(* Proofs about CameraRegistry: what a task knows of the addresses it      *)
(* works on stays true as long as nobody changes them (clash), and where   *)
(* the cache and the table differ, or an event is due, a task is on its    *)
(* way to put that right.                                                  *)
(***************************************************************************)
EXTENDS CameraRegistry, TLAPS

(***************************************************************************)
(* The invariant.                                                          *)
(***************************************************************************)
\* Where a task waits with the row it has written, or has read back.
Wrote == {"new_read", "merge_read", "demote_read", "auth_read", "manual_read",
          "logout_read"}
Uses == {"new_use", "merge_use", "demote_use", "auth_use", "manual_use",
         "logout_use"}
Adds == {"stored", "owner", "rebound", "merge", "merge_read", "merge_use",
         "interrogate", "new_read", "new_use"}
Moves == {"rebound", "merge", "merge_read", "merge_use"}
Verifies == {"verdicts", "stale", "demote_read", "demote_use", "unstream"}

\* The local variables l that a task has set, by where it is.
ShapeOf(l, h) ==
    /\ l.pc = "idle" => l = Idle
    /\ l.pc \in {"probe", "next", "verdicts", "stale", "reset"} =>
          l.obj = None /\ l.val = None
    /\ l.pc \in Adds \cup {"file", "port", "manual"} => l.ip \in IP
    /\ l.pc \in {"stored", "interrogate", "manual", "logout", "delete", "delete_row"}
          \/ l.pc \in (Wrote \cup Uses) \ Moves
          => l.obj = None
    /\ l.pc \in Wrote \cup Uses \cup {"logout", "delete", "delete_row"} =>
          l.val # None
    /\ l.pc \in {"stored", "interrogate", "new_read", "new_use", "merge_read",
                 "merge_use", "manual_read", "manual_use"}
          /\ l.val # None => l.val.ip = l.ip
    /\ l.pc \in Moves \cup {"owner"} => l.obj \in l.cand
    /\ l.pc \in {"file", "port", "register", "sub", "sub_file", "unstream", "auth"}
          => l.obj # None
    /\ l.pc \in {"file", "port"} => h[l.obj].ip = l.ip
    /\ l.pc \in {"rebound", "merge", "file", "port", "register", "sub",
                 "sub_file", "unstream", "auth", "manual"} => l.val = None
    /\ l.pc \in Verifies => l.phase = "onvif"
    /\ l.pc \in Verifies \cup RequestPc => l.cand = {}
    /\ l.pc \notin Verifies => l.due = {}
Shape(t) == ShapeOf(loc[t], heap)

Live == \A o \in InUse(known, loc) : o # None => heap[o] # None
UniqueIn(R) == /\ \A i \in IP : R[i] # None => R[i].ip = i
               /\ \A i, j \in IP : /\ R[i] # None /\ R[j] # None
                                    /\ R[i].id = R[j].id
                                    => i = j
Unique == UniqueIn(rows)
Placed == \A i \in IP : known[i] # None => heap[known[i]].ip = i

Sound == TypeOK /\ Live /\ Unique /\ Placed /\ \A t \in Task : Shape(t)

\* Objects of the cache in the hands of a task with the local variables l.
Held(l) == l.cand \cup l.due \cup (IF l.pc = "auth" THEN {} ELSE {l.obj} \ {None})
At0(i, id) == rows[i] # None /\ rows[i].id = id
Resetting == \E u \in Task : loc[u].pc = "reset"

\* What such a task knows about the addresses it works on.
KnowsOf(l) ==
    /\ \A o \in Held(l) : known[heap[o].ip] = o
    /\ l.pc \in Adds => known[l.ip] = None
    /\ l.pc \in {"stored", "owner"} => l.val = rows[l.ip]
    /\ l.pc = "owner" => l.val = None
    /\ l.pc = "interrogate" /\ l.val # None => l.val = rows[l.ip]
    /\ l.pc \in {"rebound", "merge"} =>
          \/ /\ rows[l.ip] = [heap[l.obj] EXCEPT !.ip = l.ip]
             /\ rows[heap[l.obj].ip] = None
          \/ l.pc = "rebound" /\ Resetting
    /\ l.pc \in {"merge_read", "merge_use"} =>
          At0(l.ip, heap[l.obj].id) /\ rows[heap[l.obj].ip] = None
    /\ l.pc \in Wrote => rows[l.val.ip] # None
    /\ l.pc = "logout_read" => At0(l.val.ip, l.val.id)
    /\ l.pc \in Uses \cup {"logout", "delete", "delete_row"} =>
          rows[l.val.ip] = l.val
    /\ l.pc \in {"demote_read", "demote_use"} =>
          \A o \in l.due : heap[o].ip # l.val.ip
    /\ l.pc = "delete_row" => known[l.val.ip] = None
    /\ l.pc = "auth" /\ rows[heap[l.obj].ip] # None =>
          rows[heap[l.obj].ip].id = heap[l.obj].id
    /\ l.pc = "manual" => rows[l.ip] = None
    /\ l.pc = "reset" => rows = [i \in IP |-> None]
Knows(t) == KnowsOf(loc[t])

\* Where the cache and the table differ, and who is about to put it right.
Agree(i) == known[i] # None => heap[known[i]] = rows[i]
BusyOf(l, i) ==
    \/ l.pc = "reset"
    \/ l.pc \in Wrote \cup Uses /\ l.val.ip = i
    \/ l.pc \in Moves /\ heap[l.obj].ip = i
Busy(t, i) == BusyOf(loc[t], i)
Fixed == \A i \in IP : Agree(i) \/ \E t \in Task : Busy(t, i)

\* The row of a cached camera is at its address, or moved, or reset.
Same(i) == known[i] # None =>
    \/ At0(i, heap[known[i]].id)
    \/ /\ rows[i] = None
       /\ \/ Resetting
          \/ \E t \in Task : loc[t].pc \in Moves /\ loc[t].obj = known[i]

Wiped == \A i \in IP : rows[i] # None /\ rows[i].id \in out => ~rows[i].auth

\* Who is about to announce what has become recordable, or no longer is.
TellsOf(l, id) ==
    \/ l.pc = "reset"
    \/ l.pc = "file" /\ l.tell /\ heap[l.obj].id = id
    \/ l.pc \in Wrote \cup Uses /\ At0(l.val.ip, id)
    \/ l.pc \in {"rebound", "merge", "register", "unstream"} /\ heap[l.obj].id = id
Tells(t, id) == TellsOf(loc[t], id)
Due == \A id \in unsaid : \E t \in Task : Tells(t, id)

Calm == /\ \A t \in Task : Knows(t)
        /\ Fixed /\ (\A i \in IP : Same(i)) /\ Wiped /\ Due

IInv == Sound /\ (~clash => Calm)

(***************************************************************************)
(* What a step leaves.                                                     *)
(***************************************************************************)
Rows == [IP -> Camera \cup {None}]
Caching == [IP -> Obj \cup {None}]
Heaps == [Obj -> Camera \cup {None}]

\* An object is changed in place, and never its id or address.
Keeps(h) == \A o \in Obj : heap[o] # None =>
               h[o] # None /\ h[o].id = heap[o].id /\ h[o].ip = heap[o].ip
Refs(l) == {l.obj} \cup l.cand \cup l.due

\* The variables that Acts leaves to the action.
Typed == /\ net' \in [IP -> Device \cup {None}] /\ moves' \in 0..MaxMoves
         /\ asked' \in 0..MaxRequests /\ out' \in SUBSET Id

LEMMA Nones == /\ None \notin IP /\ None \notin Device /\ None \notin Obj
               /\ None \notin Id /\ None \notin Camera
BY NoneAssumption, CameraAssumption, BoundAssumption DEF Obj, Id

LEMMA Types ==
    ASSUME TypeOK
    PROVE  /\ rows \in Rows /\ known \in Caching /\ heap \in Heaps
           /\ loc \in [Task -> Local] /\ unsaid \in SUBSET Id
           /\ out \in SUBSET Id /\ clash \in BOOLEAN
BY DEF TypeOK, Rows, Caching, Heaps

LEMMA NewObjIs ==
    ASSUME Free # {}
    PROVE  NewObj \in Obj /\ heap[NewObj] = None
BY DEF NewObj, Free

LEMMA NewIdIs ==
    ASSUME FreeId # {}, rows \in Rows
    PROVE  /\ NewId \in Id /\ NewId \notin out
           /\ \A i \in IP : rows[i] # None => rows[i].id # NewId
<1>1. NewId \in FreeId
  BY DEF NewId
<1>2. DOMAIN rows = IP
  BY DEF Rows
<1>. QED
  BY <1>1, <1>2 DEF FreeId, Ids

LEMMA WithIs ==
    ASSUME heap \in Heaps, Free # {}, NEW c \in Camera
    PROVE  /\ With(c) \in Heaps /\ With(c)[NewObj] = c /\ Keeps(With(c))
           /\ \A o \in Obj : o # NewObj => With(c)[o] = heap[o]
<1>1. NewObj \in Obj /\ heap[NewObj] = None
  BY NewObjIs
<1>2. With(c) \in Heaps /\ With(c)[NewObj] = c
      /\ \A o \in Obj : o # NewObj => With(c)[o] = heap[o]
  BY <1>1 DEF With, Heaps
<1>. QED
  BY <1>1, <1>2 DEF Keeps

LEMMA CachedIs ==
    ASSUME Sound, NEW i \in IP, known[i] # None
    PROVE  /\ known[i] \in Obj /\ heap[known[i]] \in Camera
           /\ heap[known[i]].ip = i
<1>1. known \in Caching /\ heap \in Heaps
  BY Types DEF Sound
<1>2. known[i] \in InUse(known, loc) /\ known[i] \in Obj
  BY <1>1 DEF InUse, Caching
<1>. QED
  BY <1>1, <1>2 DEF Sound, Live, Placed, Heaps

LEMMA RefsUsed ==
    ASSUME Sound, NEW t \in Task
    PROVE  /\ \A o \in Refs(loc[t]) : o # None => o \in Obj /\ heap[o] \in Camera
           /\ \A i \in IP : known[i] # None =>
                  /\ known[i] \in Obj /\ heap[known[i]] \in Camera
                  /\ heap[known[i]].ip = i
<1>1. /\ known \in Caching /\ heap \in Heaps /\ loc[t] \in Local
  BY Types DEF Sound
<1>2. \A o \in Refs(loc[t]) : o \in InUse(known, loc) /\ o \in Obj \cup {None}
  BY <1>1 DEF Refs, InUse, Local
<1>. QED
  BY <1>1, <1>2, CachedIs DEF Sound, Live, Heaps

LEMMA ActsIs ==
    ASSUME loc \in [Task -> Local], unsaid \in SUBSET Id, clash \in BOOLEAN,
           NEW t \in Task, NEW l \in Local, NEW k \in Caching, NEW h \in Heaps,
           NEW R \in Rows, NEW told, Acts(t, l, k, h, R, told)
    PROVE  /\ loc' \in [Task -> Local] /\ loc'[t] = l
           /\ \A u \in Task : u # t => loc'[u] = loc[u]
           /\ known' = k /\ rows' = R /\ heap' \in Heaps
           /\ \A o \in InUse(known', loc') : o \in Obj => heap'[o] = h[o]
           /\ unsaid' \in SUBSET Id /\ clash' \in BOOLEAN
<1>1. loc' = [loc EXCEPT ![t] = l] /\ known' = k /\ rows' = R
  BY DEF Acts
<1>2. heap' = [o \in Obj |-> IF o \in InUse(known', loc') THEN h[o] ELSE None]
  BY <1>1 DEF Acts
<1>3. unsaid' \in SUBSET Id /\ clash' \in BOOLEAN
  BY DEF Acts
<1>. QED
  BY <1>1, <1>2, <1>3 DEF Heaps

\* A step that keeps the bounds on the rest, hands out existing objects only,
\* and leaves the table and its task well formed.
LEMMA SoundActs ==
    ASSUME Sound, NEW t \in Task, NEW l \in Local, NEW k \in Caching,
           NEW h \in Heaps, NEW R \in Rows, NEW told,
           Acts(t, l, k, h, R, told), Keeps(h),
           \A o \in Refs(l) : o # None => h[o] # None,
           \A i \in IP : k[i] # None => h[k[i]] # None /\ h[k[i]].ip = i,
           UniqueIn(R), ShapeOf(l, h),
           Typed
    PROVE  Sound'
<1>0. TypeOK /\ loc \in [Task -> Local] /\ clash \in BOOLEAN /\ unsaid \in SUBSET Id
  BY Types DEF Sound
<1>1. /\ loc' \in [Task -> Local] /\ loc'[t] = l
      /\ \A u \in Task : u # t => loc'[u] = loc[u]
      /\ known' = k /\ rows' = R /\ heap' \in Heaps
      /\ \A o \in InUse(known', loc') : o \in Obj => heap'[o] = h[o]
      /\ unsaid' \in SUBSET Id /\ clash' \in BOOLEAN
  BY <1>0, ActsIs
<1>2. TypeOK'
  BY <1>1 DEF TypeOK, Rows, Caching, Heaps, Typed
<1>3. ASSUME NEW u \in Task
      PROVE  \A o \in Refs(loc'[u]) : o # None =>
                o \in Obj /\ h[o] # None /\ heap'[o] = h[o]
  <2>1. ASSUME NEW o \in Refs(loc'[u]), o # None
        PROVE  o \in Obj /\ heap'[o] = h[o]
    <3>1. o \in InUse(known', loc')
      BY <2>1 DEF Refs, InUse
    <3>2. o \in Obj
      BY <1>1, <2>1 DEF Refs, Local
    <3>. QED
      BY <1>1, <3>1, <3>2
  <2>2. \A o \in Refs(loc'[u]) : o # None => h[o] # None
    <3>1. CASE u = t
      BY <1>1, <3>1
    <3>2. CASE u # t
      <4>1. \A o \in Refs(loc[u]) : o # None => o \in Obj /\ heap[o] \in Camera
        BY RefsUsed
      <4>. QED
        BY <1>1, <3>2, <4>1, Nones DEF Keeps
    <3>. QED
      BY <3>1, <3>2
  <2>. QED
    BY <2>1, <2>2
<1>4. \A i \in IP : known'[i] # None =>
          known'[i] \in Obj /\ h[known'[i]] # None /\ heap'[known'[i]] = h[known'[i]]
  <2>1. \A i \in IP : known'[i] \in InUse(known', loc')
    BY DEF InUse
  <2>. QED
    BY <1>1, <2>1 DEF Caching
<1>5. Live'
  <2>1. ASSUME NEW o \in InUse(known', loc'), o # None
        PROVE  heap'[o] # None
    <3>1. (\E i \in IP : o = known'[i]) \/ \E u \in Task : o \in Refs(loc'[u])
      BY DEF InUse, Refs
    <3>. QED
      BY <2>1, <3>1, <1>3, <1>4
  <2>. QED
    BY <2>1 DEF Live
<1>6. Unique' /\ Placed'
  BY <1>1, <1>4 DEF Unique, UniqueIn, Placed
<1>7. ASSUME NEW u \in Task
      PROVE  Shape(u)'
  <2>1. CASE u = t
    <3>1. l.pc \in {"file", "port"} => heap'[l.obj] = h[l.obj]
      BY <1>1, <1>3, <2>1 DEF ShapeOf, Refs
    <3>. QED
      BY <1>1, <2>1, <3>1 DEF Shape, ShapeOf
  <2>2. CASE u # t
    <3>1. loc[u].pc \in {"file", "port"} => heap'[loc[u].obj].ip = heap[loc[u].obj].ip
      <4>1. SUFFICES ASSUME loc[u].pc \in {"file", "port"}
                     PROVE  heap'[loc[u].obj].ip = heap[loc[u].obj].ip
        OBVIOUS
      <4>2. loc[u].obj # None /\ loc[u].obj \in Refs(loc[u])
        BY <4>1 DEF Sound, Shape, ShapeOf, Refs
      <4>3. loc[u].obj \in Obj /\ heap[loc[u].obj] \in Camera
        BY <4>2, RefsUsed
      <4>. QED
        BY <1>1, <1>3, <2>2, <4>2, <4>3, Nones DEF Keeps
    <3>. QED
      BY <1>1, <2>2, <3>1 DEF Sound, Shape, ShapeOf
  <2>. QED
    BY <2>1, <2>2
<1>. QED
  BY <1>2, <1>5, <1>6, <1>7 DEF Sound

(***************************************************************************)
(* While there is no clash, a step leaves what the others work on.         *)
(***************************************************************************)
Untouched(i) == /\ rows'[i] = rows[i] /\ known'[i] = known[i]
                /\ known[i] # None => heap'[known[i]] = heap[known[i]]

LEMMA WorksOn ==
    ASSUME Sound, NEW u \in Task
    PROVE  /\ loc[u].ip \in IP => Works(u, loc[u].ip)
           /\ loc[u].val # None => loc[u].val.ip \in IP /\ Works(u, loc[u].val.ip)
           /\ \A o \in Refs(loc[u]) : o # None =>
                 /\ heap[o].ip \in IP /\ Works(u, heap[o].ip)
                 /\ \A i \in IP : At0(i, heap[o].id) => Works(u, i)
           /\ loc[u].pc = "reset" => \A i \in IP : Works(u, i)
<1>1. loc[u] \in Local /\ rows \in Rows
  BY Types DEF Sound
<1>2. \A o \in Refs(loc[u]) : o # None => heap[o] \in InHand(u) /\ heap[o] \in Camera
  BY RefsUsed, Nones DEF InHand, Refs
<1>3. loc[u].val # None => loc[u].val \in InHand(u) /\ loc[u].val \in Camera
  BY <1>1 DEF InHand, Local
<1>4. \A c \in Camera : c.ip \in IP
  BY DEF Camera
<1>. QED
  BY <1>2, <1>3, <1>4 DEF Works, At0, At

LEMMA WorksUntouched ==
    ASSUME Sound, NEW t \in Task, NEW l \in Local, NEW k \in Caching,
           NEW h \in Heaps, NEW R \in Rows, NEW told,
           Acts(t, l, k, h, R, told), ~clash',
           NEW u \in Task, u # t, NEW i \in IP, Works(u, i)
    PROVE  Untouched(i)
<1>1. /\ R[i] = rows[i] /\ k[i] = known[i]
      /\ known[i] # None => h[known[i]] = heap[known[i]]
  BY DEF Acts
<1>2. /\ known' = k /\ rows' = R
      /\ \A o \in InUse(known', loc') : o \in Obj => heap'[o] = h[o]
  BY Types, ActsIs DEF Sound
<1>3. known'[i] \in InUse(known', loc') /\ known'[i] \in Obj \cup {None}
  BY <1>2 DEF InUse, Caching
<1>. QED
  BY <1>1, <1>2, <1>3 DEF Untouched

LEMMA RefsKept ==
    ASSUME Sound, NEW t \in Task, NEW l \in Local, NEW k \in Caching,
           NEW h \in Heaps, NEW R \in Rows, NEW told,
           Acts(t, l, k, h, R, told), Keeps(h), NEW u \in Task, u # t
    PROVE  \A o \in Refs(loc[u]) : o # None =>
              /\ o \in Obj /\ heap[o] \in Camera /\ heap'[o] = h[o] /\ h[o] # None
              /\ heap'[o].id = heap[o].id /\ heap'[o].ip = heap[o].ip
<1>1. /\ loc'[u] = loc[u]
      /\ \A o \in InUse(known', loc') : o \in Obj => heap'[o] = h[o]
  BY Types, ActsIs DEF Sound
<1>2. \A o \in Refs(loc[u]) : o \in InUse(known', loc')
  BY <1>1 DEF Refs, InUse
<1>. QED
  BY <1>1, <1>2, RefsUsed, Nones DEF Keeps

LEMMA HeldKept ==
    ASSUME Sound, NEW t \in Task, NEW l \in Local, NEW k \in Caching,
           NEW h \in Heaps, NEW R \in Rows, NEW told,
           Acts(t, l, k, h, R, told), ~clash',
           NEW u \in Task, u # t, NEW o \in Held(loc[u]), known[heap[o].ip] = o
    PROVE  /\ heap'[o] = heap[o] /\ known'[heap[o].ip] = o
           /\ o \in Refs(loc[u]) /\ o \in Obj /\ heap[o].ip \in IP
<1>1. o \in Refs(loc[u]) /\ o # None
  BY Types, Nones DEF Sound, Held, Refs, Local
<1>2. o \in Obj /\ heap[o].ip \in IP /\ Works(u, heap[o].ip)
  BY <1>1, WorksOn, RefsUsed
<1>3. Untouched(heap[o].ip)
  BY <1>2, WorksUntouched
<1>. QED
  BY <1>1, <1>2, <1>3, Nones DEF Untouched

\* What another task than t knows stays true.
LEMMA OtherKnows ==
    ASSUME Sound, NEW t \in Task, NEW l \in Local, NEW k \in Caching,
           NEW h \in Heaps, NEW R \in Rows, NEW told,
           Acts(t, l, k, h, R, told), Keeps(h), ~clash',
           loc[t].pc = "reset" => \A i \in IP : k[i] = None,
           NEW u \in Task, u # t, Knows(u)
    PROVE  Knows(u)'
<1>. DEFINE m == loc[u]
            ip == heap[m.obj].ip
<1>1. /\ loc'[u] = m /\ m \in Local /\ known' = k
      /\ \A v \in Task : v # t => loc'[v] = loc[v]
  BY Types, ActsIs DEF Sound
<1>2. \A o \in Held(loc[u]) : /\ known[heap[o].ip] = o /\ heap'[o] = heap[o]
                         /\ known'[heap[o].ip] = o /\ o \in Obj
                         /\ heap[o].ip \in IP
  BY HeldKept DEF Knows, KnowsOf
<1>3. m.ip \in IP => Untouched(m.ip)
  BY WorksOn, WorksUntouched
<1>4. m.val # None => Untouched(m.val.ip) /\ m.val.ip \in IP
  BY WorksOn, WorksUntouched
<1>5. m.obj # None => /\ ip \in IP /\ Untouched(ip) /\ m.obj \in Obj
                      /\ heap'[m.obj].ip = ip
                      /\ heap'[m.obj].id = heap[m.obj].id
  <2>1. m.obj \in Refs(m)
    BY DEF Refs
  <2>. QED
    BY <2>1, WorksOn, WorksUntouched, RefsKept
<1>6. m.pc = "reset" => rows' = rows
  <2>1. m.pc = "reset" => \A i \in IP : Untouched(i)
    BY WorksOn, WorksUntouched
  <2>2. rows \in Rows /\ rows' \in Rows
    BY Types, ActsIs DEF Sound
  <2>. QED
    BY <2>1, <2>2 DEF Untouched, Rows
<1>7. m.pc \in Moves \cup {"owner"} => m.obj # None /\ m.obj \in Held(loc[u])
  BY <1>1, Nones DEF Sound, Shape, ShapeOf, Held, Moves, Local
<1>8. Shape(u)
  BY DEF Sound
<1>10. \A o \in Held(loc'[u]) : known'[heap'[o].ip] = o
  <2>1. Held(loc'[u]) = Held(loc[u])
    BY <1>1 DEF Held
  <2>. QED
    BY <1>2, <2>1
<1>11. m.pc \in Adds => known'[m.ip] = None
  BY <1>3, <1>8 DEF Knows, KnowsOf, Untouched, Shape, ShapeOf
<1>12. /\ m.pc \in {"stored", "owner"} => m.val = rows'[m.ip]
       /\ m.pc = "interrogate" /\ m.val # None => m.val = rows'[m.ip]
       /\ m.pc = "manual" => rows'[m.ip] = None
  BY <1>3, <1>8 DEF Knows, KnowsOf, Untouched, Shape, ShapeOf, Adds
<1>13. ASSUME m.pc \in {"rebound", "merge"}
       PROVE  \/ /\ rows'[m.ip] = [heap'[m.obj] EXCEPT !.ip = m.ip]
                 /\ rows'[heap'[m.obj].ip] = None
              \/ m.pc = "rebound" /\ Resetting'
  <2>1. m.obj \in Held(loc[u]) /\ m.obj # None /\ m.ip \in IP
    BY <1>7, <1>8, <1>13 DEF Moves, Shape, ShapeOf, Adds
  <2>2. /\ heap'[m.obj] = heap[m.obj] /\ known'[ip] = m.obj /\ ip \in IP
        /\ rows'[m.ip] = rows[m.ip] /\ rows'[ip] = rows[ip]
    BY <2>1, <1>2, <1>3, <1>5 DEF Untouched
  <2>3. Resetting => Resetting'
    <3>1. SUFFICES ASSUME NEW v \in Task, loc[v].pc = "reset"
                   PROVE  Resetting'
      BY DEF Resetting
    <3>2. v # t
      BY <3>1, <2>1, <2>2, <1>1
    <3>. QED
      BY <3>1, <3>2, <1>1 DEF Resetting
  <2>. QED
    BY <2>2, <2>3, <1>13 DEF Knows, KnowsOf
<1>14. m.pc \in {"merge_read", "merge_use"} =>
          /\ rows'[m.ip] # None /\ rows'[m.ip].id = heap'[m.obj].id
          /\ rows'[heap'[m.obj].ip] = None
  <2>1. SUFFICES ASSUME m.pc \in {"merge_read", "merge_use"}
                 PROVE  /\ rows'[m.ip] # None /\ rows'[m.ip].id = heap'[m.obj].id
                        /\ rows'[heap'[m.obj].ip] = None
    OBVIOUS
  <2>2. m.obj # None /\ m.ip \in IP
    BY <1>7, <1>8, <2>1 DEF Moves, Shape, ShapeOf, Adds
  <2>. QED
    BY <2>1, <2>2, <1>3, <1>5 DEF Knows, KnowsOf, Untouched, At0
<1>15. /\ m.pc \in Wrote => rows'[m.val.ip] # None
       /\ m.pc = "logout_read" =>
             rows'[m.val.ip] # None /\ rows'[m.val.ip].id = m.val.id
       /\ m.pc \in Uses \cup {"logout", "delete", "delete_row"} =>
             rows'[m.val.ip] = m.val
       /\ m.pc = "delete_row" => known'[m.val.ip] = None
  <2>1. m.pc \in Wrote \cup Uses \cup {"logout", "delete", "delete_row"} =>
           Untouched(m.val.ip)
    BY <1>4, <1>8 DEF Shape, ShapeOf
  <2>. QED
    BY <2>1 DEF Knows, KnowsOf, Untouched, At0, Wrote
<1>16. m.pc = "auth" /\ rows'[heap'[m.obj].ip] # None =>
          rows'[heap'[m.obj].ip].id = heap'[m.obj].id
  <2>1. m.pc = "auth" => m.obj # None
    BY <1>8 DEF Shape, ShapeOf
  <2>. QED
    BY <2>1, <1>5 DEF Knows, KnowsOf, Untouched
<1>18. /\ m.pc = "owner" => m.val = None
       /\ m.pc \in {"demote_read", "demote_use"} =>
             \A o \in m.due : heap'[o].ip # m.val.ip
  BY <1>2 DEF Knows, KnowsOf, Held
<1>17. m.pc = "reset" => rows' = [i \in IP |-> None]
  BY <1>6 DEF Knows, KnowsOf
<1>. HIDE DEF m
<1>. QED
  BY <1>1, <1>10, <1>11, <1>12, <1>13, <1>14, <1>15, <1>16, <1>17,
     <1>18 DEF Knows, KnowsOf, At0

\* What another task is about to put right is left to it, and it goes on to.
LEMMA OtherBusy ==
    ASSUME Sound, NEW t \in Task, NEW l \in Local, NEW k \in Caching,
           NEW h \in Heaps, NEW R \in Rows, NEW told,
           Acts(t, l, k, h, R, told), Keeps(h), ~clash',
           NEW u \in Task, u # t, NEW i \in IP, Busy(u, i)
    PROVE  Busy(u, i)' /\ Untouched(i)
<1>1. loc'[u] = loc[u] /\ Shape(u) /\ loc[u] \in Local
  BY Types, ActsIs DEF Sound
<1>2. CASE loc[u].pc = "reset"
  BY <1>1, <1>2, WorksOn, WorksUntouched DEF Busy, BusyOf
<1>3. CASE loc[u].pc \in Wrote \cup Uses /\ loc[u].val.ip = i
  <2>1. loc[u].val # None
    BY <1>1, <1>3 DEF Shape, ShapeOf
  <2>. QED
    BY <1>1, <1>3, <2>1, WorksOn, WorksUntouched DEF Busy, BusyOf
<1>4. CASE loc[u].pc \in Moves /\ heap[loc[u].obj].ip = i
  <2>1. loc[u].obj \in Refs(loc[u]) /\ loc[u].obj # None
    BY <1>1, <1>4, Nones DEF Shape, ShapeOf, Refs, Local
  <2>2. heap'[loc[u].obj].ip = i
    BY <2>1, <1>4, RefsKept
  <2>. QED
    BY <1>1, <1>4, <2>1, <2>2, WorksOn, WorksUntouched DEF Busy, BusyOf
<1>. QED
  BY <1>2, <1>3, <1>4 DEF Busy, BusyOf

LEMMA OtherTells ==
    ASSUME Sound, NEW t \in Task, NEW l \in Local, NEW k \in Caching,
           NEW h \in Heaps, NEW R \in Rows, NEW told,
           Acts(t, l, k, h, R, told), Keeps(h), ~clash',
           NEW u \in Task, u # t, NEW id, Tells(u, id)
    PROVE  Tells(u, id)'
<1>1. loc'[u] = loc[u] /\ Shape(u) /\ loc[u] \in Local
  BY Types, ActsIs DEF Sound
<1>2. CASE loc[u].pc = "reset"
  BY <1>1, <1>2 DEF Tells, TellsOf
<1>3. CASE loc[u].pc \in Wrote \cup Uses /\ At0(loc[u].val.ip, id)
  <2>1. loc[u].val # None
    BY <1>1, <1>3 DEF Shape, ShapeOf
  <2>2. Untouched(loc[u].val.ip)
    BY <2>1, WorksOn, WorksUntouched
  <2>. QED
    BY <1>1, <1>3, <2>2 DEF Tells, TellsOf, At0, Untouched
<1>4. CASE /\ \/ loc[u].pc = "file" /\ loc[u].tell
              \/ loc[u].pc \in {"rebound", "merge", "register", "unstream"}
           /\ heap[loc[u].obj].id = id
  <2>1. loc[u].obj \in Refs(loc[u]) /\ loc[u].obj # None
    BY <1>1, <1>4, Nones DEF Shape, ShapeOf, Refs, Local, Moves
  <2>2. heap'[loc[u].obj].id = id
    BY <2>1, <1>4, RefsKept
  <2>. QED
    BY <1>1, <1>4, <2>2 DEF Tells, TellsOf
<1>. QED
  BY <1>2, <1>3, <1>4 DEF Tells, TellsOf

\* A step without a clash keeps the peace, if it accounts for what it touches
\* and for what its task had still to put right or to tell.
LEMMA CalmActs ==
    ASSUME Sound, Calm, NEW t \in Task, NEW l \in Local, NEW k \in Caching,
           NEW h \in Heaps, NEW R \in Rows, NEW told,
           Acts(t, l, k, h, R, told), Keeps(h), ~clash',
           loc[t].pc = "reset" => \A i \in IP : k[i] = None,
           Knows(t)',
           \A i \in IP : ~Untouched(i) \/ Busy(t, i) =>
               \/ Agree(i)' \/ Busy(t, i)'
               \/ \E u \in Task : u # t /\ Busy(u, i),
           \A i \in IP : \/ ~Untouched(i) \/ loc[t].pc = "reset"
                         \/ loc[t].pc \in Moves /\ loc[t].obj = known[i]
                         => Same(i)',
           Wiped',
           \A id \in Id : Recorded(R, id) # Recorded(rows, id) \/ Tells(t, id) =>
               \/ id \in told \/ Tells(t, id)'
               \/ \E u \in Task : u # t /\ Tells(u, id)
    PROVE  Calm'
<1>1. /\ loc' \in [Task -> Local] /\ \A u \in Task : u # t => loc'[u] = loc[u]
      /\ known' = k /\ rows' = R /\ known \in Caching
  BY Types, ActsIs DEF Sound
<1>2. \A u \in Task : Knows(u)'
  BY OtherKnows DEF Calm
<1>3. Fixed'
  <2>1. ASSUME NEW i \in IP
        PROVE  Agree(i)' \/ \E u \in Task : Busy(u, i)'
    <3>1. CASE ~Untouched(i) \/ Busy(t, i)
      BY <3>1, OtherBusy
    <3>2. CASE Untouched(i) /\ ~Busy(t, i)
      <4>1. CASE Agree(i)
        BY <3>2, <4>1 DEF Untouched, Agree
      <4>2. CASE ~Agree(i)
        BY <3>2, <4>2, OtherBusy DEF Calm, Fixed
      <4>. QED
        BY <4>1, <4>2
    <3>. QED
      BY <3>1, <3>2
  <2>. QED
    BY <2>1 DEF Fixed
<1>4. ASSUME NEW i \in IP
      PROVE  Same(i)'
  <2>1. CASE \/ ~Untouched(i) \/ loc[t].pc = "reset"
             \/ loc[t].pc \in Moves /\ loc[t].obj = known[i]
    BY <2>1
  <2>2. CASE /\ Untouched(i) /\ loc[t].pc # "reset"
             /\ ~(loc[t].pc \in Moves /\ loc[t].obj = known[i])
    <3>1. Same(i)
      BY DEF Calm
    <3>2. Resetting => Resetting'
      BY <1>1, <2>2 DEF Resetting
    <3>3. ASSUME NEW u \in Task, loc[u].pc \in Moves, loc[u].obj = known[i]
          PROVE  loc'[u].pc \in Moves /\ loc'[u].obj = known'[i]
      BY <1>1, <2>2, <3>3 DEF Untouched
    <3>. QED
      BY <2>2, <3>1, <3>2, <3>3 DEF Same, Untouched, At0
  <2>. QED
    BY <2>1, <2>2
<1>5. Due'
  <2>1. ASSUME NEW id \in unsaid'
        PROVE  \E u \in Task : Tells(u, id)'
    <3>1. id \in Id /\ id \notin told
          /\ (id \in unsaid \/ Recorded(R, id) # Recorded(rows, id))
      BY Types DEF Acts, Sound
    <3>2. CASE Recorded(R, id) # Recorded(rows, id) \/ Tells(t, id)
      BY <3>1, <3>2, OtherTells
    <3>3. CASE id \in unsaid /\ ~Tells(t, id)
      BY <3>1, <3>3, OtherTells DEF Calm, Due
    <3>. QED
      BY <3>1, <3>2, <3>3
  <2>. QED
    BY <2>1 DEF Due
<1>. QED
  BY <1>2, <1>3, <1>4, <1>5 DEF Calm

\* A step that changes the local variables of its task only.
LEMMA GoesSound ==
    ASSUME Sound, NEW t \in Task, NEW l \in Local, Goes(t, l),
           \A o \in Refs(l) : o # None => heap[o] # None, ShapeOf(l, heap),
           Typed
    PROVE  Sound'
<1>1. /\ known \in Caching /\ heap \in Heaps /\ rows \in Rows
      /\ Acts(t, l, known, heap, rows, {}) /\ Keeps(heap)
  BY Types DEF Sound, Goes, Keeps
<1>2. \A i \in IP : known[i] # None => heap[known[i]] # None /\ heap[known[i]].ip = i
  BY RefsUsed, Nones
<1>. QED
  BY <1>1, <1>2, SoundActs DEF Sound, Unique

LEMMA SaysCalm ==
    ASSUME Sound, Calm, NEW t \in Task, NEW l \in Local, NEW told,
           Acts(t, l, known, heap, rows, told), ~clash',
           \A o \in Refs(l) : o # None => heap[o] # None, ShapeOf(l, heap),
           loc[t].pc # "reset", out' = out, KnowsOf(l),
           \A i \in IP : BusyOf(loc[t], i) =>
               \/ Agree(i) \/ BusyOf(l, i)
               \/ \E u \in Task : u # t /\ Busy(u, i),
           \A i \in IP : loc[t].pc \in Moves /\ loc[t].obj = known[i] =>
               \/ l.pc \in Moves /\ l.obj = known[i]
               \/ At0(i, heap[known[i]].id)
               \/ rows[i] = None /\ Resetting,
           \A id \in Id : TellsOf(loc[t], id) =>
               \/ id \in told \/ TellsOf(l, id)
               \/ \E u \in Task : u # t /\ Tells(u, id)
    PROVE  Calm'
<1>1. /\ known \in Caching /\ heap \in Heaps /\ rows \in Rows
      /\ Keeps(heap)
  BY Types DEF Sound, Keeps
<1>2. /\ known' = known /\ rows' = rows /\ loc'[t] = l
      /\ \A u \in Task : u # t => loc'[u] = loc[u]
      /\ \A o \in InUse(known', loc') : o \in Obj => heap'[o] = heap[o]
  BY <1>1, Types, ActsIs DEF Sound
<1>3. \A i \in IP : Untouched(i)
  <2>1. \A i \in IP : known'[i] \in InUse(known', loc') /\ known[i] \in Obj \cup {None}
    BY <1>1 DEF InUse, Caching
  <2>. QED
    BY <1>2, <2>1 DEF Untouched
<1>4. \A o \in Refs(l) : o # None => heap'[o] = heap[o]
  <2>1. \A o \in Refs(l) : o \in InUse(known', loc') /\ o \in Obj \cup {None}
    BY <1>2 DEF InUse, Refs, Local
  <2>. QED
    BY <1>2, <2>1
<1>5. Resetting => Resetting'
  BY <1>2 DEF Resetting
<1>6. /\ l.pc \in Moves \cup {"auth", "file", "register", "unstream", "merge"}
            => l.obj # None /\ l.obj \in Refs(l)
      /\ \A o \in Held(l) : o \in Refs(l) /\ o # None
  BY Nones DEF ShapeOf, Refs, Held, Moves, Local
<1>7. Knows(t)'
  <2>1. Knows(t)' <=> KnowsOf(l)'
    BY <1>2 DEF Knows, KnowsOf, Held, Resetting, At0
  <2>2. \A o \in Held(l) : heap'[o] = heap[o]
    BY <1>4, <1>6
  <2>3. l.pc \in Moves \cup {"auth"} => heap'[l.obj] = heap[l.obj]
    BY <1>4, <1>6
  <2>4. \A o \in l.due : heap'[o] = heap[o]
    BY <2>2 DEF Held
  <2>. QED
    BY <1>2, <1>5, <2>1, <2>2, <2>3, <2>4 DEF KnowsOf, At0, Moves
<1>8. ASSUME NEW i \in IP, Busy(t, i)
      PROVE  \/ Agree(i)' \/ Busy(t, i)'
             \/ \E u \in Task : u # t /\ Busy(u, i)
  <2>1. Agree(i) => Agree(i)'
    BY <1>3 DEF Agree, Untouched
  <2>2. BusyOf(l, i) => Busy(t, i)'
    BY <1>2, <1>4, <1>6 DEF Busy, BusyOf
  <2>. QED
    BY <1>8, <2>1, <2>2 DEF Busy
<1>9. ASSUME NEW i \in IP, loc[t].pc \in Moves /\ loc[t].obj = known[i]
      PROVE  Same(i)'
  <2>1. CASE At0(i, heap[known[i]].id)
    BY <1>3, <2>1 DEF Same, At0, Untouched
  <2>2. CASE l.pc \in Moves /\ l.obj = known[i] /\ ~At0(i, heap[known[i]].id)
    <3>1. known[i] # None => rows[i] = None
      BY <2>2 DEF Calm, Same
    <3>. QED
      BY <1>2, <1>3, <2>2, <3>1 DEF Same, Untouched
  <2>3. CASE rows[i] = None /\ Resetting
    BY <1>2, <1>5, <2>3 DEF Same
  <2>. QED
    BY <1>9, <2>1, <2>2, <2>3
<1>10. ASSUME NEW id \in Id, Tells(t, id)
       PROVE  \/ id \in told \/ Tells(t, id)'
              \/ \E u \in Task : u # t /\ Tells(u, id)
  <2>1. TellsOf(l, id) => Tells(t, id)'
    BY <1>2, <1>4, <1>6 DEF Tells, TellsOf, At0, Moves
  <2>. QED
    BY <1>10, <2>1 DEF Tells
<1>11. Wiped'
  BY <1>2 DEF Calm, Wiped
<1>. HIDE DEF Calm
<1>. QED
  BY <1>1, <1>3, <1>7, <1>8, <1>9, <1>10, <1>11, CalmActs

LEMMA GoesCalm ==
    ASSUME Sound, Calm, NEW t \in Task, NEW l \in Local, Goes(t, l), ~clash',
           \A o \in Refs(l) : o # None => heap[o] # None, ShapeOf(l, heap),
           loc[t].pc # "reset", out' = out, KnowsOf(l),
           \A i \in IP : BusyOf(loc[t], i) =>
               \/ Agree(i) \/ BusyOf(l, i)
               \/ \E u \in Task : u # t /\ Busy(u, i),
           \A i \in IP : loc[t].pc \in Moves /\ loc[t].obj = known[i] =>
               \/ l.pc \in Moves /\ l.obj = known[i]
               \/ At0(i, heap[known[i]].id)
               \/ rows[i] = None /\ Resetting,
           \A id \in Id : TellsOf(loc[t], id) =>
               TellsOf(l, id) \/ \E u \in Task : u # t /\ Tells(u, id)
    PROVE  Calm'
BY SaysCalm DEF Goes

(***************************************************************************)
(* Local variables.                                                        *)
(***************************************************************************)
LEMMA ScanTyped ==
    ASSUME Sound, ScanOnly
    PROVE  Typed /\ out' = out
BY DEF Sound, TypeOK, ScanOnly, Typed

LEMMA GoingTyped ==
    ASSUME Sound, Going, out' \in SUBSET Id
    PROVE  Typed
BY DEF Sound, TypeOK, Going, Typed

LEMMA AsksTyped ==
    ASSUME Sound, NEW r, Asks(r), UNCHANGED <<net, moves>>, out' \in SUBSET Id
    PROVE  Typed
BY BoundAssumption DEF Sound, TypeOK, Asks, Typed

LEMMA IdleIs ==
    /\ Idle \in Local /\ Idle.pc = "idle" /\ Idle.ip = None /\ Idle.obj = None
    /\ Idle.val = None /\ Idle.phase = "onvif" /\ Idle.todo = {} /\ Idle.seen = {}
    /\ Idle.cand = {} /\ Idle.due = {} /\ Idle.tell = FALSE
BY DEF Idle, Local

LEMMA TurnedIs ==
    ASSUME NEW l \in Local
    PROVE  /\ Turned(l) \in Local
           /\ Turned(l).pc = "next" /\ Turned(l).ip = None /\ Turned(l).obj = None
           /\ Turned(l).val = None /\ Turned(l).tell = FALSE
           /\ Turned(l).phase = l.phase /\ Turned(l).todo = l.todo
           /\ Turned(l).seen = l.seen /\ Turned(l).cand = l.cand
           /\ Turned(l).due = l.due
BY DEF Turned, Local, PassPc

\* A failed step leaves less in the hands of its task.
LEMMA FailedIs ==
    ASSUME NEW l \in Local
    PROVE  /\ Failed(l) \in Local /\ Failed(l).pc \in {"idle", "next"}
           /\ Failed(l).pc = "idle" => Failed(l) = Idle
           /\ Failed(l).obj = None /\ Failed(l).val = None
           /\ Failed(l).cand \subseteq l.cand /\ Failed(l).due \subseteq l.due
           /\ Failed(l) # Idle => l.phase = "rtsp"
<1>. DEFINE m == [Turned(l) EXCEPT !.todo = {}]
<1>1. m \in Local /\ m.pc = "next" /\ m.obj = None /\ m.val = None
      /\ m.cand = l.cand /\ m.due = l.due
  BY TurnedIs DEF Local
<1>2. Failed(l) = m \/ Failed(l) = Idle
  BY DEF Failed
<1>3. l.phase # "rtsp" => Failed(l) = Idle
  BY DEF Failed
<1>. HIDE DEF m
<1>. QED
  BY <1>1, <1>2, <1>3, IdleIs

LEMMA TakenIs ==
    ASSUME NEW t \in Task, loc[t] \in Local, NEW i \in IP, NEW pc \in PassPc
    PROVE  /\ Taken(t, i, pc) \in Local
           /\ Taken(t, i, pc).pc = pc /\ Taken(t, i, pc).ip = i
           /\ Taken(t, i, pc).obj = loc[t].obj /\ Taken(t, i, pc).val = loc[t].val
           /\ Taken(t, i, pc).phase = loc[t].phase
           /\ Taken(t, i, pc).cand = loc[t].cand /\ Taken(t, i, pc).due = loc[t].due
           /\ Taken(t, i, pc).tell = loc[t].tell
BY DEF Taken, Local

\* A task that is between two cameras, or done, has nothing to show.
LEMMA RestShape ==
    ASSUME NEW l \in Local, NEW h,
           \/ l = Idle
           \/ l.pc \in {"probe", "next"} /\ l.obj = None /\ l.val = None
                 /\ l.due = {}
           \/ l.pc \in {"verdicts", "stale"} /\ l.obj = None /\ l.val = None
                 /\ l.cand = {} /\ l.phase = "onvif"
    PROVE  ShapeOf(l, h)
BY IdleIs DEF ShapeOf, Adds, Wrote, Uses, Moves, Verifies, RequestPc

(***************************************************************************)
(* Steps that change only the local variables of their task.               *)
(***************************************************************************)
Good == Sound' /\ (Calm /\ ~clash' => Calm')

\* Nothing is left to the task to put right or to tell.
Unburdened(t) ==
    loc[t].pc \notin Wrote \cup Uses \cup Moves
                     \cup {"reset", "file", "register", "unstream"}
Cacheds == {known[i] : i \in IP} \ {None}

LEMMA GoesOn ==
    ASSUME Sound, NEW t \in Task, NEW l \in Local, Goes(t, l), Typed, out' = out,
           Unburdened(t), \A o \in Refs(l) : o # None => heap[o] # None,
           ShapeOf(l, heap), Calm => KnowsOf(l)
    PROVE  Good
<1>1. Sound'
  BY GoesSound
<1>2. ASSUME Calm, ~clash' PROVE Calm'
  <2>1. KnowsOf(l)
    BY <1>2
  <2>2. /\ \A i \in IP : ~BusyOf(loc[t], i)
        /\ loc[t].pc \notin Moves /\ loc[t].pc # "reset"
        /\ \A id \in Id : ~TellsOf(loc[t], id)
    BY DEF Unburdened, BusyOf, TellsOf, Moves
  <2>. HIDE DEF Calm
  <2>. QED
    BY <1>2, <2>1, <2>2, GoesCalm
<1>. QED
  BY <1>1, <1>2 DEF Good

\* To a place where the task works on no camera.
LEMMA GoesToRest ==
    ASSUME Sound, NEW t \in Task, NEW l \in Local, Goes(t, l), Typed, out' = out,
           Unburdened(t), l.obj = None, l.val = None,
           \/ l = Idle
           \/ l.pc \in {"probe", "next"} /\ l.due = {}
           \/ l.pc \in {"verdicts", "stale"} /\ l.cand = {} /\ l.phase = "onvif",
           l.cand \cup l.due \subseteq loc[t].cand \cup loc[t].due \cup Cacheds
    PROVE  Good
<1>1. \A o \in Refs(l) : o # None => heap[o] # None
  BY RefsUsed, Nones DEF Refs, Cacheds
<1>2. ShapeOf(l, heap)
  BY RestShape
<1>3. ASSUME Calm PROVE KnowsOf(l)
  <2>1. \A o \in Held(l) : o \in Held(loc[t]) \cup Cacheds
    BY DEF Held
  <2>2. \A o \in Held(loc[t]) : known[heap[o].ip] = o
    BY <1>3 DEF Calm, Knows, KnowsOf
  <2>3. \A o \in Cacheds : known[heap[o].ip] = o
    BY RefsUsed DEF Cacheds
  <2>4. l.pc \in {"idle", "probe", "next", "verdicts", "stale"}
    BY IdleIs
  <2>. QED
    BY <2>1, <2>2, <2>3, <2>4 DEF KnowsOf, Adds, Wrote, Uses
<1>. QED
  BY <1>1, <1>2, <1>3, GoesOn

LEMMA ScanBeginKeeps ==
    ASSUME Sound, NEW t \in Task, ScanBegin(t)
    PROVE  Good
<1>. DEFINE offline == {i \in IP : known[i] # None /\ heap[known[i]].status = "offline"}
            cand == {known[i] : i \in offline}
            l == [Idle EXCEPT !.pc = "probe", !.cand = cand]
<1>1. cand \subseteq Cacheds /\ cand \subseteq Obj
  BY RefsUsed DEF Cacheds
<1>2. l \in Local /\ l.pc = "probe" /\ l.obj = None /\ l.val = None
      /\ l.cand = cand /\ l.due = {}
  BY <1>1, IdleIs DEF Local, PassPc
<1>3. Goes(t, l) /\ Unburdened(t)
  BY DEF ScanBegin, Is, Unburdened, Wrote, Uses, Moves
<1>4. Typed /\ out' = out
  BY ScanTyped DEF ScanBegin
<1>. HIDE DEF l
<1>. QED
  BY <1>1, <1>2, <1>3, <1>4, GoesToRest

LEMMA PhaseKeeps ==
    ASSUME Sound, NEW t \in Task, loc[t].pc \in {"probe", "next"},
           NEW phase \in {"onvif", "rtsp", "lost"}, NEW todo \in SUBSET IP,
           Phase(t, phase, todo)
    PROVE  Good
<1>. DEFINE m == Turned(loc[t])
            l == [m EXCEPT !.phase = phase, !.todo = todo,
                      !.seen = IF phase = "lost" THEN {} ELSE @ \cup todo,
                      !.cand = IF phase = "lost" THEN {} ELSE @]
<1>1. loc[t] \in Local
  BY Types DEF Sound
<1>2. /\ m \in Local /\ m.pc = "next" /\ m.obj = None /\ m.val = None
      /\ m.cand = loc[t].cand /\ m.due = loc[t].due
  BY <1>1, TurnedIs
<1>3. Goes(t, l) /\ Unburdened(t)
  BY DEF Phase, Unburdened, Wrote, Uses, Moves
<1>. HIDE DEF m
<1>4. /\ l \in Local /\ l.pc = "next" /\ l.obj = None /\ l.val = None
      /\ l.cand \subseteq loc[t].cand /\ l.due = loc[t].due
  BY <1>2 DEF Local
<1>6. loc[t].due = {}
  BY DEF Sound, Shape, ShapeOf, Verifies
<1>5. Typed /\ out' = out
  BY ScanTyped DEF Phase
<1>. HIDE DEF l
<1>. QED
  BY <1>3, <1>4, <1>5, <1>6, GoesToRest

LEMMA PhasesKeep ==
    ASSUME Sound, NEW t \in Task, ScanFound(t) \/ ScanRtsp(t) \/ ScanLost(t)
    PROVE  Good
<1>1. CASE ScanFound(t)
  <2>1. PICK found \in SUBSET Up : Phase(t, "onvif", found)
    BY <1>1 DEF ScanFound
  <2>. QED
    BY <1>1, <2>1, PhaseKeeps DEF ScanFound, Is, Up
<1>2. CASE ScanRtsp(t)
  <2>1. PICK found \in SUBSET (Up \ loc[t].seen) : Phase(t, "rtsp", found)
    BY <1>2 DEF ScanRtsp
  <2>. QED
    BY <1>2, <2>1, PhaseKeeps DEF ScanRtsp, Is, Up
<1>3. CASE ScanLost(t)
  BY <1>3, PhaseKeeps DEF ScanLost, Is
<1>. QED
  BY <1>1, <1>2, <1>3

LEMMA RestToRest ==
    ASSUME Sound, NEW t \in Task, NEW l \in Local, Goes(t, l), Typed, out' = out,
           Unburdened(t),
           \/ l = Idle \/ l = Failed(loc[t])
           \/ l = Turned(loc[t]) /\ loc[t].pc \notin Verifies
    PROVE  Good
<1>1. loc[t] \in Local
  BY Types DEF Sound
<1>2. /\ l.obj = None /\ l.val = None /\ (l = Idle \/ l.pc = "next")
      /\ l.cand \subseteq loc[t].cand /\ l.due \subseteq loc[t].due
      /\ l # Idle => loc[t].due = {}
  <2>1. CASE l = Idle
    BY <2>1, IdleIs
  <2>2. CASE l = Failed(loc[t])
    BY <1>1, <2>2, FailedIs DEF Sound, Shape, ShapeOf
  <2>3. CASE l = Turned(loc[t]) /\ loc[t].pc \notin Verifies
    BY <1>1, <2>3, TurnedIs DEF Sound, Shape, ShapeOf
  <2>. QED
    BY <2>1, <2>2, <2>3
<1>. QED
  BY <1>2, GoesToRest

LEMMA TakeNewKeeps ==
    ASSUME Sound, NEW t \in Task, NEW i \in IP, TakeNew(t, i)
    PROVE  Good
<1>. DEFINE m == Taken(t, i, "stored")
            l == [m EXCEPT !.val = rows[i]]
<1>1. /\ loc[t] \in Local /\ loc[t].pc = "next" /\ known[i] = None
      /\ loc[t].obj = None /\ loc[t].due = {}
  BY Types DEF Sound, TakeNew, Takes, Is, Shape, ShapeOf, Verifies
<1>2. rows[i] \in Camera \cup {None} /\ (rows[i] # None => rows[i].ip = i)
  BY Types DEF Sound, Unique, UniqueIn, Rows
<1>3. /\ m \in Local /\ m.pc = "stored" /\ m.ip = i /\ m.obj = None
      /\ m.cand = loc[t].cand /\ m.due = loc[t].due
  BY <1>1, TakenIs DEF PassPc
<1>. HIDE DEF m
<1>4. /\ l \in Local /\ l.pc = "stored" /\ l.ip = i /\ l.obj = None
      /\ l.val = rows[i] /\ l.cand = loc[t].cand /\ l.due = loc[t].due
  BY <1>2, <1>3 DEF Local
<1>5. Goes(t, l) /\ Unburdened(t) /\ Typed /\ out' = out
  BY <1>1, ScanTyped DEF TakeNew, m, Unburdened, Wrote, Uses, Moves
<1>. HIDE DEF l
<1>6. ShapeOf(l, heap)
  BY <1>1, <1>2, <1>4 DEF ShapeOf, Adds, Wrote, Uses, Moves, Verifies, RequestPc
<1>7. \A o \in Refs(l) : o # None => heap[o] # None
  BY <1>4, RefsUsed, Nones DEF Refs
<1>8. Calm => KnowsOf(l)
  BY <1>1, <1>4 DEF Calm, Knows, KnowsOf, Held, Adds, Wrote, Uses
<1>. QED
  BY <1>4, <1>5, <1>6, <1>7, <1>8, GoesOn

LEMMA IdentifiedKeeps ==
    ASSUME Sound, NEW t \in Task, Identified(t)
    PROVE  Good
<1>. DEFINE m == loc[t]
<1>1. m \in Local /\ m.pc = "stored" /\ m.ip \in IP /\ m.obj = None
      /\ (m.val # None => m.val.ip = m.ip) /\ m.due = {}
  BY Types DEF Sound, Identified, Is, Shape, ShapeOf, Adds, Verifies
<1>2. Unburdened(t) /\ Typed /\ out' = out
  BY <1>1, ScanTyped DEF Identified, Unburdened, Wrote, Uses, Moves
<1>3. CASE Goes(t, [m EXCEPT !.pc = "interrogate"])
  <2>. DEFINE l == [m EXCEPT !.pc = "interrogate"]
  <2>1. /\ l \in Local /\ l.pc = "interrogate" /\ l.ip = m.ip /\ l.obj = None
        /\ l.val = m.val /\ l.cand = m.cand /\ l.due = m.due
    BY <1>1 DEF Local, PassPc
  <2>2. Goes(t, l)
    BY <1>3
  <2>. HIDE DEF l
  <2>3. ShapeOf(l, heap)
    BY <1>1, <2>1 DEF ShapeOf, Adds, Wrote, Uses, Moves, Verifies, RequestPc
  <2>4. \A o \in Refs(l) : o # None => heap[o] # None
    BY <2>1, RefsUsed, Nones DEF Refs
  <2>5. Calm => KnowsOf(l)
    BY <1>1, <2>1 DEF Calm, Knows, KnowsOf, Held, Adds, Wrote, Uses
  <2>. QED
    BY <1>2, <2>1, <2>2, <2>3, <2>4, <2>5, GoesOn
<1>4. ASSUME NEW o \in Hits(t), m.val = None,
             Goes(t, [m EXCEPT !.pc = "owner", !.obj = o, !.val = rows[m.ip]])
      PROVE  Good
  <2>. DEFINE l == [m EXCEPT !.pc = "owner", !.obj = o, !.val = rows[m.ip]]
  <2>1. o \in m.cand /\ o \in Obj /\ rows[m.ip] \in Camera \cup {None}
    BY <1>1, Types DEF Hits, Local, Sound, Rows
  <2>2. /\ l \in Local /\ l.pc = "owner" /\ l.ip = m.ip /\ l.obj = o
        /\ l.val = rows[m.ip] /\ l.cand = m.cand /\ l.due = m.due
    BY <1>1, <2>1 DEF Local, PassPc
  <2>3. Goes(t, l)
    BY <1>4
  <2>. HIDE DEF l
  <2>4. ShapeOf(l, heap)
    BY <1>1, <2>1, <2>2 DEF ShapeOf, Adds, Wrote, Uses, Moves, Verifies, RequestPc
  <2>5. \A p \in Refs(l) : p # None => heap[p] # None
    BY <2>1, <2>2, RefsUsed, Nones DEF Refs
  <2>6. Calm => KnowsOf(l)
    BY <1>1, <1>4, <2>1, <2>2 DEF Calm, Knows, KnowsOf, Held, Adds, Wrote, Uses
  <2>. QED
    BY <1>2, <2>2, <2>3, <2>4, <2>5, <2>6, GoesOn
<1>. QED
  BY <1>3, <1>4 DEF Identified

LEMMA TakeLostKeeps ==
    ASSUME Sound, NEW t \in Task, NEW i \in IP, TakeLost(t, i)
    PROVE  Good
<1>1. /\ loc[t] \in Local /\ loc[t].pc = "next" /\ loc[t].val = None
      /\ loc[t].due = {}
  BY Types DEF Sound, TakeLost, Takes, Is, Shape, ShapeOf, Verifies
<1>2. Unburdened(t) /\ Typed /\ out' = out
  BY <1>1, ScanTyped DEF TakeLost, Unburdened, Wrote, Uses, Moves
<1>3. CASE Goes(t, Failed(loc[t]))
  BY <1>1, <1>2, <1>3, FailedIs, RestToRest
<1>4. CASE /\ known[i] # None
           /\ Goes(t, [Taken(t, i, "port") EXCEPT !.obj = known[i]])
  <2>. DEFINE m == Taken(t, i, "port")
              l == [m EXCEPT !.obj = known[i]]
  <2>1. /\ m \in Local /\ m.pc = "port" /\ m.ip = i /\ m.val = None
        /\ m.cand = loc[t].cand /\ m.due = loc[t].due
    BY <1>1, TakenIs DEF PassPc
  <2>2. Goes(t, l)
    BY <1>4
  <2>. HIDE DEF m
  <2>3. known[i] \in Obj /\ heap[known[i]] \in Camera /\ heap[known[i]].ip = i
    BY <1>4, RefsUsed
  <2>4. /\ l \in Local /\ l.pc = "port" /\ l.ip = i /\ l.val = None
        /\ l.obj = known[i] /\ l.cand = loc[t].cand /\ l.due = loc[t].due
    BY <2>1, <2>3 DEF Local
  <2>. HIDE DEF l
  <2>5. ShapeOf(l, heap)
    BY <1>1, <1>4, <2>3, <2>4
       DEF ShapeOf, Adds, Wrote, Uses, Moves, Verifies, RequestPc
  <2>6. \A o \in Refs(l) : o # None => heap[o] # None
    BY <2>3, <2>4, RefsUsed, Nones DEF Refs
  <2>7. ASSUME Calm PROVE KnowsOf(l)
    <3>1. \A o \in Held(loc[t]) : known[heap[o].ip] = o
      BY <2>7 DEF Calm, Knows, KnowsOf
    <3>2. \A o \in Held(l) : o \in Held(loc[t]) \/ o = known[i]
      BY <2>4 DEF Held
    <3>. QED
      BY <2>3, <2>4, <3>1, <3>2 DEF KnowsOf, Adds, Wrote, Uses
  <2>. QED
    BY <1>2, <2>2, <2>4, <2>5, <2>6, <2>7, GoesOn
<1>. QED
  BY <1>3, <1>4 DEF TakeLost

LEMMA VerifyKeeps ==
    ASSUME Sound, NEW t \in Task, VerifyBegin(t) \/ Verdicts(t)
    PROVE  Good
<1>1. loc[t] \in Local /\ loc[t].pc \in {"next", "verdicts"}
      /\ loc[t].obj = None /\ loc[t].val = None
  BY Types DEF Sound, VerifyBegin, Verdicts, Is, Shape, ShapeOf
<1>2. Unburdened(t) /\ Typed /\ out' = out
  BY <1>1, ScanTyped DEF VerifyBegin, Verdicts, Unburdened, Wrote, Uses, Moves
<1>3. CASE Goes(t, Idle)
  BY <1>2, <1>3, IdleIs, RestToRest
<1>4. ASSUME NEW due \in SUBSET Cacheds, Goes(t, [Idle EXCEPT !.pc = "verdicts", !.due = due])
      PROVE  Good
  <2>. DEFINE l == [Idle EXCEPT !.pc = "verdicts", !.due = due]
  <2>1. due \subseteq Obj
    BY RefsUsed DEF Cacheds
  <2>2. l \in Local /\ l.pc = "verdicts" /\ l.obj = None /\ l.val = None
        /\ l.cand = {} /\ l.due = due /\ l.phase = "onvif"
    BY <2>1, IdleIs DEF Local, PassPc
  <2>3. Goes(t, l)
    BY <1>4
  <2>. HIDE DEF l
  <2>. QED
    BY <1>2, <2>2, <2>3, GoesToRest
<1>5. ASSUME NEW stale \in SUBSET loc[t].due, loc[t].pc = "verdicts",
             Goes(t, [loc[t] EXCEPT !.pc = "stale", !.due = stale])
      PROVE  Good
  <2>. DEFINE l == [loc[t] EXCEPT !.pc = "stale", !.due = stale]
  <2>1. l \in Local /\ l.pc = "stale" /\ l.obj = None /\ l.val = None
        /\ l.cand = loc[t].cand /\ l.due = stale /\ l.phase = loc[t].phase
    BY <1>1 DEF Local, PassPc
  <2>2. Goes(t, l)
    BY <1>5
  <2>3. l.cand = {} /\ l.phase = "onvif"
    BY <1>5, <2>1 DEF Sound, Shape, ShapeOf, Verifies
  <2>. HIDE DEF l
  <2>. QED
    BY <1>2, <2>1, <2>2, <2>3, GoesToRest
<1>6. CASE VerifyBegin(t)
  <2>. DEFINE on == {i \in IP : /\ known[i] # None /\ heap[known[i]].uri
                                /\ heap[known[i]].status = "online"}
  <2>1. PICK due \in SUBSET {known[i] : i \in on} :
           Goes(t, IF due = {} THEN Idle
                   ELSE [Idle EXCEPT !.pc = "verdicts", !.due = due])
    BY <1>6 DEF VerifyBegin
  <2>2. due \in SUBSET Cacheds
    BY DEF Cacheds
  <2>. QED
    BY <1>3, <1>4, <2>1, <2>2
<1>7. CASE Verdicts(t)
  BY <1>3, <1>5, <1>7 DEF Verdicts, Is
<1>. QED
  BY <1>6, <1>7

\* Without a row of its own, a cached camera is being reset.
LEMMA NoRow ==
    ASSUME Sound, Calm, NEW i \in IP, known[i] # None,
           At(rows, heap[known[i]].id) = {}
    PROVE  Resetting
<1>1. heap[known[i]] \in Camera /\ heap[known[i]].ip = i
  BY CachedIs
<1>7. \A j \in IP : ~At0(j, heap[known[i]].id)
  BY DEF At, At0
<1>2. SUFFICES ASSUME NEW u \in Task, loc[u].pc \in Moves, loc[u].obj = known[i]
               PROVE  Resetting
  BY <1>7 DEF Calm, Same
<1>3. loc[u].ip \in IP
  BY <1>2 DEF Sound, Shape, ShapeOf, Adds, Moves
<1>4. Knows(u)
  BY DEF Calm
<1>5. CASE loc[u].pc \in {"rebound", "merge"}
  <2>1. rows[loc[u].ip] # [heap[known[i]] EXCEPT !.ip = loc[u].ip]
    <3>. DEFINE c == [heap[known[i]] EXCEPT !.ip = loc[u].ip]
    <3>1. c \in Camera /\ c.id = heap[known[i]].id
      BY <1>1, <1>3 DEF Camera
    <3>. QED
      BY <1>3, <1>7, <3>1, Nones DEF At0
  <2>. QED
    BY <1>2, <1>4, <1>5, <2>1 DEF Knows, KnowsOf
<1>6. CASE loc[u].pc \in {"merge_read", "merge_use"}
  BY <1>2, <1>3, <1>4, <1>6, <1>7 DEF Knows, KnowsOf
<1>. QED
  BY <1>2, <1>5, <1>6 DEF Moves

LEMMA InterrogatesIs ==
    ASSUME NEW m \in Local
    PROVE  /\ Interrogates(m) \in Local /\ Interrogates(m).pc = "interrogate"
           /\ Interrogates(m).ip = m.ip /\ Interrogates(m).obj = None
           /\ Interrogates(m).val = None
           /\ Interrogates(m).cand = m.cand /\ Interrogates(m).due = m.due
BY DEF Interrogates, Local, PassPc

LEMMA InterrogatesSound ==
    ASSUME Sound, NEW t \in Task, loc[t].pc \in {"owner", "rebound"}
    PROVE  /\ ShapeOf(Interrogates(loc[t]), heap)
           /\ \A o \in Refs(Interrogates(loc[t])) : o # None => heap[o] # None
           /\ Calm => KnowsOf(Interrogates(loc[t]))
<1>. DEFINE m == loc[t]
            l == Interrogates(m)
<1>1. m \in Local /\ m.ip \in IP /\ m.due = {}
  BY Types DEF Sound, Shape, ShapeOf, Adds, Verifies
<1>2. /\ l \in Local /\ l.pc = "interrogate" /\ l.ip = m.ip /\ l.obj = None
      /\ l.val = None /\ l.cand = m.cand /\ l.due = m.due
  BY <1>1, InterrogatesIs
<1>. HIDE DEF l
<1>3. ShapeOf(l, heap)
  BY <1>1, <1>2 DEF ShapeOf, Adds, Wrote, Uses, Moves, Verifies, RequestPc
<1>4. \A o \in Refs(l) : o # None => heap[o] # None
  BY <1>2, RefsUsed, Nones DEF Refs
<1>5. Calm => KnowsOf(l)
  BY <1>1, <1>2 DEF Calm, Knows, KnowsOf, Held, Adds, Wrote, Uses
<1>. QED
  BY <1>3, <1>4, <1>5 DEF l

LEMMA ReboundKeeps ==
    ASSUME Sound, NEW t \in Task, Rebound(t)
    PROVE  Good
<1>. DEFINE m == loc[t]
            c == heap[m.obj]
<1>1. /\ m \in Local /\ m.pc = "rebound" /\ m.ip \in IP /\ m.val = None
      /\ m.obj \in m.cand /\ m.obj # None /\ m.due = {}
  BY Types, Nones
     DEF Sound, Rebound, Is, Shape, ShapeOf, Adds, Moves, Local, Verifies
<1>2. Typed /\ out' = out
  BY ScanTyped DEF Rebound
<1>3. m.obj \in Obj /\ c \in Camera
  BY <1>1, RefsUsed DEF Refs
<1>5. Calm => \/ /\ rows[m.ip] = [c EXCEPT !.ip = m.ip] /\ rows[c.ip] = None
                 /\ m.ip \in At(rows, c.id)
              \/ Resetting
  <2>1. [c EXCEPT !.ip = m.ip] \in Camera /\ [c EXCEPT !.ip = m.ip].id = c.id
    BY <1>1, <1>3 DEF Camera
  <2>. QED
    BY <1>1, <2>1, Nones DEF Calm, Knows, KnowsOf, At
<1>6. Calm /\ Resetting => /\ \A i \in IP : rows[i] = None
                           /\ \E u \in Task : u # t /\ loc[u].pc = "reset"
  BY <1>1 DEF Calm, Knows, KnowsOf, Resetting
<1>7. CASE At(rows, c.id) = {}
  <2>. DEFINE l == Interrogates(m)
  <2>1. Goes(t, l) /\ l \in Local
    BY <1>1, <1>7, InterrogatesIs DEF Rebound
  <2>2. /\ ShapeOf(l, heap) /\ \A o \in Refs(l) : o # None => heap[o] # None
        /\ Calm => KnowsOf(l)
    BY <1>1, InterrogatesSound
  <2>. HIDE DEF l
  <2>3. Sound'
    BY <1>2, <2>1, <2>2, GoesSound
  <2>4. ASSUME Calm, ~clash' PROVE Calm'
    <3>1. /\ \A i \in IP : rows[i] = None
          /\ Resetting /\ \E u \in Task : u # t /\ loc[u].pc = "reset"
      BY <1>5, <1>6, <1>7, <2>4
    <3>2. /\ \A i \in IP : \E u \in Task : u # t /\ Busy(u, i)
          /\ \A id \in Id : \E u \in Task : u # t /\ Tells(u, id)
      BY <3>1 DEF Busy, BusyOf, Tells, TellsOf
    <3>3. KnowsOf(l)
      BY <2>2, <2>4
    <3>. HIDE DEF Calm
    <3>. QED
      BY <1>1, <1>2, <2>1, <2>2, <2>4, <3>1, <3>2, <3>3, GoesCalm
  <2>. QED
    BY <2>3, <2>4 DEF Good
<1>8. CASE At(rows, c.id) # {}
  <2>. DEFINE l == [m EXCEPT !.pc = "merge"]
  <2>1. Goes(t, l)
    BY <1>8 DEF Rebound
  <2>2. /\ l \in Local /\ l.pc = "merge" /\ l.ip = m.ip /\ l.val = None
        /\ l.obj = m.obj /\ l.cand = m.cand /\ l.due = m.due
    BY <1>1 DEF Local, PassPc
  <2>. HIDE DEF l
  <2>3. ShapeOf(l, heap)
    BY <1>1, <2>2 DEF ShapeOf, Adds, Wrote, Uses, Moves, Verifies, RequestPc
  <2>4. \A o \in Refs(l) : o # None => heap[o] # None
    BY <2>2, RefsUsed, Nones DEF Refs
  <2>5. Sound'
    BY <1>2, <2>1, <2>2, <2>3, <2>4, GoesSound
  <2>6. ASSUME Calm, ~clash' PROVE Calm'
    <3>1. rows[m.ip] = [c EXCEPT !.ip = m.ip] /\ rows[c.ip] = None
      BY <1>5, <1>6, <1>8, <2>6 DEF At
    <3>2. KnowsOf(l)
      BY <1>1, <2>2, <2>6, <3>1 DEF Calm, Knows, KnowsOf, Held, Adds, Wrote, Uses
    <3>3. /\ \A i \in IP : BusyOf(m, i) => BusyOf(l, i)
          /\ \A id \in Id : TellsOf(m, id) => TellsOf(l, id)
      BY <1>1, <2>2 DEF BusyOf, TellsOf, Moves, Wrote, Uses
    <3>4. l.pc \in Moves /\ m.pc # "reset"
      BY <1>1, <2>2 DEF Moves
    <3>. HIDE DEF Calm
    <3>. QED
      BY <1>2, <2>1, <2>2, <2>3, <2>4, <2>6, <3>2, <3>3, <3>4, GoesCalm
  <2>. QED
    BY <2>5, <2>6 DEF Good
<1>. QED
  BY <1>7, <1>8

(***************************************************************************)
(* Writes.                                                                 *)
(***************************************************************************)
\* What the next state has of the tables given to Acts.
LEMMA LeftIs ==
    ASSUME Sound, NEW t \in Task, NEW l \in Local, NEW k \in Caching,
           NEW h \in Heaps, NEW R \in Rows, NEW told, Acts(t, l, k, h, R, told)
    PROVE  /\ loc' \in [Task -> Local] /\ loc'[t] = l
           /\ \A u \in Task : u # t => loc'[u] = loc[u]
           /\ known' = k /\ rows' = R /\ heap' \in Heaps
           /\ \A o \in Refs(l) : o # None => o \in Obj /\ heap'[o] = h[o]
           /\ \A i \in IP : k[i] # None => k[i] \in Obj /\ heap'[k[i]] = h[k[i]]
           /\ \A i \in IP : Untouched(i) <=>
                 /\ R[i] = rows[i] /\ k[i] = known[i]
                 /\ known[i] # None => h[known[i]] = heap[known[i]]
<1>1. /\ loc' \in [Task -> Local] /\ loc'[t] = l
      /\ \A u \in Task : u # t => loc'[u] = loc[u]
      /\ known' = k /\ rows' = R /\ heap' \in Heaps
      /\ \A o \in InUse(known', loc') : o \in Obj => heap'[o] = h[o]
  BY Types, ActsIs DEF Sound
<1>2. \A o \in Refs(l) : o # None => o \in Obj /\ heap'[o] = h[o]
  <2>1. \A o \in Refs(l) : o \in InUse(known', loc') /\ o \in Obj \cup {None}
    BY <1>1 DEF InUse, Refs, Local
  <2>. QED
    BY <1>1, <2>1
<1>3. \A i \in IP : k[i] # None => k[i] \in Obj /\ heap'[k[i]] = h[k[i]]
  <2>1. \A i \in IP : k[i] \in InUse(known', loc') /\ k[i] \in Obj \cup {None}
    BY <1>1 DEF InUse, Caching
  <2>. QED
    BY <1>1, <2>1
<1>. QED
  BY <1>1, <1>2, <1>3 DEF Untouched

LEMMA UpsertIs ==
    ASSUME rows \in Rows, UniqueIn(rows), NEW c \in Camera, ~UpsertRaises(c)
    PROVE  /\ Upsert(c) \in Rows /\ UniqueIn(Upsert(c))
           /\ \A i \in IP : i # c.ip => Upsert(c)[i] = rows[i]
           /\ c.ip \in IP /\ Upsert(c)[c.ip] # None
           /\ rows[c.ip] = None => Upsert(c)[c.ip] = c
           /\ rows[c.ip] # None =>
                 /\ Upsert(c)[c.ip].id = rows[c.ip].id
                 /\ Upsert(c)[c.ip].auth = (c.auth \/ rows[c.ip].auth)
           /\ /\ rows[c.ip] # None /\ c.id = rows[c.ip].id
              /\ c.auth = rows[c.ip].auth /\ c.uri = rows[c.ip].uri
              /\ c.sig = None => rows[c.ip].sig = None
              => Upsert(c)[c.ip] = c
<1>. DEFINE r == rows[c.ip]
            d == [c EXCEPT !.id = r.id, !.auth = c.auth \/ r.auth,
                           !.uri = c.uri \/ r.uri,
                           !.sig = IF c.sig = None THEN r.sig ELSE c.sig]
            e == IF r = None THEN c ELSE d
<1>1. c.ip \in IP /\ r \in Camera \cup {None} /\ c.auth \in BOOLEAN
      /\ c.uri \in BOOLEAN
  BY DEF Camera, Rows
<1>2. Upsert(c) = [rows EXCEPT ![c.ip] = e]
  BY DEF Upsert
<1>3. r # None => /\ d \in Camera /\ d.ip = c.ip /\ d.id = r.id
                  /\ d.auth = (c.auth \/ r.auth)
  BY <1>1 DEF Camera
<1>4. /\ r # None /\ c.id = r.id /\ c.auth = r.auth /\ c.uri = r.uri
      /\ c.sig = None => r.sig = None
      => d = c
  BY <1>1 DEF Camera
<1>. HIDE DEF d
<1>5. /\ e \in Camera /\ e.ip = c.ip /\ (r = None => e = c)
      /\ (r # None => e.id = r.id)
  BY <1>3
<1>6. \A j \in IP : rows[j] # None /\ rows[j].id = e.id => j = c.ip
  <2>1. CASE r = None
    <3>1. \A j \in IP : rows[j] # None => rows[j].id # c.id
      BY <2>1 DEF UpsertRaises, At
    <3>. QED
      BY <2>1, <3>1, <1>5
  <2>2. CASE r # None
    BY <2>2, <1>1, <1>5 DEF UniqueIn
  <2>. QED
    BY <2>1, <2>2
<1>7. r # None => e = d
  OBVIOUS
<1>. HIDE DEF e
<1>8. /\ Upsert(c) \in Rows /\ Upsert(c)[c.ip] = e
      /\ \A i \in IP : i # c.ip => Upsert(c)[i] = rows[i]
  BY <1>1, <1>2, <1>5 DEF Rows
<1>9. UniqueIn(Upsert(c))
  BY <1>5, <1>6, <1>8 DEF UniqueIn
<1>. QED
  BY <1>1, <1>3, <1>4, <1>5, <1>7, <1>8, <1>9, Nones

\* Only the camera at the address that a write changes can change for listeners.
LEMMA RecordedIs ==
    ASSUME NEW R, NEW p, \A i \in IP : i # p => R[i] = rows[i], NEW id,
           Recorded(R, id) # Recorded(rows, id)
    PROVE  p \in IP /\ R[p] # rows[p] /\ (At0(p, id) \/ (R[p] # None /\ R[p].id = id))
<1>1. PICK i \in IP : ~(i \in Recorded(R, id) <=> i \in Recorded(rows, id))
  BY DEF Recorded, At
<1>2. R[i] # rows[i] /\ i = p
  BY <1>1 DEF Recorded, At
<1>3. p \in Recorded(R, id) \/ p \in Recorded(rows, id)
  BY <1>1, <1>2
<1>4. p \in IP /\ R[p] # rows[p]
  BY <1>2
<1>5. p \in At(R, id) \/ p \in At(rows, id)
  BY <1>3 DEF Recorded, At
<1>. QED
  BY <1>4, <1>5 DEF At, At0

LEMMA FailedShape ==
    ASSUME Sound, NEW t \in Task, NEW h
    PROVE  /\ Failed(loc[t]) \in Local /\ ShapeOf(Failed(loc[t]), h)
           /\ Refs(Failed(loc[t])) \subseteq Refs(loc[t]) \cup {None}
           /\ Calm => KnowsOf(Failed(loc[t]))
           /\ Failed(loc[t]).pc \in {"idle", "next"}
<1>. DEFINE l == Failed(loc[t])
<1>1. loc[t] \in Local
  BY Types DEF Sound
<1>2. /\ l \in Local /\ l.pc \in {"idle", "next"} /\ (l.pc = "idle" => l = Idle)
      /\ l.obj = None /\ l.val = None /\ l.cand \subseteq loc[t].cand
      /\ l.due \subseteq loc[t].due /\ (l # Idle => loc[t].phase = "rtsp")
  BY <1>1, FailedIs
<1>. HIDE DEF l
<1>3. l # Idle => l.due = {}
  BY <1>2 DEF Sound, Shape, ShapeOf
<1>4. ShapeOf(l, h)
  BY <1>2, <1>3, RestShape
<1>5. Calm => KnowsOf(l)
  BY <1>2 DEF Calm, Knows, KnowsOf, Held, Adds, Wrote, Uses
<1>6. Refs(l) \subseteq Refs(loc[t]) \cup {None}
  BY <1>2 DEF Refs
<1>. QED
  BY <1>2, <1>4, <1>5, <1>6 DEF l

LEMMA PutsSound ==
    ASSUME Sound, NEW t \in Task, NEW c \in Camera, NEW l \in Local,
           NEW h \in Heaps, NEW told, Puts(t, c, l, h, told), Keeps(h),
           \A o \in Refs(l) : o # None => h[o] # None, ShapeOf(l, h), Typed
    PROVE  Sound'
<1>1. known \in Caching /\ rows \in Rows /\ loc[t] \in Local
  BY Types DEF Sound
<1>2. \A i \in IP : known[i] # None => h[known[i]] # None /\ h[known[i]].ip = i
  BY CachedIs, Nones DEF Keeps
<1>3. UniqueIn(rows)
  BY DEF Sound, Unique
<1>4. CASE UpsertRaises(c)
  <2>1. /\ Failed(loc[t]) \in Local /\ ShapeOf(Failed(loc[t]), h)
        /\ Refs(Failed(loc[t])) \subseteq Refs(loc[t]) \cup {None}
    BY FailedShape
  <2>2. Acts(t, Failed(loc[t]), known, h, rows, told)
    BY <1>4 DEF Puts
  <2>3. \A o \in Refs(Failed(loc[t])) : o # None => h[o] # None
    BY <2>1, RefsUsed, Nones DEF Keeps
  <2>. QED
    BY <1>1, <1>2, <1>3, <2>1, <2>2, <2>3, SoundActs
<1>5. CASE ~UpsertRaises(c)
  <2>1. Upsert(c) \in Rows /\ UniqueIn(Upsert(c))
    BY <1>1, <1>3, <1>5, UpsertIs
  <2>2. Acts(t, l, known, h, Upsert(c), told)
    BY <1>5 DEF Puts
  <2>. QED
    BY <1>1, <1>2, <2>1, <2>2, SoundActs
<1>. QED
  BY <1>4, <1>5

\* What a write leaves: only the camera at its address may change, and only if
\* no other task is about to put something right there.
LEMMA PutsLeaves ==
    ASSUME Sound, NEW t \in Task, NEW c \in Camera, NEW l \in Local,
           NEW h \in Heaps, NEW told, Puts(t, c, l, h, told), Keeps(h), ~clash',
           \A i \in IP : i # c.ip /\ known[i] # None =>
              h[known[i]] = heap[known[i]]
    PROVE  /\ \A i \in IP : i # c.ip => Untouched(i)
           /\ (\A u \in Task : u # t => ~Busy(u, c.ip)) \/ Untouched(c.ip)
<1>1. known \in Caching /\ rows \in Rows /\ UniqueIn(rows) /\ c.ip \in IP
  BY Types DEF Sound, Unique, Camera
<1>2. PICK m \in Local, R \in Rows :
         /\ Acts(t, m, known, h, R, told)
         /\ \A i \in IP : i # c.ip => R[i] = rows[i]
  <2>1. CASE UpsertRaises(c)
    BY <1>1, <2>1, FailedShape DEF Puts
  <2>2. CASE ~UpsertRaises(c)
    BY <1>1, <2>2, UpsertIs DEF Puts
  <2>. QED
    BY <2>1, <2>2
<1>3. \A i \in IP : i # c.ip => Untouched(i)
  BY <1>1, <1>2, LeftIs
<1>4. \A u \in Task : u # t /\ Busy(u, c.ip) => Untouched(c.ip)
  BY <1>1, <1>2, OtherBusy
<1>. QED
  BY <1>3, <1>4

\* A cached object is changed in place and written: its credentials, address and
\* id stay, and a change of its status is told, or is about to be.
LEMMA KnownPuts ==
    ASSUME Sound, NEW t \in Task, NEW o \in Obj, NEW c \in Camera, NEW l \in Local,
           NEW h \in Heaps, NEW told, Puts(t, c, l, h, told), ScanOnly \/ Going,
           out' = out, Unburdened(t), heap[o] \in Camera,
           c.id = heap[o].id, c.ip = heap[o].ip, c.auth = heap[o].auth,
           c.uri = heap[o].uri, c.sig = None => heap[o].sig = None,
           h[o] = c, \A q \in Obj : q # o => h[q] = heap[q],
           \A q \in Refs(l) : q # None => h[q] # None, ShapeOf(l, h),
           \A q \in Held(l) : q \in Held(loc[t]) \cup {o},
           l.pc \in {"file", "next", "sub_file", "demote_read"},
           l.pc = "demote_read" => l.val = c /\ o \notin l.due,
           Calm => known[c.ip] = o,
           \/ c.status = heap[o].status \/ c.id \in told
           \/ l.pc = "file" /\ l.tell /\ l.obj = o
           \/ l.pc = "demote_read"
    PROVE  Good
<1>. DEFINE p == c.ip
            old == heap[o]
<1>1. /\ known \in Caching /\ rows \in Rows /\ UniqueIn(rows) /\ loc[t] \in Local
      /\ p \in IP /\ out \in SUBSET Id
  BY Types DEF Sound, Unique, Camera
<1>2. Keeps(h) /\ Typed
  BY <1>1, ScanTyped, GoingTyped, Nones DEF Keeps
<1>3. Sound'
  BY <1>2, PutsSound
<1>4. ASSUME Calm, ~clash' PROVE Calm'
  <2>1. known[p] = o
    BY <1>4
  <2>2. \A i \in IP : i # p /\ known[i] # None => h[known[i]] = heap[known[i]]
    BY CachedIs
  <2>3. /\ \A i \in IP : i # p => Untouched(i)
        /\ (\A u \in Task : u # t => ~Busy(u, p)) \/ Untouched(p)
    BY <1>2, <1>4, <2>2, PutsLeaves
  <2>4. \A i \in IP : ~Busy(t, i)
    BY DEF Unburdened, Busy, BusyOf
  <2>5. ~Untouched(p) => rows[p] = old
    BY <1>1, <1>4, <2>1, <2>3, <2>4, Nones DEF Calm, Fixed, Agree
  <2>6. \A q \in Held(l) : known[heap[q].ip] = q
    BY <1>4, <2>1 DEF Calm, Knows, KnowsOf
  <2>7. CASE UpsertRaises(c)
    <3>. DEFINE m == Failed(loc[t])
    <3>1. m \in Local /\ Refs(m) \subseteq Refs(loc[t]) \cup {None} /\ KnowsOf(m)
          /\ m.pc \in {"idle", "next"}
      BY <1>4, FailedShape
    <3>2. Acts(t, m, known, h, rows, told)
      BY <2>7 DEF Puts
    <3>. HIDE DEF m
    <3>3. /\ loc'[t] = m /\ known' = known /\ rows' = rows
          /\ \A q \in Refs(m) : q # None => q \in Obj /\ heap'[q] = h[q]
          /\ \A i \in IP : Untouched(i) <=>
                 (known[i] # None => h[known[i]] = heap[known[i]])
      BY <1>1, <3>1, <3>2, LeftIs
    <3>4. Untouched(p)
      BY <2>5, <2>7, Nones DEF UpsertRaises
    <3>5. h[o] = heap[o]
      BY <2>1, <3>3, <3>4, <1>1, Nones
    <3>6. \A q \in Held(m) : q \in Refs(m) /\ q # None
      BY <3>1, Nones DEF Held, Refs, Local
    <3>7. Knows(t)'
      <4>1. \A q \in Held(m) : known[heap[q].ip] = q /\ heap'[q] = heap[q]
        BY <3>1, <3>3, <3>5, <3>6 DEF KnowsOf
      <4>. QED
        BY <3>1, <3>3, <4>1 DEF Knows, KnowsOf, Held, Adds, Wrote, Uses
    <3>8. Wiped'
      BY <3>3, <1>4 DEF Calm, Wiped
    <3>9. \A i \in IP : Untouched(i)
      BY <2>3, <3>4
    <3>10. /\ loc[t].pc \notin Moves /\ loc[t].pc # "reset"
           /\ \A id \in Id : ~Tells(t, id)
      BY DEF Unburdened, Tells, TellsOf, Moves
    <3>. HIDE DEF Calm
    <3>. QED
      BY <1>1, <1>2, <1>4, <2>4, <3>1, <3>2, <3>7, <3>8, <3>9, <3>10, CalmActs
  <2>8. CASE ~UpsertRaises(c)
    <3>. DEFINE R == Upsert(c)
    <3>1. /\ R \in Rows /\ \A i \in IP : i # p => R[i] = rows[i]
          /\ R[p] # None
          /\ rows[p] = old => R[p] = c
      BY <1>1, <2>8, UpsertIs, Nones
    <3>2. Acts(t, l, known, h, R, told)
      BY <2>8 DEF Puts
    <3>. HIDE DEF R
    <3>3. /\ loc'[t] = l /\ known' = known /\ rows' = R
          /\ \A q \in Refs(l) : q # None => q \in Obj /\ heap'[q] = h[q]
          /\ heap'[o] = c
          /\ \A i \in IP : Untouched(i) =>
                /\ R[i] = rows[i]
                /\ known[i] # None => h[known[i]] = heap[known[i]]
      BY <1>1, <2>1, <3>1, <3>2, LeftIs, Nones
    <3>4. \A q \in Held(l) : q \in Refs(l) /\ q # None
      BY Nones DEF Held, Refs, Local
    <3>5. \A q \in Held(l) : known[heap'[q].ip] = q
      BY <1>2, <2>6, <3>3, <3>4, RefsUsed, Nones DEF Keeps
    <3>6. l.pc = "demote_read" => \A q \in l.due : heap'[q].ip # p
      BY <2>1, <3>5 DEF Held
    <3>7. Knows(t)'
      BY <3>1, <3>3, <3>5, <3>6 DEF Knows, KnowsOf, Held, Adds, Wrote, Uses
    <3>8. \A i \in IP : ~Untouched(i) => i = p /\ rows[p] = old /\ R[p] = c
      BY <2>3, <2>5, <3>1
    <3>9. \A i \in IP : ~Untouched(i) => Agree(i)' /\ Same(i)'
      BY <2>1, <3>3, <3>8, <1>1, Nones DEF Agree, Same, At0
    <3>10. Wiped'
      <4>1. \A i \in IP : Untouched(i) => R[i] = rows[i]
        BY <3>3
      <4>. QED
        BY <1>4, <3>3, <3>8, <4>1, Nones DEF Calm, Wiped
    <3>11. /\ loc[t].pc \notin Moves /\ loc[t].pc # "reset"
           /\ \A id \in Id : ~Tells(t, id)
      BY DEF Unburdened, Tells, TellsOf, Moves
    <3>12. ASSUME NEW id \in Id, Recorded(R, id) # Recorded(rows, id)
           PROVE  id \in told \/ Tells(t, id)'
      <4>1. R[p] # rows[p] /\ (At0(p, id) \/ (R[p] # None /\ R[p].id = id))
        BY <3>1, <3>12, RecordedIs
      <4>2. rows[p] = old /\ R[p] = c /\ id = c.id
        BY <1>1, <3>3, <3>8, <4>1 DEF At0
      <4>3. c.status # old.status
        <5>1. SUFFICES ASSUME c.status = old.status PROVE FALSE
          OBVIOUS
        <5>2. \A i \in IP : i \in Recorded(R, id) <=> i \in Recorded(rows, id)
          <6>1. \A i \in IP : i # p => R[i] = rows[i]
            BY <3>1
          <6>2. p \in Recorded(R, id) <=> p \in Recorded(rows, id)
            BY <4>2, <5>1, Nones DEF Recorded, At
          <6>. QED
            BY <6>1, <6>2 DEF Recorded, At
        <5>. QED
          BY <3>12, <5>2 DEF Recorded, At
      <4>4. CASE l.pc = "file" /\ l.tell /\ l.obj = o
        BY <3>3, <4>2, <4>4 DEF Tells, TellsOf
      <4>5. CASE l.pc = "demote_read"
        BY <3>3, <4>2, <4>5, Nones DEF Tells, TellsOf, At0, Wrote
      <4>. QED
        BY <4>2, <4>3, <4>4, <4>5
    <3>. HIDE DEF Calm
    <3>. QED
      BY <1>1, <1>2, <1>4, <2>4, <3>1, <3>2, <3>7, <3>9, <3>10, <3>11, <3>12, CalmActs
  <2>. QED
    BY <2>7, <2>8
<1>. QED
  BY <1>3, <1>4 DEF Good

LEMMA RestoredIs ==
    ASSUME NEW c \in Camera
    PROVE  /\ Restored(c) \in Camera /\ Restored(c).id = c.id
           /\ Restored(c).ip = c.ip /\ Restored(c).auth = c.auth
           /\ Restored(c).uri = c.uri /\ Restored(c).sig = c.sig
           /\ c.status # "offline" => Restored(c).status = c.status
BY DEF Restored, Camera, Status

LEMMA TakeKnownKeeps ==
    ASSUME Sound, NEW t \in Task, NEW i \in IP, TakeKnown(t, i)
    PROVE  Good
<1>. DEFINE o == known[i]
            old == heap[o]
            m == Restored(old)
            onvif == loc[t].phase = "onvif"
            back == old.status = "offline"
            c == [m EXCEPT !.sig = IF onvif /\ net[i] # None THEN net[i] ELSE @]
            h == [heap EXCEPT ![o] = c]
            f == Taken(t, i, "file")
            tell == back /\ ~onvif
            a == [f EXCEPT !.obj = o, !.tell = tell]
            n == Taken(t, i, "next")
            b == Turned(n)
            l == IF onvif \/ back THEN a ELSE b
            told == IF onvif /\ back THEN {c.id} ELSE {}
<1>1. /\ loc[t] \in Local /\ loc[t].pc = "next" /\ loc[t].val = None
      /\ loc[t].obj = None /\ loc[t].due = {} /\ heap \in Heaps
      /\ net[i] \in Device \cup {None}
  BY Types DEF Sound, TypeOK, TakeKnown, Takes, Is, Shape, ShapeOf, Verifies
<1>2. o \in Obj /\ old \in Camera /\ old.ip = i /\ o # None
  BY CachedIs, Nones DEF TakeKnown
<1>3. /\ m \in Camera /\ m.id = old.id /\ m.ip = i /\ m.auth = old.auth
      /\ m.uri = old.uri /\ m.sig = old.sig
      /\ ~back => m.status = old.status
  BY <1>2, RestoredIs
<1>4. Puts(t, c, l, h, told)
  BY DEF TakeKnown
<1>. HIDE DEF m
<1>5. /\ c \in Camera /\ c.id = old.id /\ c.ip = i /\ c.auth = old.auth
      /\ c.uri = old.uri /\ (c.sig = None => old.sig = None)
      /\ ~back => c.status = old.status
  BY <1>1, <1>3 DEF Camera
<1>. HIDE DEF c
<1>6. h \in Heaps /\ h[o] = c /\ \A q \in Obj : q # o => h[q] = heap[q]
  BY <1>1, <1>2, <1>5 DEF Heaps
<1>7. /\ f \in Local /\ f.pc = "file" /\ f.ip = i /\ f.val = None
      /\ f.cand = loc[t].cand /\ f.due = {} /\ n \in Local /\ n.cand = loc[t].cand
      /\ n.due = {}
  BY <1>1, TakenIs DEF PassPc
<1>15. tell \in BOOLEAN
  OBVIOUS
<1>. HIDE DEF f, n, tell
<1>8. /\ a \in Local /\ a.pc = "file" /\ a.ip = i /\ a.val = None /\ a.obj = o
      /\ a.cand = loc[t].cand /\ a.due = {} /\ a.tell = tell
  BY <1>2, <1>7, <1>15 DEF Local
<1>9. /\ b \in Local /\ b.pc = "next" /\ b.obj = None /\ b.val = None
      /\ b.cand = loc[t].cand /\ b.due = {}
  BY <1>7, TurnedIs
<1>. HIDE DEF a, b
<1>10. /\ l \in Local /\ l.pc \in {"file", "next"} /\ l.obj \in {o, None}
       /\ l.cand = loc[t].cand /\ l.due = {}
  BY <1>8, <1>9
<1>11. ShapeOf(l, h)
  <2>1. ShapeOf(a, h)
    BY <1>2, <1>5, <1>6, <1>8
       DEF ShapeOf, Adds, Wrote, Uses, Moves, Verifies, RequestPc
  <2>2. ShapeOf(b, h)
    BY <1>9, RestShape
  <2>. QED
    BY <2>1, <2>2
<1>12. \/ c.status = old.status \/ c.id \in told
       \/ l.pc = "file" /\ l.tell /\ l.obj = o
  BY <1>5, <1>8 DEF tell
<1>. HIDE DEF l, h, told
<1>13. /\ \A q \in Refs(l) : q # None => h[q] # None
       /\ \A q \in Held(l) : q \in Held(loc[t]) \cup {o}
  BY <1>1, <1>5, <1>6, <1>10, RefsUsed, Nones DEF Refs, Held, Heaps, Local
<1>14. Unburdened(t) /\ ScanOnly /\ out' = out /\ known[c.ip] = o
  BY <1>1, <1>5 DEF TakeKnown, ScanOnly, Unburdened, Wrote, Uses, Moves
<1>. QED
  BY <1>2, <1>4, <1>5, <1>6, <1>10, <1>11, <1>12, <1>13, <1>14, KnownPuts

LEMMA ReachableKeeps ==
    ASSUME Sound, NEW t \in Task, Reachable(t)
    PROVE  Good
<1>. DEFINE m == loc[t]
            o == m.obj
            c == Restored(heap[o])
            h == [heap EXCEPT ![o] = c]
            l == [m EXCEPT !.pc = "file", !.tell = heap[o].status = "offline"]
<1>1. /\ m \in Local /\ m.pc = "port" /\ m.ip \in IP /\ m.val = None /\ o # None
      /\ heap[o].ip = m.ip /\ m.due = {} /\ heap \in Heaps
  BY Types DEF Sound, Reachable, Is, Shape, ShapeOf, Verifies, Adds
<1>2. o \in Refs(m) /\ o \in Held(m)
  BY <1>1 DEF Refs, Held
<1>3. o \in Obj /\ heap[o] \in Camera
  BY <1>1, <1>2, RefsUsed
<1>4. /\ c \in Camera /\ c.id = heap[o].id /\ c.ip = m.ip
      /\ c.auth = heap[o].auth /\ c.uri = heap[o].uri /\ c.sig = heap[o].sig
      /\ heap[o].status # "offline" => c.status = heap[o].status
  BY <1>1, <1>3, RestoredIs
<1>5. Puts(t, c, l, h, {}) /\ ScanOnly /\ out' = out
  BY DEF Reachable, ScanOnly
<1>6. /\ l \in Local /\ l.pc = "file" /\ l.ip = m.ip /\ l.val = None
      /\ l.obj = o /\ l.cand = m.cand /\ l.due = {}
      /\ l.tell = (heap[o].status = "offline")
  BY <1>1 DEF Local, PassPc
<1>. HIDE DEF c, l
<1>7. h \in Heaps /\ h[o] = c /\ \A q \in Obj : q # o => h[q] = heap[q]
  BY <1>1, <1>3, <1>4 DEF Heaps
<1>8. ShapeOf(l, h)
  BY <1>1, <1>4, <1>6, <1>7
     DEF ShapeOf, Adds, Wrote, Uses, Moves, Verifies, RequestPc
<1>. HIDE DEF h
<1>9. /\ \A q \in Refs(l) : q # None => h[q] # None
      /\ \A q \in Held(l) : q \in Held(m) \cup {o}
  BY <1>1, <1>3, <1>4, <1>6, <1>7, RefsUsed, Nones DEF Refs, Held
<1>11. Unburdened(t)
  BY <1>1 DEF Unburdened, Wrote, Uses, Moves
<1>12. Calm => known[heap[o].ip] = o
  BY <1>2 DEF Calm, Knows, KnowsOf
<1>10. Unburdened(t) /\ (Calm => known[c.ip] = o)
  BY <1>1, <1>4, <1>11, <1>12
<1>. QED
  BY <1>1, <1>3, <1>4, <1>5, <1>6, <1>7, <1>8, <1>9, <1>10, KnownPuts

LEMMA DemoteKeeps ==
    ASSUME Sound, NEW t \in Task, Demote(t)
    PROVE  Good
<1>. DEFINE m == loc[t]
<1>1. PICK o \in m.due :
         LET c == [heap[o] EXCEPT !.status = "needs_auth"] IN
         Puts(t, c, [m EXCEPT !.pc = "demote_read", !.ip = c.ip,
                        !.val = c, !.due = @ \ {o}],
              [heap EXCEPT ![o] = c], {})
  BY DEF Demote
<1>. DEFINE c == [heap[o] EXCEPT !.status = "needs_auth"]
            h == [heap EXCEPT ![o] = c]
            l == [m EXCEPT !.pc = "demote_read", !.ip = c.ip, !.val = c,
                           !.due = @ \ {o}]
<1>2. /\ m \in Local /\ m.pc = "stale" /\ m.obj = None /\ m.cand = {}
      /\ m.phase = "onvif" /\ heap \in Heaps
  BY Types DEF Sound, Demote, Is, Shape, ShapeOf, Verifies
<1>3. o \in Refs(m) /\ o \in Held(m) /\ o \in Obj /\ heap[o] \in Camera /\ o # None
  BY <1>2, RefsUsed, Nones DEF Refs, Held, Local
<1>4. /\ c \in Camera /\ c.id = heap[o].id /\ c.ip = heap[o].ip
      /\ c.auth = heap[o].auth /\ c.uri = heap[o].uri /\ c.sig = heap[o].sig
      /\ c.ip \in IP
  BY <1>3 DEF Camera, Status
<1>5. Puts(t, c, l, h, {}) /\ ScanOnly /\ out' = out
  BY <1>1 DEF Demote, ScanOnly
<1>. HIDE DEF c
<1>6. /\ l \in Local /\ l.pc = "demote_read" /\ l.val = c /\ l.obj = None
      /\ l.cand = {} /\ l.due = m.due \ {o} /\ l.phase = "onvif"
  BY <1>2, <1>4 DEF Local, PassPc
<1>. HIDE DEF l
<1>7. h \in Heaps /\ h[o] = c /\ \A q \in Obj : q # o => h[q] = heap[q]
  BY <1>2, <1>3, <1>4 DEF Heaps
<1>8. ShapeOf(l, h)
  BY <1>4, <1>6, Nones
     DEF ShapeOf, Adds, Wrote, Uses, Moves, Verifies, RequestPc
<1>. HIDE DEF h
<1>9. /\ \A q \in Refs(l) : q # None => h[q] # None
      /\ \A q \in Held(l) : q \in Held(m) \cup {o}
  BY <1>2, <1>6, <1>7, RefsUsed, Nones DEF Refs, Held
<1>10. Unburdened(t) /\ (Calm => known[c.ip] = o)
  BY <1>2, <1>3, <1>4 DEF Unburdened, Wrote, Uses, Moves, Calm, Knows, KnowsOf
<1>. QED
  BY <1>3, <1>4, <1>5, <1>6, <1>7, <1>8, <1>9, <1>10, KnownPuts

LEMMA SubFoundKeeps ==
    ASSUME Sound, NEW t \in Task, SubFound(t)
    PROVE  Good
<1>. DEFINE m == loc[t]
            o == m.obj
            c == heap[o]
            l == [m EXCEPT !.pc = "sub_file"]
<1>1. /\ m \in Local /\ m.pc = "sub" /\ m.val = None /\ o # None
      /\ m.due = {} /\ m.cand = {} /\ heap \in Heaps
  BY Types DEF Sound, SubFound, Is, Shape, ShapeOf, Verifies, RequestPc
<1>2. o \in Refs(m) /\ o \in Held(m)
  BY <1>1 DEF Refs, Held
<1>3. o \in Obj /\ c \in Camera
  BY <1>1, <1>2, RefsUsed
<1>4. Puts(t, c, l, heap, {}) /\ Going /\ out' = out
  BY DEF SubFound
<1>5. /\ l \in Local /\ l.pc = "sub_file" /\ l.val = None
      /\ l.obj = o /\ l.cand = {} /\ l.due = {}
  BY <1>1 DEF Local, RequestPc
<1>. HIDE DEF l
<1>6. ShapeOf(l, heap)
  BY <1>1, <1>5 DEF ShapeOf, Adds, Wrote, Uses, Moves, Verifies, RequestPc
<1>7. /\ \A q \in Refs(l) : q # None => heap[q] # None
      /\ \A q \in Held(l) : q \in Held(m) \cup {o}
  BY <1>1, <1>5, RefsUsed, Nones DEF Refs, Held
<1>8. Unburdened(t) /\ (Calm => known[c.ip] = o)
  BY <1>1, <1>2 DEF Unburdened, Wrote, Uses, Moves, Calm, Knows, KnowsOf
<1>. QED
  BY <1>1, <1>3, <1>4, <1>5, <1>6, <1>7, <1>8, KnownPuts

\* A camera is written that the task goes on to read back and to cache.
LEMMA FreshPuts ==
    ASSUME Sound, NEW t \in Task, NEW c \in Camera, NEW l \in Local,
           NEW h \in Heaps, Puts(t, c, l, h, {}), Keeps(h), Typed, out' \subseteq out,
           \A q \in Refs(l) : q # None => h[q] # None, ShapeOf(l, h),
           \A i \in IP : i # c.ip /\ known[i] # None =>
              h[known[i]] = heap[known[i]],
           l.val = c, \A q \in Held(l) : q \in Held(loc[t]) /\ h[q] = heap[q],
           \/ Unburdened(t) /\ l.pc \in {"new_read", "auth_read", "manual_read"}
           \/ /\ loc[t].pc = "merge" /\ l.pc = "merge_read"
              /\ l.obj = loc[t].obj /\ l.ip = loc[t].ip,
           l.pc \in Adds => l.ip = c.ip /\ (Calm => known[c.ip] = None),
           Calm /\ ~UpsertRaises(c) /\ Upsert(c)[c.ip].id \in out' =>
              \/ Upsert(c)[c.ip].auth = FALSE
              \/ Upsert(c)[c.ip] = rows[c.ip]
    PROVE  Good
<1>. DEFINE p == c.ip
            m == loc[t]
<1>1. /\ known \in Caching /\ rows \in Rows /\ UniqueIn(rows) /\ m \in Local
      /\ p \in IP
  BY Types DEF Sound, Unique, Camera
<1>3. Sound'
  BY PutsSound
<1>4. ASSUME Calm, ~clash' PROVE Calm'
  <2>1. /\ \A i \in IP : i # p => Untouched(i)
        /\ (\A u \in Task : u # t => ~Busy(u, p)) \/ Untouched(p)
    BY <1>4, PutsLeaves
  <2>2. m.pc # "merge" => /\ \A i \in IP : ~Busy(t, i)
                          /\ m.pc \notin Moves /\ \A id \in Id : ~Tells(t, id)
    BY DEF Unburdened, Busy, BusyOf, Moves, Tells, TellsOf
  <2>3. m.pc = "merge" =>
           /\ m.obj # None /\ m.obj \in Obj /\ heap[m.obj] \in Camera
           /\ m.ip = p /\ known[p] = None /\ known[heap[m.obj].ip] = m.obj
           /\ rows[p] # None /\ rows[p].id = heap[m.obj].id
           /\ rows[heap[m.obj].ip] = None /\ heap[m.obj].ip # p
           /\ heap[m.obj].ip \in IP
    <3>1. SUFFICES ASSUME m.pc = "merge"
                   PROVE  /\ m.obj # None /\ m.obj \in Obj /\ heap[m.obj] \in Camera
                          /\ m.ip = p /\ known[p] = None
                          /\ known[heap[m.obj].ip] = m.obj
                          /\ rows[p] # None /\ rows[p].id = heap[m.obj].id
                          /\ rows[heap[m.obj].ip] = None /\ heap[m.obj].ip # p
                          /\ heap[m.obj].ip \in IP
      OBVIOUS
    <3>2. m.obj \in Refs(m) /\ m.obj # None /\ m.obj \in Held(m)
      BY <1>1, <3>1, Nones DEF Sound, Shape, ShapeOf, Moves, Refs, Held, Local
    <3>3. m.obj \in Obj /\ heap[m.obj] \in Camera /\ heap[m.obj].ip \in IP
      BY <3>2, RefsUsed DEF Camera
    <3>4. /\ known[heap[m.obj].ip] = m.obj /\ known[p] = None /\ m.ip = p
          /\ rows[m.ip] = [heap[m.obj] EXCEPT !.ip = m.ip]
          /\ rows[heap[m.obj].ip] = None
      BY <1>4, <3>1, <3>2 DEF Calm, Knows, KnowsOf, Unburdened, Moves, Adds
    <3>5. [heap[m.obj] EXCEPT !.ip = p] \in Camera
          /\ [heap[m.obj] EXCEPT !.ip = p].id = heap[m.obj].id
      BY <1>1, <3>3 DEF Camera
    <3>. QED
      BY <3>2, <3>3, <3>4, <3>5, Nones
  <2>4. ~Untouched(p) /\ known[p] # None => Agree(p)
    BY <1>1, <1>4, <2>1, <2>2, <2>3 DEF Calm, Fixed
  <2>5. m.pc # "reset"
    BY DEF Unburdened
  <2>6. CASE UpsertRaises(c)
    <3>. DEFINE n == Failed(m)
    <3>1. n \in Local /\ Refs(n) \subseteq Refs(m) \cup {None} /\ KnowsOf(n)
          /\ n.pc \in {"idle", "next"}
      BY <1>4, FailedShape
    <3>2. Acts(t, n, known, h, rows, {})
      BY <2>6 DEF Puts
    <3>. HIDE DEF n
    <3>3. /\ loc'[t] = n /\ known' = known /\ rows' = rows
          /\ \A q \in Refs(n) : q # None => q \in Obj /\ heap'[q] = h[q]
          /\ \A i \in IP : Untouched(i) <=>
                 (known[i] # None => h[known[i]] = heap[known[i]])
      BY <1>1, <3>1, <3>2, LeftIs
    <3>4. rows[p] = None /\ m.pc # "merge"
      BY <2>3, <2>6 DEF UpsertRaises
    <3>5. Untouched(p)
      <4>1. known[p] # None => heap[known[p]] # rows[p]
        BY <1>1, <3>4, CachedIs, Nones
      <4>. QED
        BY <1>1, <2>4, <3>3, <4>1 DEF Agree
    <3>6. \A i \in IP : Untouched(i)
      BY <2>1, <3>5
    <3>7. \A q \in Held(n) : q \in Refs(n) /\ q # None
      BY <3>1, Nones DEF Held, Refs, Local
    <3>8. \A q \in Held(n) : known[heap[q].ip] = q /\ heap'[q] = heap[q]
      <4>1. ASSUME NEW q \in Held(n)
            PROVE  known[heap[q].ip] = q /\ heap'[q] = heap[q]
        <5>1. q \in Refs(m) /\ q # None /\ known[heap[q].ip] = q /\ heap'[q] = h[q]
          BY <3>1, <3>3, <3>7 DEF KnowsOf
        <5>2. heap[q].ip \in IP
          BY <5>1, RefsUsed DEF Camera
        <5>. QED
          BY <3>3, <3>6, <5>1, <5>2
      <4>. QED
        BY <4>1
    <3>9. Knows(t)'
      BY <3>1, <3>3, <3>8 DEF Knows, KnowsOf, Held, Adds, Wrote, Uses
    <3>10. Wiped'
      BY <3>3, <1>4 DEF Calm, Wiped
    <3>. HIDE DEF Calm
    <3>. QED
      BY <1>1, <1>4, <2>2, <2>5, <3>1, <3>2, <3>4, <3>6, <3>9, <3>10, CalmActs
  <2>7. CASE ~UpsertRaises(c)
    <3>. DEFINE R == Upsert(c)
    <3>1. /\ R \in Rows /\ \A i \in IP : i # p => R[i] = rows[i]
          /\ R[p] # None /\ (rows[p] # None => R[p].id = rows[p].id)
      BY <1>1, <2>7, UpsertIs
    <3>2. Acts(t, l, known, h, R, {})
      BY <2>7 DEF Puts
    <3>12. R[p].id \in out' => R[p].auth = FALSE \/ R[p] = rows[p]
      BY <1>4, <2>7
    <3>. HIDE DEF R
    <3>3. /\ loc'[t] = l /\ known' = known /\ rows' = R
          /\ \A q \in Refs(l) : q # None => q \in Obj /\ heap'[q] = h[q]
          /\ \A i \in IP : known[i] # None => heap'[known[i]] = h[known[i]]
      BY <1>1, <3>1, <3>2, LeftIs
    <3>4. \A q \in Held(l) : known[heap[q].ip] = q /\ heap'[q] = heap[q]
      <4>1. \A q \in Held(l) : q \in Refs(l) /\ q # None
        BY Nones DEF Held, Refs, Local
      <4>2. \A q \in Held(m) : known[heap[q].ip] = q
        BY <1>4 DEF Calm, Knows, KnowsOf
      <4>. QED
        BY <3>3, <4>1, <4>2
    <3>5. l.pc = "merge_read" =>
             /\ m.pc = "merge" /\ l.obj = m.obj /\ l.ip = p
             /\ heap'[l.obj] = heap[l.obj] /\ R[heap[l.obj].ip] = None
             /\ R[l.ip].id = heap[l.obj].id
      <4>1. SUFFICES ASSUME l.pc = "merge_read"
                     PROVE  /\ m.pc = "merge" /\ l.obj = m.obj /\ l.ip = p
                            /\ heap'[l.obj] = heap[l.obj]
                            /\ R[heap[l.obj].ip] = None
                            /\ R[l.ip].id = heap[l.obj].id
        OBVIOUS
      <4>2. m.pc = "merge" /\ l.obj = m.obj /\ l.ip = p
        BY <4>1, <2>3
      <4>3. l.obj \in Held(l)
        BY <2>3, <4>1, <4>2 DEF Held
      <4>. QED
        BY <2>3, <3>1, <3>4, <4>2, <4>3
    <3>6. Knows(t)'
      <4>1. l.pc \in {"new_read", "auth_read", "manual_read", "merge_read"}
        OBVIOUS
      <4>2. l.pc \in Adds => known'[l.ip] = None
        BY <1>4, <3>3
      <4>3. \A q \in Held(l) : known'[heap'[q].ip] = q
        BY <3>3, <3>4
      <4>. QED
        BY <3>1, <3>3, <3>5, <4>1, <4>2, <4>3
           DEF Knows, KnowsOf, Held, At0, Uses
    <3>7. ASSUME NEW i \in IP, ~Untouched(i) \/ Busy(t, i)
          PROVE  Agree(i)' \/ Busy(t, i)'
      <4>1. CASE ~Untouched(i)
        BY <2>1, <3>3, <4>1 DEF Busy, BusyOf, Wrote
      <4>2. CASE Busy(t, i)
        <5>1. m.pc = "merge" /\ heap[m.obj].ip = i
          BY <2>2, <4>2 DEF Busy, BusyOf, Wrote, Uses
        <5>. QED
          BY <3>3, <3>5, <5>1 DEF Busy, BusyOf, Moves, Unburdened
      <4>. QED
        BY <3>7, <4>1, <4>2
    <3>8. ASSUME NEW i \in IP, ~Untouched(i) \/ (m.pc \in Moves /\ m.obj = known[i])
          PROVE  Same(i)'
      <4>1. CASE ~Untouched(i)
        <5>1. i = p /\ (known[p] # None => rows[p] = heap[known[p]])
          BY <2>1, <2>4, <4>1 DEF Agree
        <5>2. CASE known[p] = None
          BY <3>3, <5>1, <5>2 DEF Same
        <5>3. CASE known[p] # None
          <6>1. heap[known[p]] \in Camera /\ known[p] \in Obj
            BY <1>1, <5>3, CachedIs
          <6>2. heap'[known[p]].id = heap[known[p]].id
            BY <1>1, <3>3, <5>3, <6>1, Nones DEF Keeps
          <6>3. R[p].id = heap[known[p]].id
            BY <3>1, <5>1, <5>3, <6>1, Nones
          <6>. QED
            BY <3>1, <3>3, <5>1, <6>2, <6>3 DEF Same, At0
        <5>. QED
          BY <5>2, <5>3
      <4>2. CASE m.pc \in Moves /\ m.obj = known[i]
        <5>1. m.pc = "merge" /\ l.pc = "merge_read" /\ l.obj = known[i]
          BY <2>2, <4>2 DEF Unburdened
        <5>2. heap[known[i]].ip = i
          BY <2>3, <4>2, <5>1, CachedIs
        <5>3. R[i] = None
          BY <3>5, <5>1, <5>2
        <5>. QED
          BY <3>3, <5>1, <5>3 DEF Same, Moves
      <4>. QED
        BY <3>8, <4>1, <4>2
    <3>9. Wiped'
      <4>1. ASSUME NEW i \in IP, R[i] # None, R[i].id \in out'
            PROVE  ~R[i].auth
        <5>1. CASE R[i] = rows[i]
          BY <1>4, <4>1, <5>1 DEF Calm, Wiped
        <5>2. CASE R[i] # rows[i]
          BY <3>1, <3>12, <4>1, <5>2
        <5>. QED
          BY <5>1, <5>2
      <4>. QED
        BY <3>3, <4>1 DEF Wiped
    <3>10. ASSUME NEW id \in Id,
                  Recorded(R, id) # Recorded(rows, id) \/ Tells(t, id)
           PROVE  Tells(t, id)'
      <4>1. R[p].id = id
        <5>1. CASE Recorded(R, id) # Recorded(rows, id)
          BY <3>1, <5>1, RecordedIs DEF At0
        <5>2. CASE Tells(t, id)
          <6>1. m.pc = "merge" /\ heap[m.obj].id = id
            BY <2>2, <5>2 DEF Tells, TellsOf, Wrote, Uses
          <6>. QED
            BY <2>3, <3>1, <6>1
        <5>. QED
          BY <3>10, <5>1, <5>2
      <4>. QED
        BY <3>1, <3>3, <4>1 DEF Tells, TellsOf, At0, Wrote
    <3>. HIDE DEF Calm
    <3>. QED
      BY <1>1, <1>4, <2>5, <3>1, <3>2, <3>6, <3>7, <3>8, <3>9, <3>10, CalmActs
  <2>. QED
    BY <2>6, <2>7
<1>. QED
  BY <1>3, <1>4 DEF Good

LEMMA MergeKeeps ==
    ASSUME Sound, NEW t \in Task, Merge(t)
    PROVE  Good
<1>. DEFINE m == loc[t]
            old == heap[m.obj]
            sig == IF net[m.ip] = None THEN old.sig ELSE net[m.ip]
            status(uri) == IF uri THEN "online" ELSE "needs_auth"
            cam(uri) == [old EXCEPT !.ip = m.ip, !.uri = uri, !.sig = sig,
                                    !.status = status(uri)]
            go(uri) == [m EXCEPT !.pc = "merge_read", !.val = cam(uri)]
<1>1. /\ m \in Local /\ m.pc = "merge" /\ m.ip \in IP /\ m.val = None
      /\ m.obj \in m.cand /\ m.obj # None /\ m.due = {}
      /\ m.obj \in Refs(m) /\ known \in Caching
      /\ net[m.ip] \in Device \cup {None} /\ heap \in Heaps /\ rows \in Rows
  BY Types, Nones
     DEF Sound, TypeOK, Merge, Is, Shape, ShapeOf, Adds, Moves, Local, Verifies, Refs
<1>2. old \in Camera /\ m.obj \in Obj
  BY <1>1, RefsUsed
<1>3. PICK got \in BOOLEAN : Puts(t, cam(old.uri \/ got), go(old.uri \/ got), heap, {})
  BY DEF Merge
<1>. DEFINE uri == old.uri \/ got
            c == cam(uri)
            l == go(uri)
<1>4. uri \in BOOLEAN /\ sig \in Device \cup {None}
      /\ status(uri) \in Status
  BY <1>1, <1>2 DEF Camera, Status
<1>5. Puts(t, c, l, heap, {})
  BY <1>3
<1>. HIDE DEF uri, sig, status
<1>6. c \in Camera /\ c.ip = m.ip /\ c.auth = old.auth /\ c.id = old.id
  BY <1>1, <1>2, <1>4 DEF Camera
<1>. HIDE DEF c, cam
<1>7. /\ l \in Local /\ l.pc = "merge_read" /\ l.ip = m.ip /\ l.val = c
      /\ l.obj = m.obj /\ l.cand = m.cand /\ l.due = {}
  BY <1>1, <1>6 DEF Local, PassPc, c
<1>. HIDE DEF l, go
<1>8. ShapeOf(l, heap)
  BY <1>1, <1>6, <1>7, Nones
     DEF ShapeOf, Adds, Wrote, Uses, Moves, Verifies, RequestPc
<1>9. /\ \A q \in Refs(l) : q # None => heap[q] # None
      /\ \A q \in Held(l) : q \in Held(m)
  BY <1>1, <1>7, RefsUsed, Nones DEF Refs, Held
<1>10. Typed /\ out' = out /\ Keeps(heap)
  BY ScanTyped DEF Merge, Keeps
<1>11. Calm => /\ known[m.ip] = None
               /\ rows[m.ip] = [old EXCEPT !.ip = m.ip]
  BY <1>1 DEF Calm, Knows, KnowsOf, Adds
<1>12. [old EXCEPT !.ip = m.ip] \in Camera /\ [old EXCEPT !.ip = m.ip].id = old.id
       /\ [old EXCEPT !.ip = m.ip].auth = old.auth /\ old.auth \in BOOLEAN
  BY <1>1, <1>2 DEF Camera
<1>13. ASSUME Calm, ~UpsertRaises(c), Upsert(c)[c.ip].id \in out'
       PROVE  Upsert(c)[c.ip].auth = FALSE
  <2>1. /\ Upsert(c)[m.ip].id = rows[m.ip].id
        /\ Upsert(c)[m.ip].auth = (c.auth \/ rows[m.ip].auth)
    BY <1>1, <1>6, <1>11, <1>12, <1>13, UpsertIs, Nones DEF Sound, Unique
  <2>2. ~rows[m.ip].auth
    BY <1>1, <1>6, <1>10, <1>11, <1>12, <1>13, <2>1, Nones DEF Calm, Wiped
  <2>. QED
    BY <1>6, <1>11, <1>12, <1>13, <2>1, <2>2
<1>14. l.pc \in Adds => l.ip = c.ip /\ (Calm => known[c.ip] = None)
  BY <1>6, <1>7, <1>11
<1>. QED
  BY <1>1, <1>5, <1>6, <1>7, <1>8, <1>9, <1>10, <1>13, <1>14, FreshPuts

LEMMA InterrogateKeeps ==
    ASSUME Sound, NEW t \in Task, Interrogate(t)
    PROVE  Good
<1>. DEFINE m == loc[t]
            auth == m.val # None /\ m.val.auth
            onvif == m.phase = "onvif"
            id == IF m.val # None THEN m.val.id ELSE NewId
            status(uri) == IF uri /\ onvif THEN "online" ELSE "needs_auth"
            cam(uri) == [id |-> id, ip |-> m.ip, status |-> status(uri),
                         auth |-> auth, uri |-> uri, sig |-> net[m.ip]]
            go(uri) == [m EXCEPT !.pc = "new_read", !.val = cam(uri)]
<1>1. /\ m \in Local /\ m.pc = "interrogate" /\ m.ip \in IP /\ m.obj = None
      /\ m.due = {} /\ (m.val # None => m.val \in Camera /\ m.val.ip = m.ip)
      /\ net[m.ip] \in Device \cup {None} /\ rows \in Rows /\ heap \in Heaps
      /\ known \in Caching
  BY Types DEF Sound, TypeOK, Interrogate, Is, Shape, ShapeOf, Adds, Verifies, Local
<1>2. PICK uri \in BOOLEAN : Puts(t, cam(uri), go(uri), heap, {})
  BY DEF Interrogate
<1>. DEFINE c == cam(uri)
            l == go(uri)
<1>3. m.val = None => NewId \in Id /\ NewId \notin out
                      /\ \A i \in IP : rows[i] # None => rows[i].id # NewId
  BY <1>1, NewIdIs DEF Interrogate
<1>4. id \in Id /\ auth \in BOOLEAN /\ status(uri) \in Status
  BY <1>1, <1>3 DEF Camera, Status
<1>5. Puts(t, c, l, heap, {})
  BY <1>2
<1>15. /\ m.val = None => id = NewId /\ ~auth
       /\ m.val # None => auth = m.val.auth
  BY <1>1 DEF Camera
<1>. HIDE DEF id, status, auth
<1>6. c \in Camera /\ c.ip = m.ip /\ c.auth = auth /\ c.id = id
  BY <1>1, <1>4 DEF Camera
<1>. HIDE DEF c, cam
<1>7. /\ l \in Local /\ l.pc = "new_read" /\ l.ip = m.ip /\ l.val = c
      /\ l.obj = None /\ l.cand = m.cand /\ l.due = {}
  BY <1>1, <1>6 DEF Local, PassPc, c
<1>. HIDE DEF l, go
<1>8. ShapeOf(l, heap)
  BY <1>1, <1>6, <1>7, Nones
     DEF ShapeOf, Adds, Wrote, Uses, Moves, Verifies, RequestPc
<1>9. /\ \A q \in Refs(l) : q # None => heap[q] # None
      /\ \A q \in Held(l) : q \in Held(m)
  BY <1>1, <1>7, RefsUsed, Nones DEF Refs, Held
<1>10. Typed /\ out' = out /\ Keeps(heap) /\ Unburdened(t)
  BY <1>1, ScanTyped DEF Interrogate, Keeps, Unburdened, Wrote, Uses, Moves
<1>11. Calm => known[m.ip] = None /\ (m.val # None => m.val = rows[m.ip])
  BY <1>1 DEF Calm, Knows, KnowsOf, Adds
<1>13. ASSUME Calm, ~UpsertRaises(c), Upsert(c)[c.ip].id \in out'
       PROVE  Upsert(c)[c.ip].auth = FALSE
  <2>1. /\ rows[m.ip] = None => Upsert(c)[m.ip] = c
        /\ rows[m.ip] # None =>
              /\ Upsert(c)[m.ip].id = rows[m.ip].id
              /\ Upsert(c)[m.ip].auth = (c.auth \/ rows[m.ip].auth)
    BY <1>1, <1>6, <1>13, UpsertIs DEF Sound, Unique
  <2>2. CASE rows[m.ip] = None
    BY <1>3, <1>6, <1>10, <1>11, <1>13, <1>15, <2>1, <2>2
  <2>3. CASE rows[m.ip] # None
    <3>1. rows[m.ip] \in Camera /\ rows[m.ip].auth \in BOOLEAN
      BY <1>1, <2>3 DEF Rows, Camera
    <3>2. ~rows[m.ip].auth
      BY <1>1, <1>6, <1>10, <1>13, <2>1, <2>3 DEF Calm, Wiped
    <3>3. ~auth
      BY <1>11, <1>13, <1>15, <3>2
    <3>. QED
      BY <1>4, <1>6, <2>1, <2>3, <3>1, <3>2, <3>3
  <2>. QED
    BY <2>2, <2>3
<1>14. l.pc \in Adds => l.ip = c.ip /\ (Calm => known[c.ip] = None)
  BY <1>6, <1>7, <1>11
<1>. QED
  BY <1>1, <1>5, <1>6, <1>7, <1>8, <1>9, <1>10, <1>13, <1>14, FreshPuts

LEMMA ManualAnswerKeeps ==
    ASSUME Sound, NEW t \in Task, ManualAnswer(t)
    PROVE  Good
<1>. DEFINE m == loc[t]
            c == [id |-> NewId, ip |-> m.ip, status |-> "online", auth |-> TRUE,
                  uri |-> TRUE, sig |-> None]
            l == [m EXCEPT !.pc = "manual_read", !.val = c]
<1>1. /\ m \in Local /\ m.pc = "manual" /\ m.ip \in IP /\ m.obj = None
      /\ m.due = {} /\ m.cand = {} /\ heap \in Heaps /\ rows \in Rows
      /\ known \in Caching
  BY Types DEF Sound, ManualAnswer, Is, Shape, ShapeOf, Verifies, RequestPc
<1>2. Typed /\ out' = out /\ Unburdened(t)
  BY <1>1, Types, GoingTyped
     DEF Sound, ManualAnswer, Unburdened, Wrote, Uses, Moves
<1>3. CASE Goes(t, Idle)
  BY <1>2, <1>3, IdleIs, RestToRest
<1>4. CASE FreeId # {} /\ Puts(t, c, l, heap, {})
  <2>1. NewId \in Id /\ NewId \notin out
        /\ \A i \in IP : rows[i] # None => rows[i].id # NewId
    BY <1>1, <1>4, NewIdIs
  <2>2. c \in Camera /\ c.ip = m.ip /\ c.id = NewId
    BY <1>1, <2>1 DEF Camera, Status
  <2>3. Puts(t, c, l, heap, {})
    BY <1>4
  <2>. HIDE DEF c
  <2>4. /\ l \in Local /\ l.pc = "manual_read" /\ l.ip = m.ip /\ l.val = c
        /\ l.obj = None /\ l.cand = {} /\ l.due = {}
    BY <1>1, <2>2 DEF Local, RequestPc
  <2>. HIDE DEF l
  <2>5. ShapeOf(l, heap)
    BY <1>1, <2>2, <2>4, Nones
       DEF ShapeOf, Adds, Wrote, Uses, Moves, Verifies, RequestPc
  <2>6. /\ \A q \in Refs(l) : q # None => heap[q] # None
        /\ \A q \in Held(l) : q \in Held(m) /\ heap[q] = heap[q]
    BY <2>4 DEF Refs, Held
  <2>7. ASSUME Calm, ~UpsertRaises(c) PROVE Upsert(c)[c.ip].id \notin out'
    <3>1. rows[m.ip] = None
      BY <1>1, <2>7 DEF Calm, Knows, KnowsOf
    <3>2. Upsert(c)[m.ip] = c
      BY <1>1, <2>2, <2>7, <3>1, UpsertIs DEF Sound, Unique
    <3>. QED
      BY <1>2, <2>1, <2>2, <3>2
  <2>8. l.pc \notin Adds /\ Keeps(heap)
    BY <2>4 DEF Adds, Keeps
  <2>. QED
    BY <1>1, <1>2, <2>2, <2>3, <2>4, <2>5, <2>6, <2>7, <2>8, FreshPuts
<1>. QED
  BY <1>3, <1>4 DEF ManualAnswer

LEMMA AuthAnswerKeeps ==
    ASSUME Sound, NEW t \in Task, AuthAnswer(t)
    PROVE  Good
<1>. DEFINE m == loc[t]
            old == heap[m.obj]
<1>1. /\ m \in Local /\ m.pc = "auth" /\ m.obj # None /\ m.val = None
      /\ m.due = {} /\ m.cand = {} /\ heap \in Heaps /\ rows \in Rows
      /\ known \in Caching /\ m.obj \in Refs(m)
  BY Types DEF Sound, AuthAnswer, Is, Shape, ShapeOf, Verifies, RequestPc, Refs
<1>2. m.obj \in Obj /\ old \in Camera
  BY <1>1, RefsUsed
<1>3. PICK uri \in BOOLEAN, status \in {"online", "needs_auth"} :
         LET c == [old EXCEPT !.auth = TRUE, !.uri = uri, !.status = status] IN
         /\ Puts(t, c, [m EXCEPT !.pc = "auth_read", !.obj = None, !.val = c],
                 [heap EXCEPT ![m.obj] = c], {})
         /\ out' = out \ {c.id}
  BY DEF AuthAnswer
<1>. DEFINE c == [old EXCEPT !.auth = TRUE, !.uri = uri, !.status = status]
            h == [heap EXCEPT ![m.obj] = c]
            l == [m EXCEPT !.pc = "auth_read", !.obj = None, !.val = c]
<1>4. c \in Camera /\ c.ip = old.ip /\ c.id = old.id /\ c.ip \in IP
  BY <1>2 DEF Camera, Status
<1>5. Puts(t, c, l, h, {}) /\ out' = out \ {c.id}
  BY <1>3
<1>. HIDE DEF c
<1>6. /\ l \in Local /\ l.pc = "auth_read" /\ l.val = c /\ l.obj = None
      /\ l.cand = {} /\ l.due = {}
  BY <1>1, <1>4 DEF Local, RequestPc
<1>. HIDE DEF l
<1>7. h \in Heaps /\ h[m.obj] = c /\ \A q \in Obj : q # m.obj => h[q] = heap[q]
  BY <1>1, <1>2, <1>4 DEF Heaps
<1>. HIDE DEF h
<1>8. ShapeOf(l, h)
  BY <1>4, <1>6, Nones DEF ShapeOf, Adds, Wrote, Uses, Moves, Verifies, RequestPc
<1>9. /\ \A q \in Refs(l) : q # None => h[q] # None
      /\ \A q \in Held(l) : q \in Held(m) /\ h[q] = heap[q]
  BY <1>6 DEF Refs, Held
<1>10. Keeps(h) /\ Unburdened(t) /\ Typed /\ l.pc \notin Adds
  <2>1. Keeps(h)
    BY <1>4, <1>7, Nones DEF Keeps
  <2>2. Typed
    BY <1>5, Types, GoingTyped DEF AuthAnswer, Sound
  <2>. QED
    BY <1>1, <1>6, <2>1, <2>2 DEF Unburdened, Wrote, Uses, Moves, Adds
<1>11. \A i \in IP : i # c.ip /\ known[i] # None => h[known[i]] = heap[known[i]]
  BY <1>4, <1>7, CachedIs
<1>12. ASSUME Calm, ~UpsertRaises(c) PROVE Upsert(c)[c.ip].id \notin out'
  <2>1. rows[c.ip] # None => rows[c.ip].id = c.id
    BY <1>1, <1>4, <1>12 DEF Calm, Knows, KnowsOf
  <2>2. Upsert(c)[c.ip].id = c.id
    BY <1>1, <1>4, <1>12, <2>1, UpsertIs DEF Sound, Unique
  <2>. QED
    BY <1>5, <2>2
<1>. QED
  BY <1>1, <1>4, <1>5, <1>6, <1>7, <1>8, <1>9, <1>10, <1>11, <1>12, FreshPuts

(***************************************************************************)
(* Steps that tell, and file what the cache holds already.                 *)
(***************************************************************************)
LEMMA TellsKeep ==
    ASSUME Sound, NEW t \in Task, NEW l \in Local, NEW k \in Caching, NEW told,
           Acts(t, l, k, heap, rows, told), Typed, out' = out,
           \A i \in IP : k[i] # None => heap[k[i]] # None /\ heap[k[i]].ip = i,
           Calm => k = known,
           \A o \in Refs(l) : o # None => heap[o] # None, ShapeOf(l, heap),
           loc[t].pc \notin Moves \cup {"reset"}, Calm => KnowsOf(l),
           Calm => \A i \in IP : Busy(t, i) => Agree(i),
           Calm => \A id \in Id : Tells(t, id) => id \in told
    PROVE  Good
<1>1. /\ heap \in Heaps /\ rows \in Rows /\ UniqueIn(rows) /\ Keeps(heap)
  BY Types DEF Sound, Unique, Keeps
<1>2. Sound'
  BY <1>1, SoundActs
<1>3. ASSUME Calm, ~clash' PROVE Calm'
  <2>1. /\ Acts(t, l, known, heap, rows, told) /\ KnowsOf(l)
        /\ \A i \in IP : BusyOf(loc[t], i) => Agree(i)
        /\ \A id \in Id : TellsOf(loc[t], id) => id \in told
        /\ loc[t].pc \notin Moves
    BY <1>3 DEF Busy, Tells
  <2>. HIDE DEF Calm
  <2>. QED
    BY <1>3, <2>1, SaysCalm
<1>. QED
  BY <1>2, <1>3 DEF Good

LEMMA FiledKeeps ==
    ASSUME Sound, NEW t \in Task, Filed(t)
    PROVE  Good
<1>. DEFINE m == loc[t]
            l == Turned(m)
            k == [known EXCEPT ![m.ip] = m.obj]
            told == IF m.tell THEN {heap[m.obj].id} ELSE {}
<1>1. /\ m \in Local /\ m.pc = "file" /\ m.ip \in IP /\ m.val = None
      /\ m.obj # None /\ heap[m.obj].ip = m.ip /\ m.due = {} /\ known \in Caching
  BY Types DEF Sound, Filed, Is, Shape, ShapeOf, Verifies, Adds
<1>2. m.obj \in Refs(m) /\ m.obj \in Held(m)
  BY <1>1 DEF Refs, Held
<1>3. m.obj \in Obj /\ heap[m.obj] \in Camera
  BY <1>1, <1>2, RefsUsed
<1>4. /\ l \in Local /\ l.pc = "next" /\ l.obj = None /\ l.val = None
      /\ l.cand = m.cand /\ l.due = {}
  BY <1>1, TurnedIs
<1>5. Acts(t, l, k, heap, rows, told) /\ Typed /\ out' = out
  BY ScanTyped DEF Filed
<1>. HIDE DEF l
<1>6. /\ k \in Caching /\ k[m.ip] = m.obj
      /\ \A i \in IP : i # m.ip => k[i] = known[i]
  BY <1>1, <1>3 DEF Caching
<1>7. Calm => known[m.ip] = m.obj
  BY <1>1, <1>2 DEF Calm, Knows, KnowsOf
<1>8. Calm => k = known
  BY <1>1, <1>7 DEF Caching
<1>. HIDE DEF k
<1>9. \A i \in IP : k[i] # None => heap[k[i]] # None /\ heap[k[i]].ip = i
  BY <1>1, <1>3, <1>6, CachedIs, Nones
<1>10. ShapeOf(l, heap)
  BY <1>4, RestShape
<1>11. \A o \in Refs(l) : o # None => heap[o] # None
  BY <1>1, <1>4, RefsUsed, Nones DEF Refs
<1>12. Calm => KnowsOf(l)
  BY <1>1, <1>4 DEF Calm, Knows, KnowsOf, Held, Adds, Wrote, Uses
<1>13. /\ m.pc \notin Moves \cup {"reset"} /\ \A i \in IP : ~Busy(t, i)
       /\ \A id \in Id : Tells(t, id) => id \in told
  BY <1>1 DEF Moves, Busy, BusyOf, Tells, TellsOf, Wrote, Uses
<1>. QED
  BY <1>4, <1>5, <1>6, <1>8, <1>9, <1>10, <1>11, <1>12, <1>13, TellsKeep

LEMMA SubFileKeeps ==
    ASSUME Sound, NEW t \in Task, SubFile(t)
    PROVE  Good
<1>. DEFINE o == loc[t].obj
            p == heap[o].ip
            k == [known EXCEPT ![p] = o]
<1>1. /\ loc[t] \in Local /\ loc[t].pc = "sub_file" /\ o # None /\ known \in Caching
      /\ o \in Refs(loc[t]) /\ o \in Held(loc[t])
  BY Types DEF Sound, SubFile, Is, Shape, ShapeOf, Refs, Held
<1>2. o \in Obj /\ heap[o] \in Camera /\ p \in IP
  BY <1>1, RefsUsed DEF Camera
<1>3. Acts(t, Idle, k, heap, rows, {heap[o].id}) /\ Typed /\ out' = out
  BY Types, GoingTyped DEF SubFile, Sound
<1>4. /\ k \in Caching /\ k[p] = o /\ \A i \in IP : i # p => k[i] = known[i]
  BY <1>1, <1>2 DEF Caching
<1>5. Calm => known[p] = o
  BY <1>1 DEF Calm, Knows, KnowsOf
<1>6. Calm => k = known
  BY <1>1, <1>5 DEF Caching
<1>. HIDE DEF k
<1>7. \A i \in IP : k[i] # None => heap[k[i]] # None /\ heap[k[i]].ip = i
  BY <1>2, <1>4, CachedIs, Nones
<1>8. /\ ShapeOf(Idle, heap) /\ Idle \in Local
      /\ \A q \in Refs(Idle) : q # None => heap[q] # None
      /\ KnowsOf(Idle)
  BY IdleIs, RestShape DEF Refs, KnowsOf, Held, Adds, Wrote, Uses
<1>9. /\ loc[t].pc \notin Moves \cup {"reset"} /\ \A i \in IP : ~Busy(t, i)
      /\ \A id \in Id : ~Tells(t, id)
  BY <1>1 DEF Moves, Busy, BusyOf, Tells, TellsOf, Wrote, Uses
<1>. QED
  BY <1>3, <1>4, <1>6, <1>7, <1>8, <1>9, TellsKeep

LEMMA DemoteTellsKeeps ==
    ASSUME Sound, NEW t \in Task, DemoteTells(t)
    PROVE  Good
<1>. DEFINE m == loc[t]
            a == [m EXCEPT !.pc = "stale", !.ip = None, !.obj = None]
            l == IF m.due = {} THEN Idle ELSE a
<1>1. /\ m \in Local /\ m.pc = "unstream" /\ m.val = None /\ m.cand = {}
      /\ m.phase = "onvif" /\ known \in Caching
  BY Types DEF Sound, DemoteTells, Is, Shape, ShapeOf, Verifies
<1>2. Acts(t, l, known, heap, rows, {heap[m.obj].id}) /\ Typed /\ out' = out
  BY ScanTyped DEF DemoteTells
<1>3. /\ a \in Local /\ a.pc = "stale" /\ a.obj = None /\ a.val = None
      /\ a.cand = {} /\ a.due = m.due /\ a.phase = "onvif"
  BY <1>1 DEF Local, PassPc
<1>. HIDE DEF a
<1>4. /\ l \in Local /\ l.obj = None /\ l.val = None /\ l.cand = {}
      /\ l.due \subseteq m.due /\ l.pc \in {"idle", "stale"}
      /\ ShapeOf(l, heap)
  BY <1>3, IdleIs, RestShape
<1>. HIDE DEF l
<1>5. \A o \in Refs(l) : o # None => heap[o] # None
  BY <1>4, RefsUsed, Nones DEF Refs
<1>6. Calm => KnowsOf(l)
  BY <1>4 DEF Calm, Knows, KnowsOf, Held, Adds, Wrote, Uses
<1>7. \A i \in IP : known[i] # None => heap[known[i]] # None /\ heap[known[i]].ip = i
  BY CachedIs, Nones
<1>8. /\ m.pc \notin Moves \cup {"reset"} /\ \A i \in IP : ~Busy(t, i)
      /\ \A id \in Id : Tells(t, id) => id = heap[m.obj].id
  BY <1>1 DEF Moves, Busy, BusyOf, Tells, TellsOf, Wrote, Uses
<1>. QED
  BY <1>1, <1>2, <1>4, <1>5, <1>6, <1>7, <1>8, TellsKeep

LEMMA AuthTellsKeeps ==
    ASSUME Sound, NEW t \in Task, AuthTells(t)
    PROVE  Good
<1>. DEFINE m == loc[t]
            told == {heap[m.obj].id}
<1>1. /\ m \in Local /\ m.pc = "register" /\ m.obj # None /\ m.val = None
      /\ m.cand = {} /\ m.due = {} /\ known \in Caching
      /\ m.obj \in Refs(m) /\ m.obj \in Held(m)
  BY Types
     DEF Sound, AuthTells, Is, Shape, ShapeOf, RequestPc, Verifies, Refs, Held
<1>2. Typed /\ out' = out
  BY Types, GoingTyped DEF AuthTells, Sound
<1>3. /\ m.pc \notin Moves \cup {"reset"} /\ \A i \in IP : ~Busy(t, i)
      /\ \A id \in Id : Tells(t, id) => id \in told
  BY <1>1 DEF Moves, Busy, BusyOf, Tells, TellsOf, Wrote, Uses
<1>4. \A i \in IP : known[i] # None => heap[known[i]] # None /\ heap[known[i]].ip = i
  BY CachedIs, Nones
<1>5. m.obj \in Obj /\ heap[m.obj] \in Camera
  BY <1>1, RefsUsed
<1>6. CASE Acts(t, Idle, known, heap, rows, told)
  <2>1. /\ ShapeOf(Idle, heap) /\ Idle \in Local
        /\ \A q \in Refs(Idle) : q # None => heap[q] # None
        /\ KnowsOf(Idle)
    BY IdleIs, RestShape DEF Refs, KnowsOf, Held, Adds, Wrote, Uses
  <2>. QED
    BY <1>1, <1>2, <1>3, <1>4, <1>6, <2>1, TellsKeep
<1>7. CASE Acts(t, [m EXCEPT !.pc = "sub"], known, heap, rows, told)
  <2>. DEFINE l == [m EXCEPT !.pc = "sub"]
  <2>1. /\ l \in Local /\ l.pc = "sub" /\ l.obj = m.obj /\ l.val = None
        /\ l.cand = {} /\ l.due = {}
    BY <1>1 DEF Local, RequestPc
  <2>2. Acts(t, l, known, heap, rows, told)
    BY <1>7
  <2>. HIDE DEF l
  <2>3. ShapeOf(l, heap)
    BY <1>1, <2>1 DEF ShapeOf, Adds, Wrote, Uses, Moves, Verifies, RequestPc
  <2>4. \A q \in Refs(l) : q # None => heap[q] # None
    BY <1>5, <2>1, Nones DEF Refs
  <2>5. Calm => KnowsOf(l)
    BY <1>1, <2>1 DEF Calm, Knows, KnowsOf, Held, Adds, Wrote, Uses
  <2>. QED
    BY <1>1, <1>2, <1>3, <1>4, <2>1, <2>2, <2>3, <2>4, <2>5, TellsKeep
<1>8. ASSUME NEW j \in IP, known[j] # None,
             Acts(t, [m EXCEPT !.pc = "auth", !.obj = known[j],
                               !.ip = heap[known[j]].ip], known, heap, rows, told)
      PROVE  Good
  <2>. DEFINE l == [m EXCEPT !.pc = "auth", !.obj = known[j],
                             !.ip = heap[known[j]].ip]
  <2>1. known[j] \in Obj /\ heap[known[j]] \in Camera /\ heap[known[j]].ip = j
    BY <1>8, CachedIs
  <2>2. /\ l \in Local /\ l.pc = "auth" /\ l.obj = known[j] /\ l.val = None
        /\ l.cand = {} /\ l.due = {}
    BY <1>1, <2>1 DEF Local, RequestPc
  <2>3. Acts(t, l, known, heap, rows, told)
    BY <1>8
  <2>. HIDE DEF l
  <2>4. ShapeOf(l, heap)
    BY <1>8, <2>2 DEF ShapeOf, Adds, Wrote, Uses, Moves, Verifies, RequestPc
  <2>5. \A q \in Refs(l) : q # None => heap[q] # None
    BY <2>1, <2>2, Nones DEF Refs
  <2>6. ASSUME Calm PROVE KnowsOf(l)
    <3>1. rows[j] # None => rows[j].id = heap[known[j]].id
      BY <1>8, <2>6 DEF Calm, Same, At0
    <3>. QED
      BY <2>1, <2>2, <3>1 DEF KnowsOf, Held, Adds, Wrote, Uses
  <2>. QED
    BY <1>1, <1>2, <1>3, <1>4, <2>2, <2>3, <2>4, <2>5, <2>6, TellsKeep
<1>. QED
  BY <1>6, <1>7, <1>8 DEF AuthTells

(***************************************************************************)
(* Reading back, and the beginnings of the requests.                       *)
(***************************************************************************)
LEMMA ReadBackKeeps ==
    ASSUME Sound, NEW t \in Task, ReadBack(t), Typed, out' = out
    PROVE  Good
<1>. DEFINE m == loc[t]
            use == [new_read |-> "new_use", merge_read |-> "merge_use",
                    demote_read |-> "demote_use", auth_read |-> "auth_use",
                    manual_read |-> "manual_use"]
            r == rows[m.val.ip]
            v == IF r = None THEN m.val ELSE r
            pc == use[m.pc]
            l == [m EXCEPT !.pc = pc, !.val = v]
<1>1. /\ m \in Local /\ m.pc \in Reading /\ m.val # None /\ m.val \in Camera
      /\ rows \in Rows /\ m.val.ip \in IP
  BY Types DEF Sound, ReadBack, Reading, Shape, ShapeOf, Wrote, Local, Camera
<1>2. /\ pc \in {"new_use", "merge_use", "demote_use", "auth_use", "manual_use"}
      /\ pc = "merge_use" <=> m.pc = "merge_read"
      /\ pc = "new_use" <=> m.pc = "new_read"
      /\ pc = "demote_use" <=> m.pc = "demote_read"
      /\ pc = "manual_use" <=> m.pc = "manual_read"
  BY <1>1 DEF Reading
<1>3. v \in Camera /\ v # None /\ v.ip = m.val.ip
  BY <1>1, Nones DEF Rows, Sound, Unique, UniqueIn
<1>4. Goes(t, l)
  BY DEF ReadBack
<1>. HIDE DEF pc, use, v
<1>5. /\ l \in Local /\ l.pc = pc /\ l.ip = m.ip /\ l.obj = m.obj /\ l.val = v
      /\ l.cand = m.cand /\ l.due = m.due /\ l.phase = m.phase
  BY <1>1, <1>2, <1>3 DEF Local, PassPc, RequestPc
<1>. HIDE DEF l
<1>6. Shape(t)
  BY DEF Sound
<1>7. ShapeOf(l, heap)
  <2>1. /\ m.pc # "merge_read" => m.obj = None
        /\ m.pc = "merge_read" => m.obj \in m.cand
        /\ m.pc \in {"new_read", "merge_read"} => m.ip \in IP
        /\ m.pc \in {"new_read", "merge_read", "manual_read"} => m.val.ip = m.ip
        /\ m.pc = "demote_read" => m.phase = "onvif"
        /\ m.pc \in {"demote_read", "auth_read", "manual_read"} => m.cand = {}
        /\ m.pc # "demote_read" => m.due = {}
    BY <1>1, <1>6, Nones
       DEF Shape, ShapeOf, Wrote, Uses, Moves, Adds, Verifies, RequestPc, Reading
  <2>2. l.pc \in {"new_use", "merge_use", "demote_use", "auth_use", "manual_use"}
    BY <1>2, <1>5
  <2>3. /\ l.pc # "merge_use" => l.obj = None
        /\ l.pc = "merge_use" => l.obj \in l.cand
        /\ l.pc \in {"new_use", "merge_use"} => l.ip \in IP
        /\ l.pc \in {"new_use", "merge_use", "manual_use"} => l.val.ip = l.ip
        /\ l.pc = "demote_use" => l.phase = "onvif"
        /\ l.pc \in {"demote_use", "auth_use", "manual_use"} => l.cand = {}
        /\ l.pc # "demote_use" => l.due = {}
        /\ l.val # None
    <3>1. m.pc \in {"new_read", "merge_read", "demote_read", "auth_read",
                    "manual_read"}
      BY <1>1 DEF Reading
    <3>. QED
      BY <1>2, <1>3, <1>5, <2>1, <3>1
  <2>. QED
    BY <2>2, <2>3 DEF ShapeOf, Wrote, Uses, Moves, Adds, Verifies, RequestPc
<1>8. \A o \in Refs(l) : o # None => heap[o] # None
  BY <1>5, RefsUsed, Nones DEF Refs
<1>9. Sound'
  BY <1>4, <1>5, <1>7, <1>8, GoesSound
<1>10. ASSUME Calm, ~clash' PROVE Calm'
  <2>1. v = r /\ rows[v.ip] = v
    BY <1>1, <1>3, <1>10 DEF Calm, Knows, KnowsOf, Wrote, Reading, v
  <2>2. KnowsOf(l)
    <3>1. Knows(t)
      BY <1>10 DEF Calm
    <3>2. l.pc \in Adds => m.pc \in Adds
      BY <1>1, <1>2, <1>5 DEF Adds
    <3>3. Held(l) = Held(m)
      BY <1>1, <1>2, <1>5 DEF Held, Reading
    <3>4. \A o \in Held(l) : known[heap[o].ip] = o
      BY <3>1, <3>3 DEF Knows, KnowsOf
    <3>5. l.pc \in Adds => known[l.ip] = None
      BY <1>5, <3>1, <3>2 DEF Knows, KnowsOf
    <3>6. l.pc = "merge_use" =>
             At0(l.ip, heap[l.obj].id) /\ rows[heap[l.obj].ip] = None
      BY <1>2, <1>5, <3>1 DEF Knows, KnowsOf
    <3>7. l.pc = "demote_use" => \A o \in l.due : heap[o].ip # l.val.ip
      BY <1>2, <1>3, <1>5, <3>1 DEF Knows, KnowsOf
    <3>. QED
      BY <1>2, <1>5, <2>1, <3>4, <3>5, <3>6, <3>7 DEF KnowsOf, Wrote
  <2>3. \A i \in IP : BusyOf(m, i) => BusyOf(l, i)
    BY <1>1, <1>2, <1>3, <1>5 DEF BusyOf, Wrote, Uses, Moves, Reading
  <2>4. \A id \in Id : TellsOf(m, id) => TellsOf(l, id)
    BY <1>1, <1>2, <1>3, <1>5 DEF TellsOf, Wrote, Uses, Reading
  <2>5. m.pc \in Moves => l.pc \in Moves
    BY <1>1, <1>2, <1>5 DEF Moves, Reading
  <2>6. m.pc # "reset"
    BY <1>1 DEF Reading
  <2>. HIDE DEF Calm
  <2>. QED
    BY <1>4, <1>5, <1>7, <1>8, <1>10, <2>2, <2>3, <2>4, <2>5, <2>6, GoesCalm
<1>. QED
  BY <1>9, <1>10 DEF Good

LEMMA LogoutReadKeeps ==
    ASSUME Sound, NEW t \in Task, LogoutRead(t)
    PROVE  Good
<1>. DEFINE m == loc[t]
            at == At(rows, m.val.id)
            v == rows[CHOOSE i \in at : TRUE]
            b == [m EXCEPT !.pc = "logout_use", !.val = v]
            l == IF at = {} THEN Idle ELSE b
<1>1. /\ m \in Local /\ m.pc = "logout_read" /\ m.val # None /\ m.obj = None
      /\ m.cand = {} /\ m.due = {} /\ rows \in Rows /\ m.val \in Camera
  BY Types DEF Sound, LogoutRead, Is, Shape, ShapeOf, Wrote, Uses, Moves,
               RequestPc, Verifies, Local
<1>2. Goes(t, l) /\ Typed /\ out' = out
  BY Types, GoingTyped DEF LogoutRead, Sound
<1>3. at # {} => v \in Camera
  BY <1>1 DEF At, Rows
<1>4. at # {} => /\ b \in Local /\ b.pc = "logout_use" /\ b.obj = None /\ b.val = v
                 /\ b.cand = {} /\ b.due = {}
  BY <1>1, <1>3 DEF Local, RequestPc
<1>5. l \in Local /\ l.obj = None /\ l.cand = {} /\ l.due = {} /\ ShapeOf(l, heap)
  <2>1. CASE at = {}
    BY <2>1, IdleIs, RestShape
  <2>2. CASE at # {}
    <3>1. ShapeOf(b, heap)
      BY <1>3, <1>4, <2>2, Nones
         DEF ShapeOf, Wrote, Uses, Moves, Adds, Verifies, RequestPc
    <3>. HIDE DEF b
    <3>. QED
      BY <1>4, <2>2, <3>1
  <2>. QED
    BY <2>1, <2>2
<1>6. \A o \in Refs(l) : o # None => heap[o] # None
  BY <1>5 DEF Refs
<1>7. Sound'
  BY <1>2, <1>5, <1>6, GoesSound
<1>8. ASSUME Calm, ~clash' PROVE Calm'
  <2>1. At0(m.val.ip, m.val.id) /\ m.val.ip \in IP
    BY <1>1, <1>8 DEF Calm, Knows, KnowsOf, Camera
  <2>2. at = {m.val.ip}
    BY <2>1 DEF At, At0, Sound, Unique, UniqueIn
  <2>3. v = rows[m.val.ip] /\ v.ip = m.val.ip /\ l = b
    BY <2>1, <2>2 DEF At0, Sound, Unique, UniqueIn
  <2>4. l.pc = "logout_use" /\ l.val = v /\ Held(l) = {}
    BY <1>4, <1>5, <2>2, <2>3 DEF Held
  <2>. HIDE DEF l, v, at
  <2>5. KnowsOf(l)
    BY <1>5, <2>3, <2>4 DEF KnowsOf, Adds, Wrote, Uses
  <2>6. /\ \A i \in IP : BusyOf(m, i) => BusyOf(l, i)
        /\ \A id \in Id : TellsOf(m, id) => TellsOf(l, id)
        /\ m.pc \notin Moves /\ m.pc # "reset"
    BY <1>1, <2>3, <2>4 DEF BusyOf, TellsOf, Wrote, Uses, Moves
  <2>. HIDE DEF Calm
  <2>. QED
    BY <1>2, <1>5, <1>6, <1>8, <2>5, <2>6, GoesCalm
<1>. QED
  BY <1>7, <1>8 DEF Good

LEMMA BeginsKeep ==
    ASSUME Sound, NEW t \in Task, NEW i \in IP,
           LogoutBegin(t, i) \/ DeleteBegin(t, i) \/ ManualBegin(t, i)
    PROVE  Good
<1>1. PICK pc \in {"logout", "delete", "manual"} :
         /\ Goes(t, Reads(t, i, pc))
         /\ pc = "manual" <=> rows[i] = None
  BY DEF LogoutBegin, DeleteBegin, ManualBegin
<1>. DEFINE l == Reads(t, i, pc)
<1>2. loc[t].pc = "idle" /\ Typed /\ out' = out
  BY Types, AsksTyped DEF LogoutBegin, DeleteBegin, ManualBegin, Asks, Is, Sound
<1>3. rows[i] \in Camera \cup {None} /\ (rows[i] # None => rows[i].ip = i)
  BY Types DEF Sound, Rows, Unique, UniqueIn
<1>4. /\ l \in Local /\ l.pc = pc /\ l.ip = i /\ l.val = rows[i] /\ l.obj = None
      /\ l.cand = {} /\ l.due = {}
  BY <1>3, IdleIs DEF Reads, Local, RequestPc
<1>5. Goes(t, l)
  BY <1>1
<1>. HIDE DEF l
<1>6. ShapeOf(l, heap)
  BY <1>1, <1>3, <1>4, Nones
     DEF ShapeOf, Wrote, Uses, Moves, Adds, Verifies, RequestPc
<1>7. \A o \in Refs(l) : o # None => heap[o] # None
  BY <1>4 DEF Refs
<1>8. KnowsOf(l)
  BY <1>1, <1>3, <1>4 DEF KnowsOf, Held, Wrote, Uses, Adds
<1>9. Unburdened(t)
  BY <1>2 DEF Unburdened, Wrote, Uses, Moves
<1>. QED
  BY <1>2, <1>4, <1>5, <1>6, <1>7, <1>8, <1>9, GoesOn

(***************************************************************************)
(* Taking a candidate to another address.                                  *)
(***************************************************************************)
LEMMA RebindMoves ==
    ASSUME Sound, NEW t \in Task, loc[t].pc = "owner",
           ScanOnly, At(rows, heap[loc[t].obj].id) # {},
           loc[t].ip \in At(rows, heap[loc[t].obj].id) \/ rows[loc[t].ip] = None,
           Acts(t, [loc[t] EXCEPT !.pc = "rebound", !.val = None], known, heap,
                [i \in IP |->
                    IF i = loc[t].ip
                    THEN [rows[CHOOSE j \in At(rows, heap[loc[t].obj].id) : TRUE]
                             EXCEPT !.ip = i]
                    ELSE IF i \in At(rows, heap[loc[t].obj].id) THEN None
                    ELSE rows[i]], {})
    PROVE  Good
<1>. DEFINE m == loc[t]
            o == m.obj
            id == heap[o].id
            from == At(rows, id)
            j == CHOOSE i \in from : TRUE
            c == [rows[j] EXCEPT !.ip = m.ip]
            R == [i \in IP |-> IF i = m.ip THEN [rows[j] EXCEPT !.ip = i]
                               ELSE IF i \in from THEN None ELSE rows[i]]
            l == [m EXCEPT !.pc = "rebound", !.val = None]
<1>1. /\ m \in Local /\ m.ip \in IP /\ o \in m.cand /\ o # None /\ m.due = {}
      /\ rows \in Rows /\ known \in Caching /\ heap \in Heaps
      /\ UniqueIn(rows) /\ o \in Refs(m) /\ o \in Held(m)
  BY Types, Nones DEF Sound, Unique, Shape, ShapeOf, Adds, Moves, Local, Verifies,
                      Refs, Held
<1>2. o \in Obj /\ heap[o] \in Camera /\ heap[o].ip \in IP
  BY <1>1, RefsUsed DEF Camera
<1>3. j \in IP /\ At0(j, id) /\ from = {j}
  BY <1>1 DEF At, At0, UniqueIn
<1>4. rows[j] \in Camera /\ rows[j].ip = j
  BY <1>1, <1>3, Nones DEF At0, Rows, UniqueIn
<1>5. c \in Camera /\ c.ip = m.ip /\ c.id = id /\ c.auth = rows[j].auth
  BY <1>1, <1>3, <1>4 DEF Camera, At0
<1>6. R[m.ip] = c /\ \A i \in IP : i # m.ip => R[i] = IF i = j THEN None ELSE rows[i]
  BY <1>1, <1>3
<1>7. R = [i \in IP |-> IF i = m.ip THEN c ELSE IF i = j THEN None ELSE rows[i]]
  BY <1>3
<1>8. Acts(t, l, known, heap, R, {})
  OBVIOUS
<1>. HIDE DEF c, j, from, id
<1>10. R \in Rows
  BY <1>1, <1>5, <1>7 DEF Rows
<1>. HIDE DEF R
<1>11. UniqueIn(R)
  BY <1>1, <1>3, <1>5, <1>6 DEF UniqueIn, At0
<1>12. /\ l \in Local /\ l.pc = "rebound" /\ l.ip = m.ip /\ l.obj = o
       /\ l.val = None /\ l.cand = m.cand /\ l.due = {}
  BY <1>1 DEF Local, PassPc
<1>. HIDE DEF l
<1>13. ShapeOf(l, heap)
  BY <1>1, <1>12 DEF ShapeOf, Wrote, Uses, Moves, Adds, Verifies, RequestPc
<1>14. \A q \in Refs(l) : q # None => heap[q] # None
  BY <1>1, <1>12, RefsUsed, Nones DEF Refs
<1>15. Typed /\ out' = out /\ Keeps(heap)
  BY ScanTyped DEF Keeps
<1>16. \A i \in IP : known[i] # None => heap[known[i]] # None /\ heap[known[i]].ip = i
  BY CachedIs, Nones
<1>17. Sound'
  BY <1>1, <1>8, <1>10, <1>11, <1>12, <1>13, <1>14, <1>15, <1>16, SoundActs
<1>18. ASSUME Calm, ~clash' PROVE Calm'
  <2>. DEFINE p == heap[o].ip
  <2>1. /\ known[p] = o /\ known[m.ip] = None /\ rows[m.ip] = None
    BY <1>1, <1>18 DEF Calm, Knows, KnowsOf, Adds
  <2>2. p # m.ip /\ j # m.ip
    BY <1>1, <1>3, <2>1 DEF At0
  <2>3. /\ loc'[t] = l /\ known' = known /\ rows' = R
        /\ \A u \in Task : u # t => loc'[u] = loc[u]
        /\ \A q \in Refs(l) : q # None => heap'[q] = heap[q]
        /\ \A i \in IP : known[i] # None => heap'[known[i]] = heap[known[i]]
        /\ \A i \in IP : Untouched(i) <=> R[i] = rows[i]
    BY <1>1, <1>8, <1>10, <1>12, LeftIs
  <2>4. /\ \A i \in IP : R[i] # rows[i] => i = m.ip \/ i = j
        /\ R[j] = None /\ R[j] # rows[j]
    BY <1>3, <1>6, <2>2 DEF At0
  <2>5. \A u \in Task : u # t => ~Works(u, j)
    BY <1>1, <1>3, <1>8, <1>10, <1>12, <1>18, <2>3, <2>4, WorksUntouched
  <2>6. p = j
    <3>1. CASE At0(p, heap[o].id)
      BY <1>1, <1>2, <1>3, <3>1 DEF At0, UniqueIn, id
    <3>2. CASE Resetting
      <4>1. PICK u \in Task : loc[u].pc = "reset"
        BY <3>2 DEF Resetting
      <4>. QED
        BY <1>3, <2>5, <4>1, WorksOn
    <3>3. CASE \E u \in Task : loc[u].pc \in Moves /\ loc[u].obj = o
      <4>1. PICK u \in Task : loc[u].pc \in Moves /\ loc[u].obj = o
        BY <3>3
      <4>2. u # t /\ o \in Refs(loc[u])
        BY <4>1 DEF Moves, Refs
      <4>. QED
        BY <1>1, <1>3, <2>5, <4>2, WorksOn DEF id
    <3>. QED
      BY <1>1, <1>2, <1>18, <2>1, <3>1, <3>2, <3>3 DEF Calm, Same
  <2>7. rows[p] = heap[o]
    <3>1. \A u \in Task : ~Busy(u, p)
      <4>1. ~Busy(t, p)
        BY DEF Busy, BusyOf, Wrote, Uses, Moves
      <4>2. \A u \in Task : u # t => ~Busy(u, p)
        BY <1>1, <1>2, <1>8, <1>10, <1>12, <1>15, <1>18, <2>3, <2>4, <2>6, OtherBusy
      <4>. QED
        BY <4>1, <4>2
    <3>. QED
      BY <1>1, <1>2, <1>18, <2>1, <3>1 DEF Calm, Fixed, Agree
  <2>8. R[m.ip] = [heap[o] EXCEPT !.ip = m.ip] /\ R[p] = None
    BY <1>1, <1>2, <1>6, <2>2, <2>6, <2>7 DEF c
  <2>9. heap'[o] = heap[o]
    BY <1>1, <1>12, <2>3 DEF Refs
  <2>10. Knows(t)'
    <3>1. \A q \in Held(l) : known[heap'[q].ip] = q
      <4>1. \A q \in Held(l) : q \in Refs(l) /\ q # None
        BY <1>12, Nones DEF Held, Refs, Local
      <4>2. \A q \in Held(l) : q \in Held(m)
        BY <1>1, <1>12 DEF Held
      <4>3. \A q \in Held(m) : known[heap[q].ip] = q
        BY <1>18 DEF Calm, Knows, KnowsOf
      <4>. QED
        BY <2>3, <4>1, <4>2, <4>3
    <3>. QED
      BY <1>1, <1>12, <2>1, <2>3, <2>8, <2>9, <3>1
         DEF Knows, KnowsOf, Held, Wrote, Uses
  <2>11. \A i \in IP : ~Untouched(i) \/ Busy(t, i) => Agree(i)' \/ Busy(t, i)'
    <3>1. \A i \in IP : ~Busy(t, i)
      BY DEF Busy, BusyOf, Wrote, Uses, Moves
    <3>2. \A i \in IP : i = j => Busy(t, i)'
      BY <1>12, <2>3, <2>6, <2>9 DEF Busy, BusyOf, Moves
    <3>3. \A i \in IP : i = m.ip => Agree(i)'
      BY <1>1, <2>1, <2>3 DEF Agree
    <3>. QED
      BY <2>3, <2>4, <3>1, <3>2, <3>3
  <2>12. \A i \in IP : ~Untouched(i) => Same(i)'
    <3>1. \A i \in IP : i = j => Same(i)'
      BY <1>12, <2>1, <2>3, <2>4, <2>6 DEF Same, Moves
    <3>2. \A i \in IP : i = m.ip => Same(i)'
      BY <1>1, <2>1, <2>3 DEF Same
    <3>. QED
      BY <2>3, <2>4, <3>1, <3>2
  <2>13. Wiped'
    <3>1. rows[j].id \in out => ~rows[j].auth
      BY <1>3, <1>18 DEF Calm, Wiped, At0
    <3>2. ASSUME NEW i \in IP, R[i] # None, R[i].id \in out
          PROVE  ~R[i].auth
      <4>1. CASE i = m.ip
        BY <1>3, <1>5, <1>6, <3>1, <3>2, <4>1 DEF At0
      <4>2. CASE i # m.ip
        BY <1>6, <1>18, <3>2, <4>2 DEF Calm, Wiped
      <4>. QED
        BY <4>1, <4>2
    <3>. QED
      BY <1>15, <2>3, <3>2 DEF Wiped
  <2>14. ASSUME NEW d \in Id, Recorded(R, d) # Recorded(rows, d) \/ Tells(t, d)
         PROVE  Tells(t, d)'
    <3>1. ~Tells(t, d)
      BY DEF Tells, TellsOf, Wrote, Uses
    <3>2. PICK i \in IP : ~(i \in Recorded(R, d) <=> i \in Recorded(rows, d))
      BY <2>14, <3>1 DEF Recorded, At
    <3>3. R[i] # rows[i]
      BY <3>2 DEF Recorded, At
    <3>4. (R[i] # None /\ R[i].id = d) \/ (rows[i] # None /\ rows[i].id = d)
      BY <3>2 DEF Recorded, At
    <3>5. d = id
      BY <1>3, <1>5, <1>6, <2>1, <2>4, <3>3, <3>4 DEF At0
    <3>. QED
      BY <1>12, <2>3, <2>9, <3>5 DEF Tells, TellsOf, id
  <2>15. m.pc \notin Moves
    BY DEF Moves
  <2>. HIDE DEF Calm
  <2>. QED
    BY <1>1, <1>8, <1>10, <1>12, <1>15, <1>18, <2>10, <2>11, <2>12, <2>13, <2>14,
       <2>15, CalmActs
<1>. QED
  BY <1>17, <1>18 DEF Good

LEMMA RebindKeeps ==
    ASSUME Sound, NEW t \in Task, Rebind(t)
    PROVE  Good
<1>. DEFINE m == loc[t]
            id == heap[m.obj].id
            from == At(rows, id)
            on == [m EXCEPT !.pc = "rebound", !.val = None]
<1>1. /\ m \in Local /\ m.pc = "owner" /\ m.ip \in IP /\ m.obj \in m.cand
      /\ m.obj # None /\ m.due = {}
  BY Types, Nones DEF Sound, Rebind, Is, Shape, ShapeOf, Adds, Local, Verifies
<1>2. Typed /\ out' = out /\ ScanOnly /\ Unburdened(t)
  BY <1>1, ScanTyped DEF Rebind, Unburdened, Wrote, Uses, Moves
<1>3. CASE Goes(t, Interrogates(m))
  <2>1. /\ ShapeOf(Interrogates(m), heap) /\ Interrogates(m) \in Local
        /\ \A o \in Refs(Interrogates(m)) : o # None => heap[o] # None
        /\ Calm => KnowsOf(Interrogates(m))
    BY <1>1, InterrogatesSound, InterrogatesIs
  <2>. QED
    BY <1>2, <1>3, <2>1, GoesOn
<1>4. CASE from = {} /\ Goes(t, on)
  <2>1. /\ on \in Local /\ on.pc = "rebound" /\ on.ip = m.ip /\ on.obj = m.obj
        /\ on.val = None /\ on.cand = m.cand /\ on.due = {}
    BY <1>1 DEF Local, PassPc
  <2>2. Goes(t, on)
    BY <1>4
  <2>. HIDE DEF on
  <2>3. ShapeOf(on, heap)
    BY <1>1, <2>1 DEF ShapeOf, Wrote, Uses, Moves, Adds, Verifies, RequestPc
  <2>4. \A q \in Refs(on) : q # None => heap[q] # None
    BY <1>1, <2>1, RefsUsed, Nones DEF Refs
  <2>5. ASSUME Calm PROVE KnowsOf(on)
    <3>1. known[heap[m.obj].ip] = m.obj /\ heap[m.obj].ip \in IP
      <4>1. m.obj \in Refs(m) /\ m.obj \in Held(m)
        BY <1>1 DEF Refs, Held
      <4>. QED
        BY <1>1, <2>5, <4>1, RefsUsed DEF Calm, Knows, KnowsOf, Camera
    <3>2. Resetting
      BY <1>1, <1>4, <2>5, <3>1, NoRow
    <3>. QED
      BY <1>1, <2>1, <2>5, <3>2 DEF Calm, Knows, KnowsOf, Held, Adds, Wrote, Uses
  <2>. QED
    BY <1>2, <2>1, <2>2, <2>3, <2>4, <2>5, GoesOn
<1>5. CASE Goes(t, Failed(m))
  BY <1>1, <1>2, <1>5, FailedIs, RestToRest
<1>6. CASE /\ from # {} /\ (m.ip \in from \/ rows[m.ip] = None)
           /\ Acts(t, on, known, heap,
                   [i \in IP |-> IF i = m.ip
                                 THEN [rows[CHOOSE j \in from : TRUE] EXCEPT !.ip = i]
                                 ELSE IF i \in from THEN None ELSE rows[i]], {})
  BY <1>1, <1>2, <1>6, RebindMoves
<1>. QED
  BY <1>3, <1>4, <1>5, <1>6 DEF Rebind

(***************************************************************************)
(* A row that was read goes to the cache.                                  *)
(***************************************************************************)
LEMMA CacheKeeps ==
    ASSUME Sound, NEW t \in Task, NEW c \in Camera, NEW l \in Local,
           NEW k \in Caching, NEW told, Free # {},
           Acts(t, l, k, With(c), rows, told), Typed, out' = out,
           k[c.ip] = NewObj,
           \A i \in IP : i # c.ip => k[i] = known[i] \/ k[i] = None,
           \A q \in Refs(l) : q # None => q \in Refs(loc[t]) \cup {NewObj},
           ShapeOf(l, With(c)),
           l.pc \in {"idle", "next", "unstream", "register"}, loc[t].pc # "reset",
           Calm => rows[c.ip] = c,
           Calm => \A i \in IP : Busy(t, i) => k[i] = None \/ i = c.ip,
           Calm => \A i \in IP : loc[t].pc \in Moves /\ loc[t].obj = known[i] =>
                      k[i] = None \/ i = c.ip,
           Calm => \A q \in Held(l) :
                      \/ q = NewObj
                      \/ /\ q \in Held(loc[t]) /\ heap[q].ip # c.ip
                         /\ k[heap[q].ip] = known[heap[q].ip],
           Calm => \A id \in Id : Tells(t, id) =>
              \/ id \in told
              \/ l.pc \in {"unstream", "register"} /\ l.obj = NewObj /\ c.id = id
    PROVE  Good
<1>. DEFINE h == With(c)
            p == c.ip
<1>1. /\ known \in Caching /\ rows \in Rows /\ heap \in Heaps /\ UniqueIn(rows)
      /\ p \in IP
  BY Types DEF Sound, Unique, Camera
<1>2. /\ h \in Heaps /\ h[NewObj] = c /\ Keeps(h)
      /\ \A o \in Obj : o # NewObj => h[o] = heap[o]
      /\ NewObj \in Obj /\ heap[NewObj] = None
  BY <1>1, WithIs, NewObjIs
<1>. HIDE DEF h
<1>3. \A i \in IP : known[i] # None =>
         /\ known[i] \in Obj /\ heap[known[i]] \in Camera /\ heap[known[i]].ip = i
         /\ known[i] # NewObj /\ h[known[i]] = heap[known[i]]
  BY <1>2, CachedIs, Nones
<1>4. \A o \in Refs(loc[t]) : o # None => o \in Obj /\ heap[o] \in Camera
  BY RefsUsed
<1>5. \A q \in Refs(l) : q # None => h[q] # None
  BY <1>2, <1>4, Nones
<1>6. \A i \in IP : k[i] # None => h[k[i]] # None /\ h[k[i]].ip = i
  BY <1>1, <1>2, <1>3, Nones
<1>7. Acts(t, l, k, h, rows, told) /\ ShapeOf(l, h)
  BY DEF h
<1>8. Sound'
  BY <1>1, <1>2, <1>5, <1>6, <1>7, SoundActs
<1>9. ASSUME Calm, ~clash' PROVE Calm'
  <2>1. /\ loc'[t] = l /\ known' = k /\ rows' = rows
        /\ \A q \in Refs(l) : q # None => q \in Obj /\ heap'[q] = h[q]
        /\ \A i \in IP : k[i] # None => heap'[k[i]] = h[k[i]]
        /\ \A i \in IP : Untouched(i) <=>
             /\ rows[i] = rows[i] /\ k[i] = known[i]
             /\ known[i] # None => h[known[i]] = heap[known[i]]
    BY <1>1, <1>2, <1>7, LeftIs
  <2>2. rows[p] = c
    BY <1>9
  <2>3. ASSUME NEW q \in Held(l) PROVE known'[heap'[q].ip] = q
    <3>1. q \in Refs(l) /\ q # None
      BY Nones DEF Held, Refs, Local
    <3>2. CASE q = NewObj
      BY <1>2, <2>1, <3>1, <3>2
    <3>3. CASE /\ q \in Held(loc[t]) /\ heap[q].ip # p
               /\ k[heap[q].ip] = known[heap[q].ip] /\ q # NewObj
      <4>1. known[heap[q].ip] = q
        BY <1>9, <3>3 DEF Calm, Knows, KnowsOf
      <4>. QED
        BY <1>2, <2>1, <3>1, <3>3, <4>1
    <3>. QED
      BY <1>9, <2>3, <3>2, <3>3
  <2>4. Knows(t)'
    BY <2>1, <2>3 DEF Knows, KnowsOf, Held, Adds, Wrote, Uses
  <2>5. \A i \in IP : ~Untouched(i) => k[i] = None \/ i = p
    BY <1>3, <2>1
  <2>6. \A i \in IP : k[i] = None => Agree(i)' /\ Same(i)'
    BY <2>1 DEF Agree, Same
  <2>7. \A i \in IP : i = p => Agree(i)' /\ Same(i)'
    BY <1>2, <2>1, <2>2, Nones DEF Agree, Same, At0
  <2>8. Wiped'
    BY <1>9, <2>1 DEF Calm, Wiped
  <2>9. ASSUME NEW id \in Id, Tells(t, id)
        PROVE  id \in told \/ Tells(t, id)'
    <3>1. CASE l.pc \in {"unstream", "register"} /\ l.obj = NewObj /\ c.id = id
      BY <1>2, <2>1, <3>1, Nones DEF Tells, TellsOf, Refs
    <3>. QED
      BY <1>9, <2>9, <3>1
  <2>10. \A i \in IP : Busy(t, i) => k[i] = None \/ i = p
    BY <1>9
  <2>11. \A i \in IP : loc[t].pc \in Moves /\ loc[t].obj = known[i] =>
            k[i] = None \/ i = p
    BY <1>9
  <2>12. /\ \A i \in IP : ~Untouched(i) \/ Busy(t, i) => Agree(i)'
         /\ \A i \in IP : \/ ~Untouched(i)
                          \/ loc[t].pc \in Moves /\ loc[t].obj = known[i]
                          => Same(i)'
    BY <2>5, <2>6, <2>7, <2>10, <2>11
  <2>. HIDE DEF Calm
  <2>. QED
    BY <1>1, <1>2, <1>7, <1>9, <2>4, <2>8, <2>9, <2>12, CalmActs
<1>. QED
  BY <1>8, <1>9 DEF Good

\* The cache with c at its address, and what a task used to hold.
LEMMA CachesIs ==
    ASSUME Sound, NEW t \in Task, NEW c \in Camera, NEW l, NEW told,
           Caches(t, l, c, told)
    PROVE  /\ Free # {} /\ NewObj \in Obj
           /\ [known EXCEPT ![c.ip] = NewObj] \in Caching
           /\ [known EXCEPT ![c.ip] = NewObj][c.ip] = NewObj
           /\ \A i \in IP : i # c.ip =>
                 [known EXCEPT ![c.ip] = NewObj][i] = known[i]
           /\ Acts(t, l, [known EXCEPT ![c.ip] = NewObj], With(c), rows, told)
<1>1. Free # {} /\ NewObj \in Obj
  BY NewObjIs DEF Caches
<1>2. known \in Caching /\ c.ip \in IP
  BY Types DEF Sound, Camera
<1>. QED
  BY <1>1, <1>2 DEF Caches, Caching

\* To the cache from a task that goes on to other cameras, or ends.
LEMMA CachesToRest ==
    ASSUME Sound, NEW t \in Task, loc[t].val # None, NEW l \in Local, NEW told,
           Caches(t, l, loc[t].val, told), Typed, out' = out,
           l = Idle \/ (l = Turned(loc[t]) /\ loc[t].pc \in {"stored", "new_use"}),
           loc[t].pc \in {"stored", "new_use", "logout_use", "manual_use"},
           loc[t].pc # "stored" => told = {loc[t].val.id}
    PROVE  Good
<1>. DEFINE m == loc[t]
            c == m.val
            k == [known EXCEPT ![c.ip] = NewObj]
<1>1. /\ m \in Local /\ c \in Camera /\ known \in Caching /\ c.ip \in IP
  BY Types DEF Sound, Local, Camera
<1>2. /\ Free # {} /\ NewObj \in Obj /\ k \in Caching /\ k[c.ip] = NewObj
      /\ \A i \in IP : i # c.ip => k[i] = known[i]
      /\ Acts(t, l, k, With(c), rows, told)
  BY <1>1, CachesIs
<1>3. /\ m.pc \in {"stored", "new_use"} => m.ip \in IP /\ c.ip = m.ip /\ m.due = {}
      /\ m.pc \notin Moves \cup {"reset"}
  BY DEF Sound, Shape, ShapeOf, Adds, Verifies, Moves
<1>. HIDE DEF k
<1>4. /\ l.pc \in {"idle", "next"} /\ l.obj = None /\ l.val = None
      /\ l # Idle => l.pc = "next" /\ l.cand = m.cand /\ l.due = m.due
      /\ l = Idle => l.cand = {} /\ l.due = {}
  BY <1>1, IdleIs, TurnedIs
<1>5. ShapeOf(l, With(c))
  BY <1>3, <1>4, RestShape
<1>6. \A q \in Refs(l) : q \in Refs(m) \cup {NewObj}
  <2>1. CASE l = Idle
    BY <1>4, <2>1, IdleIs, <1>3 DEF Refs, Sound, Shape, ShapeOf, Wrote, Uses, Moves
  <2>2. CASE l # Idle
    <3>1. m.obj = None
      BY <2>2 DEF Sound, Shape, ShapeOf, Uses, Moves
    <3>. QED
      BY <1>4, <2>2, <3>1 DEF Refs
  <2>. QED
    BY <2>1, <2>2
<1>7. ASSUME Calm PROVE rows[c.ip] = c
  BY <1>3, <1>7 DEF Calm, Knows, KnowsOf, Uses
<1>8. ASSUME Calm, NEW q \in Held(l)
      PROVE  /\ q \in Held(m) /\ heap[q].ip # c.ip
             /\ k[heap[q].ip] = known[heap[q].ip]
  <2>1. l # Idle /\ m.pc \in {"stored", "new_use"} /\ q \in m.cand \cup m.due
    BY <1>4, <1>8 DEF Held
  <2>2. q \in Held(m) /\ q # None /\ q \in Refs(m)
    BY <1>1, <2>1, Nones DEF Held, Refs, Local
  <2>3. known[m.ip] = None /\ known[heap[q].ip] = q
    BY <1>8, <2>1, <2>2 DEF Calm, Knows, KnowsOf, Adds
  <2>4. heap[q].ip \in IP
    BY <2>2, RefsUsed DEF Camera
  <2>. QED
    BY <1>2, <1>3, <2>1, <2>2, <2>3, <2>4
<1>9. \A i \in IP : Busy(t, i) => i = c.ip
  BY <1>3 DEF Busy, BusyOf
<1>10. ASSUME NEW id \in Id, Tells(t, id), Calm PROVE id \in told
  BY <1>3, <1>7, <1>10 DEF Tells, TellsOf, At0, Wrote, Uses
<1>. HIDE DEF Calm
<1>. QED
  BY <1>1, <1>2, <1>3, <1>4, <1>5, <1>6, <1>7, <1>8, <1>9, <1>10, CacheKeeps

LEMMA CachingKeeps ==
    ASSUME Sound, NEW t \in Task,
           Cached(t) \/ NewUse(t) \/ ManualUse(t) \/ LogoutUse(t)
    PROVE  Good
<1>. DEFINE m == loc[t]
<1>1. m \in Local /\ Idle \in Local /\ Turned(m) \in Local /\ known \in Caching
  BY Types, IdleIs, TurnedIs DEF Sound
<1>2. Typed /\ out' = out
  BY Types, ScanTyped, GoingTyped DEF Cached, NewUse, ManualUse, LogoutUse, Sound
<1>3. m.pc \in Uses => m.val # None
  BY DEF Sound, Shape, ShapeOf
<1>4. CASE Cached(t)
  BY <1>1, <1>2, <1>4, CachesToRest DEF Cached, Is
<1>5. CASE NewUse(t)
  BY <1>1, <1>2, <1>3, <1>5, CachesToRest DEF NewUse, Is, Uses
<1>6. CASE ManualUse(t)
  BY <1>1, <1>2, <1>3, <1>6, CachesToRest DEF ManualUse, Is, Uses
<1>7. CASE LogoutUse(t)
  <2>1. m.pc = "logout_use" /\ m.val # None
    BY <1>3, <1>7 DEF LogoutUse, Is, Uses
  <2>2. CASE Caches(t, Idle, m.val, {m.val.id})
    BY <1>1, <1>2, <2>1, <2>2, CachesToRest
  <2>3. CASE /\ known[m.val.ip] = None
             /\ Acts(t, Idle, known, heap, rows, {m.val.id})
    <3>1. /\ ShapeOf(Idle, heap) /\ KnowsOf(Idle)
          /\ \A q \in Refs(Idle) : q # None => heap[q] # None
      BY IdleIs, RestShape DEF Refs, KnowsOf, Held, Adds, Wrote, Uses
    <3>2. \A i \in IP : known[i] # None =>
             heap[known[i]] # None /\ heap[known[i]].ip = i
      BY CachedIs, Nones
    <3>3. \A i \in IP : Busy(t, i) => Agree(i)
      BY <2>1, <2>3 DEF Busy, BusyOf, Agree, Moves
    <3>4. Calm => \A id \in Id : Tells(t, id) => id \in {m.val.id}
      BY <2>1 DEF Calm, Knows, KnowsOf, Tells, TellsOf, At0, Uses
    <3>5. m.pc \notin Moves \cup {"reset"}
      BY <2>1 DEF Moves
    <3>. HIDE DEF Calm
    <3>. QED
      BY <1>1, <1>2, <2>3, <3>1, <3>2, <3>3, <3>4, <3>5, TellsKeep
  <2>. QED
    BY <1>7, <2>2, <2>3 DEF LogoutUse
<1>. QED
  BY <1>4, <1>5, <1>6, <1>7

\* The new object stays in the hands of the task, to tell of it.
LEMMA CachesToTell ==
    ASSUME Sound, NEW t \in Task, Demoted(t) \/ AuthUse(t)
    PROVE  Good
<1>. DEFINE m == loc[t]
            c == m.val
            k == [known EXCEPT ![c.ip] = NewObj]
<1>1. PICK pc \in {"unstream", "register"} :
         /\ Caches(t, [m EXCEPT !.pc = pc, !.obj = NewObj, !.val = None], c, {})
         /\ pc = "unstream" => m.pc = "demote_use"
         /\ pc = "register" => m.pc = "auth_use"
  BY DEF Demoted, AuthUse, Is
<1>. DEFINE l == [m EXCEPT !.pc = pc, !.obj = NewObj, !.val = None]
<1>2. /\ m \in Local /\ c \in Camera /\ c.ip \in IP /\ m.obj = None
      /\ m.cand = {} /\ known \in Caching
      /\ m.pc = "demote_use" => m.phase = "onvif"
      /\ m.pc = "auth_use" => m.due = {}
  BY <1>1, Types
     DEF Sound, Shape, ShapeOf, Local, Camera, Wrote, Uses, Moves, Verifies, RequestPc
<1>3. /\ Free # {} /\ NewObj \in Obj /\ k \in Caching /\ k[c.ip] = NewObj
      /\ \A i \in IP : i # c.ip => k[i] = known[i]
      /\ Acts(t, l, k, With(c), rows, {})
  BY <1>1, <1>2, CachesIs
<1>12. pc \in PassPc \cup RequestPc
  BY DEF PassPc, RequestPc
<1>4. /\ l \in Local /\ l.pc = pc /\ l.obj = NewObj /\ l.val = None
      /\ l.cand = {} /\ l.due = m.due /\ l.phase = m.phase
  BY <1>2, <1>3, <1>12 DEF Local
<1>5. Typed /\ out' = out
  BY Types, ScanTyped, GoingTyped DEF Demoted, AuthUse, Sound
<1>. HIDE DEF l, k
<1>6. ShapeOf(l, With(c))
  BY <1>1, <1>2, <1>3, <1>4, Nones
     DEF ShapeOf, Wrote, Uses, Moves, Adds, Verifies, RequestPc
<1>7. \A q \in Refs(l) : q \in Refs(m) \cup {NewObj}
  BY <1>4 DEF Refs
<1>8. ASSUME Calm PROVE rows[c.ip] = c
  BY <1>1, <1>8 DEF Calm, Knows, KnowsOf, Uses
<1>9. ASSUME Calm, NEW q \in Held(l), q # NewObj
      PROVE  /\ q \in Held(m) /\ heap[q].ip # c.ip
             /\ k[heap[q].ip] = known[heap[q].ip]
  <2>1. q \in m.due /\ m.pc = "demote_use"
    BY <1>1, <1>2, <1>4, <1>9 DEF Held
  <2>2. q \in Held(m) /\ q # None /\ q \in Refs(m)
    BY <1>2, <2>1, Nones DEF Held, Refs, Local
  <2>3. heap[q].ip # c.ip
    BY <1>9, <2>1 DEF Calm, Knows, KnowsOf
  <2>4. heap[q].ip \in IP
    BY <2>2, RefsUsed DEF Camera
  <2>. QED
    BY <1>3, <2>2, <2>3, <2>4
<1>10. /\ \A i \in IP : Busy(t, i) => i = c.ip
       /\ m.pc \notin Moves \cup {"reset"}
  BY <1>1 DEF Busy, BusyOf, Moves
<1>11. ASSUME NEW id \in Id, Tells(t, id), Calm PROVE c.id = id
  BY <1>1, <1>8, <1>11 DEF Tells, TellsOf, At0
<1>. HIDE DEF Calm
<1>. QED
  BY <1>1, <1>2, <1>3, <1>4, <1>5, <1>6, <1>7, <1>8, <1>9, <1>10, <1>11, CacheKeeps

LEMMA MergedKeeps ==
    ASSUME Sound, NEW t \in Task, Merged(t)
    PROVE  Good
<1>. DEFINE m == loc[t]
            c == m.val
            old == heap[m.obj]
            rest == {q \in m.cand : heap[q].id # old.id}
            k == [known EXCEPT ![old.ip] = None, ![m.ip] = NewObj]
            n == Turned(m)
            l == [n EXCEPT !.cand = rest]
<1>1. /\ m \in Local /\ m.pc = "merge_use" /\ c \in Camera /\ m.ip \in IP
      /\ c.ip = m.ip /\ m.obj \in m.cand /\ m.obj # None /\ m.due = {}
      /\ m.obj \in Obj /\ m.obj \in Refs(m) /\ m.obj \in Held(m)
      /\ known \in Caching
  BY Types, Nones
     DEF Sound, Merged, Is, Shape, ShapeOf, Local, Wrote, Uses, Moves, Adds,
         Verifies, Refs, Held
<1>2. old \in Camera /\ old.ip \in IP
  BY <1>1, RefsUsed DEF Camera
<1>3. Free # {} /\ NewObj \in Obj
  BY NewObjIs DEF Merged
<1>4. Acts(t, l, k, With(c), rows, {c.id}) /\ Typed /\ out' = out
  BY ScanTyped DEF Merged
<1>5. /\ k \in Caching /\ k[m.ip] = NewObj
      /\ \A i \in IP : i # m.ip => k[i] = IF i = old.ip THEN None ELSE known[i]
  BY <1>1, <1>2, <1>3 DEF Caching
<1>6. /\ n \in Local /\ n.pc = "next" /\ n.obj = None /\ n.val = None /\ n.due = {}
  BY <1>1, TurnedIs
<1>7. rest \subseteq m.cand
  OBVIOUS
<1>. HIDE DEF n, k, rest
<1>8. /\ l \in Local /\ l.pc = "next" /\ l.obj = None /\ l.val = None
      /\ l.due = {} /\ l.cand = rest
  BY <1>1, <1>6, <1>7 DEF Local
<1>. HIDE DEF l
<1>9. ShapeOf(l, With(c))
  BY <1>8, RestShape
<1>10. \A q \in Refs(l) : q # None => q \in Refs(m) \cup {NewObj}
  BY <1>7, <1>8 DEF Refs
<1>11. ASSUME Calm
       PROVE  /\ known[old.ip] = m.obj /\ known[m.ip] = None /\ rows[m.ip] = c
              /\ rows[m.ip].id = old.id
  BY <1>1, <1>11 DEF Calm, Knows, KnowsOf, Adds, Uses, At0
<1>12. ASSUME Calm, NEW q \in Held(l)
       PROVE  /\ q \in Held(m) /\ heap[q].ip # m.ip
              /\ k[heap[q].ip] = known[heap[q].ip]
  <2>1. q \in m.cand /\ heap[q].id # old.id
    BY <1>8, <1>12 DEF Held, rest
  <2>2. q \in Held(m) /\ q # None /\ q \in Refs(m)
    BY <1>1, <2>1, Nones DEF Held, Refs, Local
  <2>3. known[heap[q].ip] = q
    BY <1>12, <2>2 DEF Calm, Knows, KnowsOf
  <2>4. heap[q].ip \in IP
    BY <2>2, RefsUsed DEF Camera
  <2>5. heap[q].ip # m.ip /\ heap[q].ip # old.ip
    BY <1>11, <1>12, <2>1, <2>2, <2>3
  <2>. QED
    BY <1>5, <2>2, <2>4, <2>5
<1>13. \A i \in IP : Busy(t, i) => i = m.ip \/ i = old.ip
  BY <1>1 DEF Busy, BusyOf
<1>14. \A i \in IP : m.obj = known[i] => i = old.ip
  BY <1>1, CachedIs
<1>15. ASSUME NEW id \in Id, Tells(t, id), Calm PROVE id \in {c.id}
  BY <1>1, <1>11, <1>15 DEF Tells, TellsOf, At0
<1>16. \A i \in IP : i = old.ip => k[i] = None \/ i = c.ip
  BY <1>1, <1>5
<1>17. \A i \in IP : i # c.ip => k[i] = known[i] \/ k[i] = None
  BY <1>1, <1>5
<1>. HIDE DEF Calm
<1>. QED
  BY <1>1, <1>3, <1>4, <1>5, <1>8, <1>9, <1>10, <1>11, <1>12, <1>13, <1>14, <1>15,
     <1>16, <1>17, CacheKeeps

(***************************************************************************)
(* Marks, deletions and the reset.                                         *)
(***************************************************************************)
LEMMA AuthBeginKeeps ==
    ASSUME Sound, NEW t \in Task, NEW i \in IP, AuthBegin(t, i)
    PROVE  Good
<1>. DEFINE h == With(rows[i])
            l == [Idle EXCEPT !.pc = "auth", !.ip = i, !.obj = NewObj]
<1>1. /\ rows \in Rows /\ known \in Caching /\ heap \in Heaps /\ UniqueIn(rows)
      /\ rows[i] \in Camera /\ rows[i].ip = i /\ loc[t].pc = "idle"
  BY Types
     DEF AuthBegin, Asks, Is, Rows, Sound, Unique, UniqueIn
<1>2. /\ h \in Heaps /\ h[NewObj] = rows[i] /\ Keeps(h)
      /\ \A o \in Obj : o # NewObj => h[o] = heap[o]
      /\ NewObj \in Obj /\ heap[NewObj] = None
  BY <1>1, WithIs, NewObjIs DEF AuthBegin
<1>3. Acts(t, l, known, h, rows, {}) /\ Typed /\ out' = out
  BY Types, AsksTyped DEF AuthBegin, Sound
<1>4. /\ l \in Local /\ l.pc = "auth" /\ l.ip = i /\ l.obj = NewObj /\ l.val = None
      /\ l.cand = {} /\ l.due = {}
  BY <1>2, IdleIs DEF Local, RequestPc
<1>. HIDE DEF h, l
<1>5. ShapeOf(l, h)
  BY <1>2, <1>4, Nones DEF ShapeOf, Wrote, Uses, Moves, Adds, Verifies, RequestPc
<1>6. \A q \in Refs(l) : q # None => h[q] # None
  BY <1>1, <1>2, <1>4, Nones DEF Refs
<1>7. \A j \in IP : known[j] # None =>
         /\ h[known[j]] = heap[known[j]] /\ h[known[j]] # None
         /\ h[known[j]].ip = j
  BY <1>2, CachedIs, Nones
<1>8. Sound'
  BY <1>1, <1>2, <1>3, <1>4, <1>5, <1>6, <1>7, SoundActs
<1>9. ASSUME Calm, ~clash' PROVE Calm'
  <2>1. /\ loc'[t] = l /\ known' = known /\ rows' = rows
        /\ \A q \in Refs(l) : q # None => q \in Obj /\ heap'[q] = h[q]
    BY <1>1, <1>2, <1>3, <1>4, LeftIs
  <2>2. \A j \in IP : Untouched(j)
    BY <1>1, <1>2, <1>3, <1>4, <1>7, LeftIs
  <2>3. heap'[l.obj] = rows[i]
    BY <1>2, <1>4, <2>1, Nones DEF Refs
  <2>4. Knows(t)'
    BY <1>1, <1>4, <2>1, <2>3 DEF Knows, KnowsOf, Held, Wrote, Uses, Adds
  <2>5. /\ \A j \in IP : ~Busy(t, j)
        /\ \A id \in Id : ~Tells(t, id)
        /\ loc[t].pc \notin Moves \cup {"reset"}
    BY <1>1 DEF Busy, BusyOf, Tells, TellsOf, Moves, Wrote, Uses
  <2>6. Wiped'
    BY <1>3, <1>9, <2>1 DEF Calm, Wiped
  <2>. HIDE DEF Calm
  <2>. QED
    BY <1>1, <1>2, <1>3, <1>4, <1>9, <2>2, <2>4, <2>5, <2>6, CalmActs
<1>. QED
  BY <1>8, <1>9 DEF Good

\* A row found by its id is found at one address.
LEMMA OneRow ==
    ASSUME Sound, NEW i \in IP, NEW id, At0(i, id)
    PROVE  At(rows, id) = {i}
BY DEF At, At0, Sound, Unique, UniqueIn

LEMMA UnreachableKeeps ==
    ASSUME Sound, NEW t \in Task, Unreachable(t)
    PROVE  Good
<1>. DEFINE m == loc[t]
            o == m.obj
            c == heap[o]
            d == [c EXCEPT !.status = "offline"]
            h == [heap EXCEPT ![o] = d]
            R == [i \in IP |-> IF i \in At(rows, c.id)
                               THEN [rows[i] EXCEPT !.status = "offline"] ELSE rows[i]]
            l == [m EXCEPT !.pc = "file", !.tell = TRUE]
<1>1. /\ m \in Local /\ m.pc = "port" /\ m.ip \in IP /\ m.val = None /\ o # None
      /\ c.ip = m.ip /\ m.due = {} /\ o \in Refs(m) /\ o \in Held(m)
      /\ rows \in Rows /\ known \in Caching /\ heap \in Heaps /\ UniqueIn(rows)
  BY Types DEF Sound, Unique, Unreachable, Is, Shape, ShapeOf, Verifies, Adds, Refs, Held
<1>2. o \in Obj /\ c \in Camera
  BY <1>1, RefsUsed
<1>3. Typed /\ out' = out /\ Unburdened(t)
  BY <1>1, ScanTyped DEF Unreachable, Unburdened, Wrote, Uses, Moves
<1>4. CASE Goes(t, Turned(m))
  BY <1>1, <1>3, <1>4, TurnedIs, RestToRest DEF Verifies
<1>5. CASE c.status # "offline" /\ Acts(t, l, known, h, R, {})
  <2>1. /\ d \in Camera /\ d.id = c.id /\ d.ip = c.ip /\ d.auth = c.auth /\ d # c
    BY <1>2, <1>5 DEF Camera, Status
  <2>2. \A i \in IP : i \in At(rows, c.id) =>
           /\ [rows[i] EXCEPT !.status = "offline"] \in Camera
           /\ [rows[i] EXCEPT !.status = "offline"].id = rows[i].id
           /\ [rows[i] EXCEPT !.status = "offline"].ip = rows[i].ip
           /\ [rows[i] EXCEPT !.status = "offline"].auth = rows[i].auth
    <3>1. ASSUME NEW i \in IP, i \in At(rows, c.id)
          PROVE  rows[i] \in Camera
      BY <1>1, <3>1 DEF At, Rows
    <3>. QED
      BY <3>1 DEF Camera, Status
  <2>3. R \in Rows
    BY <1>1, <2>2 DEF Rows
  <2>4. \A i \in IP : /\ R[i] = None <=> rows[i] = None
                      /\ R[i] # None => /\ R[i].id = rows[i].id /\ R[i].ip = rows[i].ip
                                        /\ R[i].auth = rows[i].auth
                      /\ i \notin At(rows, c.id) => R[i] = rows[i]
    BY <2>2, Nones DEF At
  <2>6. At0(m.ip, c.id) /\ rows[m.ip] = c => R[m.ip] = d
    BY <1>1 DEF At, At0
  <2>7. Acts(t, l, known, h, R, {})
    BY <1>5
  <2>. HIDE DEF R, d
  <2>5. UniqueIn(R)
    BY <1>1, <2>4 DEF UniqueIn
  <2>8. h \in Heaps /\ h[o] = d /\ \A q \in Obj : q # o => h[q] = heap[q]
    BY <1>1, <1>2, <2>1 DEF Heaps
  <2>9. /\ l \in Local /\ l.pc = "file" /\ l.ip = m.ip /\ l.val = None
        /\ l.obj = o /\ l.cand = m.cand /\ l.due = {} /\ l.tell = TRUE
    BY <1>1 DEF Local, PassPc
  <2>. HIDE DEF h, l
  <2>10. ShapeOf(l, h)
    BY <1>1, <2>1, <2>8, <2>9
       DEF ShapeOf, Adds, Wrote, Uses, Moves, Verifies, RequestPc
  <2>11. \A q \in Refs(l) : q # None => h[q] # None
    BY <1>1, <2>1, <2>8, <2>9, RefsUsed, Nones DEF Refs
  <2>12. Keeps(h)
    BY <1>2, <2>1, <2>8, Nones DEF Keeps
  <2>13. \A i \in IP : known[i] # None => h[known[i]] # None /\ h[known[i]].ip = i
    BY <2>1, <2>8, CachedIs, Nones
  <2>14. Sound'
    BY <1>1, <1>3, <2>3, <2>5, <2>7, <2>8, <2>9, <2>10, <2>11, <2>12, <2>13, SoundActs
  <2>15. ASSUME Calm, ~clash' PROVE Calm'
    <3>. DEFINE p == c.ip
    <3>1. known[p] = o /\ p \in IP
      BY <1>1, <2>15 DEF Calm, Knows, KnowsOf
    <3>2. /\ loc'[t] = l /\ known' = known /\ rows' = R
          /\ \A q \in Refs(l) : q # None => q \in Obj /\ heap'[q] = h[q]
          /\ \A i \in IP : known[i] # None => heap'[known[i]] = h[known[i]]
          /\ \A i \in IP : Untouched(i) <=>
               /\ R[i] = rows[i] /\ known[i] = known[i]
               /\ known[i] # None => h[known[i]] = heap[known[i]]
      BY <1>1, <2>3, <2>7, <2>8, <2>9, LeftIs
    <3>3. ~Untouched(p)
      BY <1>1, <2>1, <2>8, <3>1, <3>2
    <3>4. rows[p] = c
      <4>1. \A u \in Task : u # t => ~Busy(u, p)
        BY <1>1, <2>3, <2>7, <2>8, <2>9, <2>12, <2>15, <3>1, <3>3, OtherBusy
      <4>2. ~Busy(t, p)
        BY <1>1 DEF Busy, BusyOf, Wrote, Uses, Moves
      <4>. QED
        BY <1>1, <2>15, <3>1, <4>1, <4>2 DEF Calm, Fixed, Agree
    <3>5. At(rows, c.id) = {p} /\ R[p] = d
      BY <1>1, <1>2, <2>6, <3>1, <3>4, Nones, OneRow DEF At0
    <3>6. \A i \in IP : i # p => R[i] = rows[i]
      BY <2>4, <3>5
    <3>7. \A i \in IP : ~Untouched(i) => i = p
      BY <2>8, <3>2, <3>6, CachedIs
    <3>8. heap'[o] = d
      BY <1>1, <2>8, <3>1, <3>2
    <3>9. \A i \in IP : i = p => Agree(i)' /\ Same(i)'
      BY <1>2, <2>1, <3>1, <3>2, <3>5, <3>8, Nones DEF Agree, Same, At0
    <3>10. Knows(t)'
      <4>1. \A q \in Held(l) : q \in Refs(l) /\ q # None /\ q \in Held(m)
        BY <1>1, <2>9, Nones DEF Held, Refs, Local
      <4>2. \A q \in Held(m) : known[heap[q].ip] = q
        BY <2>15 DEF Calm, Knows, KnowsOf
      <4>3. \A q \in Held(l) : known[heap'[q].ip] = q
        BY <2>1, <2>8, <3>2, <4>1, <4>2
      <4>. QED
        BY <2>9, <3>2, <4>3 DEF Knows, KnowsOf, Held, Wrote, Uses, Adds
    <3>11. Wiped'
      BY <1>3, <2>4, <2>15, <3>2 DEF Calm, Wiped
    <3>12. ASSUME NEW id \in Id, Recorded(R, id) # Recorded(rows, id) \/ Tells(t, id)
           PROVE  Tells(t, id)'
      <4>1. ~Tells(t, id)
        BY <1>1 DEF Tells, TellsOf, Wrote, Uses
      <4>2. id = c.id
        BY <2>1, <3>4, <3>5, <3>6, <3>12, <4>1, RecordedIs DEF At0
      <4>. QED
        BY <2>1, <2>9, <3>2, <3>8, <4>2 DEF Tells, TellsOf
    <3>13. /\ \A i \in IP : ~Busy(t, i)
           /\ m.pc \notin Moves \cup {"reset"}
      BY <1>1 DEF Busy, BusyOf, Wrote, Uses, Moves
    <3>. HIDE DEF Calm
    <3>. QED
      BY <1>1, <2>3, <2>7, <2>8, <2>9, <2>12, <2>15, <3>7, <3>9, <3>10, <3>11,
         <3>12, <3>13, CalmActs
  <2>. QED
    BY <2>14, <2>15 DEF Good
<1>. QED
  BY <1>4, <1>5 DEF Unreachable, ById

LEMMA LogoutClearKeeps ==
    ASSUME Sound, NEW t \in Task, LogoutClear(t)
    PROVE  Good
<1>. DEFINE m == loc[t]
            id == m.val.id
            p == m.val.ip
            Clear(r) == [r EXCEPT !.auth = FALSE, !.uri = FALSE,
                                  !.status = "needs_auth"]
            R == [i \in IP |-> IF i \in At(rows, id) THEN Clear(rows[i]) ELSE rows[i]]
            l == [m EXCEPT !.pc = "logout_read"]
<1>1. /\ m \in Local /\ m.pc = "logout" /\ m.val # None /\ m.obj = None
      /\ m.cand = {} /\ m.due = {} /\ m.val \in Camera /\ p \in IP /\ id \in Id
      /\ rows \in Rows /\ known \in Caching /\ heap \in Heaps /\ UniqueIn(rows)
  BY Types DEF Sound, Unique, LogoutClear, Is, Shape, ShapeOf, Verifies, RequestPc,
               Local, Camera
<1>2. Acts(t, l, known, heap, R, {})
  BY DEF LogoutClear, ById
<1>3. out' = IF At(rows, id) = {} THEN out ELSE out \cup {id}
  BY DEF LogoutClear
<1>4. Typed
  BY <1>1, <1>3, Types, GoingTyped DEF LogoutClear, Sound
<1>5. \A i \in IP : i \in At(rows, id) =>
         /\ Clear(rows[i]) \in Camera /\ Clear(rows[i]).id = rows[i].id
         /\ Clear(rows[i]).ip = rows[i].ip /\ Clear(rows[i]).auth = FALSE
  <2>1. ASSUME NEW i \in IP, i \in At(rows, id) PROVE rows[i] \in Camera
    BY <1>1, <2>1 DEF At, Rows
  <2>. QED
    BY <2>1 DEF Camera, Status
<1>. HIDE DEF Clear
<1>6. R \in Rows
  BY <1>1, <1>5 DEF Rows
<1>7. \A i \in IP : /\ R[i] = None <=> rows[i] = None
                    /\ R[i] # None => R[i].id = rows[i].id /\ R[i].ip = rows[i].ip
                    /\ i \notin At(rows, id) => R[i] = rows[i]
                    /\ i \in At(rows, id) => R[i].auth = FALSE
  BY <1>5, Nones DEF At
<1>8. /\ l \in Local /\ l.pc = "logout_read" /\ l.val = m.val /\ l.obj = None
      /\ l.cand = {} /\ l.due = {}
  BY <1>1 DEF Local, RequestPc
<1>. HIDE DEF R, l
<1>9. UniqueIn(R)
  BY <1>1, <1>7 DEF UniqueIn
<1>10. ShapeOf(l, heap)
  BY <1>1, <1>8 DEF ShapeOf, Adds, Wrote, Uses, Moves, Verifies, RequestPc
<1>11. \A q \in Refs(l) : q # None => heap[q] # None
  BY <1>8 DEF Refs
<1>12. Keeps(heap)
  BY DEF Keeps
<1>13. \A i \in IP : known[i] # None => heap[known[i]] # None /\ heap[known[i]].ip = i
  BY CachedIs, Nones
<1>14. Sound'
  BY <1>1, <1>2, <1>4, <1>6, <1>8, <1>9, <1>10, <1>11, <1>12, <1>13, SoundActs
<1>15. ASSUME Calm, ~clash' PROVE Calm'
  <2>1. rows[p] = m.val /\ At0(p, id)
    BY <1>1, <1>15 DEF Calm, Knows, KnowsOf, At0
  <2>2. At(rows, id) = {p} /\ out' = out \cup {id}
    BY <1>1, <1>3, <2>1, OneRow
  <2>3. /\ R[p] # None /\ R[p].id = id /\ R[p].auth = FALSE
        /\ \A i \in IP : i # p => R[i] = rows[i]
    BY <1>1, <1>7, <2>1, <2>2
  <2>4. /\ loc'[t] = l /\ known' = known /\ rows' = R
        /\ \A i \in IP : known[i] # None => heap'[known[i]] = heap[known[i]]
        /\ \A i \in IP : Untouched(i) <=>
             /\ R[i] = rows[i] /\ known[i] = known[i]
             /\ known[i] # None => heap[known[i]] = heap[known[i]]
    BY <1>1, <1>2, <1>6, <1>8, LeftIs
  <2>5. \A i \in IP : ~Untouched(i) => i = p
    BY <2>3, <2>4
  <2>6. \A i \in IP : i = p => Busy(t, i)'
    BY <1>8, <2>4 DEF Busy, BusyOf, Wrote
  <2>7. \A i \in IP : ~Untouched(i) => Same(i)'
    <3>1. \/ known[p] = None \/ At0(p, heap[known[p]].id) \/ Untouched(p)
      <4>1. CASE known[p] # None /\ Agree(p)
        BY <2>1, <4>1 DEF Agree, At0
      <4>2. CASE known[p] # None /\ ~Agree(p)
        <5>1. Same(p)
          BY <1>1, <1>15 DEF Calm
        <5>. QED
          BY <2>1, <4>2, <5>1 DEF Same, At0
      <4>. QED
        BY <4>1, <4>2
    <3>2. CASE known[p] = None
      BY <2>4, <2>5, <3>2 DEF Same
    <3>3. CASE known[p] # None /\ At0(p, heap[known[p]].id)
      BY <1>1, <2>1, <2>3, <2>4, <2>5, <3>3 DEF Same, At0
    <3>. QED
      BY <2>5, <3>1, <3>2, <3>3
  <2>8. Knows(t)'
    BY <1>1, <1>8, <2>3, <2>4 DEF Knows, KnowsOf, Held, At0, Wrote, Uses, Adds
  <2>9. Wiped'
    <3>1. ASSUME NEW i \in IP, R[i] # None, R[i].id \in out' PROVE ~R[i].auth
      <4>1. CASE i = p
        BY <2>3, <4>1
      <4>2. CASE i # p
        <5>1. R[i] = rows[i] /\ rows[i].id # id
          BY <1>1, <2>1, <2>3, <3>1, <4>2 DEF UniqueIn, At0
        <5>. QED
          BY <1>15, <2>2, <3>1, <5>1 DEF Calm, Wiped
      <4>. QED
        BY <4>1, <4>2
    <3>. QED
      BY <2>4, <3>1 DEF Wiped
  <2>10. ASSUME NEW d \in Id, Recorded(R, d) # Recorded(rows, d) \/ Tells(t, d)
         PROVE  Tells(t, d)'
    <3>1. ~Tells(t, d)
      BY <1>1 DEF Tells, TellsOf, Wrote, Uses
    <3>2. d = id
      BY <2>1, <2>3, <2>10, <3>1, RecordedIs DEF At0
    <3>. QED
      BY <1>8, <2>3, <2>4, <3>2 DEF Tells, TellsOf, At0, Wrote
  <2>11. /\ \A i \in IP : ~Busy(t, i)
         /\ m.pc \notin Moves \cup {"reset"}
    BY <1>1 DEF Busy, BusyOf, Wrote, Uses, Moves
  <2>. HIDE DEF Calm
  <2>. QED
    BY <1>1, <1>2, <1>6, <1>8, <1>12, <1>15, <2>5, <2>6, <2>7, <2>8, <2>9, <2>10,
       <2>11, CalmActs
<1>. QED
  BY <1>14, <1>15 DEF Good

LEMMA DeletePopKeeps ==
    ASSUME Sound, NEW t \in Task, DeletePop(t)
    PROVE  Good
<1>. DEFINE m == loc[t]
            p == m.val.ip
            k == [known EXCEPT ![p] = None]
            l == [m EXCEPT !.pc = "delete_row"]
<1>1. /\ m \in Local /\ m.pc = "delete" /\ m.val # None /\ m.obj = None
      /\ m.cand = {} /\ m.due = {} /\ m.val \in Camera /\ p \in IP
      /\ rows \in Rows /\ known \in Caching /\ heap \in Heaps /\ UniqueIn(rows)
  BY Types DEF Sound, Unique, DeletePop, Is, Shape, ShapeOf, Verifies, RequestPc,
               Local, Camera
<1>2. Acts(t, l, k, heap, rows, {}) /\ Typed /\ out' = out
  BY Types, GoingTyped DEF DeletePop, Sound
<1>3. k \in Caching /\ k[p] = None /\ \A i \in IP : i # p => k[i] = known[i]
  BY <1>1 DEF Caching
<1>4. /\ l \in Local /\ l.pc = "delete_row" /\ l.val = m.val /\ l.obj = None
      /\ l.cand = {} /\ l.due = {}
  BY <1>1 DEF Local, RequestPc
<1>. HIDE DEF k, l
<1>5. ShapeOf(l, heap)
  BY <1>1, <1>4 DEF ShapeOf, Adds, Wrote, Uses, Moves, Verifies, RequestPc
<1>6. (\A q \in Refs(l) : q # None => heap[q] # None) /\ Keeps(heap)
  BY <1>4 DEF Refs, Keeps
<1>7. \A i \in IP : k[i] # None => heap[k[i]] # None /\ heap[k[i]].ip = i
  BY <1>3, CachedIs, Nones
<1>8. Sound'
  BY <1>1, <1>2, <1>3, <1>4, <1>5, <1>6, <1>7, SoundActs
<1>9. ASSUME Calm, ~clash' PROVE Calm'
  <2>1. /\ loc'[t] = l /\ known' = k /\ rows' = rows
        /\ \A i \in IP : Untouched(i) <=>
             /\ rows[i] = rows[i] /\ k[i] = known[i]
             /\ known[i] # None => heap[known[i]] = heap[known[i]]
    BY <1>1, <1>2, <1>3, <1>4, LeftIs
  <2>2. \A i \in IP : ~Untouched(i) => i = p
    BY <1>3, <2>1
  <2>3. \A i \in IP : i = p => Agree(i)' /\ Same(i)'
    BY <1>3, <2>1 DEF Agree, Same
  <2>4. rows[p] = m.val
    BY <1>1, <1>9 DEF Calm, Knows, KnowsOf
  <2>5. Knows(t)'
    BY <1>1, <1>3, <1>4, <2>1, <2>4 DEF Knows, KnowsOf, Held, Wrote, Uses, Adds
  <2>6. Wiped'
    BY <1>2, <1>9, <2>1 DEF Calm, Wiped
  <2>7. /\ \A i \in IP : ~Busy(t, i)
        /\ \A id \in Id : ~Tells(t, id)
        /\ m.pc \notin Moves \cup {"reset"}
    BY <1>1 DEF Busy, BusyOf, Tells, TellsOf, Wrote, Uses, Moves
  <2>. HIDE DEF Calm
  <2>. QED
    BY <1>1, <1>2, <1>3, <1>4, <1>6, <1>9, <2>2, <2>3, <2>5, <2>6, <2>7, CalmActs
<1>. QED
  BY <1>8, <1>9 DEF Good

LEMMA DeleteRowKeeps ==
    ASSUME Sound, NEW t \in Task, DeleteRow(t)
    PROVE  Good
<1>. DEFINE m == loc[t]
            id == m.val.id
            p == m.val.ip
            R == [i \in IP |-> IF i \in At(rows, id) THEN None ELSE rows[i]]
<1>1. /\ m \in Local /\ m.pc = "delete_row" /\ m.val # None /\ m.val \in Camera
      /\ p \in IP /\ rows \in Rows /\ known \in Caching /\ heap \in Heaps
      /\ UniqueIn(rows)
  BY Types DEF Sound, Unique, DeleteRow, Is, Shape, ShapeOf, Local, Camera
<1>2. Acts(t, Idle, known, heap, R, {id}) /\ out' = out \ {id}
  BY DEF DeleteRow, ById
<1>3. Typed
  BY <1>2, Types, GoingTyped DEF DeleteRow, Sound
<1>4. /\ R \in Rows
      /\ \A i \in IP : R[i] = rows[i] \/ (R[i] = None /\ i \in At(rows, id))
  BY <1>1 DEF Rows
<1>. HIDE DEF R
<1>5. UniqueIn(R)
  BY <1>1, <1>4 DEF UniqueIn
<1>6. /\ ShapeOf(Idle, heap) /\ Idle \in Local /\ Keeps(heap)
      /\ \A q \in Refs(Idle) : q # None => heap[q] # None
  BY IdleIs, RestShape DEF Refs, Keeps
<1>7. \A i \in IP : known[i] # None => heap[known[i]] # None /\ heap[known[i]].ip = i
  BY CachedIs, Nones
<1>8. Sound'
  BY <1>1, <1>2, <1>3, <1>4, <1>5, <1>6, <1>7, SoundActs
<1>9. ASSUME Calm, ~clash' PROVE Calm'
  <2>1. rows[p] = m.val /\ At0(p, id) /\ known[p] = None
    BY <1>1, <1>9 DEF Calm, Knows, KnowsOf, Uses, At0
  <2>2. At(rows, id) = {p}
    BY <1>1, <2>1, OneRow
  <2>3. /\ loc'[t] = Idle /\ known' = known /\ rows' = R
        /\ \A i \in IP : Untouched(i) <=>
             /\ R[i] = rows[i] /\ known[i] = known[i]
             /\ known[i] # None => heap[known[i]] = heap[known[i]]
    BY <1>1, <1>2, <1>4, <1>6, LeftIs
  <2>4. \A i \in IP : ~Untouched(i) => i = p
    BY <1>4, <2>2, <2>3
  <2>5. \A i \in IP : i = p => Agree(i)' /\ Same(i)'
    BY <2>1, <2>3 DEF Agree, Same
  <2>6. Knows(t)'
    BY <2>3, IdleIs DEF Knows, KnowsOf, Held, Wrote, Uses, Adds
  <2>7. Wiped'
    <3>1. \A i \in IP : R[i] # None => R[i] = rows[i]
      BY <1>4
    <3>. QED
      BY <1>2, <1>9, <2>3, <3>1 DEF Calm, Wiped
  <2>8. ASSUME NEW d \in Id, Recorded(R, d) # Recorded(rows, d) PROVE d \in {id}
    <3>1. \A i \in IP : i # p => R[i] = rows[i]
      BY <1>4, <2>2
    <3>2. R[p] # rows[p] /\ (At0(p, d) \/ (R[p] # None /\ R[p].id = d))
      BY <2>8, <3>1, RecordedIs
    <3>. QED
      BY <1>1, <1>4, <2>1, <3>2 DEF At0
  <2>9. /\ \A i \in IP : ~Busy(t, i)
        /\ \A d \in Id : ~Tells(t, d)
        /\ m.pc \notin Moves \cup {"reset"}
    BY <1>1 DEF Busy, BusyOf, Tells, TellsOf, Wrote, Uses, Moves
  <2>. HIDE DEF Calm
  <2>. QED
    BY <1>1, <1>2, <1>4, <1>6, <1>9, <2>4, <2>5, <2>6, <2>7, <2>8, <2>9, CalmActs
<1>. QED
  BY <1>8, <1>9 DEF Good

LEMMA ResetRowsKeeps ==
    ASSUME Sound, NEW t \in Task, ResetRows(t)
    PROVE  Good
<1>. DEFINE l == [Idle EXCEPT !.pc = "reset"]
            R == [i \in IP |-> None]
<1>1. /\ rows \in Rows /\ known \in Caching /\ heap \in Heaps /\ loc[t].pc = "idle"
  BY Types DEF Sound, ResetRows, Asks, Is
<1>2. Acts(t, l, known, heap, R, {}) /\ out' = {} /\ Typed
  BY AsksTyped DEF ResetRows
<1>3. R \in Rows /\ UniqueIn(R) /\ \A i \in IP : R[i] = None
  BY DEF Rows, UniqueIn
<1>4. /\ l \in Local /\ l.pc = "reset" /\ l.obj = None /\ l.val = None
      /\ l.cand = {} /\ l.due = {}
  BY IdleIs DEF Local, RequestPc
<1>. HIDE DEF l
<1>5. ShapeOf(l, heap)
  BY <1>4 DEF ShapeOf, Adds, Wrote, Uses, Moves, Verifies, RequestPc
<1>6. (\A q \in Refs(l) : q # None => heap[q] # None) /\ Keeps(heap)
  BY <1>4 DEF Refs, Keeps
<1>7. \A i \in IP : known[i] # None => heap[known[i]] # None /\ heap[known[i]].ip = i
  BY CachedIs, Nones
<1>8. Sound'
  BY <1>1, <1>2, <1>3, <1>4, <1>5, <1>6, <1>7, SoundActs
<1>9. ASSUME Calm, ~clash' PROVE Calm'
  <2>1. /\ loc'[t] = l /\ known' = known /\ rows' = R
    BY <1>1, <1>2, <1>3, <1>4, LeftIs
  <2>2. /\ \A i \in IP : Busy(t, i)'
        /\ \A id \in Id : Tells(t, id)'
        /\ Resetting'
    BY <1>4, <2>1 DEF Busy, BusyOf, Tells, TellsOf, Resetting
  <2>3. \A i \in IP : Same(i)'
    BY <1>3, <2>1, <2>2 DEF Same
  <2>4. Knows(t)'
    BY <1>4, <2>1 DEF Knows, KnowsOf, Held, Wrote, Uses, Adds
  <2>5. Wiped'
    BY <1>3, <2>1 DEF Wiped
  <2>. HIDE DEF Calm, R
  <2>. QED
    BY <1>1, <1>2, <1>3, <1>4, <1>6, <1>9, <2>2, <2>3, <2>4, <2>5, CalmActs
<1>. QED
  BY <1>8, <1>9 DEF Good

LEMMA ResetCacheKeeps ==
    ASSUME Sound, NEW t \in Task, ResetCache(t)
    PROVE  Good
<1>. DEFINE k == [i \in IP |-> None]
<1>1. /\ rows \in Rows /\ known \in Caching /\ heap \in Heaps /\ UniqueIn(rows)
  BY Types DEF Sound, Unique
<1>2. Acts(t, Idle, k, heap, rows, Id) /\ Typed /\ out' = out
  BY Types, GoingTyped DEF ResetCache, Sound
<1>3. k \in Caching /\ \A i \in IP : k[i] = None
  BY DEF Caching
<1>. HIDE DEF k
<1>4. /\ ShapeOf(Idle, heap) /\ Idle \in Local /\ Keeps(heap)
      /\ \A q \in Refs(Idle) : q # None => heap[q] # None
  BY IdleIs, RestShape DEF Refs, Keeps
<1>5. Sound'
  BY <1>1, <1>2, <1>3, <1>4, SoundActs
<1>6. ASSUME Calm, ~clash' PROVE Calm'
  <2>1. /\ loc'[t] = Idle /\ known' = k /\ rows' = rows
    BY <1>1, <1>2, <1>3, <1>4, LeftIs
  <2>2. \A i \in IP : Agree(i)' /\ Same(i)'
    BY <1>3, <2>1 DEF Agree, Same
  <2>3. Knows(t)'
    BY <2>1, IdleIs DEF Knows, KnowsOf, Held, Wrote, Uses, Adds
  <2>4. Wiped'
    BY <1>2, <1>6, <2>1 DEF Calm, Wiped
  <2>. HIDE DEF Calm
  <2>. QED
    BY <1>1, <1>2, <1>3, <1>4, <1>6, <2>2, <2>3, <2>4, CalmActs
<1>. QED
  BY <1>5, <1>6 DEF Good

(***************************************************************************)
(* The invariant is kept.                                                  *)
(***************************************************************************)
LEMMA PassKeeps ==
    ASSUME Sound, NEW t \in Pass, PassStep(t)
    PROVE  Good
<1>1. t \in Task
  BY DEF Task
<1>2. CASE ScanBegin(t)
  BY <1>1, <1>2, ScanBeginKeeps
<1>3. CASE ScanFound(t) \/ ScanRtsp(t) \/ ScanLost(t)
  BY <1>1, <1>3, PhasesKeep
<1>4. CASE \E i \in IP : TakeKnown(t, i) \/ TakeNew(t, i) \/ TakeLost(t, i)
  BY <1>1, <1>4, TakeKnownKeeps, TakeNewKeeps, TakeLostKeeps
<1>5. CASE Filed(t)
  BY <1>1, <1>5, FiledKeeps
<1>6. CASE Cached(t) \/ NewUse(t)
  BY <1>1, <1>6, CachingKeeps
<1>7. CASE Identified(t)
  BY <1>1, <1>7, IdentifiedKeeps
<1>8. CASE Rebind(t)
  BY <1>1, <1>8, RebindKeeps
<1>9. CASE Rebound(t)
  BY <1>1, <1>9, ReboundKeeps
<1>10. CASE Merge(t)
  BY <1>1, <1>10, MergeKeeps
<1>11. CASE Merged(t)
  BY <1>1, <1>11, MergedKeeps
<1>12. CASE Interrogate(t)
  BY <1>1, <1>12, InterrogateKeeps
<1>13. CASE Reachable(t)
  BY <1>1, <1>13, ReachableKeeps
<1>14. CASE Unreachable(t)
  BY <1>1, <1>14, UnreachableKeeps
<1>15. CASE VerifyBegin(t) \/ Verdicts(t)
  BY <1>1, <1>15, VerifyKeeps
<1>16. CASE Demote(t)
  BY <1>1, <1>16, DemoteKeeps
<1>17. CASE Demoted(t)
  BY <1>1, <1>17, CachesToTell
<1>18. CASE DemoteTells(t)
  BY <1>1, <1>18, DemoteTellsKeeps
<1>19. CASE ReadBack(t)
  <2>1. Typed /\ out' = out
    BY <1>19, ScanTyped DEF ReadBack
  <2>. QED
    BY <1>1, <1>19, <2>1, ReadBackKeeps
<1>. QED
  BY <1>2, <1>3, <1>4, <1>5, <1>6, <1>7, <1>8, <1>9, <1>10, <1>11, <1>12, <1>13,
     <1>14, <1>15, <1>16, <1>17, <1>18, <1>19 DEF PassStep

LEMMA RequestKeeps ==
    ASSUME Sound, NEW t \in Request, RequestBegins(t) \/ RequestGoes(t)
    PROVE  Good
<1>1. t \in Task
  BY DEF Task
<1>2. CASE \E i \in IP : AuthBegin(t, i)
  BY <1>1, <1>2, AuthBeginKeeps
<1>3. CASE \E i \in IP : LogoutBegin(t, i) \/ DeleteBegin(t, i) \/ ManualBegin(t, i)
  BY <1>1, <1>3, BeginsKeep
<1>4. CASE ResetRows(t)
  BY <1>1, <1>4, ResetRowsKeeps
<1>5. CASE AuthAnswer(t)
  BY <1>1, <1>5, AuthAnswerKeeps
<1>6. CASE AuthUse(t)
  BY <1>1, <1>6, CachesToTell
<1>7. CASE AuthTells(t)
  BY <1>1, <1>7, AuthTellsKeeps
<1>8. CASE SubFound(t)
  BY <1>1, <1>8, SubFoundKeeps
<1>9. CASE SubFile(t)
  BY <1>1, <1>9, SubFileKeeps
<1>10. CASE LogoutClear(t)
  BY <1>1, <1>10, LogoutClearKeeps
<1>11. CASE LogoutRead(t)
  BY <1>1, <1>11, LogoutReadKeeps
<1>12. CASE LogoutUse(t) \/ ManualUse(t)
  BY <1>1, <1>12, CachingKeeps
<1>13. CASE DeletePop(t)
  BY <1>1, <1>13, DeletePopKeeps
<1>14. CASE DeleteRow(t)
  BY <1>1, <1>14, DeleteRowKeeps
<1>15. CASE ManualAnswer(t)
  BY <1>1, <1>15, ManualAnswerKeeps
<1>16. CASE ResetCache(t)
  BY <1>1, <1>16, ResetCacheKeeps
<1>17. CASE ReadBack(t)
  <2>1. Typed /\ out' = out
    BY <1>17, ScanTyped DEF ReadBack
  <2>. QED
    BY <1>1, <1>17, <2>1, ReadBackKeeps
<1>. QED
  BY <1>2, <1>3, <1>4, <1>5, <1>6, <1>7, <1>8, <1>9, <1>10, <1>11, <1>12, <1>13,
     <1>14, <1>15, <1>16, <1>17 DEF RequestBegins, RequestGoes

\* The network and a stutter change nothing that the invariant speaks of.
LEMMA RestKeeps ==
    ASSUME Sound, NetChanges \/ UNCHANGED vars
    PROVE  Good
<1>1. UNCHANGED <<rows, known, heap, loc, asked, unsaid, out, clash>>
  BY DEF NetChanges, vars
<1>2. Sound'
  <2>1. net' \in [IP -> Device \cup {None}] /\ moves' \in 0..MaxMoves
    BY BoundAssumption DEF Sound, TypeOK, NetChanges, vars
  <2>2. TypeOK'
    BY <1>1, <2>1 DEF Sound, TypeOK
  <2>3. Live' /\ Unique' /\ Placed'
    BY <1>1 DEF Sound, Live, InUse, Unique, UniqueIn, Placed
  <2>4. \A t \in Task : Shape(t)'
    BY <1>1 DEF Sound, Shape, ShapeOf
  <2>. QED
    BY <2>2, <2>3, <2>4 DEF Sound
<1>3. ASSUME Calm
      PROVE  Calm'
  <2>1. \A t \in Task : Knows(t)'
    BY <1>1, <1>3 DEF Calm, Knows, KnowsOf, Held, Resetting, At0
  <2>2. Fixed'
    BY <1>1, <1>3 DEF Calm, Fixed, Agree, Busy, BusyOf
  <2>3. \A i \in IP : Same(i)'
    BY <1>1, <1>3 DEF Calm, Same, At0, Resetting
  <2>4. Wiped' /\ Due'
    BY <1>1, <1>3 DEF Calm, Wiped, Due, Tells, TellsOf, At0
  <2>. QED
    BY <2>1, <2>2, <2>3, <2>4 DEF Calm
<1>. QED
  BY <1>2, <1>3 DEF Good

LEMMA ActsClash ==
    ASSUME NEW t, NEW l, NEW k, NEW h, NEW R, NEW told, Acts(t, l, k, h, R, told), clash
    PROVE  clash'
BY DEF Acts

LEMMA PutsClash ==
    ASSUME NEW t, NEW c, NEW l, NEW h, NEW told, Puts(t, c, l, h, told), clash
    PROVE  clash'
BY ActsClash DEF Puts

LEMMA GoesClash ==
    ASSUME NEW t, NEW l, Goes(t, l), clash
    PROVE  clash'
BY ActsClash DEF Goes

LEMMA CachesClash ==
    ASSUME NEW t, NEW l, NEW c, NEW told, Caches(t, l, c, told), clash
    PROVE  clash'
BY ActsClash DEF Caches

\* A clash is remembered.
LEMMA ClashStays ==
    ASSUME clash, [Next]_vars
    PROVE  clash'
<1>. USE ActsClash, PutsClash, GoesClash, CachesClash
<1>1. ASSUME NEW t \in Pass, PassStep(t)
      PROVE  clash'
  <2>1. CASE ScanBegin(t) \/ ScanFound(t) \/ ScanRtsp(t) \/ ScanLost(t)
    BY <2>1 DEF ScanBegin, ScanFound, ScanRtsp, ScanLost, Phase
  <2>2. CASE \E i \in IP : TakeKnown(t, i) \/ TakeNew(t, i) \/ TakeLost(t, i)
    BY <2>2 DEF TakeKnown, TakeNew, TakeLost
  <2>3. CASE Filed(t) \/ Cached(t) \/ Identified(t)
    BY <2>3 DEF Filed, Cached, Identified
  <2>4. CASE Rebind(t)
    BY <2>4 DEF Rebind
  <2>5. CASE Rebound(t) \/ Merge(t) \/ Merged(t) \/ Interrogate(t) \/ NewUse(t)
    BY <2>5 DEF Rebound, Merge, Merged, Interrogate, NewUse
  <2>6. CASE Reachable(t) \/ Unreachable(t) \/ VerifyBegin(t) \/ Verdicts(t)
    BY <2>6 DEF Reachable, Unreachable, VerifyBegin, Verdicts
  <2>7. CASE Demote(t) \/ Demoted(t) \/ DemoteTells(t) \/ ReadBack(t)
    BY <2>7 DEF Demote, Demoted, DemoteTells, ReadBack
  <2>. QED
    BY <1>1, <2>1, <2>2, <2>3, <2>4, <2>5, <2>6, <2>7 DEF PassStep
<1>2. ASSUME NEW t \in Request, RequestBegins(t)
      PROVE  clash'
  BY <1>2 DEF RequestBegins, AuthBegin, LogoutBegin, DeleteBegin, ManualBegin,
              ResetRows
<1>3. ASSUME NEW t \in Request, RequestGoes(t)
      PROVE  clash'
  <2>1. CASE AuthAnswer(t) \/ AuthUse(t) \/ AuthTells(t)
    BY <2>1 DEF AuthAnswer, AuthUse, AuthTells
  <2>2. CASE SubFound(t) \/ SubFile(t)
    BY <2>2 DEF SubFound, SubFile
  <2>3. CASE LogoutClear(t) \/ LogoutRead(t) \/ LogoutUse(t)
    BY <2>3 DEF LogoutClear, LogoutRead, LogoutUse
  <2>4. CASE DeletePop(t) \/ DeleteRow(t) \/ ManualAnswer(t) \/ ManualUse(t)
             \/ ResetCache(t) \/ ReadBack(t)
    BY <2>4 DEF DeletePop, DeleteRow, ManualAnswer, ManualUse, ResetCache, ReadBack
  <2>. QED
    BY <1>3, <2>1, <2>2, <2>3, <2>4 DEF RequestGoes
<1>4. CASE NetChanges \/ UNCHANGED vars
  BY <1>4 DEF NetChanges, vars
<1>. QED
  BY <1>1, <1>2, <1>3, <1>4 DEF Next

\* At first nobody works, and the cache is the table.
LEMMA InitInv ==
    ASSUME Init
    PROVE  IInv
<1>1. PICK c \in Left :
         /\ rows = [i \in IP |-> IF c # None /\ c.ip = i THEN c ELSE None]
         /\ known = [i \in IP |-> IF c # None /\ c.ip = i THEN 1 ELSE None]
         /\ heap = [o \in Obj |-> IF o = 1 THEN c ELSE None]
  BY DEF Init
<1>2. /\ net \in [IP -> Device \cup {None}] /\ moves = 0 /\ asked = 0
      /\ loc = [t \in Task |-> Idle] /\ unsaid = {} /\ out = {} /\ clash = FALSE
  BY DEF Init
<1>3. c \in Camera \cup {None} /\ 1 \in Obj
  BY BoundAssumption DEF Left, Obj
<1>4. \A i \in IP : /\ rows[i] # None => rows[i] = c /\ c # None /\ c.ip = i
                    /\ known[i] # None => known[i] = 1 /\ rows[i] = c /\ c # None
  BY <1>1, NoneAssumption
<1>5. heap[1] = c
  BY <1>1, <1>3
<1>6. TypeOK
  <2>1. rows \in Rows /\ known \in Caching /\ heap \in Heaps
    BY <1>1, <1>3 DEF Rows, Caching, Heaps
  <2>2. loc \in [Task -> Local]
    BY <1>2, IdleIs
  <2>3. moves \in 0..MaxMoves /\ asked \in 0..MaxRequests
    BY <1>2, BoundAssumption
  <2>4. unsaid \subseteq Id /\ out \subseteq Id /\ clash \in BOOLEAN
    BY <1>2
  <2>. QED
    BY <1>2, <2>1, <2>2, <2>3, <2>4 DEF TypeOK, Rows, Caching, Heaps
<1>7. \A t \in Task : loc[t] = Idle
  BY <1>2
<1>8. Live
  <2>1. \A o \in InUse(known, loc) : o # None => \E i \in IP : known[i] = o
    BY <1>7, IdleIs DEF InUse
  <2>. QED
    BY <1>4, <1>5, <2>1 DEF Live
<1>9. Unique /\ Placed
  BY <1>4, <1>5 DEF Unique, UniqueIn, Placed
<1>10. \A t \in Task : Shape(t)
  BY <1>7, IdleIs, RestShape DEF Shape
<1>11. \A t \in Task : Knows(t)
  BY <1>7, IdleIs DEF Knows, KnowsOf, Held, Adds, Wrote, Uses
<1>12. Fixed
  BY <1>4, <1>5 DEF Fixed, Agree
<1>13. \A i \in IP : Same(i)
  BY <1>4, <1>5 DEF Same, At0
<1>14. Wiped /\ Due
  BY <1>2 DEF Wiped, Due
<1>. QED
  BY <1>6, <1>8, <1>9, <1>10, <1>11, <1>12, <1>13, <1>14 DEF IInv, Sound, Calm

LEMMA NextInv ==
    ASSUME IInv, [Next]_vars
    PROVE  IInv'
<1>1. Good
  BY PassKeeps, RequestKeeps, RestKeeps DEF IInv, Next
<1>2. ~clash' => ~clash
  BY ClashStays
<1>. QED
  BY <1>1, <1>2 DEF IInv, Good

THEOREM Invariance == Spec => []IInv
BY InitInv, NextInv, PTL DEF Spec

(***************************************************************************)
(* The theorems.                                                           *)
(***************************************************************************)
\* Every table, cache entry and local variable stays in its type, and nothing
\* in use is forgotten, whatever the passes and requests do to each other.
THEOREM TypeCorrect == Spec => []TypeOK
<1>1. IInv => TypeOK
  BY DEF IInv, Sound
<1>. QED
  BY <1>1, Invariance, PTL

\* When nobody is at work, nobody is busy or about to tell.
LEMMA QuietIs ==
    ASSUME Quiet
    PROVE  /\ \A t \in Task, i \in IP : ~Busy(t, i)
           /\ \A t \in Task, id \in Id : ~Tells(t, id)
BY DEF Quiet, Busy, BusyOf, Tells, TellsOf, Wrote, Uses, Moves

\* Once all is written and no task has changed what another was working on,
\* the scanner's cache is the table, for every number of passes, requests,
\* addresses and devices.
THEOREM CacheAgreesAlways == Spec => []CacheAgrees
<1>1. ASSUME IInv
      PROVE  CacheAgrees
  <2>1. SUFFICES ASSUME Quiet, Calm
                 PROVE  \A i \in IP : known[i] # None => heap[known[i]] = rows[i]
    BY <1>1 DEF CacheAgrees, IInv
  <2>. QED
    BY <2>1, QuietIs DEF Calm, Fixed, Agree
<1>. QED
  BY <1>1, Invariance, PTL

\* No camera is recordable, or has ceased to be, without an event since: a task
\* that changes it comes to its announcement before it rests.
THEOREM AnnouncedAlways == Spec => []Announced
<1>1. ASSUME IInv
      PROVE  Announced
  <2>1. SUFFICES ASSUME Quiet, Calm
                 PROVE  \A i \in IP : rows[i] # None => rows[i].id \notin unsaid
    BY <1>1 DEF Announced, IInv
  <2>2. unsaid = {}
    <3>1. unsaid \in SUBSET Id
      BY <1>1, Types DEF IInv, Sound
    <3>. QED
      BY <2>1, <3>1, QuietIs DEF Calm, Due
  <2>. QED
    BY <2>2
<1>. QED
  BY <1>1, Invariance, PTL

\* The credentials a logout has wiped stay out of the table until the user
\* authenticates again, if no task has changed what another was working on.
THEOREM LogoutStaysAlways == Spec => []LogoutStays
<1>1. IInv => LogoutStays
  BY DEF IInv, Calm, Wiped, LogoutStays
<1>. QED
  BY <1>1, Invariance, PTL
=============================================================================
