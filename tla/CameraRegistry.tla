--------------------------- MODULE CameraRegistry ---------------------------
(***************************************************************************)
(* discovery/scanner.py, with the cameras table of db.py, reconcile.py and *)
(* the requests of api/cameras.py and api/settings.py that touch them: the *)
(* cameras the program knows, in the table, in the scanner's cache and in  *)
(* the hands of tasks that wait for the network or the database.           *)
(*                                                                         *)
(* A pass is a run of run_scan, by the scanner's own loop or by POST       *)
(* /scan; they are not exclusive.  An action runs from one suspension to   *)
(* the next; between two cameras of a pass, where it holds nothing, the    *)
(* model may switch although the code need not.  A query's result is fixed *)
(* when it is submitted (aiosqlite runs statements in order) and used a    *)
(* suspension later.  Camera objects are mutable and shared by reference:  *)
(* the cache, a pass and a request may hold the same one.                  *)
(*                                                                         *)
(* A camera is its id, address, status, whether it has credentials and a   *)
(* stream URI, and sig, the identity evidence stored for it (endpoint      *)
(* reference, MAC addresses), abstracted to the device it points to.       *)
(* Whether a device accepts a password, answers a probe or is found by     *)
(* discovery is up to the network.                                         *)
(***************************************************************************)
EXTENDS Naturals, FiniteSets

CONSTANTS IP, Device, None,
          Pass, Request,  \* tasks
          MaxId,          \* bound on the camera ids in use at a time
          MaxObj,         \* bound on the Camera objects alive at a time
          MaxMoves,       \* bound on the changes of the network
          MaxRequests     \* bound on the requests

ASSUME TaskAssumption == Pass \cap Request = {}
ASSUME NoneAssumption == None \notin IP \cup Device \cup Nat
ASSUME BoundAssumption == /\ {MaxId, MaxObj, MaxMoves, MaxRequests} \subseteq Nat
                          /\ MaxObj >= 1

VARIABLES
    net,      \* the device that answers at an address; one may answer at two
    moves,    \* changes of it so far
    rows,     \* the cameras table, by its UNIQUE address
    known,    \* DiscoveryScanner._known_cameras: address -> object
    heap,     \* the Camera objects that somebody refers to
    loc,      \* where each task is, and its local variables
    asked,    \* requests so far
    unsaid,   \* history: recordable otherwise since the last event about it
    out,      \* history: logged out and not authenticated since
    clash     \* history: a task has changed what another was working on

Id == 1..MaxId
Obj == 1..MaxObj
Task == Pass \cup Request
Status == {"online", "offline", "needs_auth"}
Camera == [id : Id, ip : IP, status : Status, auth : BOOLEAN, uri : BOOLEAN,
           sig : Device \cup {None}]
ASSUME CameraAssumption == None \notin Camera

Reading == {"new_read", "merge_read", "demote_read", "auth_read",
            "manual_read"}
PassPc == {"probe", "next", "stored", "owner",
           "rebound", "merge", "merge_read", "merge_use", "interrogate",
           "new_read", "new_use", "file", "port", "verdicts",
           "stale", "demote_read", "demote_use", "unstream"}
RequestPc == {"auth", "auth_read", "auth_use", "register", "sub", "sub_file",
              "logout", "logout_read", "logout_use", "delete", "delete_row",
              "manual", "manual_read", "manual_use", "reset"}
Local == [pc : PassPc \cup RequestPc \cup {"idle"},
          ip : IP \cup {None},           \* the address it works on
          obj : Obj \cup {None},         \* a camera it refers to
          val : Camera \cup {None},      \* a row it read, or is inserting
          phase : {"onvif", "rtsp", "lost"},
          todo : SUBSET IP,              \* of this phase
          seen : SUBSET IP,              \* current_ips
          cand : SUBSET Obj,             \* offline_candidates
          due : SUBSET Obj,              \* in _verify_stream_uris
          tell : BOOLEAN]                \* was_offline

vars == <<net, moves, rows, known, heap, loc, asked, unsaid, out, clash>>

TypeOK ==
    /\ net \in [IP -> Device \cup {None}] /\ moves \in 0..MaxMoves
    /\ rows \in [IP -> Camera \cup {None}]
    /\ known \in [IP -> Obj \cup {None}]
    /\ heap \in [Obj -> Camera \cup {None}]
    /\ loc \in [Task -> Local]
    /\ asked \in 0..MaxRequests
    /\ unsaid \subseteq Id /\ out \subseteq Id /\ clash \in BOOLEAN

Idle == [pc |-> "idle", ip |-> None, obj |-> None, val |-> None,
         phase |-> "onvif", todo |-> {}, seen |-> {}, cand |-> {}, due |-> {},
         tell |-> FALSE]

\* What an earlier run of the program may have left: nothing, or a camera the
\* user had authenticated.  It begins when run_forever has loaded the rows into
\* the cache.
Left == {c \in Camera : c.id = 1 /\ c.auth /\ c.uri /\ c.sig # None
                          /\ c.status = "online"} \cup {None}

Init ==
    /\ net \in [IP -> Device \cup {None}] /\ moves = 0
    /\ \E c \in Left :
          LET Here(i) == c # None /\ c.ip = i IN
          /\ rows = [i \in IP |-> IF Here(i) THEN c ELSE None]
          /\ known = [i \in IP |-> IF Here(i) THEN 1 ELSE None]
          /\ heap = [o \in Obj |-> IF o = 1 THEN c ELSE None]
    /\ loc = [t \in Task |-> Idle]
    /\ asked = 0
    /\ unsaid = {} /\ out = {} /\ clash = FALSE

(***************************************************************************)
(* Objects, ids, the table, and what a step changes.                       *)
(***************************************************************************)
InUse(k, l) == {k[i] : i \in IP} \cup {l[t].obj : t \in Task}
               \cup UNION {l[t].cand \cup l[t].due : t \in Task}

\* What the bounds leave for a new object and a new id.
Free == {o \in Obj : heap[o] = None}
NewObj == CHOOSE o \in Free : TRUE
With(c) == [heap EXCEPT ![NewObj] = c]      \* c as an object of its own

Ids(F) == {F[x].id : x \in {y \in DOMAIN F : F[y] # None}}
FreeId == Id \ (Ids(rows) \cup Ids(heap) \cup out
                \cup Ids([t \in Task |-> loc[t].val]))
NewId == CHOOSE id \in FreeId : TRUE

At(R, id) == {i \in IP : R[i] # None /\ R[i].id = id}
Recorded(R, id) == {i \in IP : /\ R[i] # None /\ R[i].id = id
                               /\ R[i].status = "online" /\ R[i].uri}
\* The cameras a task has in hand, and the addresses it works on: its own and
\* those of these cameras, as it knows them and as the table has them.
InHand(t) ==
    LET l == loc[t] IN
    ({l.val} \cup {heap[o] : o \in ({l.obj} \ {None}) \cup l.cand \cup l.due})
        \ {None}
Works(t, i) ==
    \/ loc[t].ip = i \/ loc[t].pc = "reset"
    \/ \E c \in InHand(t) : c.ip = i \/ i \in At(rows, c.id)

\* Task t goes on with the local variables l, the cache k, the objects h and
\* the table R, having told of the cameras in told.  Objects nobody refers to
\* are forgotten.  A cached object that is changed in place is a change of its
\* address too: another task may be about to write it.
Acts(t, l, k, h, R, told) ==
    LET all == [loc EXCEPT ![t] = l]
        used == InUse(k, all)
        changed == {i \in IP : \/ R[i] # rows[i] \/ k[i] # known[i]
                               \/ known[i] # None /\ h[known[i]] # heap[known[i]]}
    IN  /\ loc' = all /\ known' = k /\ rows' = R
        /\ heap' = [o \in Obj |-> IF o \in used THEN h[o] ELSE None]
        /\ unsaid' = (unsaid \cup {id \in Id : Recorded(R, id)
                                                # Recorded(rows, id)}) \ told
        /\ clash' = (clash \/ \E u \in Task \ {t}, i \in changed : Works(u, i))

Goes(t, l) == Acts(t, l, known, heap, rows, {})
Caches(t, l, c, told) ==        \* _known_cameras[c.ip] = c
    /\ Free # {}
    /\ Acts(t, l, [known EXCEPT ![c.ip] = NewObj], With(c), rows, told)

\* An UPDATE or DELETE by id.
ById(id, F(_)) == [i \in IP |-> IF i \in At(rows, id) THEN F(rows[i])
                                ELSE rows[i]]

Turned(l) == [l EXCEPT !.pc = "next", !.ip = None, !.obj = None,
                       !.val = None, !.tell = FALSE]

\* An exception ends a pass or a request; only the RTSP part of a pass goes on
\* with the next part.
Failed(l) == IF l.phase = "rtsp" THEN [Turned(l) EXCEPT !.todo = {}] ELSE Idle

\* upsert_camera: ON CONFLICT(ip) merges; an id that has a row at another
\* address violates the primary key and raises.  The operators named ...Mutant
\* are plausible slips in the definition they precede.
UpsertRaises(c) == rows[c.ip] = None /\ At(rows, c.id) # {}
Upsert(c) ==
    LET r == rows[c.ip] IN
    [rows EXCEPT ![c.ip] =
        IF r = None THEN c
        ELSE [c EXCEPT !.id = r.id, !.auth = c.auth \/ r.auth,
                       !.uri = c.uri \/ r.uri,
                       !.sig = IF c.sig = None THEN r.sig ELSE c.sig]]
Puts(t, c, l, h, told) ==
    IF UpsertRaises(c) THEN Acts(t, Failed(loc[t]), known, h, rows, told)
    ELSE Acts(t, l, known, h, Upsert(c), told)

\* "online" if rtsp_uri else "needs_auth", for a camera that was offline.
Restored(c) ==
    [c EXCEPT !.status = IF c.status # "offline" THEN c.status
                         ELSE IF c.uri THEN "online" ELSE "needs_auth"]

(***************************************************************************)
(* A pass: run_scan.                                                       *)
(***************************************************************************)
ScanOnly == UNCHANGED <<net, moves, asked, out>>
Is(t, pc) == loc[t].pc = pc
Up == {i \in IP : net[i] # None}

\* The snapshot of the offline cameras; the ONVIF probe is sent.
ScanBegin(t) ==
    /\ Is(t, "idle")
    /\ LET offline == {i \in IP : known[i] # None
                                  /\ heap[known[i]].status = "offline"} IN
       Goes(t, [Idle EXCEPT !.pc = "probe", !.cand = {known[i] : i \in offline}])
    /\ ScanOnly

\* What answers, then what else has the RTSP port open; the third phase is
\* what is known and has not been seen.
Phase(t, phase, todo) ==
    /\ Goes(t, [Turned(loc[t]) EXCEPT
                    !.phase = phase, !.todo = todo,
                    !.seen = IF phase = "lost" THEN {} ELSE @ \cup todo,
                    !.cand = IF phase = "lost" THEN {} ELSE @])
    /\ ScanOnly
ScanFound(t) ==
    /\ Is(t, "probe")
    /\ \E found \in SUBSET Up : Phase(t, "onvif", found)
ScanRtsp(t) ==
    /\ Is(t, "next") /\ loc[t].phase = "onvif" /\ loc[t].todo = {}
    /\ \E found \in SUBSET (Up \ loc[t].seen) : Phase(t, "rtsp", found)
ScanLost(t) ==
    /\ Is(t, "next") /\ loc[t].phase = "rtsp" /\ loc[t].todo = {}
    /\ Phase(t, "lost", {i \in IP : known[i] # None} \ loc[t].seen)

Takes(t, i) == Is(t, "next") /\ i \in loc[t].todo
Taken(t, i, pc) == [loc[t] EXCEPT !.pc = pc, !.ip = i, !.todo = @ \ {i}]

\* A known camera was found again: the object in the cache is changed and
\* written back.  The ONVIF branch announces first and files the object again
\* after the write; the RTSP branch does both after it, if it was offline.
TakeKnown(t, i) ==
    /\ Takes(t, i) /\ loc[t].phase # "lost" /\ known[i] # None
    /\ LET onvif == loc[t].phase = "onvif"
           old == heap[known[i]]
           c == [Restored(old) EXCEPT
                    !.sig = IF onvif /\ net[i] # None THEN net[i] ELSE @]
           back == old.status = "offline"
       IN  Puts(t, c,
                IF onvif \/ back
                THEN [Taken(t, i, "file") EXCEPT !.obj = known[i],
                                                 !.tell = back /\ ~onvif]
                ELSE Turned(Taken(t, i, "next")),
                [heap EXCEPT ![known[i]] = c],
                IF onvif /\ back THEN {c.id} ELSE {})
    /\ ScanOnly

\* self._known_cameras[ip] = camera, and the event if one is due.
Filed(t) ==
    /\ Is(t, "file")
    /\ LET l == loc[t] IN
       Acts(t, Turned(l), [known EXCEPT ![l.ip] = l.obj], heap, rows,
            IF l.tell THEN {heap[l.obj].id} ELSE {})
    /\ ScanOnly

\* An address nobody is known at: is there a row for it?
TakeNew(t, i) ==
    /\ Takes(t, i) /\ loc[t].phase # "lost" /\ known[i] = None
    /\ Goes(t, [Taken(t, i, "stored") EXCEPT !.val = rows[i]])
    /\ ScanOnly

\* A row that is backing off is only cached; whether the tracker lets the
\* attempt pass is left open.  Else the endpoint is identified.  reconcile: a
\* single offline candidate that carries its evidence is taken, at once
\* (EPR_EXACT, MAC_HIGH) or if it accepts the password (MAC_MODERATE), or not
\* at all.  Taking it starts with the query for the owner of the address.
Hits(t) == {o \in loc[t].cand : /\ heap[o].sig = net[loc[t].ip]
                                /\ heap[o].sig # None}
Interrogates(l) == [l EXCEPT !.pc = "interrogate", !.obj = None, !.val = None]

Cached(t) ==
    /\ Is(t, "stored") /\ loc[t].phase = "onvif" /\ loc[t].val # None
    /\ Caches(t, Turned(loc[t]), loc[t].val, {})
    /\ ScanOnly

Identified(t) ==
    /\ Is(t, "stored")
    /\ LET l == loc[t] IN
       \/ Goes(t, [l EXCEPT !.pc = "interrogate"])
       \/ /\ l.val = None
          /\ \E o \in Hits(t) :
                /\ Hits(t) = {o}
                /\ Goes(t, [l EXCEPT !.pc = "owner", !.obj = o,
                                     !.val = rows[l.ip]])
    /\ ScanOnly

\* rebind_camera_ip, from the answer to its first query on.  By now the row
\* may be gone, or another may have come to the address (UNIQUE).
Rebind(t) ==
    /\ Is(t, "owner")
    /\ LET l == loc[t]
           id == heap[l.obj].id
           from == At(rows, id)
           row == rows[CHOOSE j \in from : TRUE]
           moved == [i \in IP |-> IF i = l.ip THEN [row EXCEPT !.ip = i]
                                  ELSE IF i \in from THEN None ELSE rows[i]]
           on == [l EXCEPT !.pc = "rebound", !.val = None]
       IN  IF l.val # None /\ l.val.id # id THEN Goes(t, Interrogates(l))
           ELSE IF from = {} THEN Goes(t, on)
           ELSE IF l.ip \notin from /\ rows[l.ip] # None THEN Goes(t, Failed(l))
           ELSE Acts(t, on, known, heap, moved, {})
    /\ ScanOnly

\* get_camera(id), and the interrogation at the new address.
Rebound(t) ==
    /\ Is(t, "rebound")
    /\ LET l == loc[t] IN
       Goes(t, IF At(rows, heap[l.obj].id) = {} THEN Interrogates(l)
               ELSE [l EXCEPT !.pc = "merge"])
    /\ ScanOnly

\* The candidate with what the interrogation added.
Merge(t) ==
    /\ Is(t, "merge")
    /\ LET l == loc[t]
           o == heap[l.obj] IN
       \E got \in {g \in BOOLEAN : g => l.phase = "onvif" /\ o.auth} :
           LET uri == o.uri \/ got
               c == [o EXCEPT !.ip = l.ip, !.uri = uri,
                        !.sig = IF net[l.ip] = None THEN @ ELSE net[l.ip],
                        !.status = IF uri THEN "online" ELSE "needs_auth"]
           IN Puts(t, c, [l EXCEPT !.pc = "merge_read", !.val = c], heap, {})
    /\ ScanOnly

MergedMutant(t) ==              \* the old address stays in the cache
    /\ Is(t, "merge_use")
    /\ LET l == loc[t]
           rest == {o \in l.cand : heap[o].id # heap[l.obj].id} IN
       Caches(t, [Turned(l) EXCEPT !.cand = rest], l.val, {l.val.id})
    /\ ScanOnly
Merged(t) ==
    /\ Is(t, "merge_use") /\ Free # {}
    /\ LET l == loc[t]
           old == heap[l.obj]
           rest == {o \in l.cand : heap[o].id # old.id} IN
       Acts(t, [Turned(l) EXCEPT !.cand = rest],
            [known EXCEPT ![old.ip] = None, ![l.ip] = NewObj], With(l.val),
            rows, {l.val.id})
    /\ ScanOnly

\* A camera new to the scanner.  Over ONVIF it may be online without stored
\* credentials, as the interrogation then tries a default login; over RTSP it
\* needs authentication whatever its row said.
Interrogate(t) ==
    /\ Is(t, "interrogate") /\ (loc[t].val = None => FreeId # {})
    /\ LET l == loc[t]
           auth == l.val # None /\ l.val.auth
           onvif == l.phase = "onvif" IN
       \E uri \in BOOLEAN :
           LET c == [id |-> IF l.val # None THEN l.val.id ELSE NewId,
                     ip |-> l.ip,
                     status |-> IF uri /\ onvif THEN "online" ELSE "needs_auth",
                     auth |-> auth, uri |-> uri, sig |-> net[l.ip]]
           IN Puts(t, c, [l EXCEPT !.pc = "new_read", !.val = c], heap, {})
    /\ ScanOnly

NewUse(t) ==
    /\ Is(t, "new_use")
    /\ Caches(t, Turned(loc[t]), loc[t].val, {loc[t].val.id})
    /\ ScanOnly

\* upsert_camera reads back what it wrote: (get_camera_by_ip) or camera.
ReadBack(t) ==
    /\ loc[t].pc \in Reading
    /\ LET l == loc[t]
           use == [new_read |-> "new_use", merge_read |-> "merge_use",
                   demote_read |-> "demote_use", auth_read |-> "auth_use",
                   manual_read |-> "manual_use"]
           r == rows[l.val.ip] IN
       Goes(t, [l EXCEPT !.pc = use[l.pc], !.val = IF r = None THEN @ ELSE r])
    /\ ScanOnly

\* A camera that was not found; a key that has left the dict raises.
TakeLost(t, i) ==
    /\ Takes(t, i) /\ loc[t].phase = "lost"
    /\ Goes(t, IF known[i] = None THEN Failed(loc[t])
               ELSE [Taken(t, i, "port") EXCEPT !.obj = known[i]])
    /\ ScanOnly

Reachable(t) ==
    /\ Is(t, "port") /\ net[loc[t].ip] # None
    /\ LET l == loc[t]
           c == Restored(heap[l.obj]) IN
       Puts(t, c, [l EXCEPT !.pc = "file",
                            !.tell = heap[l.obj].status = "offline"],
            [heap EXCEPT ![l.obj] = c], {})
    /\ ScanOnly

\* Confirmed offline: mark_camera_offline is by id.
Unreachable(t) ==
    /\ Is(t, "port")
    /\ LET l == loc[t]
           c == heap[l.obj]
           Mark(r) == [r EXCEPT !.status = "offline"] IN
       IF c.status = "offline" THEN Goes(t, Turned(l))
       ELSE Acts(t, [l EXCEPT !.pc = "file", !.tell = TRUE], known,
                 [heap EXCEPT ![l.obj] = Mark(c)], ById(c.id, Mark), {})
    /\ ScanOnly

\* _verify_stream_uris: those due (a cooldown left open), then the stale ones.
VerifyBegin(t) ==
    /\ Is(t, "next") /\ loc[t].phase = "lost" /\ loc[t].todo = {}
    /\ LET online == {i \in IP : /\ known[i] # None /\ heap[known[i]].uri
                                 /\ heap[known[i]].status = "online"} IN
       \E due \in SUBSET {known[i] : i \in online} :
          Goes(t, IF due = {} THEN Idle
                  ELSE [Idle EXCEPT !.pc = "verdicts", !.due = due])
    /\ ScanOnly

Verdicts(t) ==
    /\ Is(t, "verdicts")
    /\ \E stale \in SUBSET loc[t].due :
          Goes(t, IF stale = {} THEN Idle
                  ELSE [loc[t] EXCEPT !.pc = "stale", !.due = stale])
    /\ ScanOnly

Demote(t) ==
    /\ Is(t, "stale")
    /\ \E o \in loc[t].due :
          LET c == [heap[o] EXCEPT !.status = "needs_auth"] IN
          Puts(t, c, [loc[t] EXCEPT !.pc = "demote_read", !.ip = c.ip,
                          !.val = c, !.due = @ \ {o}],
               [heap EXCEPT ![o] = c], {})
    /\ ScanOnly

Demoted(t) ==
    /\ Is(t, "demote_use")
    /\ LET l == loc[t] IN
       Caches(t, [l EXCEPT !.pc = "unstream", !.obj = NewObj, !.val = None],
              l.val, {})
    /\ ScanOnly

DemoteTellsMutant(t) ==         \* the row is demoted silently
    /\ Is(t, "unstream")
    /\ LET l == loc[t] IN
       Goes(t, IF l.due = {} THEN Idle
               ELSE [l EXCEPT !.pc = "stale", !.ip = None, !.obj = None])
    /\ ScanOnly
DemoteTells(t) ==
    /\ Is(t, "unstream")
    /\ LET l == loc[t] IN
       Acts(t, IF l.due = {} THEN Idle
               ELSE [l EXCEPT !.pc = "stale", !.ip = None, !.obj = None],
            known, heap, rows, {heap[l.obj].id})
    /\ ScanOnly

(***************************************************************************)
(* The requests.                                                           *)
(***************************************************************************)
Asks(r) == Is(r, "idle") /\ asked < MaxRequests /\ asked' = asked + 1
Going == UNCHANGED <<net, moves, asked>>
Reads(r, i, pc) == [Idle EXCEPT !.pc = pc, !.ip = i, !.val = rows[i]]

\* submit_auth: the row is read into an object of the request's own.
AuthBegin(r, i) ==
    /\ Asks(r) /\ rows[i] # None /\ Free # {}
    /\ Acts(r, [Idle EXCEPT !.pc = "auth", !.ip = i, !.obj = NewObj],
            known, With(rows[i]), rows, {})
    /\ UNCHANGED <<net, moves, out>>

\* authenticate_camera, when the camera has answered: the credentials are kept
\* either way.  ONVIF may accept them without giving a stream URI.
AuthAnswer(r) ==
    /\ Is(r, "auth")
    /\ LET l == loc[r]
           o == heap[l.obj] IN
       \E uri \in {u \in BOOLEAN : o.uri => u},
          status \in {"online", "needs_auth"} :
           LET c == [o EXCEPT !.auth = TRUE, !.uri = uri, !.status = status] IN
           /\ Puts(r, c, [l EXCEPT !.pc = "auth_read", !.obj = None, !.val = c],
                   [heap EXCEPT ![l.obj] = c], {})
           /\ out' = out \ {c.id}
    /\ Going

AuthUse(r) ==
    /\ Is(r, "auth_use")
    /\ LET l == loc[r] IN
       Caches(r, [l EXCEPT !.pc = "register", !.obj = NewObj, !.val = None],
              l.val, {})
    /\ Going /\ UNCHANGED out

\* add_stream has returned: the event; then perhaps the task that probes for
\* a sub-stream, or (apply_to_manufacturer) the next camera of the cache.
AuthTells(r) ==
    /\ Is(r, "register")
    /\ LET l == loc[r]
           c == heap[l.obj]
           others == {o \in {known[i] : i \in IP} \ {None, l.obj} :
                         heap[o].status = "needs_auth" /\ heap[o].id # c.id}
           Tells(m) == Acts(r, m, known, heap, rows, {c.id}) IN
       \/ Tells(Idle)
       \/ c.status = "online" /\ c.uri /\ Tells([l EXCEPT !.pc = "sub"])
       \/ \E o \in others :
             Tells([l EXCEPT !.pc = "auth", !.obj = o, !.ip = heap[o].ip])
    /\ Going /\ UNCHANGED out

\* _probe_substream_background found one: the object it was given is written.
SubFound(r) ==
    /\ Is(r, "sub")
    /\ Puts(r, heap[loc[r].obj], [loc[r] EXCEPT !.pc = "sub_file"], heap, {})
    /\ Going /\ UNCHANGED out
SubFile(r) ==
    /\ Is(r, "sub_file")
    /\ LET o == loc[r].obj IN
       Acts(r, Idle, [known EXCEPT ![heap[o].ip] = o], heap, rows, {heap[o].id})
    /\ Going /\ UNCHANGED out

\* logout_camera: the row is read, the recorder stopped, the row cleared by
\* id and read back, and the cache given a new object.
LogoutBegin(r, i) ==
    /\ Asks(r) /\ rows[i] # None
    /\ Goes(r, Reads(r, i, "logout"))
    /\ UNCHANGED <<net, moves, out>>

LogoutClear(r) ==
    /\ Is(r, "logout")
    /\ LET id == loc[r].val.id
           Clear(c) == [c EXCEPT !.auth = FALSE, !.uri = FALSE,
                                 !.status = "needs_auth"] IN
       /\ Acts(r, [loc[r] EXCEPT !.pc = "logout_read"], known, heap,
               ById(id, Clear), {})
       /\ out' = IF At(rows, id) = {} THEN out ELSE out \cup {id}
    /\ Going

LogoutRead(r) ==
    /\ Is(r, "logout_read")
    /\ LET at == At(rows, loc[r].val.id) IN
       Goes(r, IF at = {} THEN Idle
               ELSE [loc[r] EXCEPT !.pc = "logout_use",
                                   !.val = rows[CHOOSE i \in at : TRUE]])
    /\ Going /\ UNCHANGED out

LogoutUseMutant(r) ==           \* the cache is forgotten
    /\ Is(r, "logout_use")
    /\ Acts(r, Idle, known, heap, rows, {loc[r].val.id})
    /\ Going /\ UNCHANGED out
LogoutUse(r) ==
    /\ Is(r, "logout_use")
    /\ LET v == loc[r].val IN
       IF known[v.ip] # None THEN Caches(r, Idle, v, {v.id})
       ELSE Acts(r, Idle, known, heap, rows, {v.id})
    /\ Going /\ UNCHANGED out

\* delete_camera: the recorder is stopped, the cache entry of the address read
\* at the beginning popped, the row deleted by id.
DeleteBegin(r, i) ==
    /\ Asks(r) /\ rows[i] # None
    /\ Goes(r, Reads(r, i, "delete"))
    /\ UNCHANGED <<net, moves, out>>

DeletePop(r) ==
    /\ Is(r, "delete")
    /\ Acts(r, [loc[r] EXCEPT !.pc = "delete_row"],
            [known EXCEPT ![loc[r].val.ip] = None], heap, rows, {})
    /\ Going /\ UNCHANGED out

DeleteRow(r) ==
    /\ Is(r, "delete_row")
    /\ LET id == loc[r].val.id IN
       /\ Acts(r, Idle, known, heap, ById(id, LAMBDA c : None), {id})
       /\ out' = out \ {id}
    /\ Going

\* manually_add_camera, at an address without a row; with one it is submit_auth.
ManualBegin(r, i) ==
    /\ Asks(r) /\ rows[i] = None
    /\ Goes(r, Reads(r, i, "manual"))
    /\ UNCHANGED <<net, moves, out>>

ManualAnswer(r) ==
    /\ Is(r, "manual")
    /\ LET l == loc[r]
           c == [id |-> NewId, ip |-> l.ip, status |-> "online", auth |-> TRUE,
                 uri |-> TRUE, sig |-> None] IN
       \/ Goes(r, Idle)
       \/ /\ net[l.ip] # None /\ FreeId # {}
          /\ Puts(r, c, [l EXCEPT !.pc = "manual_read", !.val = c], heap, {})
    /\ Going /\ UNCHANGED out

ManualUse(r) ==
    /\ Is(r, "manual_use")
    /\ Caches(r, Idle, loc[r].val, {loc[r].val.id})
    /\ Going /\ UNCHANGED out

\* Factory reset: the rows, then settings and files, then the cache.
ResetRows(r) ==
    /\ Asks(r)
    /\ Acts(r, [Idle EXCEPT !.pc = "reset"], known, heap,
            [i \in IP |-> None], {})
    /\ out' = {} /\ UNCHANGED <<net, moves>>
ResetCache(r) ==
    /\ Is(r, "reset")
    /\ Acts(r, Idle, [i \in IP |-> None], heap, rows, Id)
    /\ Going /\ UNCHANGED out

(***************************************************************************)
(* The specification.                                                      *)
(***************************************************************************)
NetChanges ==
    /\ moves < MaxMoves /\ moves' = moves + 1
    /\ net' \in [IP -> Device \cup {None}] \ {net}
    /\ UNCHANGED <<rows, known, heap, loc, asked, unsaid, out, clash>>

PassStep(t) ==
    \/ ScanBegin(t) \/ ScanFound(t) \/ ScanRtsp(t) \/ ScanLost(t)
    \/ \E i \in IP : TakeKnown(t, i) \/ TakeNew(t, i) \/ TakeLost(t, i)
    \/ Filed(t) \/ Cached(t) \/ Identified(t)
    \/ Rebind(t) \/ Rebound(t) \/ Merge(t) \/ Merged(t) \/ Interrogate(t)
    \/ NewUse(t) \/ Reachable(t) \/ Unreachable(t) \/ VerifyBegin(t)
    \/ Verdicts(t) \/ Demote(t) \/ Demoted(t) \/ DemoteTells(t) \/ ReadBack(t)

RequestBegins(r) ==
    \/ \E i \in IP : \/ AuthBegin(r, i) \/ LogoutBegin(r, i)
                     \/ DeleteBegin(r, i) \/ ManualBegin(r, i)
    \/ ResetRows(r)
RequestGoes(r) ==
    \/ AuthAnswer(r) \/ AuthUse(r) \/ AuthTells(r) \/ SubFound(r) \/ SubFile(r)
    \/ LogoutClear(r) \/ LogoutRead(r) \/ LogoutUse(r)
    \/ DeletePop(r) \/ DeleteRow(r) \/ ManualAnswer(r) \/ ManualUse(r)
    \/ ResetCache(r) \/ ReadBack(r)

Next ==
    \/ NetChanges
    \/ \E t \in Pass : PassStep(t)
    \/ \E r \in Request : RequestBegins(r) \/ RequestGoes(r)

Spec == Init /\ [][Next]_vars

(***************************************************************************)
(* Properties.                                                             *)
(***************************************************************************)
\* Between two passes or waiting for the ONVIF answers, and no request at work:
\* nobody is about to write anything.
Quiet == \A t \in Task : loc[t].pc \in {"idle", "probe"}

\* A task that changes a camera another task is working on may be undone by it
\* (LogoutHolds); the first three properties are about everything else, which
\* includes tasks at work on different cameras at once.

\* The scanner's cache is the table: once all is written, a cached camera is its
\* row in each field of Camera (id, address, status, credentials, stream URI and
\* device; name and stream override are not modelled), through upserts that
\* merge, marks and logouts by id, rebinds and failed passes.  A stale
\* entry would be written back by the next pass (scanner.py:539, :697).
CacheAgrees ==
    Quiet /\ ~clash =>
        \A i \in IP : known[i] # None => heap[known[i]] = rows[i]

\* Whoever listens to the bus has been told: no camera has become recordable or
\* ceased to be, at its address, without a camera event since (the recording
\* manager and the frontend know of no other way).
Announced ==
    Quiet /\ ~clash =>
        \A i \in IP : rows[i] # None => rows[i].id \notin unsaid

\* The credentials wiped by a logout do not come back from the cache in a later
\* pass, whatever happens to the camera then (offline, moved, demoted).
LogoutStays ==
    Quiet /\ ~clash =>
        \A i \in IP : rows[i] # None /\ rows[i].id \in out => ~rows[i].auth

\* What the docstring of logout_camera says (api/cameras.py:50, :52): the
\* credentials are wiped, from the table.  The code does not keep it against a
\* pass that holds the camera: its upsert writes them back.
LogoutHolds ==
    Quiet => \A i \in IP :
                 rows[i] # None /\ rows[i].id \in out => ~rows[i].auth
=============================================================================
