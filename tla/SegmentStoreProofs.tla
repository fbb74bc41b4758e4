------------------------ MODULE SegmentStoreProofs ------------------------
(***************************************************************************)
(* SegmentStore, for any number of segments of any size, any batch, budget *)
(* and number of crashes and failures: it implements RetentionRing, a row  *)
(* without a file is older than any with one, no closed file is forgotten, *)
(* and enforcements that run at once keep the budget.                      *)
(***************************************************************************)
EXTENDS SegmentStore, FiniteSetTheorems, WellFoundedInduction, TLAPS

(***************************************************************************)
(* The inductive invariant of the ring.  Of due and freed nothing is       *)
(* needed here: the budget has an invariant of its own, BInv, below.       *)
(***************************************************************************)
Kept == {s \in Done : disk[s] # "none"}

Stored ==
    /\ disk \in [Seg -> {"none", "open", "closed"}]
    /\ row \in [Seg -> {"none", "open", "done"}]
    /\ opened \in 0..MaxSeg /\ heard \in 0..opened /\ cur \in 0..heard
    /\ recorder \in {"none", "run", "stop", "final"}
    /\ lost \subseteq Seg

Form == at = [t \in Task |-> [pc |-> at[t].pc, seg |-> at[t].seg,
                             due |-> at[t].due, freed |-> at[t].freed,
                             list |-> at[t].list]]

Typed ==
    /\ Form
    /\ \A t \in Task : /\ at[t].pc \in Step /\ at[t].seg \in 0..MaxSeg
                       /\ at[t].list \in SUBSET Seg
                       /\ at[t].pc = "delete" <=> at[t].list # {}

Finalises(t) == at[t].pc \in {"check", "hash", "complete"}
Claims(t) == at[t].pc = "insert" \/ Finalises(t)

\* Which task can be where: at most one of them finalises a segment.
Roles ==
    /\ at["janitor"].pc \in {"off", "idle", "used", "list", "delete"}
    /\ at["stop"].pc # "insert"
    /\ at["stop"].pc # "off" <=> recorder = "final"
    /\ at["watcher"].pc # "off" => recorder \in {"run", "stop"}
    /\ Claims("watcher") => at["watcher"].seg < cur
    /\ Finalises("watcher") => at["watcher"].seg # 0
    /\ Finalises("stop") => at["stop"].seg = cur
    /\ recorder = "final" => cur # 0
    /\ recorder \in {"none", "final"} => heard = opened
    /\ recorder = "none" => cur = 0
    /\ ffmpeg => recorder \in {"run", "stop"}

\* The segments that may still join the archive.
Pending(s) ==
    \/ s = cur /\ (recorder # "final" \/ Finalises("stop"))
    \/ s = at["watcher"].seg /\ Claims("watcher")

\* They are newer than any in it, or on a list made of it.
Heard ==
    /\ \A s \in Seg : row[s] # "none" => s <= heard
    /\ \A t \in Task : \A l \in at[t].list : l <= heard
NewerThanDone == \A s, u \in Seg : Pending(s) /\ row[u] = "done" => u < s
NewerThanListed ==
    \A s, u \in Seg, t \in Task : Pending(s) /\ u \in at[t].list => u < s
Order == Heard /\ NewerThanDone /\ NewerThanListed

\* A task's list, however stale, has all that is older than any of its rows.
Prefix == \A t \in Task : \A l \in at[t].list : \A u \in Kept :
              u < l => u \in at[t].list

\* A file goes away under its finalisation only with its row or with all files.
Vanished ==
    \A t \in Task : /\ at[t].pc \in {"hash", "complete"}
                    /\ disk[at[t].seg] = "none"
                    /\ row[at[t].seg] # "none"
                    => Kept = {}

\* Nobody need finalise it, or somebody still can.
Away(s) == disk[s] = "none" \/ s \in lost
Secure(s) == row[s] = "done" \/ Away(s)
Owed(s) == row[s] = "open" \/ Secure(s)

ClaimedOwed == \A t \in Task : Claims(t) /\ at[t].seg # 0 => Owed(at[t].seg)
CurOwed == cur # 0 /\ at["watcher"].pc # "insert" => Owed(cur)
CurSecure == recorder = "final" /\ ~Finalises("stop") => Secure(cur)
FirstAway == \A t \in Task : at[t].pc = "delete" => Away(First(at[t].list))
Remembered == \A s \in Seg : \/ Secure(s) \/ s = cur \/ s > heard
                             \/ \E t \in Task : s = at[t].seg /\ Claims(t)

Tracked == ClaimedOwed /\ CurOwed /\ CurSecure /\ FirstAway /\ Remembered

IInv == /\ Stored /\ Typed /\ Roles /\ Order /\ Tracked
        /\ Prefix /\ GhostsOldest /\ Vanished

(***************************************************************************)
(* Extremes of sets of segments.                                           *)
(***************************************************************************)
LEMMA Smallest ==
    ASSUME NEW X, X \subseteq SUBSET Seg, X # {}
    PROVE  \E m \in X : \A x \in X : x \subseteq m => x = m
<1>. DEFINE Below == StrictSubsetOrdering(Seg)
<1>1. IsWellFoundedOn(Below, FiniteSubsetsOf(Seg))
  BY FS_StrictSubsetOrderingWellFounded
<1>2. IsFiniteSet(Seg)
  BY FS_Interval, SegAssumption DEF Seg
<1>3. X \subseteq FiniteSubsetsOf(Seg)
  BY <1>2, FS_Subset DEF FiniteSubsetsOf
<1>4. PICK m \in X : \A x \in X : <<x, m>> \notin Below
  <2>. HIDE DEF Below
  <2>. QED
    BY <1>1, <1>3, WFMin
<1>. QED
  BY <1>3, <1>4 DEF StrictSubsetOrdering, FiniteSubsetsOf

LEMMA Minimum ==
    ASSUME NEW S \in SUBSET Seg, S # {}
    PROVE  \E m \in S : \A s \in S : m <= s
<1>. DEFINE Upto == {1..s : s \in S}
<1>1. Upto \subseteq SUBSET Seg /\ Upto # {}
  <2>1. \A s \in S : 1..s \subseteq Seg
    BY SegAssumption DEF Seg
  <2>. QED
    BY <2>1
<1>2. PICK u \in Upto : \A v \in Upto : v \subseteq u => v = u
  <2>. HIDE DEF Upto
  <2>. QED
    BY <1>1, Smallest
<1>3. PICK m \in S : u = 1..m
  BY <1>2
<1>4. ASSUME NEW s \in S, s < m PROVE FALSE
  <2>1. /\ 1..s \subseteq 1..m
        /\ m \in 1..m /\ m \notin 1..s
    BY <1>4, SegAssumption DEF Seg
  <2>. QED
    BY <2>1, <1>2, <1>3
<1>. QED
  BY <1>4, SegAssumption DEF Seg

LEMMA Maximum ==
    ASSUME NEW S \in SUBSET Seg, S # {}
    PROVE  \E m \in S : \A s \in S : s <= m
<1>. DEFINE Left == {MaxSeg + 1 - s : s \in S}
<1>1. Left \in SUBSET Seg /\ Left # {}
  <2>1. \A s \in S : MaxSeg + 1 - s \in Seg
    BY SegAssumption DEF Seg
  <2>. QED
    BY <2>1
<1>2. PICK l \in Left : \A k \in Left : l <= k
  <2>. HIDE DEF Left
  <2>. QED
    BY <1>1, Minimum
<1>3. PICK m \in S : l = MaxSeg + 1 - m
  BY <1>2
<1>4. ASSUME NEW s \in S PROVE s <= m
  <2>1. MaxSeg + 1 - s \in Left
    OBVIOUS
  <2>2. MaxSeg + 1 - m <= MaxSeg + 1 - s
    BY <2>1, <1>2, <1>3
  <2>. QED
    BY <2>2, SegAssumption DEF Seg
<1>. QED
  BY <1>4

LEMMA FirstIsLeast ==
    ASSUME NEW S \in SUBSET Seg, S # {}
    PROVE  First(S) \in S /\ \A s \in S : First(S) <= s
<1>1. \E m \in S : \A s \in S : m <= s
  BY Minimum DEF Seg
<1>. QED
  BY <1>1 DEF First

LEMMA OldestIsPrefix ==
    /\ Oldest \subseteq Done
    /\ \A s \in Oldest, u \in Done : u < s => u \in Oldest
<1>1. Oldest \subseteq Done
  BY DEF Oldest
<1>2. ASSUME NEW s \in Oldest, NEW u \in Done, u < s PROVE u \in Oldest
  <2>. DEFINE Before(x) == {t \in Done : t < x}
  <2>1. Before(u) \subseteq Before(s)
    BY <1>2, SegAssumption DEF Done, Seg, Oldest
  <2>2. IsFiniteSet(Done)
    <3>1. IsFiniteSet(Seg)
      BY FS_Interval, SegAssumption DEF Seg
    <3>. QED
      BY <3>1, FS_Subset DEF Done
  <2>3. IsFiniteSet(Before(s)) /\ IsFiniteSet(Before(u))
    BY <2>2, FS_Subset
  <2>4. Cardinality(Before(u)) <= Cardinality(Before(s))
    BY <2>1, <2>3, FS_Subset
  <2>5. Cardinality(Before(s)) < BATCH
    BY DEF Oldest
  <2>6. Cardinality(Before(u)) \in Nat /\ Cardinality(Before(s)) \in Nat
    BY <2>3, FS_CardinalityType
  <2>7. Cardinality(Before(u)) < BATCH
    BY <2>4, <2>5, <2>6, SegAssumption
  <2>. QED
    BY <2>7 DEF Oldest
<1>. QED
  BY <1>1, <1>2

(***************************************************************************)
(* The size of a set of segments.  The fold of the library is a recursive  *)
(* function over the subsets of the set it is given: one such function     *)
(* exists for each set of segments, and they agree where they meet.        *)
(***************************************************************************)
Total(S) == SumFunctionOnSet(Bytes, S)

Pick(S) == CHOOSE x \in S : TRUE
Sums(g, S) ==
    g = [s \in SUBSET S |-> IF s = {} THEN 0 ELSE Bytes[Pick(s)] + g[s \ {Pick(s)}]]

LEMMA Picked ==
    ASSUME NEW S, S # {}
    PROVE  Pick(S) \in S
BY DEF Pick

LEMMA SumsStep ==
    ASSUME NEW S, NEW g, Sums(g, S), NEW R \in SUBSET S
    PROVE  g[R] = IF R = {} THEN 0 ELSE Bytes[Pick(R)] + g[R \ {Pick(R)}]
<1>. DEFINE step(s) == IF s = {} THEN 0 ELSE Bytes[Pick(s)] + g[s \ {Pick(s)}]
<1>1. g = [s \in SUBSET S |-> step(s)]
  BY DEF Sums
<1>. HIDE DEF step
<1>2. g[R] = step(R)
  BY <1>1
<1>. QED
  BY <1>2 DEF step

LEMMA SumsAgree ==
    ASSUME NEW S \in SUBSET Seg, NEW T \in SUBSET Seg, NEW g, NEW h,
           Sums(g, S), Sums(h, T), NEW R \in SUBSET (S \cap T)
    PROVE  g[R] = h[R]
<1>. DEFINE Differ == {r \in SUBSET (S \cap T) : g[r] # h[r]}
<1>1. SUFFICES ASSUME Differ # {} PROVE FALSE
  OBVIOUS
<1>2. Differ \subseteq SUBSET Seg
  OBVIOUS
<1>3. PICK r \in Differ : \A x \in Differ : x \subseteq r => x = r
  <2>. HIDE DEF Differ
  <2>. QED
    BY <1>1, <1>2, Smallest
<1>4. r # {}
  BY SumsStep
<1>5. Pick(r) \in r
  BY <1>4, Picked
<1>6. g[r \ {Pick(r)}] = h[r \ {Pick(r)}]
  BY <1>3, <1>5
<1>7. g[r] = Bytes[Pick(r)] + g[r \ {Pick(r)}]
  BY <1>4, SumsStep
<1>8. h[r] = Bytes[Pick(r)] + h[r \ {Pick(r)}]
  BY <1>4, SumsStep
<1>. QED
  BY <1>6, <1>7, <1>8

LEMMA SumsExists ==
    ASSUME NEW S \in SUBSET Seg
    PROVE  \E g : Sums(g, S)
<1>. DEFINE Without == {s \in SUBSET Seg : ~\E g : Sums(g, s)}
<1>1. SUFFICES ASSUME Without # {} PROVE FALSE
  OBVIOUS
<1>2. PICK r \in Without : \A x \in Without : x \subseteq r => x = r
  <2>. HIDE DEF Without
  <2>1. Without \subseteq SUBSET Seg
    BY DEF Without
  <2>. QED
    BY <1>1, <2>1, Smallest
<1>. DEFINE of(s) == CHOOSE g : Sums(g, s)
            value(s) == IF s = {} THEN 0 ELSE Bytes[Pick(s)] + of(s \ {Pick(s)})[s \ {Pick(s)}]
            all == [s \in SUBSET r |-> value(s)]
<1>3. ASSUME NEW s \in SUBSET r, s # r PROVE Sums(of(s), s)
  <2>1. \E g : Sums(g, s)
    BY <1>2, <1>3
  <2>. QED
    BY <2>1
<1>4. ASSUME NEW s \in SUBSET r, s # r PROVE of(s)[s] = value(s)
  <2>1. CASE s = {}
    BY <1>3, <1>4, <2>1, SumsStep
  <2>2. CASE s # {}
    <3>. DEFINE t == s \ {Pick(s)}
    <3>1. Pick(s) \in s
      BY <2>2, Picked
    <3>2. Sums(of(s), s) /\ Sums(of(t), t)
      BY <1>3, <1>4, <3>1
    <3>. HIDE DEF of
    <3>3. of(s)[t] = of(t)[t]
      BY <3>2, SumsAgree
    <3>4. of(s)[s] = Bytes[Pick(s)] + of(s)[t]
      BY <2>2, <3>2, SumsStep
    <3>. QED
      BY <2>2, <3>3, <3>4
  <2>. QED
    BY <2>1, <2>2
<1>. HIDE DEF of
<1>5. ASSUME NEW s \in SUBSET r, s # {}
      PROVE  all[s \ {Pick(s)}] = of(s \ {Pick(s)})[s \ {Pick(s)}]
  <2>. DEFINE t == s \ {Pick(s)}
  <2>1. t \in SUBSET r /\ t # r
    BY <1>5, Picked
  <2>2. of(t)[t] = value(t)
    BY <2>1, <1>4
  <2>. HIDE DEF value, t
  <2>3. all[t] = value(t)
    BY <2>1
  <2>. QED
    BY <2>2, <2>3 DEF t
<1>6. \A s \in SUBSET r :
        value(s) = IF s = {} THEN 0 ELSE Bytes[Pick(s)] + all[s \ {Pick(s)}]
  BY <1>5
<1>7. Sums(all, r)
  BY <1>6 DEF Sums
<1>. QED
  BY <1>7

LEMMA TotalOf ==
    ASSUME NEW S \in SUBSET Seg
    PROVE  Total(S) = IF S = {} THEN 0 ELSE Bytes[Pick(S)] + Total(S \ {Pick(S)})
<1>. DEFINE of(s) == CHOOSE g : Sums(g, s)
<1>1. \A s \in SUBSET Seg : Total(s) = of(s)[s]
  BY DEF Total, SumFunctionOnSet, FoldFunctionOnSet, MapThenFoldSet, Sums, Pick
<1>2. \A s \in SUBSET Seg : Sums(of(s), s)
  BY SumsExists
<1>. HIDE DEF of
<1>3. of(S)[S] = IF S = {} THEN 0 ELSE Bytes[Pick(S)] + of(S)[S \ {Pick(S)}]
  BY <1>2, SumsStep
<1>4. of(S)[S \ {Pick(S)}] = of(S \ {Pick(S)})[S \ {Pick(S)}]
  BY <1>2, SumsAgree
<1>. QED
  BY <1>1, <1>3, <1>4

LEMMA TotalEmpty == Total({}) = 0
BY TotalOf

LEMMA TotalType ==
    ASSUME NEW S \in SUBSET Seg
    PROVE  Total(S) \in Nat
<1>. DEFINE Off == {s \in SUBSET Seg : Total(s) \notin Nat}
<1>1. SUFFICES ASSUME Off # {} PROVE FALSE
  OBVIOUS
<1>2. PICK r \in Off : \A x \in Off : x \subseteq r => x = r
  <2>. HIDE DEF Off
  <2>1. Off \subseteq SUBSET Seg
    BY DEF Off
  <2>. QED
    BY <1>1, <2>1, Smallest
<1>3. r # {}
  BY TotalEmpty
<1>4. Pick(r) \in r
  BY <1>3, Picked
<1>5. Total(r \ {Pick(r)}) \in Nat
  BY <1>2, <1>4
<1>. QED
  BY <1>3, <1>4, <1>5, TotalOf, BytesAssumption

\* The size of a set, any segment of it taken out.
LEMMA TotalTakes ==
    ASSUME NEW S \in SUBSET Seg, NEW s \in S
    PROVE  Total(S) = Bytes[s] + Total(S \ {s})
<1>. DEFINE Off == {r \in SUBSET Seg : \E x \in r : Total(r) # Bytes[x] + Total(r \ {x})}
<1>1. SUFFICES ASSUME Off # {} PROVE FALSE
  OBVIOUS
<1>2. PICK r \in Off : \A y \in Off : y \subseteq r => y = r
  <2>. HIDE DEF Off
  <2>1. Off \subseteq SUBSET Seg
    BY DEF Off
  <2>. QED
    BY <1>1, <2>1, Smallest
<1>3. PICK x \in r : Total(r) # Bytes[x] + Total(r \ {x})
  OBVIOUS
<1>. DEFINE p == Pick(r)
<1>4. p \in r
  BY Picked
<1>. HIDE DEF p
<1>5. Total(r) = Bytes[p] + Total(r \ {p})
  BY <1>3, TotalOf DEF p
<1>6. p # x
  BY <1>3, <1>5
<1>. DEFINE rest == (r \ {x}) \ {p}
<1>7. \A y \in SUBSET r : \A z \in y : y # r => Total(y) = Bytes[z] + Total(y \ {z})
  BY <1>2
<1>8. /\ (r \ {p}) \ {x} = rest
      /\ x \in r \ {p} /\ p \in r \ {x}
  BY <1>4, <1>6
<1>9. Total(r \ {p}) = Bytes[x] + Total(rest)
  BY <1>7, <1>8
<1>10. Total(r \ {x}) = Bytes[p] + Total(rest)
  BY <1>7, <1>8
<1>11. Bytes[x] \in Nat /\ Bytes[p] \in Nat /\ Total(rest) \in Nat
  BY <1>4, TotalType, BytesAssumption
<1>. HIDE DEF rest
<1>. QED
  BY <1>3, <1>5, <1>9, <1>10, <1>11

LEMMA TotalMonotone ==
    ASSUME NEW S \in SUBSET Seg, NEW T \in SUBSET S
    PROVE  Total(T) <= Total(S)
<1>. DEFINE Off == {r \in SUBSET Seg : T \subseteq r /\ ~(Total(T) <= Total(r))}
<1>1. SUFFICES ASSUME Off # {} PROVE FALSE
  OBVIOUS
<1>2. PICK r \in Off : \A y \in Off : y \subseteq r => y = r
  <2>. HIDE DEF Off
  <2>1. Off \subseteq SUBSET Seg
    BY DEF Off
  <2>. QED
    BY <1>1, <2>1, Smallest
<1>3. Total(T) \in Nat
  BY TotalType
<1>4. PICK x \in r : x \notin T
  BY <1>3
<1>5. Total(T) <= Total(r \ {x})
  BY <1>2, <1>4
<1>6. Total(r) = Bytes[x] + Total(r \ {x})
  BY TotalTakes
<1>7. Bytes[x] \in Nat /\ Total(r \ {x}) \in Nat
  BY TotalType, BytesAssumption
<1>. QED
  BY <1>3, <1>5, <1>6, <1>7

LEMMA NoneOldest ==
    ASSUME Oldest = {}
    PROVE  Done = {}
<1>. SUFFICES ASSUME Done # {} PROVE FALSE
  OBVIOUS
<1>1. PICK m \in Done : \A s \in Done : m <= s
  BY Minimum DEF Done
<1>2. {t \in Done : t < m} = {}
  BY <1>1 DEF Done, Seg
<1>3. m \in Oldest
  BY <1>2, FS_EmptySet, SegAssumption DEF Oldest
<1>. QED
  BY <1>3

(***************************************************************************)
(* What an assignment to at does.                                          *)
(***************************************************************************)
Local(p, s, d, f, l) == [pc |-> p, seg |-> s, due |-> d, freed |-> f, list |-> l]

Moved(t, p, s, l) ==
    /\ Form'
    /\ at'[t].pc = p /\ at'[t].seg = s /\ at'[t].list = l
    /\ \A u \in Task \ {t} : at'[u] = at[u]

Carries(t, d, f) == at'[t].due = d /\ at'[t].freed = f

LEMMA Replaced ==
    ASSUME NEW t \in Task, NEW p, NEW s, NEW d, NEW f, NEW l, Form,
           at' = [at EXCEPT ![t] = Local(p, s, d, f, l)]
    PROVE  Moved(t, p, s, l)
<1>. DEFINE Whole(r) == r = [pc |-> r.pc, seg |-> r.seg, due |-> r.due,
                            freed |-> r.freed, list |-> r.list]
<1>1. DOMAIN at = Task /\ DOMAIN at' = Task
  BY DEF Form
<1>2. \A u \in Task : Whole(at[u])
  BY DEF Form
<1>3. at'[t] = Local(p, s, d, f, l) /\ \A u \in Task \ {t} : at'[u] = at[u]
  BY <1>1
<1>4. \A u \in Task : Whole(at'[u])
  BY <1>2, <1>3 DEF Local
<1>5. at' = [u \in Task |-> at'[u]]
  BY <1>1
<1>6. Form'
  BY <1>4, <1>5 DEF Form
<1>. QED
  BY <1>3, <1>6 DEF Moved, Local

LEMMA LocalOf ==
    ASSUME NEW t \in Task, Form
    PROVE  at[t] = Local(at[t].pc, at[t].seg, at[t].due, at[t].freed, at[t].list)
BY DEF Form, Local

LEMMA ToStep ==
    ASSUME NEW t \in Task, NEW p, Form,
           at' = [at EXCEPT ![t].pc = p]
    PROVE  Moved(t, p, at[t].seg, at[t].list) /\ Carries(t, at[t].due, at[t].freed)
<1>. DEFINE r == at[t]
<1>1. r = Local(r.pc, r.seg, r.due, r.freed, r.list)
  BY LocalOf
<1>2. at' = [at EXCEPT ![t] = [r EXCEPT !.pc = p]]
  OBVIOUS
<1>. HIDE DEF r
<1>3. [r EXCEPT !.pc = p] = Local(p, r.seg, r.due, r.freed, r.list)
  BY <1>1 DEF Local
<1>4. at' = [at EXCEPT ![t] = Local(p, r.seg, r.due, r.freed, r.list)]
  BY <1>2, <1>3
<1>5. Moved(t, p, r.seg, r.list)
  BY <1>4, Replaced
<1>6. Carries(t, r.due, r.freed)
  BY <1>4 DEF Form, Carries, Local
<1>. QED
  BY <1>5, <1>6 DEF r

LEMMA ToSeg ==
    ASSUME NEW t \in Task, NEW p, NEW s, Form,
           at' = [at EXCEPT ![t].pc = p, ![t].seg = s]
    PROVE  Moved(t, p, s, at[t].list) /\ Carries(t, at[t].due, at[t].freed)
<1>. DEFINE r == at[t]
<1>1. r = Local(r.pc, r.seg, r.due, r.freed, r.list)
  BY LocalOf
<1>2. at' = [at EXCEPT ![t] = [r EXCEPT !.pc = p, !.seg = s]]
  OBVIOUS
<1>. HIDE DEF r
<1>3. [r EXCEPT !.pc = p, !.seg = s] = Local(p, s, r.due, r.freed, r.list)
  <2>1. [r EXCEPT !.pc = p] = Local(p, r.seg, r.due, r.freed, r.list)
    BY <1>1 DEF Local
  <2>2. [Local(p, r.seg, r.due, r.freed, r.list) EXCEPT !.seg = s]
        = Local(p, s, r.due, r.freed, r.list)
    BY <1>1 DEF Local
  <2>3. [r EXCEPT !.pc = p, !.seg = s] = [[r EXCEPT !.pc = p] EXCEPT !.seg = s]
    OBVIOUS
  <2>. QED
    BY <2>1, <2>2, <2>3
<1>4. at' = [at EXCEPT ![t] = Local(p, s, r.due, r.freed, r.list)]
  BY <1>2, <1>3
<1>5. Moved(t, p, s, r.list)
  BY <1>4, Replaced
<1>6. Carries(t, r.due, r.freed)
  BY <1>4 DEF Form, Carries, Local
<1>. QED
  BY <1>5, <1>6 DEF r

LEMMA ToDue ==
    ASSUME NEW t \in Task, NEW p, NEW d, Form,
           at' = [at EXCEPT ![t].pc = p, ![t].due = d]
    PROVE  Moved(t, p, at[t].seg, at[t].list) /\ Carries(t, d, at[t].freed)
<1>. DEFINE r == at[t]
<1>1. r = Local(r.pc, r.seg, r.due, r.freed, r.list)
  BY LocalOf
<1>2. at' = [at EXCEPT ![t] = [r EXCEPT !.pc = p, !.due = d]]
  OBVIOUS
<1>. HIDE DEF r
<1>3. [r EXCEPT !.pc = p, !.due = d] = Local(p, r.seg, d, r.freed, r.list)
  <2>1. [r EXCEPT !.pc = p] = Local(p, r.seg, r.due, r.freed, r.list)
    BY <1>1 DEF Local
  <2>2. [Local(p, r.seg, r.due, r.freed, r.list) EXCEPT !.due = d]
        = Local(p, r.seg, d, r.freed, r.list)
    BY <1>1 DEF Local
  <2>3. [r EXCEPT !.pc = p, !.due = d] = [[r EXCEPT !.pc = p] EXCEPT !.due = d]
    OBVIOUS
  <2>. QED
    BY <2>1, <2>2, <2>3
<1>4. at' = [at EXCEPT ![t] = Local(p, r.seg, d, r.freed, r.list)]
  BY <1>2, <1>3
<1>5. Moved(t, p, r.seg, r.list)
  BY <1>4, Replaced
<1>6. Carries(t, d, r.freed)
  BY <1>4 DEF Form, Carries, Local
<1>. QED
  BY <1>5, <1>6 DEF r

LEMMA ToList ==
    ASSUME NEW t \in Task, NEW p, NEW l, Form,
           at' = [at EXCEPT ![t].pc = p, ![t].list = l]
    PROVE  Moved(t, p, at[t].seg, l) /\ Carries(t, at[t].due, at[t].freed)
<1>. DEFINE r == at[t]
<1>1. r = Local(r.pc, r.seg, r.due, r.freed, r.list)
  BY LocalOf
<1>2. at' = [at EXCEPT ![t] = [r EXCEPT !.pc = p, !.list = l]]
  OBVIOUS
<1>. HIDE DEF r
<1>3. [r EXCEPT !.pc = p, !.list = l] = Local(p, r.seg, r.due, r.freed, l)
  <2>1. [r EXCEPT !.pc = p] = Local(p, r.seg, r.due, r.freed, r.list)
    BY <1>1 DEF Local
  <2>2. [Local(p, r.seg, r.due, r.freed, r.list) EXCEPT !.list = l]
        = Local(p, r.seg, r.due, r.freed, l)
    BY <1>1 DEF Local
  <2>3. [r EXCEPT !.pc = p, !.list = l] = [[r EXCEPT !.pc = p] EXCEPT !.list = l]
    OBVIOUS
  <2>. QED
    BY <2>1, <2>2, <2>3
<1>4. at' = [at EXCEPT ![t] = Local(p, r.seg, r.due, r.freed, l)]
  BY <1>2, <1>3
<1>5. Moved(t, p, r.seg, l)
  BY <1>4, Replaced
<1>6. Carries(t, r.due, r.freed)
  BY <1>4 DEF Form, Carries, Local
<1>. QED
  BY <1>5, <1>6 DEF r

LEMMA ToBatch ==
    ASSUME NEW t \in Task, NEW p, NEW f, NEW l, Form,
           at' = [at EXCEPT ![t].pc = p, ![t].freed = f, ![t].list = l]
    PROVE  Moved(t, p, at[t].seg, l) /\ Carries(t, at[t].due, f)
<1>. DEFINE r == at[t]
<1>1. r = Local(r.pc, r.seg, r.due, r.freed, r.list)
  BY LocalOf
<1>2. at' = [at EXCEPT ![t] = [r EXCEPT !.pc = p, !.freed = f, !.list = l]]
  OBVIOUS
<1>. HIDE DEF r
<1>3. [r EXCEPT !.pc = p, !.freed = f, !.list = l] = Local(p, r.seg, r.due, f, l)
  <2>1. [r EXCEPT !.pc = p] = Local(p, r.seg, r.due, r.freed, r.list)
    BY <1>1 DEF Local
  <2>2. [Local(p, r.seg, r.due, r.freed, r.list) EXCEPT !.freed = f]
        = Local(p, r.seg, r.due, f, r.list)
    BY <1>1 DEF Local
  <2>3. [Local(p, r.seg, r.due, f, r.list) EXCEPT !.list = l]
        = Local(p, r.seg, r.due, f, l)
    BY <1>1 DEF Local
  <2>4. [r EXCEPT !.pc = p, !.freed = f, !.list = l]
        = [[[r EXCEPT !.pc = p] EXCEPT !.freed = f] EXCEPT !.list = l]
    OBVIOUS
  <2>. QED
    BY <2>1, <2>2, <2>3, <2>4
<1>4. at' = [at EXCEPT ![t] = Local(p, r.seg, r.due, f, l)]
  BY <1>2, <1>3
<1>5. Moved(t, p, r.seg, l)
  BY <1>4, Replaced
<1>6. Carries(t, r.due, f)
  BY <1>4 DEF Form, Carries, Local
<1>. QED
  BY <1>5, <1>6 DEF r

LEMMA ToRest ==
    ASSUME NEW t \in Task, NEW f, NEW l, Form,
           at' = [at EXCEPT ![t].freed = f, ![t].list = l]
    PROVE  Moved(t, at[t].pc, at[t].seg, l) /\ Carries(t, at[t].due, f)
<1>. DEFINE r == at[t]
<1>1. r = Local(r.pc, r.seg, r.due, r.freed, r.list)
  BY LocalOf
<1>2. at' = [at EXCEPT ![t] = [r EXCEPT !.freed = f, !.list = l]]
  OBVIOUS
<1>. HIDE DEF r
<1>3. [r EXCEPT !.freed = f, !.list = l] = Local(r.pc, r.seg, r.due, f, l)
  <2>1. [r EXCEPT !.freed = f] = Local(r.pc, r.seg, r.due, f, r.list)
    BY <1>1 DEF Local
  <2>2. [Local(r.pc, r.seg, r.due, f, r.list) EXCEPT !.list = l]
        = Local(r.pc, r.seg, r.due, f, l)
    BY <1>1 DEF Local
  <2>3. [r EXCEPT !.freed = f, !.list = l] = [[r EXCEPT !.freed = f] EXCEPT !.list = l]
    OBVIOUS
  <2>. QED
    BY <2>1, <2>2, <2>3
<1>4. at' = [at EXCEPT ![t] = Local(r.pc, r.seg, r.due, f, l)]
  BY <1>2, <1>3
<1>5. Moved(t, r.pc, r.seg, l)
  BY <1>4, Replaced
<1>6. Carries(t, r.due, f)
  BY <1>4 DEF Form, Carries, Local
<1>. QED
  BY <1>5, <1>6 DEF r

LEMMA ToHere ==
    ASSUME NEW t \in Task, NEW p, Form, at' = [at EXCEPT ![t] = Here(p)]
    PROVE  Moved(t, p, 0, {}) /\ Carries(t, 0, 0)
<1>1. at' = [at EXCEPT ![t] = Local(p, 0, 0, 0, {})]
  BY DEF Here, Local
<1>2. Moved(t, p, 0, {})
  BY <1>1, Replaced
<1>3. Carries(t, 0, 0)
  BY <1>1 DEF Form, Carries, Local
<1>. QED
  BY <1>2, <1>3

LEMMA GotoMoves ==
    ASSUME NEW t \in Task, NEW p, Form, Goto(t, p)
    PROVE  /\ Moved(t, p, IF p = "idle" THEN 0 ELSE at[t].seg,
                          IF p = "idle" THEN {} ELSE at[t].list)
           /\ Carries(t, IF p = "idle" THEN 0 ELSE at[t].due,
                         IF p = "idle" THEN 0 ELSE at[t].freed)
<1>1. CASE p = "idle"
  BY <1>1, ToHere DEF Goto
<1>2. CASE p # "idle"
  <2>1. at' = [at EXCEPT ![t].pc = p]
    BY <1>2 DEF Goto
  <2>. QED
    BY <1>2, <2>1, ToStep
<1>. QED
  BY <1>1, <1>2

LEMMA TypedMoves ==
    ASSUME Typed, NEW t \in Task, NEW p \in Step, NEW s \in 0..MaxSeg,
           NEW l \in SUBSET Seg, p = "delete" <=> l # {}, Moved(t, p, s, l)
    PROVE  Typed'
<1>1. Form'
  BY DEF Moved
<1>2. ASSUME NEW u \in Task
      PROVE  /\ at'[u].pc \in Step /\ at'[u].seg \in 0..MaxSeg
             /\ at'[u].list \in SUBSET Seg
             /\ at'[u].pc = "delete" <=> at'[u].list # {}
  <2>1. CASE u = t
    BY <2>1 DEF Moved
  <2>2. CASE u # t
    BY <2>2 DEF Moved, Typed
  <2>. QED
    BY <2>1, <2>2
<1>. QED
  BY <1>1, <1>2 DEF Typed

\* A segment that a task is to finalise is one that was heard of.
LEMMA ClaimsKnown ==
    ASSUME IInv, NEW t \in Task, Claims(t), at[t].seg # 0
    PROVE  at[t].seg \in Seg /\ at[t].seg <= heard
BY SegAssumption DEF IInv, Stored, Typed, Roles, Claims, Finalises, Task, Seg

LEMMA FinalisesKnown ==
    ASSUME IInv, NEW t \in Task, Finalises(t)
    PROVE  at[t].seg \in Seg /\ at[t].seg <= heard /\ Claims(t)
BY ClaimsKnown, SegAssumption DEF IInv, Stored, Typed, Roles, Claims, Finalises, Task, Seg

LEMMA FinalisesPending ==
    ASSUME IInv, NEW t \in Task, Finalises(t)
    PROVE  Pending(at[t].seg)
BY DEF IInv, Roles, Pending, Claims, Finalises, Task

(***************************************************************************)
(* What a step must not do, and what the rest of the invariant follows     *)
(* from.                                                                   *)
(***************************************************************************)
Grows == \E s \in Seg : (\A u \in Kept : u < s) /\ Kept' = Kept \cup {s}
Shrinks == \E s \in Kept : Kept' = {u \in Kept : s < u}
RingStep == Kept' = Kept \/ Grows \/ Shrinks

\* Nothing that need not be finalised has to be again.
Monotone ==
    \A s \in Seg : s <= heard =>
        /\ Away(s) => Away(s)'
        /\ Secure(s) => Secure(s)'
        /\ Owed(s) => Owed(s)'

\* What happens to the archive.
Sound ==
    /\ row' \in [Seg -> {"none", "open", "done"}]
    /\ \A s \in Seg : row'[s] # "none" => s <= heard
    /\ \A u \in Kept' : u \in Kept \/ \A t \in Task : \A l \in at[t].list : l < u
    /\ RingStep /\ GhostsOldest' /\ Monotone

\* The tasks take nothing new into their hands.
FewerLists ==
    \A u \in Task :
        /\ at'[u].list = {} \/ at'[u].list = at[u].list
        /\ at'[u].pc = "delete" =>
               at[u].pc = "delete" /\ at'[u].list = at[u].list
FewerClaims ==
    \A u \in Task :
        /\ at'[u].pc \in {"hash", "complete"} =>
               at[u].pc \in {"check", "hash", "complete"} /\ at'[u].seg = at[u].seg
        /\ Claims(u)' /\ at'[u].seg # 0 =>
               Claims(u) /\ at'[u].seg = at[u].seg
FewerPending == \A s \in Seg : Pending(s)' => Pending(s)

\* What they let go of is secure, or in other hands.
Handed ==
    /\ \A u \in Task : \A s \in Seg : Claims(u) /\ s = at[u].seg =>
           Secure(s)' \/ (Claims(u)' /\ s = at'[u].seg)
    /\ \A s \in Seg : s = cur \/ s > heard =>
           \/ Secure(s)' \/ s = cur' \/ s > heard'
           \/ \E u \in Task : s = at'[u].seg /\ Claims(u)'

LEMMA GhostsStay ==
    ASSUME IInv, Kept' = Kept, Done' \subseteq Done
    PROVE  GhostsOldest'
BY DEF IInv, GhostsOldest, Kept

LEMMA SoundStays ==
    ASSUME IInv, row' \in [Seg -> {"none", "open", "done"}],
           Kept' = Kept, Done' \subseteq Done, Monotone,
           \A s \in Seg : row'[s] # "none" => s <= heard
    PROVE  Sound
BY GhostsStay DEF Sound, RingStep

LEMMA ArchiveStays ==
    ASSUME IInv, row' = row, disk' = disk, lost \subseteq lost'
    PROVE  Sound /\ Kept' = Kept /\ Done' \subseteq Done
<1>1. Kept' = Kept /\ Done' = Done
  BY DEF Kept, Done
<1>2. Monotone
  BY DEF Monotone, Owed, Secure, Away
<1>. QED
  BY <1>1, <1>2, SoundStays DEF IInv, Stored, Order, Heard

LEMMA OrderStays ==
    ASSUME IInv, Sound, FewerPending, Done' \subseteq Done,
           heard <= heard', heard' \in Nat,
           \A u \in Task : at'[u].list \subseteq at[u].list
    PROVE  Order'
<1>1. \A u \in Task : at'[u].list \subseteq at[u].list /\ at[u].list \subseteq Seg
  BY DEF IInv, Typed
<1>2. \A s \in Seg : row'[s] = "done" => row[s] = "done"
  BY DEF Done
<1>3. Heard'
  BY <1>1, SegAssumption DEF IInv, Stored, Order, Heard, Seg, Sound
<1>4. NewerThanDone'
  BY <1>2 DEF IInv, Order, NewerThanDone, FewerPending
<1>5. NewerThanListed'
  BY <1>1 DEF IInv, Order, NewerThanListed, FewerPending
<1>. QED
  BY <1>3, <1>4, <1>5 DEF Order

LEMMA VanishedStays ==
    ASSUME IInv, FewerClaims, Kept' \subseteq Kept,
           \A u \in Task : at'[u].pc \in {"hash", "complete"} /\ at[u].pc = "check"
               => disk'[at'[u].seg] # "none",
           \A s \in Seg : s <= heard /\ disk'[s] = "none" /\ row'[s] # "none"
               => disk[s] = "none" /\ row[s] # "none"
    PROVE  Vanished'
<1>1. ASSUME NEW u \in Task, at'[u].pc \in {"hash", "complete"},
             disk'[at'[u].seg] = "none", row'[at'[u].seg] # "none"
      PROVE  Kept' = {}
  <2>1. Finalises(u) /\ at'[u].seg = at[u].seg
    BY <1>1 DEF FewerClaims, Finalises
  <2>2. disk[at[u].seg] = "none" /\ row[at[u].seg] # "none"
    BY <1>1, <2>1, FinalisesKnown
  <2>3. at[u].pc \in {"hash", "complete"}
    BY <1>1, <2>1 DEF FewerClaims, Finalises
  <2>. QED
    BY <2>2, <2>3 DEF IInv, Vanished
<1>. QED
  BY <1>1 DEF Vanished

LEMMA PrefixSound ==
    ASSUME IInv, Sound, FewerLists
    PROVE  Prefix'
<1>1. \A u \in Kept' : u \in Seg
  BY DEF Kept, Done
<1>2. \A t \in Task : \A l \in at[t].list : l \in Seg
  BY DEF IInv, Typed
<1>3. ASSUME NEW t \in Task, NEW l \in at'[t].list, NEW u \in Kept', u < l
      PROVE  u \in at'[t].list
  <2>1. at'[t].list = at[t].list
    BY <1>3 DEF FewerLists
  <2>2. u \in Kept
    BY <2>1, <1>1, <1>2, <1>3 DEF Sound, Seg
  <2>. QED
    BY <2>1, <2>2, <1>3 DEF IInv, Prefix
<1>. QED
  BY <1>3 DEF Prefix

LEMMA ClaimedStays ==
    ASSUME IInv, Monotone, FewerClaims
    PROVE  ClaimedOwed'
<1>1. ASSUME NEW u \in Task, Claims(u)', at'[u].seg # 0
      PROVE  Owed(at[u].seg)'
  <2>1. Claims(u) /\ at'[u].seg = at[u].seg /\ at[u].seg # 0
    BY <1>1 DEF FewerClaims
  <2>2. at[u].seg \in Seg /\ at[u].seg <= heard /\ Owed(at[u].seg)
    BY <2>1, ClaimsKnown DEF IInv, Tracked, ClaimedOwed
  <2>. QED
    BY <2>1, <2>2 DEF Monotone, Owed, Secure, Away
<1>. QED
  BY <1>1 DEF ClaimedOwed

LEMMA FirstStays ==
    ASSUME IInv, Monotone, FewerLists
    PROVE  FirstAway'
<1>1. ASSUME NEW u \in Task, at'[u].pc = "delete"
      PROVE  Away(First(at[u].list))'
  <2>1. at[u].pc = "delete" /\ at'[u].list = at[u].list
    BY <1>1 DEF FewerLists
  <2>2. /\ First(at[u].list) \in Seg /\ First(at[u].list) <= heard
        /\ Away(First(at[u].list))
    BY <2>1, FirstIsLeast DEF IInv, Typed, Order, Heard, Tracked, FirstAway
  <2>3. First(at'[u].list) = First(at[u].list)
    BY <2>1
  <2>. QED
    BY <2>2, <2>3 DEF Monotone, Away, Secure, Owed
<1>. QED
  BY <1>1 DEF FirstAway

LEMMA RememberedStays ==
    ASSUME IInv, Monotone, Handed
    PROVE  Remembered'
<1>1. ASSUME NEW s \in Seg
      PROVE  \/ Secure(s)' \/ s = cur' \/ s > heard'
             \/ \E u \in Task : s = at'[u].seg /\ Claims(u)'
  <2>1. CASE s = cur \/ s > heard
    BY <2>1 DEF Handed
  <2>2. CASE ~(s = cur \/ s > heard)
    <3>1. s <= heard
      BY <2>2 DEF IInv, Stored, Seg
    <3>2. CASE Secure(s)
      BY <3>1, <3>2 DEF Monotone, Secure, Away, Owed
    <3>3. CASE \E u \in Task : s = at[u].seg /\ Claims(u)
      BY <3>3 DEF Handed
    <3>. QED
      BY <2>2, <3>2, <3>3 DEF IInv, Tracked, Remembered
  <2>. QED
    BY <2>1, <2>2
<1>. QED
  BY <1>1 DEF Remembered

\* The parts that are left to show of each action.
LEMMA Keeps ==
    ASSUME IInv, Sound, FewerClaims, FewerLists, Handed, Stored', Typed', Roles', Order',
           Vanished', CurOwed', CurSecure'
    PROVE  IInv' /\ RingStep
<1>1. GhostsOldest' /\ Monotone /\ RingStep
  BY DEF Sound
<1>2. ClaimedOwed' /\ FirstAway' /\ Remembered'
  BY <1>1, ClaimedStays, FirstStays, RememberedStays
<1>3. Prefix'
  BY PrefixSound
<1>. QED
  BY <1>1, <1>2, <1>3 DEF IInv, Tracked

(***************************************************************************)
(* What a statement does to the archive, whoever waits for it.             *)
(***************************************************************************)
LEMMA InsertLands ==
    ASSUME IInv, at["watcher"].pc = "insert", row' = [row EXCEPT ![cur] = "open"],
           disk' = disk, lost \subseteq lost'
    PROVE  /\ Sound /\ Kept' = Kept /\ cur \in Seg /\ row'[cur] = "open"
           /\ \A s \in Seg : row'[s] = "done" => row[s] = "done"
<1>1. cur \in Seg /\ recorder \in {"run", "stop"}
  BY SegAssumption DEF IInv, Stored, Typed, Roles, Claims, Task, Seg
<1>2. row[cur] # "done"
  BY <1>1 DEF IInv, Order, NewerThanDone, Pending, Seg
<1>3. \A s \in Seg : row'[s] = IF s = cur THEN "open" ELSE row[s]
  BY DEF IInv, Stored
<1>4. Kept' = Kept /\ Done' = Done
  BY <1>1, <1>2, <1>3 DEF Kept, Done
<1>5. Monotone
  BY <1>2, <1>3 DEF Monotone, Owed, Secure, Away
<1>6. \A s \in Seg : row'[s] # "none" => s <= heard
  BY <1>1, <1>3, SegAssumption DEF IInv, Stored, Order, Heard, Seg
<1>7. row' \in [Seg -> {"none", "open", "done"}]
  BY DEF IInv, Stored
<1>. QED
  BY <1>1, <1>3, <1>4, <1>5, <1>6, <1>7, GhostsStay DEF Sound, RingStep

LEMMA CompleteLands ==
    ASSUME IInv, NEW t \in Task, at[t].pc = "complete",
           row' = Completed(at[t].seg), disk' = disk, lost \subseteq lost'
    PROVE  /\ Sound
           /\ \A s \in Seg : row'[s] = "done" => row[s] = "done" \/ s = at[t].seg
           /\ Secure(at[t].seg) \/ row'[at[t].seg] = "done"
<1>. DEFINE seg == at[t].seg
<1>1. seg \in Seg /\ seg <= heard /\ Claims(t)
  BY FinalisesKnown DEF Finalises
<1>2. Pending(seg)
  BY DEF IInv, Roles, Pending, Claims, Finalises, Task
<1>3. \A s \in Seg : row'[s] = IF s = seg /\ row[s] # "none" THEN "done" ELSE row[s]
  BY <1>1 DEF IInv, Stored, Completed
<1>4. /\ \A u \in Done : u < seg
      /\ \A u \in Task : \A l \in at[u].list : l < seg
  BY <1>1, <1>2 DEF IInv, Typed, Order, NewerThanDone, NewerThanListed, Done
<1>. HIDE DEF seg
<1>5. ASSUME row[seg] = "none"
      PROVE  RingStep /\ GhostsOldest'
  <2>1. Kept' = Kept /\ Done' = Done
    BY <1>3, <1>5 DEF Kept, Done
  <2>. QED
    BY <2>1, GhostsStay DEF RingStep
<1>6. ASSUME row[seg] # "none" /\ disk[seg] = "none"
      PROVE  RingStep /\ GhostsOldest'
  <2>1. Kept = {}
    BY <1>6 DEF IInv, Vanished, seg
  <2>2. Kept' = {}
    BY <2>1, <1>3, <1>6 DEF Kept, Done
  <2>. QED
    BY <2>1, <2>2 DEF RingStep, GhostsOldest, Kept
<1>7. ASSUME row[seg] # "none" /\ disk[seg] # "none"
      PROVE  RingStep /\ GhostsOldest'
  <2>1. Done' = Done \cup {seg} /\ Kept' = Kept \cup {seg}
    BY <1>1, <1>3, <1>7 DEF Kept, Done
  <2>2. Grows
    BY <2>1, <1>1, <1>4 DEF Grows, Kept
  <2>3. GhostsOldest'
    BY <2>1, <1>4, <1>7 DEF IInv, GhostsOldest, Kept
  <2>. QED
    BY <2>2, <2>3 DEF RingStep
<1>8. \A u \in Kept' : u \in Kept \/ u = seg
  BY <1>3 DEF Kept, Done
<1>9. Monotone
  BY <1>3 DEF Monotone, Owed, Secure, Away
<1>10. \A s \in Seg : row'[s] # "none" => s <= heard
  BY <1>1, <1>3 DEF IInv, Order, Heard
<1>11. row' \in [Seg -> {"none", "open", "done"}]
  BY DEF IInv, Stored, Completed
<1>12. Secure(seg) \/ row'[seg] = "done"
  <2>1. Owed(seg)
    BY <1>1 DEF IInv, Tracked, ClaimedOwed, seg, Seg
  <2>. QED
    BY <2>1, <1>1, <1>3 DEF Owed
<1>. QED
  BY <1>3, <1>4, <1>5, <1>6, <1>7, <1>8, <1>9, <1>10, <1>11, <1>12 DEF Sound, seg

\* The row goes, and in the same step perhaps the file of the next one, x.
LEMMA DeleteLands ==
    ASSUME IInv, NEW t \in Task, at[t].pc = "delete", row' = Deleted(t),
           lost \subseteq lost',
           \/ disk' = disk
           \/ \E x \in Rest(t) : /\ \A u \in Rest(t) : x <= u
                                 /\ disk' = [disk EXCEPT ![x] = "none"]
    PROVE  /\ Sound /\ Kept' \subseteq Kept \ {First(at[t].list)}
           /\ First(at[t].list) \in Seg
           /\ \A s \in Seg : row'[s] # "none" => row'[s] = row[s]
<1>. DEFINE r == First(at[t].list)
<1>1. r \in at[t].list /\ r \in Seg /\ \A l \in at[t].list : r <= l /\ l \in Seg
  BY FirstIsLeast DEF IInv, Typed
<1>2. \A s \in Seg : row'[s] = IF s = r THEN "none" ELSE row[s]
  BY <1>1 DEF IInv, Stored, Deleted
<1>3. Away(r)
  BY DEF IInv, Tracked, FirstAway
<1>4. \A l \in at[t].list : \A u \in Kept : u < l => u \in at[t].list
  BY DEF IInv, Prefix
<1>5. Rest(t) = at[t].list \ {r}
  BY DEF Rest
<1>6. row' \in [Seg -> {"none", "open", "done"}]
  BY DEF IInv, Stored, Deleted
<1>. HIDE DEF r
<1>7. /\ Done' = Done \ {r}
      /\ \A s \in Seg : row'[s] # "none" => row'[s] = row[s]
  BY <1>2 DEF Done
<1>8. \A s \in Seg : row'[s] # "none" => s <= heard
  BY <1>7 DEF IInv, Order, Heard
<1>9. CASE disk' = disk
  <2>1. Kept' = Kept \ {r}
    BY <1>7, <1>9 DEF Kept
  <2>2. r \in Kept => \A u \in Kept : r <= u
    BY <1>1, <1>4 DEF Kept, Done, Seg
  <2>3. RingStep
    <3>1. CASE r \in Kept
      <4>1. Kept' = {u \in Kept : r < u}
        BY <2>1, <2>2, <1>1, <3>1 DEF Kept, Done, Seg
      <4>. QED
        BY <4>1, <3>1 DEF RingStep, Shrinks
    <3>2. CASE r \notin Kept
      BY <2>1, <3>2 DEF RingStep
    <3>. QED
      BY <3>1, <3>2
  <2>4. GhostsOldest'
    BY <1>7, <1>9 DEF IInv, GhostsOldest
  <2>5. Monotone
    BY <1>2, <1>3, <1>9 DEF Monotone, Owed, Secure, Away
  <2>. QED
    BY <2>1, <2>3, <2>4, <2>5, <1>1, <1>6, <1>7, <1>8 DEF Sound, r
<1>10. ASSUME NEW x \in Rest(t), \A u \in Rest(t) : x <= u,
              disk' = [disk EXCEPT ![x] = "none"]
       PROVE  /\ Sound /\ Kept' \subseteq Kept \ {r} /\ r \in Seg
              /\ \A s \in Seg : row'[s] # "none" => row'[s] = row[s]
  <2>1. x \in Seg /\ x \in at[t].list /\ r < x
    BY <1>1, <1>5 DEF Seg
  <2>2. \A s \in Seg : disk'[s] = IF s = x THEN "none" ELSE disk[s]
    BY <1>10 DEF IInv, Stored
  <2>3. Kept' = Kept \ {r, x}
    BY <1>7, <2>2 DEF Kept, Done
  <2>4. \A u \in Kept : u < x => u = r
    <3>1. ASSUME NEW u \in Kept, u < x, u # r PROVE FALSE
      <4>1. u \in Rest(t) /\ u \in Seg
        BY <1>4, <1>5, <2>1, <3>1 DEF Kept, Done
      <4>. QED
        BY <4>1, <1>10, <3>1, <2>1 DEF Seg
    <3>. QED
      BY <3>1
  <2>5. \A u \in Kept : r <= u
    <3>1. ASSUME NEW u \in Kept, u < r PROVE FALSE
      <4>1. u \in at[t].list /\ u \in Seg
        BY <1>1, <1>4, <3>1 DEF Kept, Done
      <4>. QED
        BY <4>1, <1>1, <3>1 DEF Seg
    <3>. QED
      BY <3>1, <1>1 DEF Kept, Done, Seg
  <2>6. RingStep
    <3>1. CASE x \in Kept
      <4>1. Kept' = {u \in Kept : x < u}
        BY <2>1, <2>3, <2>4, <3>1 DEF Kept, Done, Seg
      <4>. QED
        BY <4>1, <3>1 DEF RingStep, Shrinks
    <3>2. CASE x \notin Kept /\ r \in Kept
      <4>1. Kept' = {u \in Kept : r < u}
        BY <2>1, <2>3, <2>5, <3>2 DEF Kept, Done, Seg
      <4>. QED
        BY <4>1, <3>2 DEF RingStep, Shrinks
    <3>3. CASE x \notin Kept /\ r \notin Kept
      BY <2>3, <3>3 DEF RingStep
    <3>. QED
      BY <3>1, <3>2, <3>3
  <2>7. GhostsOldest'
    <3>1. ASSUME NEW s \in Done', NEW u \in Done', disk'[s] = "none", disk'[u] # "none"
          PROVE  s < u
      <4>1. s \in Done /\ u \in Done /\ u \in Kept' /\ s \in Seg /\ u \in Seg
        BY <1>7, <3>1 DEF Kept, Done
      <4>2. CASE s = x
        BY <2>1, <2>3, <2>4, <4>1, <4>2 DEF Seg
      <4>3. CASE s # x
        BY <2>2, <3>1, <4>1, <4>3 DEF IInv, GhostsOldest
      <4>. QED
        BY <4>2, <4>3
    <3>. QED
      BY <3>1 DEF GhostsOldest
  <2>8. Monotone
    BY <1>2, <1>3, <2>2 DEF Monotone, Owed, Secure, Away
  <2>. QED
    BY <2>3, <2>6, <2>7, <2>8, <1>1, <1>6, <1>7, <1>8 DEF Sound
<1>. QED
  BY <1>9, <1>10 DEF r

LEMMA EmptiedRing ==
    ASSUME Kept' = {}
    PROVE  RingStep
<1>1. CASE Kept = {}
  BY <1>1 DEF RingStep
<1>2. CASE Kept # {}
  <2>1. Kept \in SUBSET Seg
    BY DEF Kept, Done
  <2>2. PICK m \in Kept : \A s \in Kept : s <= m
    BY <2>1, <1>2, Maximum
  <2>3. Kept' = {u \in Kept : m < u}
    BY <2>1, <2>2 DEF Kept, Done, Seg
  <2>. QED
    BY <2>3 DEF RingStep, Shrinks
<1>. QED
  BY <1>1, <1>2

\* A task moves on, and nothing else.
(***************************************************************************)
(* The steps that take nothing new into a task's hands: a task moves on,   *)
(* and the rest, an action each.                                           *)
(***************************************************************************)
LEMMA MovesOnKeeps ==
    ASSUME NEW t \in Task, IInv, NEW p \in {"idle", "used", "list", "hash", "complete"},
           NEW seg \in {0, at[t].seg}, seg = at[t].seg \/ p = "idle",
           Moved(t, p, seg, {}),
           at[t].pc \notin {"off", "insert", "complete"},
           p = "hash" => at[t].pc = "check",
           p = "complete" => at[t].pc = "hash",
           Finalises(t) /\ p \notin {"hash", "complete"} => Secure(at[t].seg),
           UNCHANGED <<store, camera>>, lost' = lost,
           p = "hash" => disk[at[t].seg] # "none"
    PROVE  IInv' /\ RingStep
<1>1. Sound /\ Kept' = Kept /\ Done' \subseteq Done
  BY ArchiveStays DEF store
<1>2. Stored'
  BY DEF IInv, Stored, store, camera
<1>3. Typed'
  <2>1. /\ p \in Step /\ seg \in 0..MaxSeg /\ {} \in SUBSET Seg
        /\ p = "delete" <=> {} # {}
    BY SegAssumption DEF IInv, Typed, Step
  <2>. QED
    BY <2>1, TypedMoves DEF IInv
<1>4. Roles'
  BY DEF IInv, Roles, Claims, Finalises, Moved, Task, camera
<1>5. FewerClaims /\ FewerLists
  BY DEF FewerClaims, FewerLists, Claims, Finalises, Moved
<1>6. Order'
  <2>1. FewerPending
    BY DEF FewerPending, Pending, Claims, Finalises, Moved, Task, camera
  <2>2. heard <= heard' /\ heard' \in Nat /\ Done' \subseteq Done
    BY <1>1 DEF IInv, Stored, camera
  <2>. QED
    BY <1>1, <1>5, <2>1, <2>2, OrderStays DEF FewerLists
<1>7. Vanished'
  <2>1. \A s \in Seg : s <= heard /\ disk'[s] = "none" /\ row'[s] # "none"
               => disk[s] = "none" /\ row[s] # "none"
    BY DEF store
  <2>2. \A u \in Task : at'[u].pc \in {"hash", "complete"} /\ at[u].pc = "check"
               => disk'[at'[u].seg] # "none"
    BY DEF Moved, store
  <2>. QED
    BY <1>1, <1>5, <2>1, <2>2, VanishedStays
<1>8. CurOwed'
  BY <1>1, SegAssumption
     DEF IInv, Stored, Tracked, CurOwed, Sound, Monotone, Moved, Task, Seg, camera
<1>9. CurSecure'
  BY <1>1, SegAssumption
     DEF IInv, Stored, Roles, Tracked, CurSecure, Sound, Monotone, Finalises, Moved,
         Task, Seg, camera
<1>10. Handed
  BY DEF Handed, Secure, Away, Claims, Finalises, Moved, store, camera
<1>. QED
  BY <1>1, <1>2, <1>3, <1>4, <1>5, <1>6, <1>7, <1>8, <1>9, <1>10, Keeps

LEMMA StartRecorderKeeps ==
    ASSUME IInv, StartRecorder
    PROVE  IInv' /\ RingStep
<1>1. Moved("watcher", "idle", 0, {})
  BY ToHere DEF IInv, Typed, Task, StartRecorder
<1>2. Sound /\ Kept' = Kept /\ Done' \subseteq Done
  BY ArchiveStays DEF StartRecorder, store, history
<1>3. Stored'
  BY DEF IInv, Stored, StartRecorder, store, history
<1>4. Typed'
  <2>1. /\ "idle" \in Step /\ 0 \in 0..MaxSeg /\ {} \in SUBSET Seg
        /\ "idle" = "delete" <=> {} # {}
    BY SegAssumption DEF Step
  <2>. QED
    BY <1>1, <2>1, TypedMoves DEF IInv, Task
<1>5. Roles'
  BY <1>1 DEF IInv, Roles, Claims, Finalises, Moved, StartRecorder
<1>6. FewerClaims /\ FewerLists
  BY <1>1 DEF FewerClaims, FewerLists, Claims, Finalises, Moved
<1>7. Order'
  <2>1. FewerPending
    BY <1>1 DEF IInv, Roles, FewerPending, Pending, Moved, StartRecorder
  <2>2. heard <= heard' /\ heard' \in Nat /\ Done' \subseteq Done
    BY <1>2 DEF IInv, Stored, StartRecorder
  <2>. QED
    BY <1>2, <1>6, <2>1, <2>2, OrderStays DEF FewerLists
<1>8. Vanished'
  <2>1. \A s \in Seg : s <= heard /\ disk'[s] = "none" /\ row'[s] # "none"
               => disk[s] = "none" /\ row[s] # "none"
    BY DEF StartRecorder, store
  <2>2. \A u \in Task : at'[u].pc \in {"hash", "complete"} /\ at[u].pc = "check"
               => disk'[at'[u].seg] # "none"
    BY <1>1 DEF Moved
  <2>. QED
    BY <1>2, <1>6, <2>1, <2>2, VanishedStays
<1>9. CurOwed'
  BY DEF CurOwed, StartRecorder
<1>10. CurSecure'
  BY DEF CurSecure, StartRecorder
<1>11. Handed
  BY DEF IInv, Roles, Handed, Claims, Finalises, StartRecorder
<1>. QED
  BY <1>2, <1>3, <1>4, <1>5, <1>6, <1>7, <1>8, <1>9, <1>10, <1>11, Keeps

LEMMA RotatesKeeps ==
    ASSUME IInv, Rotates
    PROVE  IInv' /\ RingStep
<1>1. at' = at
  BY DEF Rotates
<1>2. Sound /\ Kept' = Kept /\ Done' \subseteq Done
  <2>1. Kept' = Kept /\ Done' \subseteq Done
    BY DEF IInv, Stored, Order, Heard, Kept, Done, Rotates, Closed
  <2>2. Monotone
    BY DEF IInv, Stored, Monotone, Away, Secure, Owed, Rotates, Closed, history
  <2>3. \A s \in Seg : row'[s] # "none" => s <= heard
    BY DEF IInv, Order, Heard, Rotates
  <2>4. row' \in [Seg -> {"none", "open", "done"}]
    BY DEF IInv, Stored, Rotates
  <2>. QED
    BY <2>1, <2>2, <2>3, <2>4, SoundStays
<1>3. Stored'
  BY SegAssumption DEF IInv, Stored, Seg, Rotates, Closed, history
<1>4. Typed'
  BY <1>1 DEF IInv, Typed, Form
<1>5. Roles'
  BY DEF IInv, Roles, Claims, Finalises, Rotates
<1>6. FewerClaims /\ FewerLists
  BY <1>1 DEF FewerClaims, FewerLists, Claims, Finalises
<1>7. Order'
  <2>1. FewerPending
    BY DEF FewerPending, Pending, Claims, Finalises, Rotates
  <2>2. heard <= heard' /\ heard' \in Nat /\ Done' \subseteq Done
    BY <1>2 DEF IInv, Stored, Rotates
  <2>. QED
    BY <1>2, <1>6, <2>1, <2>2, OrderStays DEF FewerLists
<1>8. Vanished'
  <2>1. \A s \in Seg : s <= heard /\ disk'[s] = "none" /\ row'[s] # "none"
               => disk[s] = "none" /\ row[s] # "none"
    BY DEF Rotates, Closed
  <2>2. \A u \in Task : at'[u].pc \in {"hash", "complete"} /\ at[u].pc = "check"
               => disk'[at'[u].seg] # "none"
    BY <1>1
  <2>. QED
    BY <1>2, <1>6, <2>1, <2>2, VanishedStays
<1>9. CurOwed'
  BY <1>2, SegAssumption
     DEF IInv, Stored, Tracked, CurOwed, Sound, Monotone, Seg, Rotates
<1>10. CurSecure'
  BY DEF IInv, Roles, CurSecure, Rotates
<1>11. Handed
  BY DEF Handed, Claims, Finalises, Rotates
<1>. QED
  BY <1>2, <1>3, <1>4, <1>5, <1>6, <1>7, <1>8, <1>9, <1>10, <1>11, Keeps

LEMMA ExitsKeeps ==
    ASSUME IInv, Exits
    PROVE  IInv' /\ RingStep
<1>1. at' = at
  BY DEF Exits
<1>2. Sound /\ Kept' = Kept /\ Done' \subseteq Done
  <2>1. Kept' = Kept /\ Done' \subseteq Done
    BY DEF Kept, Done, Exits, Closed
  <2>2. Monotone
    BY DEF Monotone, Away, Secure, Owed, Exits, Closed, history
  <2>3. \A s \in Seg : row'[s] # "none" => s <= heard
    BY DEF IInv, Order, Heard, Exits
  <2>4. row' \in [Seg -> {"none", "open", "done"}]
    BY DEF IInv, Stored, Exits
  <2>. QED
    BY <2>1, <2>2, <2>3, <2>4, SoundStays
<1>3. Stored'
  BY DEF IInv, Stored, Exits, Closed, history
<1>4. Typed'
  BY <1>1 DEF IInv, Typed, Form
<1>5. Roles'
  BY DEF IInv, Roles, Claims, Finalises, Exits
<1>6. FewerClaims /\ FewerLists
  BY <1>1 DEF FewerClaims, FewerLists, Claims, Finalises
<1>7. Order'
  <2>1. FewerPending
    BY DEF FewerPending, Pending, Claims, Finalises, Exits
  <2>2. heard <= heard' /\ heard' \in Nat /\ Done' \subseteq Done
    BY <1>2 DEF IInv, Stored, Exits
  <2>. QED
    BY <1>2, <1>6, <2>1, <2>2, OrderStays DEF FewerLists
<1>8. Vanished'
  <2>1. \A s \in Seg : s <= heard /\ disk'[s] = "none" /\ row'[s] # "none"
               => disk[s] = "none" /\ row[s] # "none"
    BY DEF Exits, Closed
  <2>2. \A u \in Task : at'[u].pc \in {"hash", "complete"} /\ at[u].pc = "check"
               => disk'[at'[u].seg] # "none"
    BY <1>1
  <2>. QED
    BY <1>2, <1>6, <2>1, <2>2, VanishedStays
<1>9. CurOwed'
  BY <1>2, SegAssumption DEF IInv, Stored, Tracked, CurOwed, Sound, Monotone, Seg, Exits
<1>10. CurSecure'
  BY DEF IInv, Roles, CurSecure, Exits
<1>11. Handed
  BY DEF Handed, Claims, Finalises, Exits
<1>. QED
  BY <1>2, <1>3, <1>4, <1>5, <1>6, <1>7, <1>8, <1>9, <1>10, <1>11, Keeps

LEMMA RespawnsKeeps ==
    ASSUME IInv, Respawns
    PROVE  IInv' /\ RingStep
<1>1. Moved("watcher", "idle", 0, {})
  BY ToHere DEF IInv, Typed, Task, Respawns
<1>2. Sound /\ Kept' = Kept /\ Done' \subseteq Done
  BY ArchiveStays DEF Respawns, store
<1>3. Stored'
  BY SegAssumption DEF IInv, Stored, Roles, Seg, Respawns, Unheard, store, bounds
<1>4. Typed'
  <2>1. /\ "idle" \in Step /\ 0 \in 0..MaxSeg /\ {} \in SUBSET Seg
        /\ "idle" = "delete" <=> {} # {}
    BY SegAssumption DEF Step
  <2>. QED
    BY <1>1, <2>1, TypedMoves DEF IInv, Task
<1>5. Roles'
  BY <1>1 DEF IInv, Roles, Claims, Finalises, Moved, Respawns
<1>6. FewerClaims /\ FewerLists
  BY <1>1 DEF FewerClaims, FewerLists, Claims, Finalises, Moved
<1>7. Order'
  <2>1. FewerPending
    BY <1>1 DEF FewerPending, Pending, Claims, Finalises, Moved, Respawns
  <2>2. heard <= heard' /\ heard' \in Nat /\ Done' \subseteq Done
    BY <1>2 DEF IInv, Stored, Respawns
  <2>. QED
    BY <1>2, <1>6, <2>1, <2>2, OrderStays DEF FewerLists
<1>8. Vanished'
  <2>1. \A s \in Seg : s <= heard /\ disk'[s] = "none" /\ row'[s] # "none"
               => disk[s] = "none" /\ row[s] # "none"
    BY DEF Respawns, store
  <2>2. \A u \in Task : at'[u].pc \in {"hash", "complete"} /\ at[u].pc = "check"
               => disk'[at'[u].seg] # "none"
    BY <1>1 DEF Moved
  <2>. QED
    BY <1>2, <1>6, <2>1, <2>2, VanishedStays
<1>9. CurOwed'
  BY <1>2, SegAssumption
     DEF IInv, Stored, Tracked, CurOwed, Sound, Monotone, Seg, Respawns
<1>10. CurSecure'
  BY DEF CurSecure, Respawns
<1>11. Handed
  BY DEF IInv, Stored, Handed, Secure, Away, Claims, Finalises, Seg, Respawns, Unheard
<1>. QED
  BY <1>2, <1>3, <1>4, <1>5, <1>6, <1>7, <1>8, <1>9, <1>10, <1>11, Keeps

LEMMA InsertKeeps ==
    ASSUME IInv, Insert
    PROVE  IInv' /\ RingStep
<1>1. Moved("watcher", (IF at["watcher"].seg = 0 THEN "idle" ELSE "check"),
                       at["watcher"].seg, {})
  BY GotoMoves DEF IInv, Typed, Task, Insert
<1>2. Sound /\ Kept' = Kept /\ Done' \subseteq Done
  BY InsertLands DEF Insert, Done, history
<1>3. Stored'
  BY DEF IInv, Stored, Insert, camera, history
<1>4. Typed'
  <2>1. /\ (IF at["watcher"].seg = 0 THEN "idle" ELSE "check") \in Step
        /\ at["watcher"].seg \in 0..MaxSeg /\ {} \in SUBSET Seg
        /\ (IF at["watcher"].seg = 0 THEN "idle" ELSE "check") = "delete" <=> {} # {}
    BY DEF IInv, Typed, Step, Task
  <2>. QED
    BY <1>1, <2>1, TypedMoves DEF IInv, Task
<1>5. Roles'
  BY <1>1 DEF IInv, Roles, Claims, Finalises, Moved, Task, Insert, camera
<1>6. FewerClaims /\ FewerLists
  BY <1>1 DEF FewerClaims, FewerLists, Claims, Finalises, Moved, Insert
<1>7. Order'
  <2>1. FewerPending
    BY <1>1 DEF IInv, Roles, FewerPending, Pending, Claims, Moved, Insert, camera
  <2>2. heard <= heard' /\ heard' \in Nat /\ Done' \subseteq Done
    BY <1>2 DEF IInv, Stored, Insert, camera
  <2>. QED
    BY <1>2, <1>6, <2>1, <2>2, OrderStays DEF FewerLists
<1>8. Vanished'
  <2>1. \A u \in Task : at'[u].pc \notin {"hash", "complete"}
    BY <1>1 DEF IInv, Roles, Moved, Task, Insert
  <2>. QED
    BY <2>1 DEF Vanished
<1>9. CurOwed'
  BY <1>2 DEF CurOwed, Sound, Owed, Insert, camera
<1>10. CurSecure'
  BY DEF IInv, Roles, CurSecure, Insert, camera
<1>11. Handed
  BY <1>1 DEF Roles, Handed, Claims, Finalises, Moved, Seg, Insert, camera
<1>. QED
  BY <1>2, <1>3, <1>4, <1>5, <1>6, <1>7, <1>8, <1>9, <1>10, <1>11, Keeps

LEMMA CheckDiscardsKeeps ==
    ASSUME NEW t \in Task, IInv, at[t].pc = "check", Goto(t, "idle"),
           disk' = [disk EXCEPT ![at[t].seg] = "none"],
           UNCHANGED <<row, camera, lost>>
    PROVE  IInv' /\ RingStep
<1>1. Moved(t, "idle", 0, {})
  BY GotoMoves DEF IInv, Typed
<1>2. Sound /\ Kept' = Kept /\ Done' \subseteq Done
  <2>1. Kept' = Kept /\ Done' \subseteq Done
    BY DEF IInv, Typed, Roles, Order, NewerThanDone, Pending, Claims, Finalises, Kept,
           Done, Task
  <2>2. Monotone
    BY DEF Monotone, Away, Secure, Owed
  <2>3. \A s \in Seg : row'[s] # "none" => s <= heard
    BY DEF IInv, Order, Heard
  <2>4. row' \in [Seg -> {"none", "open", "done"}]
    BY DEF IInv, Stored
  <2>. QED
    BY <2>1, <2>2, <2>3, <2>4, SoundStays
<1>3. Stored'
  BY DEF IInv, Stored, camera
<1>4. Typed'
  <2>1. /\ "idle" \in Step /\ 0 \in 0..MaxSeg /\ {} \in SUBSET Seg
        /\ "idle" = "delete" <=> {} # {}
    BY SegAssumption DEF Step
  <2>. QED
    BY <1>1, <2>1, TypedMoves DEF IInv
<1>5. Roles'
  BY <1>1 DEF IInv, Roles, Claims, Finalises, Moved, Task, camera
<1>6. FewerClaims /\ FewerLists
  BY <1>1 DEF FewerClaims, FewerLists, Claims, Finalises, Moved
<1>7. Order'
  <2>1. FewerPending
    BY <1>1 DEF FewerPending, Pending, Claims, Finalises, Moved, Task, camera
  <2>2. heard <= heard' /\ heard' \in Nat /\ Done' \subseteq Done
    BY <1>2 DEF IInv, Stored, camera
  <2>. QED
    BY <1>2, <1>6, <2>1, <2>2, OrderStays DEF FewerLists
<1>8. Vanished'
  <2>1. \A u \in Task : at'[u].pc \notin {"hash", "complete"}
    BY <1>1 DEF IInv, Roles, Moved, Task
  <2>. QED
    BY <2>1 DEF Vanished
<1>9. CurOwed'
  BY DEF IInv, Roles, Tracked, CurOwed, Owed, Secure, Away, Task, camera
<1>10. CurSecure'
  BY SegAssumption
     DEF IInv, Stored, Roles, Tracked, CurSecure, Secure, Away, Task, Seg, camera
<1>11. Handed
  BY <1>1 DEF IInv, Stored, Handed, Secure, Away, Claims, Finalises, Moved, camera
<1>. QED
  BY <1>2, <1>3, <1>4, <1>5, <1>6, <1>7, <1>8, <1>9, <1>10, <1>11, Keeps

LEMMA StatementFailsKeeps ==
    ASSUME NEW t \in Task, IInv, StatementFails(t)
    PROVE  IInv' /\ RingStep
<1>1. Moved(t, (IF t = "janitor" \/ at[t].pc = "insert" THEN "off" ELSE "idle"),
                       0, {})
  BY ToHere DEF IInv, Typed, StatementFails
<1>2. Sound /\ Kept' = Kept /\ Done' \subseteq Done
  BY ArchiveStays DEF StatementFails, store
<1>3. Stored'
  <2>1. CASE at[t].pc = "insert"
    BY <2>1, SegAssumption DEF IInv, Stored, Typed, Seg, StatementFails, store, camera
  <2>2. CASE at[t].pc = "complete"
    <3>1. at[t].seg \in Seg
      BY <2>2, FinalisesKnown DEF Finalises
    <3>. QED
      BY <2>2, <3>1 DEF IInv, Stored, StatementFails, store, camera
  <2>3. CASE at[t].pc \notin {"insert", "complete"}
    BY <2>3 DEF IInv, Stored, StatementFails, store, camera
  <2>. QED
    BY <2>1, <2>2, <2>3
<1>4. Typed'
  <2>1. /\ (IF t = "janitor" \/ at[t].pc = "insert" THEN "off" ELSE "idle") \in Step
        /\ 0 \in 0..MaxSeg /\ {} \in SUBSET Seg
        /\ (IF t = "janitor" \/ at[t].pc = "insert" THEN "off" ELSE "idle") = "delete"
               <=> {} # {}
    BY SegAssumption DEF Step
  <2>. QED
    BY <1>1, <2>1, TypedMoves DEF IInv
<1>5. Roles'
  BY <1>1 DEF IInv, Roles, Claims, Finalises, Moved, StatementFails, camera
<1>6. FewerClaims /\ FewerLists
  BY <1>1 DEF FewerClaims, FewerLists, Claims, Finalises, Moved
<1>7. Order'
  <2>1. FewerPending
    BY <1>1 DEF FewerPending, Pending, Claims, Finalises, Moved, StatementFails, camera
  <2>2. heard <= heard' /\ heard' \in Nat /\ Done' \subseteq Done
    BY <1>2 DEF IInv, Stored, StatementFails, camera
  <2>. QED
    BY <1>2, <1>6, <2>1, <2>2, OrderStays DEF FewerLists
<1>8. Vanished'
  <2>1. \A s \in Seg : s <= heard /\ disk'[s] = "none" /\ row'[s] # "none"
               => disk[s] = "none" /\ row[s] # "none"
    BY DEF StatementFails, store
  <2>2. \A u \in Task : at'[u].pc \in {"hash", "complete"} /\ at[u].pc = "check"
               => disk'[at'[u].seg] # "none"
    BY <1>1 DEF Moved
  <2>. QED
    BY <1>2, <1>6, <2>1, <2>2, VanishedStays
<1>9. CurOwed'
  BY <1>2, SegAssumption
     DEF IInv, Stored, Tracked, CurOwed, Sound, Monotone, Owed, Secure, Away, Seg,
         StatementFails, camera
<1>10. CurSecure'
  BY <1>2, SegAssumption
     DEF IInv, Stored, Roles, Tracked, CurSecure, Sound, Monotone, Secure, Away,
         Finalises, Seg, StatementFails, camera
<1>11. Handed
  BY DEF Handed, Secure, Away, Claims, Finalises, Seg, StatementFails, camera
<1>. QED
  BY <1>2, <1>3, <1>4, <1>5, <1>6, <1>7, <1>8, <1>9, <1>10, <1>11, Keeps

LEMMA StopBeginsKeeps ==
    ASSUME IInv, StopBegins
    PROVE  IInv' /\ RingStep
<1>1. at' = at
  BY DEF StopBegins
<1>2. Sound /\ Kept' = Kept /\ Done' \subseteq Done
  BY ArchiveStays DEF StopBegins, store, history
<1>3. Stored'
  BY DEF IInv, Stored, StopBegins, store, history
<1>4. Typed'
  BY <1>1 DEF IInv, Typed, Form
<1>5. Roles'
  BY DEF IInv, Roles, Claims, Finalises, StopBegins
<1>6. FewerClaims /\ FewerLists
  BY <1>1 DEF FewerClaims, FewerLists, Claims, Finalises
<1>7. Order'
  <2>1. FewerPending
    BY DEF FewerPending, Pending, Claims, Finalises, StopBegins
  <2>2. heard <= heard' /\ heard' \in Nat /\ Done' \subseteq Done
    BY <1>2 DEF IInv, Stored, StopBegins
  <2>. QED
    BY <1>2, <1>6, <2>1, <2>2, OrderStays DEF FewerLists
<1>8. Vanished'
  <2>1. \A s \in Seg : s <= heard /\ disk'[s] = "none" /\ row'[s] # "none"
               => disk[s] = "none" /\ row[s] # "none"
    BY DEF StopBegins, store
  <2>2. \A u \in Task : at'[u].pc \in {"hash", "complete"} /\ at[u].pc = "check"
               => disk'[at'[u].seg] # "none"
    BY <1>1
  <2>. QED
    BY <1>2, <1>6, <2>1, <2>2, VanishedStays
<1>9. CurOwed'
  BY <1>2, SegAssumption
     DEF IInv, Stored, Tracked, CurOwed, Sound, Monotone, Seg, StopBegins
<1>10. CurSecure'
  BY DEF CurSecure, StopBegins
<1>11. Handed
  BY DEF Handed, Claims, Finalises, StopBegins
<1>. QED
  BY <1>2, <1>3, <1>4, <1>5, <1>6, <1>7, <1>8, <1>9, <1>10, <1>11, Keeps

LEMMA StopReturnsKeeps ==
    ASSUME IInv, StopReturns
    PROVE  IInv' /\ RingStep
<1>1. Moved("stop", "off", at["stop"].seg, {})
  BY GotoMoves DEF IInv, Typed, Task, StopReturns
<1>2. Sound /\ Kept' = Kept /\ Done' \subseteq Done
  BY ArchiveStays DEF StopReturns, store, history
<1>3. Stored'
  BY DEF IInv, Stored, StopReturns, store, history
<1>4. Typed'
  <2>1. /\ "off" \in Step /\ at["stop"].seg \in 0..MaxSeg /\ {} \in SUBSET Seg
        /\ "off" = "delete" <=> {} # {}
    BY DEF IInv, Typed, Step, Task
  <2>. QED
    BY <1>1, <2>1, TypedMoves DEF IInv, Task
<1>5. Roles'
  BY <1>1 DEF IInv, Roles, Claims, Finalises, Moved, Task, StopReturns
<1>6. FewerClaims /\ FewerLists
  BY <1>1 DEF FewerClaims, FewerLists, Claims, Finalises, Moved
<1>7. Order'
  <2>1. FewerPending
    BY <1>1 DEF FewerPending, Pending, Claims, Finalises, Moved, Task, Seg, StopReturns
  <2>2. heard <= heard' /\ heard' \in Nat /\ Done' \subseteq Done
    BY <1>2 DEF IInv, Stored, StopReturns
  <2>. QED
    BY <1>2, <1>6, <2>1, <2>2, OrderStays DEF FewerLists
<1>8. Vanished'
  <2>1. \A s \in Seg : s <= heard /\ disk'[s] = "none" /\ row'[s] # "none"
               => disk[s] = "none" /\ row[s] # "none"
    BY DEF StopReturns, store
  <2>2. \A u \in Task : at'[u].pc \in {"hash", "complete"} /\ at[u].pc = "check"
               => disk'[at'[u].seg] # "none"
    BY <1>1 DEF Moved
  <2>. QED
    BY <1>2, <1>6, <2>1, <2>2, VanishedStays
<1>9. CurOwed'
  BY DEF CurOwed, StopReturns
<1>10. CurSecure'
  BY DEF CurSecure, StopReturns
<1>11. Handed
  BY <1>1
     DEF IInv, Tracked, CurSecure, Handed, Secure, Away, Claims, Finalises, Moved,
         StopReturns, store, history
<1>. QED
  BY <1>2, <1>3, <1>4, <1>5, <1>6, <1>7, <1>8, <1>9, <1>10, <1>11, Keeps

LEMMA PurgeKeeps ==
    ASSUME IInv, Purge
    PROVE  IInv' /\ RingStep
<1>1. at' = at
  BY DEF Purge
<1>2. Sound /\ Kept' = Kept /\ Done' \subseteq Done
  <2>1. Kept' = Kept /\ Done' \subseteq Done
    BY DEF Kept, Done, Purge
  <2>2. Monotone
    BY DEF Monotone, Away, Secure, Owed, Purge
  <2>3. \A s \in Seg : row'[s] # "none" => s <= heard
    BY DEF IInv, Order, Heard, Purge
  <2>4. row' \in [Seg -> {"none", "open", "done"}]
    BY DEF IInv, Stored, Purge
  <2>. QED
    BY <2>1, <2>2, <2>3, <2>4, SoundStays
<1>3. Stored'
  BY DEF IInv, Stored, Purge, camera
<1>4. Typed'
  BY <1>1 DEF IInv, Typed, Form
<1>5. Roles'
  BY DEF IInv, Roles, Claims, Finalises, Purge, camera
<1>6. FewerClaims /\ FewerLists
  BY <1>1 DEF FewerClaims, FewerLists, Claims, Finalises
<1>7. Order'
  <2>1. FewerPending
    BY DEF FewerPending, Pending, Claims, Finalises, Purge, camera
  <2>2. heard <= heard' /\ heard' \in Nat /\ Done' \subseteq Done
    BY <1>2 DEF IInv, Stored, Purge, camera
  <2>. QED
    BY <1>2, <1>6, <2>1, <2>2, OrderStays DEF FewerLists
<1>8. Vanished'
  <2>1. \A s \in Seg : s <= heard /\ disk'[s] = "none" /\ row'[s] # "none"
               => disk[s] = "none" /\ row[s] # "none"
    BY DEF Purge
  <2>2. \A u \in Task : at'[u].pc \in {"hash", "complete"} /\ at[u].pc = "check"
               => disk'[at'[u].seg] # "none"
    BY <1>1
  <2>. QED
    BY <1>2, <1>6, <2>1, <2>2, VanishedStays
<1>9. CurOwed'
  BY <1>2, SegAssumption
     DEF IInv, Stored, Tracked, CurOwed, Sound, Monotone, Seg, Purge, camera
<1>10. CurSecure'
  BY <1>2, SegAssumption
     DEF IInv, Stored, Roles, Tracked, CurSecure, Sound, Monotone, Finalises, Seg,
         Purge, camera
<1>11. Handed
  BY DEF Handed, Claims, Finalises, Purge, camera
<1>. QED
  BY <1>2, <1>3, <1>4, <1>5, <1>6, <1>7, <1>8, <1>9, <1>10, <1>11, Keeps

LEMMA SweepKeeps ==
    ASSUME IInv, Sweep
    PROVE  IInv' /\ RingStep
<1>1. Moved("janitor", "idle", 0, {})
  BY GotoMoves DEF IInv, Typed, Task, Sweep
<1>2. Sound /\ Kept' = Kept /\ Done' \subseteq Done
  <2>1. Kept' = Kept /\ Done' \subseteq Done
    BY DEF Kept, Done, Sweep
  <2>2. Monotone
    BY DEF Monotone, Away, Secure, Owed, Sweep, history
  <2>3. \A s \in Seg : row'[s] # "none" => s <= heard
    BY DEF IInv, Order, Heard, Sweep
  <2>4. row' \in [Seg -> {"none", "open", "done"}]
    BY DEF IInv, Stored, Sweep
  <2>. QED
    BY <2>1, <2>2, <2>3, <2>4, SoundStays
<1>3. Stored'
  BY DEF IInv, Stored, Sweep, camera, history
<1>4. Typed'
  <2>1. /\ "idle" \in Step /\ 0 \in 0..MaxSeg /\ {} \in SUBSET Seg
        /\ "idle" = "delete" <=> {} # {}
    BY SegAssumption DEF Step
  <2>. QED
    BY <1>1, <2>1, TypedMoves DEF IInv, Task
<1>5. Roles'
  BY <1>1 DEF IInv, Roles, Claims, Finalises, Moved, Task, Sweep, camera
<1>6. FewerClaims /\ FewerLists
  BY <1>1 DEF FewerClaims, FewerLists, Claims, Finalises, Moved
<1>7. Order'
  <2>1. FewerPending
    BY <1>1 DEF FewerPending, Pending, Claims, Finalises, Moved, Task, Sweep, camera
  <2>2. heard <= heard' /\ heard' \in Nat /\ Done' \subseteq Done
    BY <1>2 DEF IInv, Stored, Sweep, camera
  <2>. QED
    BY <1>2, <1>6, <2>1, <2>2, OrderStays DEF FewerLists
<1>8. Vanished'
  <2>1. \A s \in Seg : s <= heard /\ disk'[s] = "none" /\ row'[s] # "none"
               => disk[s] = "none" /\ row[s] # "none"
    BY DEF Sweep
  <2>2. \A u \in Task : at'[u].pc \in {"hash", "complete"} /\ at[u].pc = "check"
               => disk'[at'[u].seg] # "none"
    BY <1>1 DEF Moved
  <2>. QED
    BY <1>2, <1>6, <2>1, <2>2, VanishedStays
<1>9. CurOwed'
  BY SegAssumption DEF IInv, Stored, CurOwed, Owed, Secure, Away, Seg, Sweep, camera
<1>10. CurSecure'
  BY <1>1, <1>2, SegAssumption
     DEF IInv, Stored, Roles, Tracked, CurSecure, Sound, Monotone, Finalises, Moved,
         Task, Seg, Sweep, camera
<1>11. Handed
  BY <1>1 DEF IInv, Roles, Handed, Claims, Finalises, Moved, Sweep, camera
<1>. QED
  BY <1>2, <1>3, <1>4, <1>5, <1>6, <1>7, <1>8, <1>9, <1>10, <1>11, Keeps

LEMMA CrashKeeps ==
    ASSUME IInv, Crash
    PROVE  IInv' /\ RingStep
<1>1. at' = [u \in Task |-> Here("off")]
  BY DEF Crash
<1>2. Sound /\ Kept' = Kept /\ Done' \subseteq Done
  <2>1. Kept' = Kept /\ Done' \subseteq Done
    BY DEF Kept, Done, Crash, Closed
  <2>2. Monotone
    BY DEF Monotone, Away, Secure, Owed, Crash, Closed
  <2>3. \A s \in Seg : row'[s] # "none" => s <= heard
    BY DEF IInv, Order, Heard, Crash
  <2>4. row' \in [Seg -> {"none", "open", "done"}]
    BY DEF IInv, Stored, Crash
  <2>. QED
    BY <2>1, <2>2, <2>3, <2>4, SoundStays
<1>3. Stored'
  <2>1. disk' \in [Seg -> {"none", "open", "closed"}] /\ lost' \subseteq Seg
    BY DEF IInv, Stored, Crash, Closed
  <2>2. /\ heard' = opened /\ cur' = 0 /\ opened' = opened /\ row' = row
        /\ recorder' = "none"
    BY DEF Crash
  <2>. QED
    BY <2>1, <2>2 DEF IInv, Stored
<1>4. Typed'
  BY <1>1, SegAssumption DEF Typed, Form, Step, Here
<1>5. Roles'
  BY DEF Roles, Claims, Finalises, Here, Task, Crash
<1>6. FewerClaims /\ FewerLists
  BY <1>1 DEF FewerClaims, FewerLists, Here
<1>7. Order'
  <2>1. FewerPending
    BY DEF FewerPending, Pending, Here, Task, Seg, Crash
  <2>2. heard <= heard' /\ heard' \in Nat /\ Done' \subseteq Done
    BY <1>2 DEF IInv, Stored, Crash
  <2>. QED
    BY <1>2, <1>6, <2>1, <2>2, OrderStays DEF FewerLists
<1>8. Vanished'
  <2>1. \A s \in Seg : s <= heard /\ disk'[s] = "none" /\ row'[s] # "none"
               => disk[s] = "none" /\ row[s] # "none"
    BY DEF Crash, Closed
  <2>2. \A u \in Task : at'[u].pc \in {"hash", "complete"} /\ at[u].pc = "check"
               => disk'[at'[u].seg] # "none"
    BY <1>1 DEF Here
  <2>. QED
    BY <1>2, <1>6, <2>1, <2>2, VanishedStays
<1>9. CurOwed'
  BY DEF CurOwed, Crash
<1>10. CurSecure'
  BY DEF CurSecure, Crash
<1>11. Handed
  BY DEF Handed, Secure, Away, Crash, Closed
<1>. QED
  BY <1>2, <1>3, <1>4, <1>5, <1>6, <1>7, <1>8, <1>9, <1>10, <1>11, Keeps

LEMMA CompleteKeeps ==
    ASSUME NEW t \in Task, IInv, Complete(t)
    PROVE  IInv' /\ RingStep
<1>1. Moved(t, "used", at[t].seg, {})
  BY GotoMoves DEF IInv, Typed, Complete
<1>2. Sound
  BY CompleteLands DEF Complete, history
<1>3. Stored'
  BY <1>2 DEF IInv, Stored, Sound, Complete, camera, history
<1>4. Typed'
  <2>1. /\ "used" \in Step /\ at[t].seg \in 0..MaxSeg /\ {} \in SUBSET Seg
        /\ "used" = "delete" <=> {} # {}
    BY DEF IInv, Typed, Step
  <2>. QED
    BY <1>1, <2>1, TypedMoves DEF IInv
<1>5. Roles'
  BY <1>1 DEF IInv, Roles, Claims, Finalises, Moved, Task, Complete, camera
<1>6. FewerClaims /\ FewerLists
  BY <1>1 DEF FewerClaims, FewerLists, Claims, Finalises, Moved
<1>7. Order'
  <2>1. \A s \in Seg : row'[s] = "done" => row[s] = "done" \/ s = at[t].seg
    BY CompleteLands DEF Complete, history
  <2>2. \A s \in Seg : Pending(s)' => Pending(s) /\ at[t].seg < s
    BY <1>1 DEF IInv, Roles, Pending, Claims, Finalises, Moved, Task, Complete, camera
  <2>3. \A u \in Task : at'[u].list = {} \/ at'[u].list = at[u].list
    BY <1>1 DEF Moved
  <2>4. Heard'
    BY <1>2, <2>3 DEF IInv, Order, Heard, Sound, Complete, camera
  <2>5. NewerThanDone'
    BY <2>1, <2>2 DEF IInv, Order, NewerThanDone
  <2>6. NewerThanListed'
    BY <2>2, <2>3 DEF IInv, Order, NewerThanListed
  <2>. QED
    BY <2>4, <2>5, <2>6 DEF Order
<1>8. Vanished'
  <2>1. \A u \in Task : at'[u].pc \notin {"hash", "complete"}
    BY <1>1 DEF IInv, Roles, Moved, Task, Complete
  <2>. QED
    BY <2>1 DEF Vanished
<1>9. CurOwed'
  BY <1>2, SegAssumption
     DEF IInv, Stored, Roles, Tracked, CurOwed, Sound, Monotone, Task, Seg, Complete,
         camera
<1>10. CurSecure'
  <2>1. CASE t = "stop"
    <3>1. at[t].seg = cur /\ cur' = cur /\ cur \in Seg
      BY <2>1, FinalisesKnown DEF IInv, Roles, Finalises, Complete, camera
    <3>2. Secure(at[t].seg) \/ row'[at[t].seg] = "done"
      BY CompleteLands DEF Complete, history
    <3>. QED
      BY <3>1, <3>2, <1>2, FinalisesKnown
         DEF Sound, Finalises, CurSecure, Monotone, Secure, Complete
  <2>2. CASE t # "stop"
    BY <2>2 DEF IInv, Roles, CurSecure, Task, Complete, camera
  <2>. QED
    BY <2>1, <2>2
<1>11. Handed
  <2>1. \A s \in Seg : s = at[t].seg => Secure(s)'
    <3>1. Secure(at[t].seg) \/ row'[at[t].seg] = "done"
      BY CompleteLands DEF Complete, history
    <3>. QED
      BY <3>1, <1>2, FinalisesKnown DEF Sound, Finalises, Monotone, Secure, Complete
  <2>2. \A u \in Task \ {t} : at'[u] = at[u]
    BY <1>1 DEF Moved
  <2>. QED
    BY <2>1, <2>2 DEF Handed, Claims, Finalises, Complete, camera
<1>. QED
  BY <1>2, <1>3, <1>4, <1>5, <1>6, <1>7, <1>8, <1>9, <1>10, <1>11, Keeps

LEMMA DeleteEndsKeeps ==
    ASSUME NEW t \in Task, IInv, NEW p \in {"idle", "list"},
           NEW seg \in {0, at[t].seg},
           at[t].pc = "delete", row' = Deleted(t), Moved(t, p, seg, {}),
           UNCHANGED <<disk, camera, lost>>
    PROVE  IInv' /\ RingStep
<1>1. Sound /\ Kept' \subseteq Kept \ {First(at[t].list)}
      /\ Done' \subseteq Done
      /\ \A s \in Seg : row'[s] # "none" => row'[s] = row[s]
  BY DeleteLands DEF Done
<1>2. Stored'
  BY <1>1 DEF IInv, Stored, Sound, camera
<1>3. Typed'
  <2>1. /\ p \in Step /\ seg \in 0..MaxSeg /\ {} \in SUBSET Seg
        /\ p = "delete" <=> {} # {}
    BY SegAssumption DEF IInv, Typed, Step
  <2>. QED
    BY <2>1, TypedMoves DEF IInv
<1>4. Roles'
  BY DEF IInv, Roles, Claims, Finalises, Moved, Task, camera
<1>5. FewerClaims /\ FewerLists
  BY DEF FewerClaims, FewerLists, Claims, Finalises, Moved
<1>6. Order'
  <2>1. FewerPending
    BY DEF FewerPending, Pending, Claims, Finalises, Moved, Task, camera
  <2>2. heard <= heard' /\ heard' \in Nat /\ Done' \subseteq Done
    BY <1>1 DEF IInv, Stored, camera
  <2>. QED
    BY <1>1, <1>5, <2>1, <2>2, OrderStays DEF FewerLists
<1>7. Vanished'
  <2>1. \A u \in Task : at'[u].pc \in {"hash", "complete"} /\ at[u].pc = "check"
               => disk'[at'[u].seg] # "none"
    BY DEF Moved
  <2>. QED
    BY <1>1, <1>5, <2>1, VanishedStays
<1>8. CurOwed'
  BY <1>1, SegAssumption
     DEF IInv, Stored, Tracked, CurOwed, Sound, Monotone, Moved, Task, Seg, camera
<1>9. CurSecure'
  BY <1>1, SegAssumption
     DEF IInv, Stored, Roles, Tracked, CurSecure, Sound, Monotone, Finalises, Moved,
         Task, Seg, camera
<1>10. Handed
  BY DEF Handed, Claims, Finalises, Moved, camera
<1>. QED
  BY <1>1, <1>2, <1>3, <1>4, <1>5, <1>6, <1>7, <1>8, <1>9, <1>10, Keeps

LEMMA ClearRowsKeeps ==
    ASSUME IInv, ClearRows
    PROVE  IInv' /\ RingStep
<1>1. at' = at
  BY DEF ClearRows
<1>2. Sound /\ Kept' = {} /\ Done' \subseteq Done
  <2>1. /\ \A s \in Seg : row'[s] = "none"
        /\ row' \in [Seg -> {"none", "open", "done"}]
    BY DEF ClearRows
  <2>2. Done' = {} /\ Kept' = {}
    BY <2>1 DEF Done, Kept
  <2>3. \A s \in Seg : Away(s)'
    BY DEF ClearRows, Away
  <2>4. Monotone
    BY <2>3 DEF Monotone, Secure, Owed
  <2>. QED
    BY <2>1, <2>2, <2>4, EmptiedRing DEF Sound, GhostsOldest
<1>3. Stored'
  BY DEF IInv, Stored, ClearRows, camera
<1>4. Typed'
  BY <1>1 DEF IInv, Typed, Form
<1>5. Roles'
  BY DEF IInv, Roles, Claims, Finalises, ClearRows, camera
<1>6. FewerClaims /\ FewerLists
  BY <1>1 DEF FewerClaims, FewerLists, Claims, Finalises
<1>7. Order'
  <2>1. FewerPending
    BY DEF FewerPending, Pending, Claims, Finalises, ClearRows, camera
  <2>2. heard <= heard' /\ heard' \in Nat /\ Done' \subseteq Done
    BY <1>2 DEF IInv, Stored, ClearRows, camera
  <2>. QED
    BY <1>2, <1>6, <2>1, <2>2, OrderStays DEF FewerLists
<1>8. Vanished'
  BY <1>2 DEF Vanished
<1>9. CurOwed'
  BY DEF IInv, Roles, CurOwed, ClearRows, camera
<1>10. CurSecure'
  BY DEF CurSecure, ClearRows, camera
<1>11. Handed
  BY DEF Handed, Secure, Away, ClearRows
<1>. QED
  BY <1>2, <1>3, <1>4, <1>5, <1>6, <1>7, <1>8, <1>9, <1>10, <1>11, Keeps

LEMMA ClearFilesKeeps ==
    ASSUME IInv, ClearFiles
    PROVE  IInv' /\ RingStep
<1>1. at' = at
  BY DEF ClearFiles
<1>2. Sound /\ Kept' = {} /\ Done' \subseteq Done
  <2>1. (\A s \in Seg : disk'[s] = "none") /\ row' = row
    BY DEF ClearFiles
  <2>2. Kept' = {} /\ Done' = Done
    BY <2>1 DEF Done, Kept
  <2>3. \A s \in Seg : Away(s)'
    BY <2>1 DEF Away
  <2>4. Monotone
    BY <2>3 DEF Monotone, Secure, Owed
  <2>5. GhostsOldest'
    BY <2>1 DEF GhostsOldest, Done
  <2>. QED
    BY <2>1, <2>2, <2>4, <2>5, EmptiedRing DEF Sound, IInv, Stored, Order, Heard
<1>3. Stored'
  BY DEF IInv, Stored, ClearFiles, camera, history
<1>4. Typed'
  BY <1>1 DEF IInv, Typed, Form
<1>5. Roles'
  BY DEF IInv, Roles, Claims, Finalises, ClearFiles, camera
<1>6. FewerClaims /\ FewerLists
  BY <1>1 DEF FewerClaims, FewerLists, Claims, Finalises
<1>7. Order'
  <2>1. FewerPending
    BY DEF FewerPending, Pending, Claims, Finalises, ClearFiles, camera
  <2>2. heard <= heard' /\ heard' \in Nat /\ Done' \subseteq Done
    BY <1>2 DEF IInv, Stored, ClearFiles, camera
  <2>. QED
    BY <1>2, <1>6, <2>1, <2>2, OrderStays DEF FewerLists
<1>8. Vanished'
  BY <1>2 DEF Vanished
<1>9. CurOwed'
  BY <1>2, SegAssumption
     DEF IInv, Stored, Tracked, CurOwed, Sound, Monotone, Seg, ClearFiles, camera
<1>10. CurSecure'
  BY SegAssumption
     DEF IInv, Stored, Roles, CurSecure, Secure, Away, Seg, ClearFiles, camera
<1>11. Handed
  BY DEF Handed, Secure, Away, ClearFiles
<1>. QED
  BY <1>2, <1>3, <1>4, <1>5, <1>6, <1>7, <1>8, <1>9, <1>10, <1>11, Keeps

(***************************************************************************)
(* The steps that take something new into a task's hands.                  *)
(***************************************************************************)
LEMMA ReadLineKeeps ==
    ASSUME IInv, ReadLine
    PROVE  IInv' /\ RingStep
<1>1. Moved("watcher", "insert", cur, at["watcher"].list)
  BY ToSeg DEF IInv, Typed, Task, ReadLine
<1>2. Sound /\ Kept' = Kept /\ Done' \subseteq Done
  BY ArchiveStays DEF ReadLine, store, history
<1>3. Stored'
  BY DEF IInv, Stored, ReadLine, store, history
<1>4. Typed'
  <2>1. /\ "insert" \in Step /\ cur \in 0..MaxSeg
        /\ at["watcher"].list \in SUBSET Seg
        /\ "insert" = "delete" <=> at["watcher"].list # {}
    BY SegAssumption DEF IInv, Stored, Typed, Step, Task, ReadLine
  <2>. QED
    BY <1>1, <2>1, TypedMoves DEF IInv, Task
<1>5. /\ at'["watcher"].pc = "insert" /\ at'["watcher"].seg = cur
      /\ \A u \in Task \ {"watcher"} : at'[u] = at[u]
  BY <1>1 DEF Moved
<1>6. /\ cur < heard + 1 /\ heard \in Nat /\ heard' = heard + 1 /\ cur' = heard + 1
      /\ at["stop"].pc = "off" /\ recorder \in {"run", "stop"}
  BY DEF IInv, Stored, Roles, ReadLine
<1>7. Roles'
  <2>1. at'["stop"] = at["stop"] /\ at'["janitor"] = at["janitor"]
    BY <1>5 DEF Task
  <2>2. ffmpeg' = ffmpeg /\ opened' = opened /\ recorder' = recorder
    BY DEF ReadLine
  <2>. QED
    BY <1>5, <1>6, <2>1, <2>2 DEF IInv, Roles, Finalises
<1>8. FewerLists
  BY <1>1 DEF FewerLists, Moved
<1>9. Order'
  <2>1. ASSUME NEW s \in Seg, Pending(s)'
        PROVE  s = heard + 1 \/ Pending(s)
    BY <1>5, <1>6, <2>1 DEF Pending
  <2>2. \A u \in Task : at'[u].list = at[u].list
    BY <1>1 DEF Moved
  <2>3. /\ \A s \in Seg : row[s] # "none" => s <= heard
        /\ \A t \in Task : \A l \in at[t].list : l <= heard
    BY DEF IInv, Order, Heard
  <2>4. row' = row
    BY DEF ReadLine, store
  <2>5. Heard'
    BY <1>6, <2>2, <2>3, <2>4 DEF IInv, Typed, Heard, Seg
  <2>6. NewerThanDone'
    BY <1>6, <2>1, <2>3, <2>4 DEF IInv, Order, NewerThanDone, Seg
  <2>7. NewerThanListed'
    BY <1>6, <2>1, <2>2, <2>3 DEF IInv, Order, NewerThanListed, Seg
  <2>. QED
    BY <2>5, <2>6, <2>7 DEF Order
<1>10. Vanished'
  BY <1>2, <1>5 DEF IInv, Vanished, ReadLine, store
<1>11. CurOwed' /\ CurSecure'
  BY <1>5, <1>6 DEF CurOwed, CurSecure, ReadLine
<1>12. ClaimedOwed'
  <2>1. at'["watcher"].seg # 0 => Owed(at["watcher"].seg)'
    BY <1>2, <1>5, SegAssumption
       DEF Sound, IInv, Stored, Tracked, CurOwed, ReadLine, Monotone, Seg
  <2>2. ASSUME NEW u \in Task, u # "watcher", Claims(u)', at'[u].seg # 0
        PROVE  Owed(at[u].seg)'
    <3>1. Claims(u) /\ at[u].seg # 0 /\ at'[u].seg = at[u].seg
      BY <1>5, <2>2 DEF Claims, Finalises
    <3>2. at[u].seg \in Seg /\ at[u].seg <= heard /\ Owed(at[u].seg)
      BY <3>1, ClaimsKnown DEF IInv, Tracked, ClaimedOwed
    <3>. QED
      BY <1>2, <3>1, <3>2 DEF Sound, Monotone
  <2>. QED
    BY <2>1, <2>2 DEF ClaimedOwed
<1>13. Handed
  <2>1. "watcher" \in Task /\ Claims("watcher")' /\ ~Claims("watcher")
    BY <1>5 DEF Task, Claims, Finalises, ReadLine
  <2>2. \A s \in Seg : s > heard => s = cur' \/ s > heard'
    BY <1>6 DEF Seg
  <2>. QED
    BY <1>5, <2>1, <2>2 DEF Handed, Claims, Finalises
<1>. QED
  BY <1>2, <1>3, <1>4, <1>7, <1>8, <1>9, <1>10, <1>11, <1>12, <1>13, PrefixSound,
     FirstStays, RememberedStays
     DEF IInv, Tracked, Sound

\* An enforcement is at row x of its list: a new list, or what is left of it.
LEMMA UnlinkKeeps ==
    ASSUME IInv, NEW t \in Task, NEW l \in SUBSET Seg, NEW x \in l, x = First(l),
           Moved(t, "delete", at[t].seg, l), Unlink(x), UNCHANGED camera,
           at[t].pc \in {"list", "delete"},
           row' \in [Seg -> {"none", "open", "done"}],
           \A s \in Seg : row'[s] # "none" => row'[s] = row[s],
           Sound, Kept' \subseteq Kept,
           \A u \in l : u <= heard,
           \A s \in Seg : \A u \in l : Pending(s) => u < s,
           \A u \in l : \A s \in Kept' : s < u => s \in l
    PROVE  IInv' /\ RingStep
<1>1. /\ Form' /\ at'[t].pc = "delete" /\ at'[t].seg = at[t].seg /\ at'[t].list = l
      /\ \A u \in Task \ {t} : at'[u] = at[u]
  BY DEF Moved
<1>2. /\ lost \subseteq lost' /\ lost' \subseteq Seg
      /\ disk' \in [Seg -> {"none", "open", "closed"}]
      /\ \A s \in Seg : s # x => disk'[s] = disk[s]
      /\ disk'[x] = "none" \/ x \in lost'
  BY DEF IInv, Stored, Unlink
<1>3. Stored'
  BY <1>2 DEF IInv, Stored, camera
<1>4. Typed'
  BY TypedMoves DEF IInv, Typed, Step
<1>5. Roles'
  BY <1>1 DEF IInv, Roles, Claims, Finalises, Task, camera
<1>6. FewerClaims
  BY <1>1 DEF FewerClaims, Claims, Finalises
<1>7. Order'
  <2>1. FewerPending
    BY <1>1 DEF FewerPending, Pending, Claims, Finalises, Task, camera
  <2>2. heard' = heard /\ \A s \in Seg : row'[s] = "done" => row[s] = "done"
    BY DEF camera
  <2>3. Heard'
    BY <1>1, <2>2 DEF IInv, Order, Heard
  <2>4. NewerThanDone'
    BY <2>1 DEF IInv, Order, NewerThanDone, FewerPending
  <2>5. NewerThanListed'
    BY <1>1, <2>1 DEF IInv, Order, NewerThanListed, FewerPending
  <2>. QED
    BY <2>3, <2>4, <2>5 DEF Order
<1>8. Prefix'
  BY <1>1 DEF IInv, Prefix
<1>9. Vanished'
  <2>1. ASSUME NEW u \in Task, Finalises(u)
        PROVE  at[u].seg \in Seg /\ x # at[u].seg
    BY <2>1, FinalisesKnown, FinalisesPending DEF Seg
  <2>2. ASSUME NEW u \in Task, at'[u].pc \in {"hash", "complete"}
        PROVE  /\ Finalises(u) /\ at[u].pc \in {"hash", "complete"}
               /\ at'[u].seg = at[u].seg
    BY <1>1, <2>2 DEF Finalises
  <2>. QED
    BY <1>2, <2>1, <2>2 DEF IInv, Vanished
<1>10. CurOwed' /\ CurSecure'
  BY <1>1, SegAssumption
     DEF IInv, Stored, Roles, Tracked, CurOwed, CurSecure, Sound, Monotone, Finalises,
         Task, Seg, camera
<1>11. FirstAway'
  <2>1. ASSUME NEW u \in Task, u # t, at'[u].pc = "delete"
        PROVE  Away(First(at[u].list))'
    <3>1. at'[u] = at[u]
      BY <1>1, <2>1
    <3>2. /\ First(at[u].list) \in Seg /\ First(at[u].list) <= heard
          /\ Away(First(at[u].list))
      BY <2>1, <3>1, FirstIsLeast DEF IInv, Typed, Order, Heard, Tracked, FirstAway
    <3>3. First(at'[u].list) = First(at[u].list)
      BY <3>1
    <3>. QED
      BY <3>2, <3>3 DEF Sound, Monotone
  <2>2. Away(First(at[t].list))'
    BY <1>1, <1>2 DEF Away
  <2>. QED
    BY <2>1, <2>2 DEF FirstAway
<1>12. Handed
  BY <1>1 DEF Handed, Claims, Finalises, camera
<1>. QED
  BY <1>3, <1>4, <1>5, <1>6, <1>7, <1>8, <1>9, <1>10, <1>11, <1>12, ClaimedStays,
     RememberedStays
     DEF IInv, Tracked, Sound

LEMMA ListBeginsKeeps ==
    ASSUME NEW t \in Task, IInv, at[t].pc = "list", Oldest # {},
           at' = [at EXCEPT ![t].pc = "delete", ![t].list = Oldest],
           Unlink(First(Oldest)), UNCHANGED <<row, camera>>
    PROVE  IInv' /\ RingStep
<1>. DEFINE x == First(Oldest)
<1>1. Moved(t, "delete", at[t].seg, Oldest)
  BY ToList DEF IInv, Typed
<1>2. /\ x \in Done /\ x \in Seg /\ x \in Oldest /\ Oldest \subseteq Done
      /\ Oldest \in SUBSET Seg
  BY FirstIsLeast, OldestIsPrefix DEF Done
<1>3. \A u \in Done : x <= u
  <2>1. ASSUME NEW u \in Done, u < x PROVE FALSE
    BY <1>2, <2>1, FirstIsLeast, OldestIsPrefix DEF Seg
  <2>. QED
    BY <1>2, <2>1 DEF Done, Seg
<1>4. /\ lost \subseteq lost'
      /\ \A s \in Seg : disk'[s] = disk[s] \/ (s = x /\ disk'[s] = "none")
  BY DEF IInv, Stored, Unlink
<1>. HIDE DEF x
<1>5. Kept' = Kept \/ (x \in Kept /\ Kept' = Kept \ {x})
  <2>1. CASE disk'[x] = disk[x]
    BY <1>4 DEF Kept, Done
  <2>2. CASE disk'[x] = "none" /\ disk'[x] # disk[x]
    BY <1>4 DEF Kept, Done
  <2>. QED
    BY <1>2, <1>4, <2>1, <2>2
<1>6. RingStep
  <2>1. CASE x \in Kept /\ Kept' = Kept \ {x}
    <3>1. Kept' = {u \in Kept : x < u}
      BY <1>3, <2>1 DEF Kept, Done, Seg
    <3>. QED
      BY <2>1, <3>1 DEF RingStep, Shrinks
  <2>. QED
    BY <1>5, <2>1 DEF RingStep
<1>7. GhostsOldest'
  BY <1>3, <1>4 DEF IInv, GhostsOldest, Done, Seg
<1>8. Monotone
  BY <1>4 DEF Monotone, Owed, Secure, Away
<1>9. Sound /\ Kept' \subseteq Kept
  BY <1>5, <1>6, <1>7, <1>8 DEF Sound, IInv, Stored, Order, Heard
<1>10. /\ \A u \in Oldest : u <= heard
       /\ \A s \in Seg : \A u \in Oldest : Pending(s) => u < s
       /\ \A u \in Oldest : \A s \in Kept' : s < u => s \in Oldest
  BY OldestIsPrefix DEF IInv, Order, Heard, NewerThanDone, Kept, Done
<1>. QED
  BY <1>1, <1>2, <1>9, <1>10, UnlinkKeeps DEF IInv, Stored, x

LEMMA DeleteNextKeeps ==
    ASSUME NEW t \in Task, NEW freed, IInv, at[t].pc = "delete", row' = Deleted(t),
           at' = [at EXCEPT ![t].freed = freed, ![t].list = Rest(t)],
           Rest(t) # {}, Unlink(First(Rest(t))), UNCHANGED camera
    PROVE  IInv' /\ RingStep
<1>. DEFINE x == First(Rest(t))
<1>1. Moved(t, "delete", at[t].seg, Rest(t))
  BY ToRest DEF IInv, Typed
<1>2. /\ Rest(t) \in SUBSET Seg /\ x \in Rest(t) /\ \A u \in Rest(t) : x <= u
      /\ Rest(t) = at[t].list \ {First(at[t].list)}
  BY FirstIsLeast DEF IInv, Typed, Rest
<1>3. lost \subseteq lost' /\ (disk' = disk \/ disk' = [disk EXCEPT ![x] = "none"])
  BY DEF Unlink
<1>. HIDE DEF x
<1>4. /\ Sound /\ Kept' \subseteq Kept \ {First(at[t].list)}
      /\ \A s \in Seg : row'[s] # "none" => row'[s] = row[s]
  BY <1>2, <1>3, DeleteLands
<1>5. /\ \A u \in Rest(t) : u <= heard
      /\ \A s \in Seg : \A u \in Rest(t) : Pending(s) => u < s
      /\ \A u \in Rest(t) : \A s \in Kept' : s < u => s \in Rest(t)
  BY <1>2, <1>4 DEF IInv, Order, Heard, NewerThanListed, Prefix
<1>. QED
  BY <1>1, <1>2, <1>4, <1>5, UnlinkKeeps DEF Sound, x

\* The watcher is cancelled, and the statement it waits for is executed.
LEMMA StopCancelsKeeps ==
    ASSUME IInv, StopCancels
    PROVE  IInv' /\ RingStep
<1>. DEFINE w == at["watcher"]
<1>1. /\ Form'
      /\ at'["watcher"].pc = "off" /\ at'["watcher"].seg = 0
      /\ at'["watcher"].list = {} /\ at'["janitor"] = at["janitor"]
      /\ \/ /\ CurExists /\ recorder' = "final" /\ cur' = cur
            /\ at'["stop"].pc = "check" /\ at'["stop"].seg = cur
            /\ at'["stop"].list = {}
         \/ /\ ~CurExists /\ recorder' = "none" /\ cur' = 0
            /\ at'["stop"] = at["stop"]
  <2>. DEFINE off == [at EXCEPT !["watcher"] = Here("off")]
  <2>1. Form
    BY DEF IInv, Typed
  <2>2. CASE ~CurExists
    <3>1. at' = [at EXCEPT !["watcher"] = Here("off")]
      BY <2>2 DEF StopCancels
    <3>2. Moved("watcher", "off", 0, {})
      BY <2>1, <3>1, ToHere DEF Task
    <3>. QED
      BY <2>2, <3>2 DEF Moved, Task, StopCancels
  <2>3. CASE CurExists
    <3>1. at' = [off EXCEPT !["stop"] = [Here("check") EXCEPT !.seg = cur]]
      BY <2>3 DEF StopCancels
    <3>2. /\ off = [t \in Task |-> off[t]]
          /\ \A t \in Task : off[t] = IF t = "watcher" THEN Here("off") ELSE at[t]
      BY <2>1 DEF Form
    <3>. HIDE DEF off
    <3>3. /\ at' = [t \in Task |-> at'[t]]
          /\ at'["watcher"] = Local("off", 0, 0, 0, {})
          /\ at'["stop"] = Local("check", cur, 0, 0, {})
          /\ at'["janitor"] = at["janitor"]
      BY <3>1, <3>2 DEF Task, Here, Local
    <3>4. at["janitor"] = Local(at["janitor"].pc, at["janitor"].seg, at["janitor"].due,
                                at["janitor"].freed, at["janitor"].list)
      BY <2>1, LocalOf DEF Task
    <3>5. ASSUME NEW t \in Task
          PROVE  at'[t] = [pc |-> at'[t].pc, seg |-> at'[t].seg, due |-> at'[t].due,
                           freed |-> at'[t].freed, list |-> at'[t].list]
      BY <3>3, <3>4 DEF Task, Local
    <3>6. Form'
      BY <3>3, <3>5 DEF Form
    <3>. QED
      BY <2>3, <3>3, <3>6 DEF StopCancels, Local
  <2>. QED
    BY <2>2, <2>3
<1>2. /\ recorder = "stop" /\ heard' = opened /\ row' = Lands
      /\ disk' = disk /\ opened' = opened /\ ffmpeg' = FALSE /\ lost \subseteq lost'
  BY DEF StopCancels
<1>3. at["stop"].pc = "off"
  BY <1>2 DEF IInv, Roles
<1>4. /\ Sound
      /\ \A s \in Seg : row'[s] = "done" =>
            row[s] = "done" \/ (s = w.seg /\ Claims("watcher"))
      /\ w.pc = "insert" => row'[cur] = "open"
      /\ w.pc = "complete" => Secure(w.seg) \/ row'[w.seg] = "done"
  <2>1. CASE w.pc = "insert"
    <3>1. row' = [row EXCEPT ![cur] = "open"]
      BY <1>2, <2>1 DEF Lands
    <3>. QED
      BY <1>2, <2>1, <3>1, InsertLands
  <2>2. CASE w.pc = "complete"
    <3>1. row' = Completed(at["watcher"].seg)
      BY <1>2, <2>2 DEF Lands
    <3>2. "watcher" \in Task
      BY DEF Task
    <3>. QED
      BY <1>2, <2>2, <3>1, <3>2, CompleteLands DEF Claims, Finalises
  <2>3. CASE w.pc = "delete"
    <3>1. row' = Deleted("watcher")
      BY <1>2, <2>3 DEF Lands
    <3>2. "watcher" \in Task
      BY DEF Task
    <3>. QED
      BY <1>2, <2>3, <3>1, <3>2, DeleteLands
  <2>4. CASE w.pc \notin {"insert", "complete", "delete"}
    <3>1. row' = row
      BY <1>2, <2>4 DEF Lands
    <3>. QED
      BY <1>2, <2>4, <3>1, ArchiveStays
  <2>. QED
    BY <2>1, <2>2, <2>3, <2>4
<1>5. lost' \subseteq Seg
  BY SegAssumption DEF IInv, Stored, Typed, Task, Seg, StopCancels, Unheard
<1>6. Stored'
  BY <1>1, <1>2, <1>4, <1>5 DEF IInv, Stored, Sound
<1>7. Typed'
  <2>1. cur \in 0..MaxSeg
    BY SegAssumption DEF IInv, Stored
  <2>2. ASSUME NEW t \in Task
        PROVE  /\ at'[t].pc \in Step /\ at'[t].seg \in 0..MaxSeg
               /\ at'[t].list \in SUBSET Seg
               /\ at'[t].pc = "delete" <=> at'[t].list # {}
    BY <1>1, <2>1, SegAssumption DEF IInv, Typed, Step, Task
  <2>. QED
    BY <1>1, <2>2 DEF Typed
<1>8. Roles'
  BY <1>1, <1>2 DEF IInv, Roles, Claims, Finalises, CurExists
<1>9. FewerLists /\ FewerPending
  BY <1>1, <1>2 DEF FewerLists, FewerPending, Pending, Task, Seg
<1>10. Order'
  <2>1. ASSUME NEW s \in Seg, Pending(s)'
        PROVE  s = cur /\ Pending(cur)
    BY <1>1, <1>2, <2>1 DEF Pending, Seg
  <2>2. Heard'
    BY <1>2, <1>4, <1>9 DEF IInv, Stored, Typed, Order, Heard, Sound, FewerLists, Seg
  <2>3. NewerThanDone'
    <3>1. Claims("watcher") => w.seg < cur
      BY DEF IInv, Roles
    <3>. QED
      BY <1>4, <2>1, <3>1 DEF IInv, Order, NewerThanDone
  <2>4. NewerThanListed'
    BY <1>9, <2>1 DEF IInv, Order, NewerThanListed, FewerLists
  <2>. QED
    BY <2>2, <2>3, <2>4 DEF Order
<1>11. Prefix' /\ GhostsOldest' /\ RingStep /\ Monotone
  BY <1>4, <1>9, PrefixSound DEF Sound
<1>12. Vanished'
  BY <1>1, <1>3 DEF IInv, Roles, Vanished, Task
<1>13. cur' # 0 => Owed(cur)'
  <2>1. SUFFICES ASSUME cur' # 0
                 PROVE  Owed(cur)'
    OBVIOUS
  <2>2. cur' = cur /\ cur \in Seg /\ cur <= heard
    BY <1>1, <2>1, SegAssumption DEF IInv, Stored, Seg
  <2>3. CASE w.pc = "insert"
    BY <1>4, <2>2, <2>3 DEF Owed
  <2>4. CASE w.pc # "insert"
    <3>1. Owed(cur)
      BY <2>1, <2>2, <2>4 DEF IInv, Tracked, CurOwed
    <3>. QED
      BY <1>11, <2>2, <3>1 DEF Monotone
  <2>. QED
    BY <2>3, <2>4
<1>14. ClaimedOwed'
  BY <1>1, <1>3, <1>13 DEF ClaimedOwed, IInv, Roles, Claims, Finalises, Task
<1>15. CurOwed' /\ CurSecure'
  BY <1>1, <1>13 DEF CurOwed, CurSecure, Finalises
<1>16. FirstAway'
  BY <1>9, <1>11, FirstStays
<1>17. Handed
  <2>1. \A t \in Task : \A s \in Seg : Claims(t) /\ s = at[t].seg => Secure(s)'
    <3>1. ASSUME NEW s \in Seg, Claims("watcher"), s = w.seg PROVE Secure(s)'
      <4>1. CASE w.pc \in {"insert", "check", "hash"}
        BY <3>1, <4>1 DEF StopCancels, Secure, Away, Seg
      <4>2. CASE w.pc = "complete"
        <5>1. s <= heard
          BY <3>1, FinalisesKnown DEF Task
        <5>. QED
          BY <1>4, <1>11, <3>1, <4>2, <5>1 DEF Monotone, Secure
      <4>. QED
        BY <3>1, <4>1, <4>2 DEF Claims, Finalises
    <3>. QED
      BY <1>3, <3>1 DEF IInv, Roles, Claims, Finalises, Task
  <2>2. \A s \in Seg : s = cur => s = cur' \/ Secure(s)'
    BY <1>1, <1>2 DEF CurExists, Secure, Away
  <2>3. \A s \in Seg : s > heard => Secure(s)' \/ s > heard'
    BY DEF IInv, Stored, StopCancels, Unheard, Secure, Away, Seg
  <2>. QED
    BY <2>1, <2>2, <2>3 DEF Handed
<1>. QED
  BY <1>6, <1>7, <1>8, <1>10, <1>11, <1>12, <1>14, <1>15, <1>16, <1>17, RememberedStays
     DEF IInv, Tracked

(***************************************************************************)
(* The budget.  The enforcement that measured last covers what is over it: *)
(* what the rows of the archive and of its list come to is no more than    *)
(* the limit and what it has still to free.  A row of its list that        *)
(* another task has deleted is counted as freed when it gets there, and    *)
(* was no longer in use before.                                            *)
(***************************************************************************)
Amounts ==
    \A t \in Task : /\ at[t].due \in Nat /\ at[t].freed \in Nat
                    /\ at[t].freed = 0 \/ at[t].pc \in {"list", "delete"}

Settings ==
    /\ ffmpeg \in BOOLEAN /\ phase \in {"boot", "sweep", "serve"}
    /\ limit \in {LIMIT, LOW} /\ clearing \in BOOLEAN
    /\ crashes \in 0..MaxCrashes /\ faults \in 0..MaxFaults
    /\ owed \in BOOLEAN

NotBefore == phase # "serve" => at["janitor"].pc = "off"

Enforcing(t) == at[t].pc \in {"used", "list", "delete"}
Covers(t) ==
    \/ at[t].pc = "used"
    \/ /\ at[t].pc \in {"list", "delete"}
       /\ Total(Done \cup at[t].list) + at[t].freed <= limit + at[t].due
Covered == owed \/ Used <= limit \/ \E t \in Task : Covers(t)

BInv == Amounts /\ Settings /\ NotBefore /\ Covered

LEMMA UsedIsTotal == Used = Total(Done) /\ Done \in SUBSET Seg
BY DEF Used, Total, Done

LEMMA LimitType ==
    ASSUME Settings
    PROVE  limit \in Nat
BY LimitAssumption DEF Settings

LEMMA AmountsMove ==
    ASSUME Amounts, NEW t \in Task, NEW p, NEW s, NEW l, NEW d \in Nat, NEW f \in Nat,
           Moved(t, p, s, l), Carries(t, d, f), f = 0 \/ p \in {"list", "delete"}
    PROVE  Amounts'
<1>1. ASSUME NEW u \in Task
      PROVE  /\ at'[u].due \in Nat /\ at'[u].freed \in Nat
             /\ at'[u].freed = 0 \/ at'[u].pc \in {"list", "delete"}
  BY DEF Amounts, Moved, Carries
<1>. QED
  BY <1>1 DEF Amounts

LEMMA UsedFalls ==
    ASSUME Settings, Done' \subseteq Done, limit' = limit, Used <= limit
    PROVE  Used' <= limit'
<1>1. Done' \in SUBSET Seg
  BY UsedIsTotal
<1>2. Used' = Total(Done') /\ Total(Done') <= Total(Done)
  BY <1>1, UsedIsTotal, TotalMonotone DEF Used, Total
<1>3. Total(Done') \in Nat /\ Total(Done) \in Nat /\ limit \in Nat
  BY <1>1, UsedIsTotal, TotalType, LimitType
<1>. QED
  BY <1>2, <1>3, UsedIsTotal

\* Another task's rows go: the cover stays.
LEMMA CoverStays ==
    ASSUME IInv, Amounts, Settings, NEW t \in Task, Covers(t),
           at'[t] = at[t], Done' \subseteq Done, limit' = limit
    PROVE  Covers(t)'
<1>1. CASE at[t].pc = "used"
  BY <1>1 DEF Covers
<1>2. CASE at[t].pc # "used"
  <2>1. /\ Done \cup at[t].list \in SUBSET Seg
        /\ Done' \cup at[t].list \in SUBSET (Done \cup at[t].list)
    BY UsedIsTotal DEF IInv, Typed
  <2>2. /\ Total(Done' \cup at[t].list) \in Nat /\ Total(Done \cup at[t].list) \in Nat
        /\ Total(Done' \cup at[t].list) <= Total(Done \cup at[t].list)
    <3>1. Done' \cup at[t].list \in SUBSET Seg
      BY <2>1
    <3>. QED
      BY <2>1, <3>1, TotalType, TotalMonotone
  <2>3. at[t].freed \in Nat /\ at[t].due \in Nat /\ limit \in Nat
    BY LimitType DEF Amounts
  <2>4. Total(Done \cup at[t].list) + at[t].freed <= limit + at[t].due
    BY <1>2 DEF Covers
  <2>5. Total(Done' \cup at[t].list) + at[t].freed <= limit + at[t].due
    BY <2>2, <2>3, <2>4
  <2>. QED
    BY <1>2, <2>5 DEF Covers, Total
<1>. QED
  BY <1>1, <1>2

LEMMA CoveredStays ==
    ASSUME IInv, BInv, Done' \subseteq Done,
           owed' \/ /\ owed' = owed /\ limit' = limit
                    /\ \A t \in Task : Enforcing(t) => at'[t] = at[t]
    PROVE  Covered'
<1>. SUFFICES ASSUME ~owed' PROVE Covered'
  BY DEF Covered
<1>1. ~owed /\ limit' = limit /\ \A t \in Task : Enforcing(t) => at'[t] = at[t]
  OBVIOUS
<1>2. CASE Used <= limit
  BY <1>1, <1>2, UsedFalls DEF BInv, Covered
<1>3. CASE \E t \in Task : Covers(t)
  <2>1. PICK t \in Task : Covers(t)
    BY <1>3
  <2>2. at'[t] = at[t]
    BY <1>1, <2>1 DEF Covers, Enforcing
  <2>3. Covers(t)'
    BY <1>1, <2>1, <2>2, CoverStays DEF BInv
  <2>. QED
    BY <2>3 DEF Covered
<1>. QED
  BY <1>1, <1>2, <1>3 DEF BInv, Covered

\* A step that neither measures nor frees, of a task that does not enforce.
LEMMA AsideKeeps ==
    ASSUME IInv, BInv, NEW t \in Task, NEW p, NEW s, NEW l, NEW d \in Nat,
           Moved(t, p, s, l), Carries(t, d, 0), Done' \subseteq Done,
           owed' \/ (owed' = owed /\ limit' = limit /\ ~Enforcing(t)),
           Settings', NotBefore'
    PROVE  BInv'
<1>1. Amounts'
  BY AmountsMove DEF BInv
<1>2. \A u \in Task : u # t => at'[u] = at[u]
  BY DEF Moved
<1>3. Covered'
  BY <1>2, CoveredStays
<1>. QED
  BY <1>1, <1>3 DEF BInv

LEMMA GotoKeeps ==
    ASSUME IInv, BInv, NEW t \in Task, NEW p, Goto(t, p), ~Enforcing(t),
           Done' \subseteq Done, owed' = owed, limit' = limit, Settings', NotBefore'
    PROVE  BInv'
<1>. DEFINE d == IF p = "idle" THEN 0 ELSE at[t].due
<1>1. at[t].due \in Nat /\ at[t].freed = 0
  BY DEF BInv, Amounts, Enforcing
<1>2. /\ Moved(t, p, IF p = "idle" THEN 0 ELSE at[t].seg,
                     IF p = "idle" THEN {} ELSE at[t].list)
      /\ Carries(t, d, 0) /\ d \in Nat
  BY <1>1, GotoMoves DEF IInv, Typed
<1>. HIDE DEF d
<1>. QED
  BY <1>2, AsideKeeps

LEMMA UntouchedKeeps ==
    ASSUME IInv, BInv, at' = at, Done' \subseteq Done,
           owed' \/ (owed' = owed /\ limit' = limit), Settings', NotBefore'
    PROVE  BInv'
<1>1. Amounts'
  BY DEF BInv, Amounts
<1>. QED
  BY <1>1, CoveredStays DEF BInv

LEMMA MeasureFunds ==
    ASSUME IInv, BInv, NEW t \in Task, Measure(t)
    PROVE  BInv'
<1>1. /\ Done' = Done /\ Used' = Used /\ limit' = limit
      /\ at[t].pc = "used" /\ owed' = FALSE
      /\ at[t].list = {}
  BY DEF Measure, store, service, Done, Used, IInv, Typed
<1>2. Used \in Nat /\ limit \in Nat /\ at[t].due \in Nat /\ at[t].freed \in Nat
  BY UsedIsTotal, TotalType, LimitType DEF BInv, Amounts
<1>3. Settings' /\ NotBefore'
  <2>1. phase' = phase /\ (phase # "serve" => t # "janitor")
    BY <1>1 DEF BInv, NotBefore, Measure, service
  <2>2. t # "janitor" => at'["janitor"] = at["janitor"]
    BY DEF Measure, Goto, IInv, Typed, Form, Task
  <2>. QED
    BY <2>1, <2>2 DEF BInv, NotBefore, Settings, Measure, service, camera, bounds
<1>4. CASE Used <= limit
  <2>1. Moved(t, "idle", 0, {}) /\ Carries(t, 0, 0)
    BY <1>4, GotoMoves DEF Measure, IInv, Typed
  <2>2. Amounts'
    BY <2>1, AmountsMove DEF BInv
  <2>. QED
    BY <1>1, <1>3, <1>4, <2>2 DEF BInv, Covered
<1>5. CASE ~(Used <= limit)
  <2>. DEFINE due == Used - limit
  <2>1. due \in Nat
    BY <1>2, <1>5
  <2>2. at' = [at EXCEPT ![t].pc = "list", ![t].due = due]
    BY <1>5 DEF Measure
  <2>3. Moved(t, "list", at[t].seg, {}) /\ Carries(t, due, at[t].freed)
    BY <1>1, <2>2, ToDue DEF IInv, Typed
  <2>4. at[t].freed = 0
    BY <1>1 DEF BInv, Amounts
  <2>5. Amounts'
    BY <2>1, <2>3, <2>4, AmountsMove DEF BInv
  <2>6. Done' \cup at'[t].list = Done
    BY <1>1, <2>3 DEF Moved
  <2>7. Total(Done) + 0 <= limit + due
    BY <1>2, UsedIsTotal
  <2>8. at'[t].pc = "list" /\ at'[t].due = due /\ at'[t].freed = 0
    BY <2>3, <2>4 DEF Moved, Carries
  <2>. HIDE DEF due
  <2>9. Covers(t)'
    BY <1>1, <2>6, <2>7, <2>8 DEF Covers, Total
  <2>. QED
    BY <1>3, <2>5, <2>9 DEF BInv, Covered
<1>. QED
  BY <1>4, <1>5

LEMMA ListFunds ==
    ASSUME IInv, BInv, NEW t \in Task, List(t)
    PROVE  BInv'
<1>1. /\ Done' = Done /\ Used' = Used /\ limit' = limit /\ owed' = owed
      /\ at[t].pc = "list" /\ at[t].list = {}
      /\ Oldest \subseteq Done
  BY OldestIsPrefix DEF List, service, Done, Used, IInv, Typed
<1>2. Used \in Nat /\ limit \in Nat /\ at[t].due \in Nat /\ at[t].freed \in Nat
  BY UsedIsTotal, TotalType, LimitType DEF BInv, Amounts
<1>3. Settings' /\ NotBefore'
  <2>1. phase' = phase /\ (phase # "serve" => t # "janitor")
    BY <1>1 DEF BInv, NotBefore, List, service
  <2>2. t # "janitor" => at'["janitor"] = at["janitor"]
    BY DEF List, Goto, IInv, Typed, Form, Task
  <2>3. faults' \in 0..MaxFaults
    BY FaultAssumption DEF List, Unlink, BInv, Settings
  <2>. QED
    BY <2>1, <2>2, <2>3 DEF BInv, NotBefore, Settings, List, service, camera
<1>4. CASE Oldest = {} /\ Goto(t, "idle")
  <2>1. Moved(t, "idle", 0, {}) /\ Carries(t, 0, 0)
    BY <1>4, GotoMoves DEF IInv, Typed
  <2>2. Amounts'
    BY <2>1, AmountsMove DEF BInv
  <2>3. Done = {}
    BY <1>4, NoneOldest
  <2>4. Used = 0
    BY <2>3, UsedIsTotal, TotalEmpty
  <2>5. Used' <= limit'
    BY <1>1, <1>2, <2>4
  <2>. QED
    BY <1>3, <2>2, <2>5 DEF BInv, Covered
<1>5. CASE at' = [at EXCEPT ![t].pc = "delete", ![t].list = Oldest]
  <2>1. Moved(t, "delete", at[t].seg, Oldest) /\ Carries(t, at[t].due, at[t].freed)
    BY <1>5, ToList DEF IInv, Typed
  <2>2. Amounts'
    BY <1>2, <2>1, AmountsMove DEF BInv
  <2>3. Covers(t) => Covers(t)'
    <3>1. Done' \cup at'[t].list = Done \cup at[t].list
      BY <1>1, <2>1 DEF Moved
    <3>. QED
      BY <1>1, <2>1, <3>1 DEF Covers, Total, Moved, Carries
  <2>4. ASSUME NEW u \in Task, u # t, Covers(u) PROVE Covers(u)'
    <3>1. at'[u] = at[u]
      BY <2>1, <2>4 DEF Moved
    <3>. QED
      BY <1>1, <2>4, <3>1, CoverStays DEF BInv
  <2>5. Covered'
    BY <1>1, <2>3, <2>4 DEF BInv, Covered
  <2>. QED
    BY <1>3, <2>2, <2>5 DEF BInv
<1>. QED
  BY <1>4, <1>5 DEF List

\* A row freed, or counted as freed, is one less in the cover of its task.
LEMMA DeleteCovers ==
    ASSUME IInv, BInv, NEW t \in Task, at[t].pc = "delete", Covers(t), row' = Deleted(t)
    PROVE  Total(Done' \cup Rest(t)) + Sum(t) <= limit + at[t].due
<1>. DEFINE r == First(at[t].list)
            all == Done \cup at[t].list
<1>1. r \in at[t].list /\ r \in Seg
  BY FirstIsLeast DEF IInv, Typed
<1>2. all \in SUBSET Seg /\ r \in all
  BY <1>1, UsedIsTotal DEF IInv, Typed
<1>3. Done' = Done \ {r}
  BY <1>1 DEF Deleted, Done, IInv, Stored
<1>4. Done' \cup Rest(t) = all \ {r}
  BY <1>3 DEF Rest
<1>5. Total(all) + at[t].freed <= limit + at[t].due
  BY DEF Covers
<1>6. Sum(t) = at[t].freed + Bytes[r]
  BY DEF Sum
<1>. HIDE DEF r, all
<1>7. Total(all) = Bytes[r] + Total(all \ {r})
  BY <1>2, TotalTakes
<1>8. /\ Bytes[r] \in Nat /\ Total(all \ {r}) \in Nat
      /\ at[t].freed \in Nat /\ limit \in Nat /\ at[t].due \in Nat
  BY <1>1, <1>2, TotalType, BytesAssumption, LimitType DEF BInv, Amounts
<1>9. Total(all \ {r}) + (at[t].freed + Bytes[r]) <= limit + at[t].due
  BY <1>5, <1>7, <1>8
<1>. QED
  BY <1>4, <1>6, <1>9

LEMMA DeleteFunds ==
    ASSUME IInv, BInv, NEW t \in Task, Delete(t)
    PROVE  BInv'
<1>1. /\ at[t].pc = "delete" /\ row' = Deleted(t) /\ owed' = owed /\ limit' = limit
      /\ at[t].list \in SUBSET Seg /\ at[t].list # {}
  BY DEF Delete, service, IInv, Typed
<1>2. First(at[t].list) \in Seg
  BY <1>1, FirstIsLeast
<1>3. Done' \in SUBSET Done
  BY <1>1, <1>2 DEF Deleted, Done, IInv, Stored
<1>4. Sum(t) \in Nat /\ at[t].due \in Nat /\ limit \in Nat
  BY <1>2, BytesAssumption, LimitType DEF Sum, BInv, Amounts
<1>5. Settings' /\ NotBefore'
  <2>1. phase' = phase /\ (phase # "serve" => t # "janitor")
    BY <1>1 DEF BInv, NotBefore, Delete, service
  <2>2. t # "janitor" => at'["janitor"] = at["janitor"]
    BY DEF Delete, Goto, IInv, Typed, Form, Task
  <2>3. faults' \in 0..MaxFaults
    BY FaultAssumption DEF Delete, Unlink, BInv, Settings
  <2>. QED
    BY <2>1, <2>2, <2>3 DEF BInv, NotBefore, Settings, Delete, service, camera
<1>6. /\ Covers(t) => Total(Done' \cup Rest(t)) + Sum(t) <= limit + at[t].due
      /\ Done' \cup Rest(t) \in SUBSET Seg /\ Done' \in SUBSET (Done' \cup Rest(t))
  BY <1>1, <1>3, DeleteCovers, UsedIsTotal DEF Rest
<1>7. ASSUME NEW u \in Task, u # t, Covers(u), at'[u] = at[u] PROVE Covers(u)'
  BY <1>1, <1>3, <1>7, CoverStays DEF BInv
<1>8. Used <= limit => Used' <= limit'
  BY <1>1, <1>3, UsedFalls DEF BInv
<1>9. CASE Sum(t) >= at[t].due /\ Goto(t, "idle")
  <2>1. Moved(t, "idle", 0, {}) /\ Carries(t, 0, 0)
    BY <1>9, GotoMoves DEF IInv, Typed
  <2>2. Amounts'
    BY <2>1, AmountsMove DEF BInv
  <2>3. Covers(t) => Used' <= limit'
    <3>1. Total(Done') <= Total(Done' \cup Rest(t))
      BY <1>6, TotalMonotone
    <3>2. Total(Done') \in Nat /\ Total(Done' \cup Rest(t)) \in Nat
      BY <1>3, <1>6, UsedIsTotal, TotalType
    <3>3. Used' = Total(Done')
      BY DEF Used, Total
    <3>. QED
      BY <1>1, <1>4, <1>6, <1>9, <3>1, <3>2, <3>3
  <2>4. Covered'
    <3>1. \A u \in Task : u # t => at'[u] = at[u]
      BY <2>1 DEF Moved
    <3>. QED
      BY <1>1, <1>7, <1>8, <2>3, <3>1 DEF BInv, Covered
  <2>. QED
    BY <1>5, <2>2, <2>4 DEF BInv
<1>10. ASSUME NEW p \in {"list", "delete"}, Moved(t, p, at[t].seg, Rest(t)),
              Carries(t, at[t].due, Sum(t))
       PROVE  BInv'
  <2>1. Amounts'
    BY <1>4, <1>10, AmountsMove DEF BInv
  <2>2. Covers(t) => Covers(t)'
    BY <1>1, <1>6, <1>10 DEF Moved, Carries, Covers, Total
  <2>3. \A u \in Task : u # t => at'[u] = at[u]
    BY <1>10 DEF Moved
  <2>4. Covered'
    BY <1>1, <1>7, <1>8, <2>2, <2>3 DEF BInv, Covered
  <2>. QED
    BY <1>5, <2>1, <2>4 DEF BInv
<1>11. CASE /\ Rest(t) = {}
            /\ at' = [at EXCEPT ![t].pc = "list", ![t].freed = Sum(t), ![t].list = {}]
  <2>1. Moved(t, "list", at[t].seg, {}) /\ Carries(t, at[t].due, Sum(t))
    BY <1>11, ToBatch DEF IInv, Typed
  <2>. QED
    BY <1>10, <1>11, <2>1
<1>12. CASE at' = [at EXCEPT ![t].freed = Sum(t), ![t].list = Rest(t)]
  <2>1. Moved(t, "delete", at[t].seg, Rest(t)) /\ Carries(t, at[t].due, Sum(t))
    BY <1>1, <1>12, ToRest DEF IInv, Typed
  <2>. QED
    BY <1>10, <2>1
<1>. QED
  BY <1>9, <1>11, <1>12 DEF Delete

LEMMA CompleteFunds ==
    ASSUME IInv, BInv, NEW t \in Task, Complete(t)
    PROVE  BInv'
<1>1. Moved(t, "used", at[t].seg, at[t].list) /\ Carries(t, at[t].due, at[t].freed)
  BY GotoMoves DEF Complete, IInv, Typed
<1>2. at[t].due \in Nat /\ at[t].freed = 0
  BY DEF BInv, Amounts, Complete
<1>3. Amounts'
  BY <1>1, <1>2, AmountsMove DEF BInv
<1>4. Settings' /\ NotBefore'
  <2>1. t # "janitor"
    BY DEF Complete, IInv, Roles
  <2>2. at'["janitor"] = at["janitor"]
    BY <1>1, <2>1 DEF Moved, Task
  <2>. QED
    BY <2>2 DEF BInv, NotBefore, Settings, Complete, service, camera, bounds, history
<1>5. Covers(t)'
  BY <1>1 DEF Covers, Moved
<1>. QED
  BY <1>3, <1>4, <1>5 DEF BInv, Covered

LEMMA StatementFailsFunds ==
    ASSUME IInv, BInv, NEW t \in Task, StatementFails(t)
    PROVE  BInv'
<1>1. PICK p : Moved(t, p, 0, {}) /\ Carries(t, 0, 0) /\ (t = "janitor" => p = "off")
  <2>. DEFINE p == IF t = "janitor" \/ at[t].pc = "insert" THEN "off" ELSE "idle"
  <2>1. at' = [at EXCEPT ![t] = Here(p)]
    BY DEF StatementFails
  <2>. HIDE DEF p
  <2>2. Moved(t, p, 0, {}) /\ Carries(t, 0, 0)
    BY <2>1, ToHere DEF IInv, Typed
  <2>. QED
    BY <2>2 DEF p
<1>2. Done' = Done
  BY DEF StatementFails, store, Done
<1>3. owed' \/ (owed' = owed /\ limit' = limit /\ ~Enforcing(t))
  BY DEF StatementFails, service, Enforcing, BInv, Settings
<1>4. Settings' /\ NotBefore'
  <2>1. NotBefore'
    BY <1>1 DEF BInv, NotBefore, StatementFails, service, Moved, Task
  <2>2. faults' \in 0..MaxFaults
    BY FaultAssumption DEF StatementFails, BInv, Settings
  <2>. QED
    BY <2>1, <2>2 DEF BInv, Settings, StatementFails, service, camera
<1>. QED
  BY <1>1, <1>2, <1>3, <1>4, AsideKeeps

LEMMA FinaliseFunds ==
    ASSUME IInv, BInv, NEW t \in Task, Check(t) \/ Hash(t)
    PROVE  BInv'
<1>1. PICK p \in {"idle", "hash", "complete"} : Goto(t, p)
  BY DEF Check, Hash
<1>2. /\ Done' = Done /\ owed' = owed /\ limit' = limit /\ ~Enforcing(t)
      /\ t # "janitor"
  BY DEF Check, Hash, store, service, history, Done, Enforcing, IInv, Roles
<1>3. Settings' /\ NotBefore'
  <2>1. at'["janitor"] = at["janitor"]
    BY <1>1, <1>2 DEF Goto, IInv, Typed, Form, Task
  <2>. QED
    BY <2>1 DEF BInv, NotBefore, Settings, Check, Hash, service, camera, bounds, history
<1>. QED
  BY <1>1, <1>2, <1>3, GotoKeeps

LEMMA InsertFunds ==
    ASSUME IInv, BInv, Insert
    PROVE  BInv'
<1>1. PICK p : Goto("watcher", p)
  BY DEF Insert
<1>2. /\ Done' \subseteq Done /\ owed' = owed /\ limit' = limit
      /\ ~Enforcing("watcher") /\ "watcher" \in Task
  BY DEF Insert, service, history, Done, Enforcing, IInv, Stored, Task
<1>3. Settings' /\ NotBefore'
  <2>1. at'["janitor"] = at["janitor"]
    BY <1>1 DEF Goto, IInv, Typed, Form, Task
  <2>. QED
    BY <2>1 DEF BInv, NotBefore, Settings, Insert, service, camera, bounds, history
<1>. QED
  BY <1>1, <1>2, <1>3, GotoKeeps

LEMMA WatcherFunds ==
    ASSUME IInv, BInv, StartRecorder \/ Respawns \/ ReadLine
    PROVE  BInv'
<1>. DEFINE t == "watcher"
<1>1. t \in Task /\ t # "janitor" /\ at[t].pc \in {"off", "idle"}
  BY DEF Task, StartRecorder, Respawns, ReadLine, IInv, Roles
<1>2. Done' = Done /\ owed' = owed /\ limit' = limit /\ ~Enforcing(t)
  BY <1>1 DEF StartRecorder, Respawns, ReadLine, store, service, history, Done, Enforcing
<1>3. Settings' /\ NotBefore'
  <2>1. at'["janitor"] = at["janitor"]
    BY DEF StartRecorder, Respawns, ReadLine, IInv, Typed, Form, Task
  <2>. QED
    BY <2>1 DEF BInv, NotBefore, Settings, StartRecorder, Respawns, ReadLine, service,
                bounds, history
<1>4. CASE StartRecorder \/ Respawns
  <2>1. at' = [at EXCEPT ![t] = Here("idle")]
    BY <1>4 DEF StartRecorder, Respawns
  <2>2. Moved(t, "idle", 0, {}) /\ Carries(t, 0, 0)
    BY <1>1, <2>1, ToHere DEF IInv, Typed
  <2>. QED
    BY <1>1, <1>2, <1>3, <2>2, AsideKeeps
<1>5. CASE ReadLine
  <2>1. at[t].due \in Nat /\ at[t].freed = 0
    BY <1>1 DEF BInv, Amounts
  <2>2. at' = [at EXCEPT ![t].pc = "insert", ![t].seg = cur]
    BY <1>5 DEF ReadLine
  <2>3. Moved(t, "insert", cur, at[t].list) /\ Carries(t, at[t].due, 0)
    BY <1>1, <2>1, <2>2, ToSeg DEF IInv, Typed
  <2>. QED
    BY <1>1, <1>2, <1>3, <2>1, <2>3, AsideKeeps
<1>. QED
  BY <1>4, <1>5

LEMMA JanitorFunds ==
    ASSUME IInv, BInv, JanitorWakes \/ Sweep
    PROVE  BInv'
<1>1. PICK p : Goto("janitor", p)
  BY DEF JanitorWakes, Sweep
<1>2. /\ Done' = Done /\ owed' = owed /\ limit' = limit
      /\ ~Enforcing("janitor") /\ "janitor" \in Task
  BY DEF JanitorWakes, Sweep, BInv, NotBefore, store, service, history, Done, Enforcing, Task
<1>3. Settings' /\ NotBefore'
  BY DEF BInv, NotBefore, Settings, JanitorWakes, Sweep, service, camera, bounds, history
<1>. QED
  BY <1>1, <1>2, <1>3, GotoKeeps

LEMMA StopCancelsFunds ==
    ASSUME IInv, BInv, StopCancels
    PROVE  BInv'
<1>1. DOMAIN at = Task /\ at["stop"].pc = "off"
  BY DEF StopCancels, IInv, Typed, Form, Roles, Task
<1>2. /\ at'["watcher"] = Here("off") /\ at'["janitor"] = at["janitor"]
      /\ at'["stop"] = at["stop"] \/ at'["stop"] = [Here("check") EXCEPT !.seg = cur]
  BY <1>1 DEF StopCancels, Task
<1>3. Amounts'
  <2>1. at'["stop"] = at["stop"] \/ (at'["stop"].due = 0 /\ at'["stop"].freed = 0)
    <3>. DEFINE r == [Here("check") EXCEPT !.seg = cur]
    <3>1. r.due = 0 /\ r.freed = 0
      BY DEF Here
    <3>2. at'["stop"] = at["stop"] \/ at'["stop"] = r
      BY <1>2
    <3>. HIDE DEF r
    <3>. QED
      BY <3>1, <3>2
  <2>2. ASSUME NEW u \in Task
        PROVE  /\ at'[u].due \in Nat /\ at'[u].freed \in Nat
               /\ at'[u].freed = 0 \/ at'[u].pc \in {"list", "delete"}
    BY <1>2, <2>1 DEF BInv, Amounts, Here, Task
  <2>. QED
    BY <2>2 DEF Amounts
<1>4. Settings' /\ NotBefore'
  BY <1>2 DEF BInv, NotBefore, Settings, StopCancels, service, bounds
<1>5. owed' \/ (owed' = owed /\ limit' = limit /\ ~Busy("watcher"))
  BY DEF StopCancels, service, BInv, Settings
<1>6. \A t \in Task : Enforcing(t) /\ ~Busy("watcher") => at'[t] = at[t]
  BY <1>1, <1>2 DEF Task, Enforcing, Busy
<1>7. CASE Busy("watcher")
  BY <1>3, <1>4, <1>7 DEF StopCancels, BInv, Covered
<1>8. CASE ~Busy("watcher")
  <2>1. Done' \subseteq Done
    BY <1>8 DEF StopCancels, Lands, Busy, Done, IInv, Stored
  <2>2. Covered'
    BY <1>5, <1>6, <1>8, <2>1, CoveredStays
  <2>. QED
    BY <1>3, <1>4, <2>2 DEF BInv
<1>. QED
  BY <1>7, <1>8

LEMMA StopFunds ==
    ASSUME IInv, BInv, StopReturns
    PROVE  BInv'
<1>1. /\ Goto("stop", "off") /\ "stop" \in Task /\ ~Enforcing("stop")
      /\ Done' = Done /\ owed' = owed /\ limit' = limit
  BY DEF StopReturns, store, service, history, Done, Enforcing, Task
<1>2. Settings' /\ NotBefore'
  <2>1. at'["janitor"] = at["janitor"]
    BY <1>1 DEF Goto, IInv, Typed, Form, Task
  <2>. QED
    BY <2>1 DEF BInv, NotBefore, Settings, StopReturns, service, bounds, history
<1>. QED
  BY <1>1, <1>2, GotoKeeps

\* What leaves the tasks where they are.
LEMMA OthersFund ==
    ASSUME IInv, BInv,
           \/ Rotates \/ Exits \/ StopBegins \/ Purge \/ Clear \/ LowerLimit
           \/ UNCHANGED vars
    PROVE  BInv'
<1>1. at' = at
  BY DEF Rotates, Exits, StopBegins, Purge, Clear, ClearRows, ClearFiles, LowerLimit, vars
<1>2. Done' \subseteq Done
  BY DEF Rotates, Exits, StopBegins, Purge, Clear, ClearRows, ClearFiles, LowerLimit, vars,
         store, Done
<1>3. owed' \/ (owed' = owed /\ limit' = limit)
  BY DEF Rotates, Exits, StopBegins, Purge, Clear, ClearRows, ClearFiles, LowerLimit, vars,
         service, history
<1>4. Settings' /\ NotBefore'
  BY DEF BInv, NotBefore, Settings, Rotates, Exits, StopBegins, Purge, Clear, ClearRows,
         ClearFiles, LowerLimit, vars, service, camera, bounds, history
<1>. QED
  BY <1>1, <1>2, <1>3, <1>4, UntouchedKeeps

LEMMA CrashFunds ==
    ASSUME IInv, BInv, Crash
    PROVE  BInv'
<1>1. \A t \in Task : at'[t] = Here("off")
  BY DEF Crash
<1>2. Amounts' /\ NotBefore'
  BY <1>1 DEF Amounts, NotBefore, Here, Task
<1>3. Settings'
  <2>1. crashes' \in 0..MaxCrashes
    BY FaultAssumption DEF Crash, BInv, Settings
  <2>. QED
    BY <2>1 DEF Crash, BInv, Settings
<1>. QED
  BY <1>2, <1>3 DEF Crash, BInv, Covered

LEMMA InitFunds == Init => BInv
<1>. SUFFICES ASSUME Init PROVE BInv
  OBVIOUS
<1>1. \A t \in Task : at[t] = Here("off")
  BY DEF Init
<1>2. Amounts /\ NotBefore
  BY <1>1 DEF Amounts, NotBefore, Here, Task
<1>3. Settings
  <2>1. crashes \in 0..MaxCrashes /\ faults \in 0..MaxFaults
    BY FaultAssumption DEF Init
  <2>. QED
    BY <2>1 DEF Init, Settings
<1>4. Used = 0
  BY UsedIsTotal, TotalEmpty DEF Init, Done
<1>5. Used <= limit
  BY <1>3, <1>4, LimitType
<1>. QED
  BY <1>2, <1>3, <1>5 DEF BInv, Covered

LEMMA StepFunds == IInv /\ BInv /\ [Next]_vars => BInv'
<1>. SUFFICES ASSUME IInv, BInv, [Next]_vars PROVE BInv'
  OBVIOUS
<1>1. CASE StartRecorder \/ Respawns \/ ReadLine
  BY <1>1, WatcherFunds
<1>2. CASE Insert
  BY <1>2, InsertFunds
<1>3. CASE JanitorWakes \/ Sweep
  BY <1>3, JanitorFunds
<1>4. CASE \E t \in Task : Finalise(t) \/ Enforce(t) \/ StatementFails(t)
  BY <1>4, FinaliseFunds, CompleteFunds, MeasureFunds, ListFunds, DeleteFunds,
     StatementFailsFunds DEF Finalise, Enforce
<1>5. CASE StopCancels
  BY <1>5, StopCancelsFunds
<1>6. CASE StopReturns
  BY <1>6, StopFunds
<1>7. CASE \/ Rotates \/ Exits \/ StopBegins \/ Purge \/ Clear \/ LowerLimit
           \/ UNCHANGED vars
  BY <1>7, OthersFund
<1>8. CASE Crash
  BY <1>8, CrashFunds
<1>. QED
  BY <1>1, <1>2, <1>3, <1>4, <1>5, <1>6, <1>7, <1>8 DEF Next, Ffmpeg, Stop, Startup

(***************************************************************************)
(* The theorems.                                                           *)
(***************************************************************************)
LEMMA InitIInv == Init => IInv
<1>. SUFFICES ASSUME Init PROVE IInv
  OBVIOUS
<1>1. Stored
  BY SegAssumption DEF Init, Stored
<1>2. Form
  BY DEF Init, Form, Here
<1>3. \A t \in Task : at[t].pc = "off" /\ at[t].seg = 0 /\ at[t].list = {}
  BY DEF Init, Here
<1>4. Typed
  BY <1>2, <1>3, SegAssumption DEF Typed, Step
<1>5. Roles
  BY <1>3 DEF Init, Roles, Claims, Finalises, Task
<1>6. Done = {} /\ Kept = {}
  BY DEF Init, Done, Kept
<1>7. Order
  BY <1>3 DEF Init, Order, Heard, NewerThanDone, NewerThanListed
<1>8. Prefix /\ GhostsOldest /\ Vanished
  BY <1>6 DEF Prefix, GhostsOldest, Vanished
<1>9. ClaimedOwed /\ CurOwed /\ CurSecure /\ FirstAway
  BY <1>3 DEF Init, ClaimedOwed, CurOwed, CurSecure, FirstAway
<1>10. Remembered
  BY DEF Init, Remembered, Secure, Away
<1>. QED
  BY <1>1, <1>4, <1>5, <1>7, <1>8, <1>9, <1>10 DEF IInv, Tracked

\* A stutter, and a change of the limit.
LEMMA StutterKeeps ==
    ASSUME IInv, UNCHANGED <<store, camera, at, lost>>
    PROVE  IInv' /\ RingStep
<1>. USE DEF store, camera
<1>1. Stored' /\ Typed' /\ Roles'
  BY DEF IInv, Stored, Typed, Form, Roles, Claims, Finalises
<1>2. Order'
  BY DEF IInv, Order, Heard, NewerThanDone, NewerThanListed, Pending, Claims, Finalises
<1>3. Kept' = Kept /\ Done' = Done
  BY DEF Kept, Done
<1>4. Prefix' /\ GhostsOldest' /\ Vanished'
  BY <1>3 DEF IInv, Prefix, GhostsOldest, Vanished
<1>5. Tracked'
  BY DEF IInv, Tracked, ClaimedOwed, CurOwed, CurSecure, FirstAway, Remembered, Claims,
         Finalises, Owed, Secure, Away
<1>. QED
  BY <1>1, <1>2, <1>3, <1>4, <1>5 DEF IInv, RingStep

LEMMA FinaliseKeeps ==
    ASSUME NEW t \in Task, IInv, Finalise(t)
    PROVE  IInv' /\ RingStep
<1>1. CASE Check(t)
  <2>1. ASSUME disk[at[t].seg] = "none", Goto(t, "idle"), UNCHANGED disk
        PROVE  IInv' /\ RingStep
    BY <1>1, <2>1, GotoMoves, MovesOnKeeps
       DEF IInv, Typed, Check, Secure, Away, store, history
  <2>2. ASSUME disk[at[t].seg] # "none", Goto(t, "hash"), UNCHANGED disk
        PROVE  IInv' /\ RingStep
    <3>1. Moved(t, "hash", at[t].seg, {})
      BY <1>1, <2>2, GotoMoves DEF IInv, Typed, Check
    <3>. QED
      BY <1>1, <2>2, <3>1, MovesOnKeeps DEF Check, store, history
  <2>. QED
    BY <1>1, <2>1, <2>2, CheckDiscardsKeeps DEF Check, history
<1>2. CASE Hash(t)
  <2>1. Moved(t, "complete", at[t].seg, {})
    BY <1>2, GotoMoves DEF IInv, Typed, Hash
  <2>. QED
    BY <1>2, <2>1, MovesOnKeeps DEF Hash, history
<1>3. CASE Complete(t)
  BY <1>3, CompleteKeeps
<1>. QED
  BY <1>1, <1>2, <1>3 DEF Finalise

LEMMA EnforceKeeps ==
    ASSUME NEW t \in Task, IInv, Enforce(t)
    PROVE  IInv' /\ RingStep
<1>1. CASE Measure(t)
  <2>1. CASE Goto(t, "idle")
    BY <1>1, <2>1, GotoMoves, MovesOnKeeps DEF IInv, Typed, Measure, Finalises
  <2>2. CASE at' = [at EXCEPT ![t].pc = "list", ![t].due = Used - limit]
    <3>1. Moved(t, "list", at[t].seg, {})
      BY <1>1, <2>2, ToDue DEF IInv, Typed, Measure
    <3>. QED
      BY <1>1, <3>1, MovesOnKeeps DEF Measure, Finalises
  <2>. QED
    BY <1>1, <2>1, <2>2 DEF Measure
<1>2. CASE List(t)
  <2>1. ASSUME Goto(t, "idle"), UNCHANGED <<disk, lost>>
        PROVE  IInv' /\ RingStep
    BY <1>2, <2>1, GotoMoves, MovesOnKeeps DEF IInv, Typed, List, Finalises, store
  <2>. QED
    BY <1>2, <2>1, ListBeginsKeeps DEF List
<1>3. CASE Delete(t)
  <2>1. ASSUME Goto(t, "idle"), UNCHANGED <<disk, lost>>
        PROVE  IInv' /\ RingStep
    BY <1>3, <2>1, GotoMoves, DeleteEndsKeeps DEF IInv, Typed, Delete
  <2>2. ASSUME at' = [at EXCEPT ![t].pc = "list", ![t].freed = Sum(t), ![t].list = {}],
               UNCHANGED <<disk, lost>>
        PROVE  IInv' /\ RingStep
    <3>1. Moved(t, "list", at[t].seg, {})
      BY <2>2, ToBatch DEF IInv, Typed
    <3>. QED
      BY <1>3, <2>2, <3>1, DeleteEndsKeeps DEF Delete
  <2>. QED
    BY <1>3, <2>1, <2>2, DeleteNextKeeps DEF Delete
<1>. QED
  BY <1>1, <1>2, <1>3 DEF Enforce

LEMMA StepKeeps == IInv /\ [Next]_vars => IInv' /\ RingStep
<1>. SUFFICES ASSUME IInv, [Next]_vars PROVE IInv' /\ RingStep
  OBVIOUS
<1>1. CASE StartRecorder
  BY <1>1, StartRecorderKeeps
<1>2. CASE Ffmpeg
  BY <1>2, RotatesKeeps, ExitsKeeps, RespawnsKeeps DEF Ffmpeg
<1>3. CASE ReadLine
  BY <1>3, ReadLineKeeps
<1>4. CASE Insert
  BY <1>4, InsertKeeps
<1>5. CASE JanitorWakes
  <2>1. "janitor" \in Task /\ Moved("janitor", "used", at["janitor"].seg, {})
    BY <1>5, GotoMoves DEF IInv, Typed, Task, JanitorWakes
  <2>. QED
    BY <1>5, <2>1, MovesOnKeeps DEF JanitorWakes, Finalises, history
<1>6. CASE \E t \in Task : Finalise(t) \/ Enforce(t) \/ StatementFails(t)
  BY <1>6, FinaliseKeeps, EnforceKeeps, StatementFailsKeeps
<1>7. CASE Stop
  BY <1>7, StopBeginsKeeps, StopCancelsKeeps, StopReturnsKeeps DEF Stop
<1>8. CASE Startup
  BY <1>8, PurgeKeeps, SweepKeeps DEF Startup
<1>9. CASE Clear
  BY <1>9, ClearRowsKeeps, ClearFilesKeeps DEF Clear
<1>10. CASE Crash
  BY <1>10, CrashKeeps
<1>11. CASE LowerLimit
  BY <1>11, StutterKeeps DEF LowerLimit
<1>12. CASE UNCHANGED vars
  BY <1>12, StutterKeeps DEF vars, history
<1>. QED
  BY <1>1, <1>2, <1>3, <1>4, <1>5, <1>6, <1>7, <1>8, <1>9, <1>10, <1>11, <1>12 DEF Next

\* The inductive invariant holds, whichever tasks enforce the budget at once.
THEOREM Invariance == Spec => []IInv
<1>1. IInv /\ [Next]_vars => IInv'
  BY StepKeeps
<1>. QED
  BY <1>1, InitIInv, PTL DEF Spec

\* So does what an enforcement has still to free, and what it covers.
THEOREM BudgetInvariance == Spec => []BInv
<1>1. IInv /\ BInv /\ [Next]_vars => BInv'
  BY StepFunds
<1>. QED
  BY <1>1, InitFunds, Invariance, PTL DEF Spec

\* What the tasks carry from one await to the next is well typed, the bytes to
\* free among it: an enforcement never starts on a budget that is kept.
THEOREM TypeCorrect == Spec => []TypeOK
<1>1. IInv /\ BInv => TypeOK
  <2>. SUFFICES ASSUME IInv, BInv PROVE TypeOK
    OBVIOUS
  <2>1. ASSUME NEW t \in Task PROVE at[t] \in Locals
    <3>1. at[t] = [pc |-> at[t].pc, seg |-> at[t].seg, due |-> at[t].due,
                   freed |-> at[t].freed, list |-> at[t].list]
      BY DEF IInv, Typed, Form
    <3>2. /\ at[t].pc \in Step /\ at[t].seg \in 0..MaxSeg /\ at[t].list \in SUBSET Seg
          /\ at[t].due \in Nat /\ at[t].freed \in Nat
      BY DEF IInv, BInv, Typed, Amounts
    <3>. QED
      BY <3>1, <3>2 DEF Locals
  <2>2. at \in [Task -> Locals]
    BY <2>1 DEF IInv, Typed, Form
  <2>. QED
    BY <2>2 DEF TypeOK, IInv, BInv, Stored, Typed, Settings
<1>. QED
  BY <1>1, BudgetInvariance, Invariance, PTL

\* Two enforcements at once never free too little: when no task is busy, the
\* archive fits the budget, unless an enforcement is owed.
THEOREM BudgetKeptAlways == Spec => []BudgetKept
<1>1. BInv => BudgetKept
  BY DEF BInv, Covered, Covers, BudgetKept, Busy
<1>. QED
  BY <1>1, BudgetInvariance, PTL

\* enforce_storage_limit frees rows without a file before any with one.
THEOREM GhostsOldestAlways == Spec => []GhostsOldest
<1>1. IInv => GhostsOldest
  BY DEF IInv
<1>. QED
  BY <1>1, Invariance, PTL

\* Each closed file is in the archive, about to be, or one the code has given up
\* (a crash, a failed statement, a cancelled watcher).
THEOREM NothingForgottenAlways == Spec => []NothingForgotten
<1>1. IInv => NothingForgotten
  <2>. SUFFICES ASSUME IInv, NEW s \in Seg, disk[s] = "closed", row[s] # "done",
                       s \notin lost
                PROVE  \/ s = cur \/ s > heard
                       \/ \E t \in Task : /\ s = at[t].seg
                                          /\ at[t].pc \in {"insert", "check",
                                                           "hash", "complete"}
    BY DEF NothingForgotten
  <2>. QED
    BY DEF IInv, Tracked, Remembered, Secure, Away, Claims, Finalises
<1>. QED
  BY <1>1, Invariance, PTL

\* Finalisation, enforcement, start-up, clear-data and crashes together
\* implement the ring: each step keeps what can be played, adds the newest
\* segment, or takes the oldest ones away.
THEOREM ImplementsRing == Spec => KeepsRing
<1>1. Init => Ring!Init
  BY DEF Init, Ring!Init, Done
<1>2. IInv /\ [Next]_vars => [Ring!Next]_{s \in Done : disk[s] # "none"}
  <2>. SUFFICES ASSUME IInv, [Next]_vars
                PROVE  [Ring!Next]_{s \in Done : disk[s] # "none"}
    OBVIOUS
  <2>1. RingStep
    BY StepKeeps
  <2>. QED
    BY <2>1 DEF RingStep, Grows, Shrinks, Kept, Ring!Next, Ring!Keep, Ring!Reap
<1>. QED
  BY <1>1, <1>2, Invariance, PTL DEF Spec, KeepsRing, Ring!Spec

===============================================================================
