---------------------------- MODULE RetentionRing ----------------------------
(***************************************************************************)
(* What the storage of one camera promises to whoever looks for footage:   *)
(* a ring of segments that grows by the newest and shrinks by the oldest.  *)
(* SegmentStore implements it.                                             *)
(***************************************************************************)
EXTENDS Naturals

CONSTANT Segment  \* numbers: naturals

VARIABLE kept     \* the segments that can be played, by order of recording

Init == kept = {}

Keep == \E s \in Segment :
            /\ \A t \in kept : t < s
            /\ kept' = kept \cup {s}

Reap == \E s \in kept : kept' = {t \in kept : s < t}

Next == Keep \/ Reap
Spec == Init /\ [][Next]_kept
==============================================================================
