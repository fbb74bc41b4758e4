---------------------------- MODULE MCSegmentStore ----------------------------
EXTENDS SegmentStoreProofs

\* The second segment is twice as long as the others.
MCBytes == [s \in Seg |-> IF s = 2 THEN 2 ELSE 1]
===============================================================================
