-------------------------- MODULE MCRecordingManager --------------------------
(* Model-checking instances of RecordingManager. *)
EXTENDS RecordingManagerProofs, TLC

Symmetry == Permutations(Rec) \cup Permutations(Camera)
            \cup Permutations(Request) \cup Permutations(Config)
=============================================================================
