--------------------------- MODULE MCMotionManager ---------------------------
\* Model-checking instance of MotionManager.
EXTENDS MotionManagerProofs
=============================================================================
