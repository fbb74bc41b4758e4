---------------------------- MODULE MCMotionEvents ----------------------------
\* Model-checking instance of MotionEvents.
EXTENDS MotionEventsProofs
=============================================================================
