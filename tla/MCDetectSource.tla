---------------------------- MODULE MCDetectSource ----------------------------
\* Model-checking instance of DetectSource.
EXTENDS DetectSourceProofs
=============================================================================
