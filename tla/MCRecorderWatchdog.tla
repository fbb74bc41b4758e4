-------------------------- MODULE MCRecorderWatchdog --------------------------
EXTENDS RecorderWatchdogProofs

\* 5, 15, 30, 60 seconds, cut after the second and on the run's scale.
MCBackoff == <<1, 2>>
===============================================================================
