--------------------------- MODULE MCCameraRecorder ---------------------------
(* Model-checking instances of CameraRecorder. *)
EXTENDS CameraRecorderProofs
=============================================================================
