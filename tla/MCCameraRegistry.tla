--------------------------- MODULE MCCameraRegistry ---------------------------
\* Model-checking instance of CameraRegistry.
EXTENDS CameraRegistryProofs, TLC

Symmetry == Permutations(IP)

\* The properties excuse what follows a clash; it is not looked at.
Telling == ~clash

\* At first a device answers at one address only.
OneAtFirst == moves = 0 => Cardinality({i \in IP : net[i] # None}) <= 1
=============================================================================
