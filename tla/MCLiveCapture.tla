---------------------------- MODULE MCLiveCapture ---------------------------
(* Constants for model checking LiveCapture.  (Mode "screencopy" is "auto"   *)
(* without the portal.)                                                      *)
EXTENDS LiveCapture

CONSTANTS s1, tiny

TwoOutputs == {0, 1}
TwoSizes == {s1, tiny}
TinySizes == {tiny}
SomeModes == {"auto", "portal"}

=============================================================================
