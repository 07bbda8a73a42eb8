---------------------------- MODULE MCScreencopy ----------------------------
(* Constants for model checking Screencopy alone. *)
EXTENDS Screencopy

CONSTANTS s1

TwoOutputs == {0, 1}
OneSize == {s1}
NoSizes == {}

=============================================================================
