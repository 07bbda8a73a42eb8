------------------------------ MODULE MCPanel ------------------------------
(* Constants for model checking Panel. *)
EXTENDS Panel

CONSTANTS p1

OnePin == {p1}
TwoRates == {15, 30}
TwoBitrates == {4000, 12000}
OneBitrate == {12000}

=============================================================================
