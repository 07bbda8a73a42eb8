---------------------------- MODULE MCAdmission ----------------------------
(* Constants for model checking Admission. *)
EXTENDS Admission

CONSTANTS p1, p2

SomePins == {p1, p2}
FixedOrNone == {None, p1}

=============================================================================
