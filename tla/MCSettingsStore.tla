-------------------------- MODULE MCSettingsStore --------------------------
(* Constants for model checking SettingsStore. *)
EXTENDS SettingsStore

CONSTANTS p1

OnePin == {p1}
TwoRates == {15, 30}
OneBitrate == {4000}

=============================================================================
