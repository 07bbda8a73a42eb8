---------------------------- MODULE MCTransfers -----------------------------
(* Constants for model checking Transfers. *)
EXTENDS Transfers

SmallSizes == {0, 5}

=============================================================================
