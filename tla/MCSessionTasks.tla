--------------------------- MODULE MCSessionTasks ---------------------------
(* Constants for model checking SessionTasks. *)
EXTENDS SessionTasks

AnyFault == AllFaults
=============================================================================
