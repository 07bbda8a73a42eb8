--------------------------- MODULE MCFileTransfer ---------------------------
(* Constants for model checking FileTransfer. *)
EXTENDS FileTransfer

AnyFault == AllFaults
DiskFault == {"disk"}

=============================================================================
