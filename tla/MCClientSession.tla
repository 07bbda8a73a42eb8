--------------------------- MODULE MCClientSession --------------------------
(* Constants for model checking ClientSession. *)
EXTENDS ClientSession

AnyFault == AllFaults

\* Without a window, all; with one, a file of the configuration is offered like
\* one of the user's, and answers to the host's file are covered by the others.
SomeConfigs == ({TRUE} \X BOOLEAN \X BOOLEAN) \cup {<<FALSE, FALSE, FALSE>>}

=============================================================================
