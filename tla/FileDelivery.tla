---------------------------- MODULE FileDelivery ----------------------------
(***************************************************************************)
(* What a file transfer promises its two users, without saying how.        *)
(*                                                                         *)
(* The receiving user sees the file whole or not at all.  The sending user *)
(* gets at most one verdict: "confirmed" only once the file is there, and  *)
(* "failed" only if it is not there and never will be.  FileTransfer       *)
(* implements this module.                                                 *)
(***************************************************************************)

VARIABLES
    delivered,      \* the whole file is in the peer's download directory
    verdict         \* what the sending user has been told

vars == <<delivered, verdict>>

Init ==
    /\ delivered = FALSE
    /\ verdict = "none"

\* The file appears in the download directory, in one piece.
Deliver ==
    /\ ~ delivered
    /\ verdict # "failed"
    /\ delivered' = TRUE
    /\ UNCHANGED verdict

Confirm ==
    /\ delivered
    /\ verdict = "none"
    /\ verdict' = "confirmed"
    /\ UNCHANGED delivered

Fail ==
    /\ ~ delivered
    /\ verdict = "none"
    /\ verdict' = "failed"
    /\ UNCHANGED delivered

Next == Deliver \/ Confirm \/ Fail

Spec == Init /\ [][Next]_vars

=============================================================================
