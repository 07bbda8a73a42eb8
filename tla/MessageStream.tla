--------------------------- MODULE MessageStream ----------------------------
(***************************************************************************)
(* What one direction of a connection promises to the tasks at its ends,   *)
(* and what the other modules take it for: the reader gets the messages    *)
(* that were written, each once, in their order and unchanged, up to some  *)
(* point; then it learns that there will be no more.                       *)
(***************************************************************************)
EXTENDS Naturals, Sequences

VARIABLES
    sent,       \* the messages written
    got,        \* the messages read
    over        \* the reader was told that there will be no more

vars == <<sent, got, over>>

Send ==
    /\ sent' # sent
    /\ SubSeq(sent', 1, Len(sent)) = sent
    /\ Len(sent') = Len(sent) + 1
    /\ UNCHANGED <<got, over>>

Receive ==
    /\ ~ over
    /\ Len(got) < Len(sent)
    /\ got' = Append(got, sent[Len(got) + 1])
    /\ UNCHANGED <<sent, over>>

End ==
    /\ ~ over
    /\ over' = TRUE
    /\ UNCHANGED <<sent, got>>

Init == sent = <<>> /\ got = <<>> /\ over = FALSE

Next == Send \/ Receive \/ End

Spec == Init /\ [][Next]_vars

=============================================================================
