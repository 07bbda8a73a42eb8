------------------------------- MODULE Portal -------------------------------
(***************************************************************************)
(* crates/host/src/capture/portal.rs over the sessions of a host: opening  *)
(* a share through xdg-desktop-portal, the restore token that spares the   *)
(* picker the next time, and what becomes of shares and PipeWire threads.  *)
(*                                                                         *)
(* The portal is external: it restores a share from a token it honours,    *)
(* shows the picker or refuses otherwise, and may issue a new token with   *)
(* every share and stop honouring the one that was used.  Pictures go      *)
(* through a FrameInbox as those of Screencopy do.                         *)
(***************************************************************************)
EXTENDS Naturals

CONSTANTS
    MaxShares,      \* bound: portal sessions created
    MaxUpsets,      \* bound: failed calls and writes, crashes, resets and dropped openings
    None            \* no token, no file; not a number

VARIABLES
    opening,    \* where open_portal is; "idle" between sessions, "open" in one
    saved,      \* the token open_portal read
    tried,      \* the token of this start_screencast
    mine,       \* the portal session of this start_screencast, the last created
    file,       \* the token file: a token, Empty, or None
    honoured,   \* the tokens the portal would restore a share from
    share,      \* each portal session: "none", "asked", "open", "closing" once
                \* a task is spawned that closes it, "closed"
    thread,     \* the PipeWire thread of each: "none", "running", "told" once
                \* its stop flag is set, "gone"
    upsets,     \* bounded faults so far
    newest,     \* history: the token issued last to a caller that waited for it
    forgotten   \* history: something since then may have lost it

openVars == <<opening, saved, tried, mine>>
shareVars == <<share, thread>>
historyVars == <<newest, forgotten>>
vars == <<openVars, file, honoured, shareVars, upsets, historyVars>>

\* A token is known by the portal session that issued it.
Shares == 1..MaxShares

Empty == 0      \* what a write that has only begun leaves in the file

\* Faults are bounded.
Upset == upsets < MaxUpsets /\ upsets' = upsets + 1

-----------------------------------------------------------------------------
(* open_portal and start_screencast *)

\* read_token takes an empty file for none.
ReadToken == IF file \in Shares THEN file ELSE None

Open ==
    /\ opening = "idle"
    /\ opening' = "create"
    /\ saved' = ReadToken
    /\ tried' = ReadToken
    /\ UNCHANGED <<mine, file, honoured, shareVars, upsets, historyVars>>

\* start_screencast returns an error: with a saved token, whatever the error,
\* the file is removed, and the portal is asked again without one.
Failed ==
    /\ saved' = None
    /\ tried' = None
    /\ IF saved # None THEN opening' = "create" /\ file' = None
                       ELSE opening' = "idle" /\ UNCHANGED file

\* Screencast::new, create_session, select_sources, and the call of start.
Create ==
    /\ opening = "create"
    /\ mine < MaxShares
    /\ mine' = mine + 1
    /\ share' = [share EXCEPT ![mine + 1] = "asked"]
    /\ opening' = "asked"
    /\ UNCHANGED <<saved, tried, file, honoured, thread, upsets, historyVars>>

CreateFails ==
    /\ opening = "create"
    /\ Upset
    /\ Failed
    /\ forgotten' = TRUE
    /\ UNCHANGED <<mine, honoured, shareVars, newest>>

\* The portal opens share s for a caller that offered a token: it may issue a
\* token for it and stop honouring the one that was used.
Answer(s, offered, issues) ==
    /\ share' = [share EXCEPT ![s] = "open"]
    /\ \E kept \in {honoured, honoured \ {offered}} :
         honoured' = kept \cup (IF issues THEN {s} ELSE {})

\* Mutant of Started: only a token that came from the picker is saved.
StartedOnce ==
    /\ opening = "asked"
    /\ \E issues \in BOOLEAN :
         /\ Answer(mine, tried, issues)
         /\ opening' = IF issues /\ tried = None THEN "save" ELSE "remote"
         /\ newest' = IF issues THEN mine ELSE newest
         /\ forgotten' = (forgotten /\ ~ issues)
    /\ UNCHANGED <<saved, tried, mine, file, thread, upsets>>

\* start's response: the share was restored, or the user picked monitors.
Started ==
    /\ opening = "asked"
    /\ \E issues \in BOOLEAN :
         /\ Answer(mine, tried, issues)
         /\ opening' = IF issues THEN "save" ELSE "remote"
         /\ newest' = IF issues THEN mine ELSE newest
         /\ forgotten' = (forgotten /\ ~ issues)
    /\ UNCHANGED <<saved, tried, mine, file, thread, upsets>>

\* The portal refuses the token, or the user cancels the picker.
Refused ==
    /\ opening = "asked"
    /\ tried \notin honoured
    /\ Failed
    /\ share' = [share EXCEPT ![mine] = "closed"]
    /\ UNCHANGED <<mine, honoured, thread, upsets, historyVars>>

\* save_token: the file is created or truncated, then written.  An error is
\* only logged.
SaveBegins ==
    /\ opening = "save"
    /\ opening' = "write"
    /\ file' = Empty
    /\ UNCHANGED <<saved, tried, mine, honoured, shareVars, upsets, historyVars>>

\* (A file that was removed meanwhile is written without a name.)
SaveEnds ==
    /\ opening = "write"
    /\ opening' = "remote"
    /\ file' = IF file = None THEN None ELSE mine
    /\ UNCHANGED <<saved, tried, mine, honoured, shareVars, upsets, historyVars>>

SaveFails ==
    /\ opening \in {"save", "write"}
    /\ Upset
    /\ opening' = "remote"
    /\ forgotten' = TRUE
    /\ UNCHANGED <<saved, tried, mine, file, honoured, shareVars, newest>>

\* The share has streams, the remote opens, and the thread starts.
Remote ==
    /\ opening = "remote"
    /\ opening' = "open"
    /\ thread' = [thread EXCEPT ![mine] = "running"]
    /\ UNCHANGED <<saved, tried, mine, file, honoured, share, upsets, historyVars>>

\* One of these fails.  The share stays open, and a token saved just now is
\* removed with the one that was offered.
RemoteFails ==
    /\ opening = "remote"
    /\ Upset
    /\ Failed
    /\ forgotten' = (forgotten \/ saved # None)
    /\ UNCHANGED <<mine, honoured, shareVars, newest>>

\* handle_client's select drops the opening at an await, with the client's
\* disconnect or a shutdown: nothing closes what it had begun.
OpeningDropped ==
    /\ opening \in {"create", "asked", "remote"}
    /\ Upset
    /\ opening' = "idle"
    /\ saved' = None
    /\ tried' = None
    /\ UNCHANGED <<mine, file, honoured, shareVars, historyVars>>

-----------------------------------------------------------------------------
(* The end of a capture *)

\* The stop flag is set.
Tell ==
    IF thread[mine] = "running" THEN thread' = [thread EXCEPT ![mine] = "told"]
                                ELSE UNCHANGED thread

\* Mutant of Drop: only the thread is told.
DropUnclosed ==
    /\ opening = "open"
    /\ opening' = "idle"
    /\ saved' = None
    /\ tried' = None
    /\ Tell
    /\ UNCHANGED <<mine, file, honoured, share, upsets, historyVars>>

\* The session is over, for a reason of its own or because the inbox was
\* closed, and drops the PortalCapture.
Drop ==
    /\ opening = "open"
    /\ opening' = "idle"
    /\ saved' = None
    /\ tried' = None
    /\ Tell
    /\ IF share[mine] = "open" THEN share' = [share EXCEPT ![mine] = "closing"]
                               ELSE UNCHANGED share
    /\ UNCHANGED <<mine, file, honoured, upsets, historyVars>>

\* The task that drop spawned: session.close.
Close(s) ==
    /\ share[s] = "closing"
    /\ share' = [share EXCEPT ![s] = "closed"]
    /\ UNCHANGED <<openVars, file, honoured, thread, upsets, historyVars>>

\* The loop of pipewire_thread sees the flag; the inbox is closed.
ThreadStops(s) ==
    /\ thread[s] = "told"
    /\ thread' = [thread EXCEPT ![s] = "gone"]
    /\ UNCHANGED <<openVars, file, honoured, share, upsets, historyVars>>

\* PipeWire fails, before the loop or in it.
ThreadFails(s) ==
    /\ thread[s] = "running"
    /\ Upset
    /\ thread' = [thread EXCEPT ![s] = "gone"]
    /\ UNCHANGED <<openVars, file, honoured, share, historyVars>>

-----------------------------------------------------------------------------
(* The rest of the world *)

\* The user ends a share or withdraws a token.  The host is not told:
\* state_changed only logs.
Revoke ==
    /\ \/ \E s \in Shares : share[s] \in {"open", "closing"} /\ share' = [share EXCEPT ![s] = "closed"]
          /\ UNCHANGED honoured
       \/ \E t \in honoured : honoured' = honoured \ {t}
          /\ UNCHANGED share
    /\ UNCHANGED <<openVars, file, thread, upsets, historyVars>>

\* The picker of an opening that was dropped is still on the screen.
AnsweredLate(s) ==
    /\ share[s] = "asked"
    /\ opening \notin {"asked"} \/ s # mine
    /\ \E issues \in BOOLEAN : Answer(s, None, issues)
    /\ UNCHANGED <<openVars, file, thread, upsets, historyVars>>

\* omarchy-connect-host reset-share
ResetShare ==
    /\ file # None
    /\ Upset
    /\ file' = None
    /\ forgotten' = TRUE
    /\ UNCHANGED <<openVars, honoured, shareVars, newest>>

\* The host dies: its shares and threads end, and it starts again.
Crash ==
    /\ opening # "idle"
    /\ Upset
    /\ opening' = "idle"
    /\ saved' = None
    /\ tried' = None
    /\ share' = [s \in Shares |-> IF share[s] = "none" THEN "none" ELSE "closed"]
    /\ thread' = [s \in Shares |-> IF thread[s] = "none" THEN "none" ELSE "gone"]
    /\ forgotten' = (forgotten \/ opening \in {"save", "write"})
    /\ UNCHANGED <<mine, file, honoured, newest>>

-----------------------------------------------------------------------------

Init ==
    /\ opening = "idle"
    /\ saved = None
    /\ tried = None
    /\ mine = 0
    /\ file = None
    /\ honoured = {}
    /\ share = [s \in Shares |-> "none"]
    /\ thread = [s \in Shares |-> "none"]
    /\ upsets = 0
    /\ newest = None
    /\ forgotten = FALSE

Next ==
    \/ Open \/ Create \/ CreateFails \/ Started \/ Refused
    \/ SaveBegins \/ SaveEnds \/ SaveFails \/ Remote \/ RemoteFails
    \/ OpeningDropped \/ Drop
    \/ \E s \in Shares : Close(s) \/ ThreadStops(s) \/ ThreadFails(s) \/ AnsweredLate(s)
    \/ Revoke \/ ResetShare \/ Crash

Spec == Init /\ [][Next]_vars

-----------------------------------------------------------------------------
(* Properties *)

\* open_portal, over any number of sessions: the share picker is skipped
\* whenever the portal would restore the last share, unless a call or a write
\* failed, the host died while it saved, or reset-share asked for the picker.
PickerOnlyWhenNeeded ==
    [][opening = "create" /\ opening' = "asked" /\ tried \notin honoured
         => newest \notin honoured \/ forgotten]_vars

InUse(s) == opening # "idle" /\ s = mine

\* A capture that was opened and is not used any more ends, its thread and its
\* share with it.  (An opening that failed or was dropped may leave its share.)
CapturesEnd ==
    \A s \in Shares :
        thread[s] # "none" /\ ~ InUse(s) ~> share[s] = "closed" /\ thread[s] = "gone"

=============================================================================
