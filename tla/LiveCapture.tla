----------------------------- MODULE LiveCapture ----------------------------
(***************************************************************************)
(* LiveCapture::open of crates/host/src/capture/mod.rs: the capture mode   *)
(* decides between Screencopy and Portal, and in mode "auto" the portal is *)
(* asked when screencopy cannot be had.  A behaviour follows the one       *)
(* screencopy capture of a session, then, where that was refused, the      *)
(* portal's captures over all sessions of the host.                        *)
(***************************************************************************)
EXTENDS Screencopy

CONSTANTS
    Modes,                  \* the capture modes: "auto", "screencopy", "portal"
    MaxShares, MaxUpsets    \* of Portal

ASSUME NoneAssumption == None \notin Nat
ASSUME SharesAssumption == MaxShares \in Nat

VARIABLES
    mode,       \* CaptureMode; what was "auto" is "portal" once that is asked
    opening, saved, tried, mine, file, honoured, share, thread, upsets,
    newest, forgotten       \* those of Portal

Portal == INSTANCE Portal

portalVars == <<opening, saved, tried, mine, file, honoured, share, thread, upsets,
                newest, forgotten>>
captureVars == <<mode, vars, portalVars>>

UseScreencopy ==
    /\ mode # "portal"
    /\ Next
    /\ UNCHANGED <<mode, portalVars>>

\* In mode "portal" screencopy is not tried, in mode "auto" it was refused:
\* no Grabber is left.  (Nothing of the compositor's outputs matters any more.)
AskPortal ==
    /\ \/ mode = "portal" /\ grab = "connect"
       \/ mode = "auto" /\ grab = "refused"
    /\ grab' = "portal"
    /\ spec' = [o \in Outputs |-> None] /\ shm' = [o \in Outputs |-> None]
    /\ pending' = [o \in Outputs |-> "failed"] /\ frame' = [o \in Outputs |-> "none"]
    /\ ids' = [o \in Outputs |-> None] /\ sent' = {} /\ shown' = {}
    /\ late' = FALSE /\ heard' = FALSE
    /\ screen' = [o \in Outputs |-> None] /\ asleep' = [o \in Outputs |-> FALSE]
    /\ modes' = MaxModes
    /\ mode' = "portal"
    /\ UNCHANGED <<stop, inboxVars, portalVars>>

UsePortal ==
    /\ grab = "portal"
    /\ Portal!Next
    /\ UNCHANGED <<mode, vars>>

CaptureInit == Init /\ Portal!Init /\ mode \in Modes

CaptureNext == UseScreencopy \/ AskPortal \/ UsePortal

\* The tasks that close shares run, and the PipeWire threads.
CaptureSpec ==
    /\ CaptureInit
    /\ [][CaptureNext]_captureVars
    /\ \A s \in Portal!Shares :
         WF_portalVars(Portal!Close(s)) /\ WF_portalVars(Portal!ThreadStops(s))

-----------------------------------------------------------------------------
(* Properties: those of the two parts *)

\* The picker is skipped whenever the portal would restore the last share.
PickerOnlyWhenNeeded == Portal!PickerOnlyWhenNeeded

\* A portal capture that was opened and is not used any more ends.
CapturesEnd == Portal!CapturesEnd

=============================================================================
