------------------------------- MODULE Panel -------------------------------
(***************************************************************************)
(* The bar's panel (omarchy/plugin/Panel.qml) over the settings file.  The *)
(* panel keeps nothing of its own: it shows what its last `status --json`  *)
(* said (report of crates/host/src/status.rs) and changes things through   *)
(* the commands of SettingsStore, which a terminal may run as well.        *)
(*                                                                         *)
(* It has one process for the status, one for the command of a click and   *)
(* one that starts the host.  A status is read at one moment and shown at  *)
(* a later one, and a refresh asked for in between is dropped.             *)
(***************************************************************************)
EXTENDS SettingsStore

CONSTANTS
    PanelBitrates,  \* the bitrates that have a button
    MaxUpsets       \* bound: starts and stops of the host, failing and killed processes

NoFile == 0     \* no command of the settings

VARIABLES
    host,       \* the host runs
    shown,      \* info and loaded
    status,     \* statusProc: "idle", "started" or "read"
    reading,    \* the report that statusProc has made
    busy,       \* the buttons are off
    action,     \* the command that actionProc runs
    starting,   \* startProc runs
    upsets      \* starts, stops and failures so far

panelVars == <<host, shown, status, reading, busy, action, starting, upsets>>
systemVars == <<storeVars, panelVars>>

\* info is {}: the properties of the panel fall back to their defaults.
NoInfo == [loaded |-> TRUE, running |-> FALSE, pinSet |-> FALSE, unattended |-> FALSE,
           fps |-> DefaultRate, bitrate |-> DefaultBitrate]

\* A file that does not parse is reported as the default.
Report ==
    LET v == IF Loadable THEN Loaded ELSE Default
    IN  [loaded |-> TRUE, running |-> host, pinSet |-> v.pin # NoPin, unattended |-> v.unattended,
         fps |-> v.fps, bitrate |-> v.bitrate]

Upset == upsets < MaxUpsets /\ upsets' = upsets + 1

-----------------------------------------------------------------------------
(* The status *)

\* refresh: nothing is remembered of one that comes while statusProc runs.
Refresh == status' = IF status = "idle" THEN "started" ELSE status

\* The timer, the panel's opening, a right click, and "r".
Look ==
    /\ Refresh
    /\ UNCHANGED <<storeVars, host, shown, reading, busy, action, starting, upsets>>

StatusReads ==
    /\ status = "started"
    /\ status' = "read"
    /\ reading' = Report
    /\ UNCHANGED <<storeVars, host, shown, busy, action, starting, upsets>>

StatusEnds ==
    /\ status = "read"
    /\ status' = "idle"
    /\ reading' = NoInfo
    /\ shown' = reading
    /\ UNCHANGED <<storeVars, host, busy, action, starting, upsets>>

\* It exits with an error or prints no JSON.
StatusFails ==
    /\ status # "idle"
    /\ Upset
    /\ status' = "idle"
    /\ reading' = NoInfo
    /\ shown' = NoInfo
    /\ UNCHANGED <<storeVars, host, busy, action, starting>>

-----------------------------------------------------------------------------
(* Clicks *)

\* run: actionProc runs command n, which makes one of values of the settings.
Run(n, values) ==
    /\ shown.loaded
    /\ ~ busy
    /\ action = NoFile
    /\ busy' = TRUE
    /\ \E c \in Commands :
         /\ LoadAs(c, n)
         /\ step'[c] = "loaded" => value'[c] \in values
         /\ action' = c
    /\ UNCHANGED <<host, shown, status, reading, starting, upsets>>

\* setVideo: one value is the button's, the other the one shown.
ChooseVideo ==
    \/ Run("video", {v \in Value : v.bitrate = shown.bitrate})
    \/ Run("video", {v \in Value : v.fps = shown.fps /\ v.bitrate \in PanelBitrates})

\* Save; "Remove PIN" with one set; and the switch, while the host runs, whose
\* click asks for a PIN first.
ChooseAccess ==
    \E n \in {"set", "clear", "on", "off"} :
      /\ n # "set" => shown.pinSet
      /\ n \in {"on", "off"} => shown.running /\ shown.unattended = (n = "off")
      /\ Run(n, Value)

\* Mutant of ActionEnds: the buttons come back after a success.
ActionEndsWell ==
    /\ action # NoFile
    /\ step[action] = "done"
    /\ busy' = FALSE
    /\ action' = NoFile
    /\ Refresh
    /\ UNCHANGED <<storeVars, host, shown, reading, starting, upsets>>

ActionEnds ==
    /\ action # NoFile
    /\ step[action] \in {"done", "failed"}
    /\ busy' = FALSE
    /\ action' = NoFile
    /\ Refresh
    /\ UNCHANGED <<storeVars, host, shown, reading, starting, upsets>>

\* "Start the host": systemctl, which may fail; a refresh follows.
StartHost ==
    /\ ~ busy
    /\ shown.loaded /\ ~ shown.running
    /\ ~ starting
    /\ Upset
    /\ busy' = TRUE
    /\ starting' = TRUE
    /\ UNCHANGED <<storeVars, host, shown, status, reading, action>>

StartEnds ==
    /\ starting
    /\ starting' = FALSE
    /\ busy' = FALSE
    /\ host' \in {host, TRUE}
    /\ UNCHANGED <<storeVars, shown, status, reading, action, upsets>>

-----------------------------------------------------------------------------
(* Everybody else *)

\* The host stops, and its state file with it, which the panel watches.
HostStops ==
    /\ host
    /\ Upset
    /\ host' = FALSE
    /\ Refresh
    /\ UNCHANGED <<storeVars, shown, reading, busy, action, starting>>

Terminal == UNCHANGED panelVars /\ \E c \in Commands : Load(c)

\* A command goes on, whoever started it.
Proceeds ==
    /\ \E c \in Commands : Open(c) \/ Write(c) \/ Rename(c)
    /\ UNCHANGED panelVars

Dies ==
    /\ \E c \in Commands : Die(c)
    /\ Upset
    /\ UNCHANGED <<host, shown, status, reading, busy, action, starting>>

PanelInit ==
    /\ StoreInit
    /\ host \in BOOLEAN
    /\ shown = [NoInfo EXCEPT !.loaded = FALSE]
    /\ status = "idle"
    /\ reading = NoInfo
    /\ busy = FALSE
    /\ action = NoFile
    /\ starting = FALSE
    /\ upsets = 0
    /\ Report.fps = DefaultRate /\ Report.bitrate = DefaultBitrate

PanelNext ==
    \/ Look \/ StatusReads \/ StatusEnds \/ StatusFails
    \/ ChooseVideo \/ ChooseAccess \/ ActionEnds \/ StartHost \/ StartEnds
    \/ HostStops \/ Terminal \/ Proceeds \/ Dies

\* The panel's timer goes off again and again, and every process ends.
PanelFairness ==
    /\ WF_systemVars(Look)
    /\ WF_systemVars(StatusReads \/ StatusEnds)
    /\ WF_systemVars(ActionEnds \/ StartEnds)
    /\ WF_systemVars(Proceeds)

PanelSpec == PanelInit /\ [][PanelNext]_systemVars /\ PanelFairness

-----------------------------------------------------------------------------
(* Properties *)

\* The panel and the terminal do not disagree for good: when nobody changes
\* anything any more the panel comes to show what is so, whichever refreshes
\* were dropped and whichever status was read before a change and shown after
\* it; and its buttons come back after every click, however its command ends.
PanelCatchesUp == <>[](shown = Report) /\ []<>(~ busy)

=============================================================================
