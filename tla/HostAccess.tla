----------------------------- MODULE HostAccess -----------------------------
(***************************************************************************)
(* Who gets in: run_host's accept loop, the handshake of handle_client and *)
(* authenticate (crates/host/src/session.rs), the wrong-PIN lockout        *)
(* (lockout.rs), the settings that hold the unattended PIN (settings.rs)   *)
(* and the live state the host publishes for the bar (state.rs, status.rs).*)
(*                                                                         *)
(* run_host awaits one client at a time, so one phase describes the host.  *)
(* SPAKE2 and the MACs are modelled by what they decide: the confirmation  *)
(* verifies exactly if both ends used the same PIN.  Time counts units of  *)
(* the shortest lock.  What follows the handshake is SessionTasks.         *)
(***************************************************************************)
EXTENDS Integers

CONSTANTS
    Pins,           \* PINs a user sets or a client tries
    None,           \* no PIN
    FixedPins,      \* what --pin may give the host, None for no --pin
    FreeFailures,   \* FREE_FAILURES
    BaseLock,       \* BASE_LOCK
    MaxLock,        \* MAX_LOCK
    MaxTime,        \* bound: the clock
    MaxFailures,    \* bound: wrong PINs in a row
    MaxStarts,      \* bound: starts of the host process
    MaxSettings,    \* bound: changes of the settings
    MaxUnwritten    \* bound: writes and removals of the state file that fail

ASSUME PinAssumption == None \notin Pins /\ FixedPins \subseteq Pins \cup {None}
ASSUME LockAssumption ==
    /\ FreeFailures \in Nat \ {0}
    /\ BaseLock \in Nat \ {0}
    /\ MaxLock \in Nat
    /\ BaseLock <= MaxLock
ASSUME BoundsAssumption ==
    /\ MaxTime \in Nat
    /\ MaxFailures \in Nat
    /\ MaxStarts \in Nat \ {0}
    /\ MaxSettings \in Nat
    /\ MaxUnwritten \in Nat

VARIABLES
    now,        \* the clock
    running,    \* the host process runs
    starts,     \* how often it started: its pid
    stopping,   \* it was asked to shut down
    fixedPin,   \* the PIN this process was given with --pin, or None
    phase,      \* where run_host is with its client
    cancelled,  \* the token of the current session
    guess,      \* the PIN the client uses, None without one
    pinRead,    \* the PIN the handshake read from the settings
    valid,      \* history: what was the active PIN since the client connected
    failures,   \* Lockout.failures
    until,      \* Lockout.until, 0 for None
    settings,   \* the settings file
    changes,    \* how often the settings changed
    live,       \* the LiveState of the process, in memory
    file,       \* the state file
    recorded,   \* history: the last write or removal of the file succeeded, and
                \* the process did not die since
    unwritten,  \* how many failed
    waited      \* history: time since the first wrong PIN in a row

lockVars == <<failures, until, waited>>
clientVars == <<phase, cancelled, guess, pinRead, valid>>
processVars == <<running, starts, stopping, fixedPin>>
settingsVars == <<settings, changes>>
stateVars == <<live, file, recorded, unwritten>>
vars == <<now, processVars, clientVars, lockVars, settingsVars, stateVars>>

Handshake == {"hello", "auth", "confirm", "delay", "proved"}
Session == {"sharing", "connected"}
Phase == {"listening"} \cup Handshake \cup Session

\* Lockout::remaining
Locked == until > now

Least(a, b) == IF a < b THEN a ELSE b

\* 1 << k at place k + 1, as far as a lock is doubled.
Shifted == <<1, 2, 4, 8, 16, 32, 64, 128, 256, 512, 1024>>

\* The window that the n-th wrong PIN in a row opens, once n >= FreeFailures.
LockFor(n) == Least(BaseLock * Shifted[Least(n - FreeFailures, 10) + 1], MaxLock)

\* The PIN a client must prove: --pin, else Settings::active_pin.
ActivePin ==
    IF fixedPin # None THEN fixedPin
    ELSE IF settings.unattended THEN settings.pin ELSE None

\* The file that holds a LiveState.
FileOf(l) == [present |-> TRUE, pid |-> l.pid, status |-> l.status, lockedUntil |-> l.lockedUntil]

\* The file system refuses: the file stays as it was.
Keep ==
    /\ unwritten < MaxUnwritten
    /\ unwritten' = unwritten + 1
    /\ recorded' = FALSE
    /\ file' = file

\* write_atomic: the whole state goes to the file, or an error is logged and
\* the file left as it was.
Write(l) ==
    \/ file' = FileOf(l) /\ recorded' = TRUE /\ unwritten' = unwritten
    \/ Keep

\* Publisher::update: the status and the end of the lock.
Publish(status, lockedUntil) ==
    /\ live' = [live EXCEPT !.status = status, !.lockedUntil = lockedUntil]
    /\ Write(live')

\* Nothing of a client is left.
NoClient ==
    /\ phase' = "listening"
    /\ cancelled' = stopping
    /\ guess' = None
    /\ pinRead' = None
    /\ valid' = {}

\* handle_client returned: run_host goes back to accept and says so.
EndClient ==
    /\ NoClient
    /\ Publish("listening", live.lockedUntil)

-----------------------------------------------------------------------------
(* The handshake *)

\* A client connects.  Its token is a child of the process's: born cancelled
\* if the host is shutting down.
Connect ==
    /\ running
    /\ phase = "listening"
    /\ guess' \in Pins
    /\ phase' = "hello"
    /\ cancelled' = stopping
    /\ pinRead' = None
    /\ valid' = {ActivePin}
    /\ UNCHANGED <<now, processVars, lockVars, settingsVars, stateVars>>

\* Mutant of ReadPin: the PIN in the file, whatever the switch and --pin say.
ReadPinUnswitched ==
    /\ phase = "hello"
    /\ phase' = "auth"
    /\ pinRead' = settings.pin
    /\ UNCHANGED <<now, processVars, cancelled, guess, valid, lockVars, settingsVars, stateVars>>

\* Hello is answered and the PIN read, before the client's first auth message.
\* A settings file that cannot be read counts as no PIN.
ReadPin ==
    /\ phase = "hello"
    /\ phase' = "auth"
    /\ pinRead' \in {ActivePin, fixedPin}
    /\ UNCHANGED <<now, processVars, cancelled, guess, valid, lockVars, settingsVars, stateVars>>

\* Locked out, or no PIN is set: AuthDenied, and the client is gone.
Deny ==
    /\ phase = "auth"
    /\ Locked \/ pinRead = None
    /\ EndClient
    /\ UNCHANGED <<now, processVars, lockVars, settingsVars>>

\* Mutant of StartExchange: a lock that runs is not looked at.
StartExchangeLocked ==
    /\ phase = "auth"
    /\ pinRead # None
    /\ phase' = "confirm"
    /\ UNCHANGED <<now, processVars, cancelled, guess, pinRead, valid, lockVars,
                   settingsVars, stateVars>>

StartExchange ==
    /\ phase = "auth"
    /\ ~ Locked
    /\ pinRead # None
    /\ phase' = "confirm"
    /\ UNCHANGED <<now, processVars, cancelled, guess, pinRead, valid, lockVars,
                   settingsVars, stateVars>>

\* The confirmation does not verify: Lockout::fail, and publish its lock.
WrongPin ==
    /\ phase = "confirm"
    /\ guess # pinRead
    /\ failures < MaxFailures
    /\ failures' = failures + 1
    /\ IF failures' < FreeFailures
         THEN UNCHANGED <<until, stateVars>>
         ELSE /\ until' = now + LockFor(failures')
              /\ Publish(live.status, until')
    /\ phase' = "delay"
    /\ UNCHANGED <<now, processVars, cancelled, guess, pinRead, valid, waited, settingsVars>>

\* WRONG_PIN_DELAY is over: AuthDenied.
DenyWrongPin ==
    /\ phase = "delay"
    /\ EndClient
    /\ UNCHANGED <<now, processVars, lockVars, settingsVars>>

\* Mutant of RightPin: the published lock is forgotten.
RightPinUnpublished ==
    /\ phase = "confirm"
    /\ guess = pinRead
    /\ failures' = 0
    /\ until' = 0
    /\ waited' = 0
    /\ phase' = "proved"
    /\ UNCHANGED <<now, processVars, cancelled, guess, pinRead, valid, settingsVars, stateVars>>

\* The confirmation verifies: Lockout::succeed, and no lock is published.
RightPin ==
    /\ phase = "confirm"
    /\ guess = pinRead
    /\ failures' = 0
    /\ until' = 0
    /\ waited' = 0
    /\ Publish(live.status, 0)
    /\ phase' = "proved"
    /\ UNCHANGED <<now, processVars, cancelled, guess, pinRead, valid, settingsVars>>

\* The host's own confirmation is written: the client is in.
Admit ==
    /\ phase = "proved"
    /\ phase' = "sharing"
    /\ Publish("sharing", live.lockedUntil)
    /\ UNCHANGED <<now, processVars, cancelled, guess, pinRead, valid, lockVars, settingsVars>>

\* Mutant of HandshakeFails: the timeout starts after the client's hello.
HandshakeFailsLate ==
    /\ phase \in Handshake \ {"hello"}
    /\ EndClient
    /\ UNCHANGED <<now, processVars, lockVars, settingsVars>>

\* The client breaks off or speaks another version, the token fires, or
\* HANDSHAKE_TIMEOUT passes, which runs over every step of the handshake.
HandshakeFails ==
    /\ phase \in Handshake
    /\ EndClient
    /\ UNCHANGED <<now, processVars, lockVars, settingsVars>>

-----------------------------------------------------------------------------
(* The session, as far as access and the published state go *)

CaptureOpens ==
    /\ phase = "sharing"
    /\ phase' = "connected"
    /\ Publish("connected", live.lockedUntil)
    /\ UNCHANGED <<now, processVars, cancelled, guess, pinRead, valid, lockVars, settingsVars>>

SessionEnds ==
    /\ phase \in Session
    /\ EndClient
    /\ UNCHANGED <<now, processVars, lockVars, settingsVars>>

\* SIGUSR1, from `omarchy-connect disconnect`.
Disconnect ==
    /\ phase # "listening"
    /\ ~ cancelled
    /\ cancelled' = TRUE
    /\ UNCHANGED <<now, processVars, phase, guess, pinRead, valid, lockVars, settingsVars, stateVars>>

-----------------------------------------------------------------------------
(* The process *)

\* SIGTERM or SIGINT cancels the process's token and with it the session's.
AskToStop ==
    /\ running
    /\ ~ stopping
    /\ stopping' = TRUE
    /\ cancelled' = TRUE
    /\ UNCHANGED <<now, running, starts, fixedPin, phase, guess, pinRead, valid, lockVars, settingsVars, stateVars>>

\* The accept loop sees the token: the state file is removed, unless that
\* fails.
Stop ==
    /\ running
    /\ stopping
    /\ phase = "listening"
    /\ running' = FALSE
    /\ \/ file' = [file EXCEPT !.present = FALSE] /\ recorded' = TRUE /\ unwritten' = unwritten
       \/ Keep
    /\ UNCHANGED <<now, starts, stopping, fixedPin, clientVars, lockVars, settingsVars, live>>

\* The process dies, or accept() fails and run_host returns the error: the
\* state file stays.
Crash ==
    /\ running
    /\ running' = FALSE
    /\ NoClient
    /\ recorded' = FALSE
    /\ UNCHANGED <<now, starts, stopping, fixedPin, lockVars, settingsVars, live, file, unwritten>>

\* A new process: a new pid, a fresh Lockout, a fresh state.
Start ==
    /\ ~ running
    /\ starts < MaxStarts
    /\ running' = TRUE
    /\ starts' = starts + 1
    /\ stopping' = FALSE
    /\ fixedPin' \in FixedPins
    /\ cancelled' = FALSE
    /\ failures' = 0
    /\ until' = 0
    /\ waited' = 0
    /\ live' = [pid |-> starts', status |-> "listening", lockedUntil |-> 0]
    /\ Write(live')
    /\ UNCHANGED <<now, phase, guess, pinRead, valid, settingsVars>>

-----------------------------------------------------------------------------
(* The user's commands and the clock *)

Change(new) ==
    /\ changes < MaxSettings
    /\ settings' = new
    /\ changes' = changes + 1
    /\ UNCHANGED <<now, processVars, phase, cancelled, guess, pinRead, lockVars, stateVars>>
    /\ valid' = IF phase = "listening" THEN {} ELSE valid \cup {ActivePin'}

SetPin == \E p \in Pins : Change([pin |-> p, unattended |-> TRUE])

ClearPin == Change([pin |-> None, unattended |-> FALSE])

\* `unattended on` needs a PIN; `off` keeps it.
Unattended ==
    \E on \in BOOLEAN :
        /\ on => settings.pin # None
        /\ Change([settings EXCEPT !.unattended = on])

Tick ==
    /\ now < MaxTime
    /\ now' = now + 1
    /\ waited' = IF failures = 0 THEN 0 ELSE waited + 1
    /\ UNCHANGED <<processVars, clientVars, failures, until, settingsVars, stateVars>>

-----------------------------------------------------------------------------

Init ==
    /\ now = 0
    /\ running = TRUE
    /\ starts = 1
    /\ stopping = FALSE
    /\ fixedPin \in FixedPins
    /\ phase = "listening"
    /\ cancelled = FALSE
    /\ guess = None
    /\ pinRead = None
    /\ valid = {}
    /\ failures = 0
    /\ until = 0
    /\ settings \in [pin : Pins \cup {None}, unattended : BOOLEAN]
    /\ settings.unattended => settings.pin # None
    /\ changes = 0
    /\ live = [pid |-> 1, status |-> "listening", lockedUntil |-> 0]
    /\ unwritten \in 0..1 /\ unwritten <= MaxUnwritten
    /\ recorded = (unwritten = 0)
    /\ file = [FileOf(live) EXCEPT !.present = recorded]
    /\ waited = 0

Next ==
    \/ Connect \/ ReadPin \/ Deny \/ StartExchange
    \/ WrongPin \/ DenyWrongPin \/ RightPin \/ Admit \/ HandshakeFails
    \/ CaptureOpens \/ SessionEnds \/ Disconnect
    \/ AskToStop \/ Stop \/ Crash \/ Start
    \/ SetPin \/ ClearPin \/ Unattended \/ Tick

Spec == Init /\ [][Next]_vars

-----------------------------------------------------------------------------
(* Properties *)

\* Every variable keeps its type.
TypeOK ==
    /\ now \in Nat
    /\ running \in BOOLEAN
    /\ starts \in Nat
    /\ stopping \in BOOLEAN
    /\ fixedPin \in Pins \cup {None}
    /\ phase \in Phase
    /\ cancelled \in BOOLEAN
    /\ guess \in Pins \cup {None}
    /\ pinRead \in Pins \cup {None}
    /\ valid \subseteq Pins \cup {None}
    /\ failures \in Nat
    /\ until \in Nat
    /\ settings \in [pin : Pins \cup {None}, unattended : BOOLEAN]
    /\ changes \in Nat
    /\ live \in [pid : Nat, status : {"listening"} \cup Session, lockedUntil : Nat]
    /\ file \in [present : BOOLEAN, pid : Nat,
                 status : {"listening"} \cup Session, lockedUntil : Nat]
    /\ recorded \in BOOLEAN
    /\ unwritten \in Nat
    /\ waited \in Nat

\* After the free guesses, each further one costs at least BASE_LOCK: the
\* number of wrong PINs judged in a time is bounded by that time.
GuessRate ==
    failures > FreeFailures => (failures - FreeFailures) * BaseLock <= waited

\* The settings are read anew for every connection: whoever is let in used a
\* PIN that was active at some moment since he connected, never one that had
\* been replaced, removed or switched off before; and whoever is charged with
\* a wrong PIN did not use the only one that was active in that time.
JudgedByRecentPin ==
    /\ phase \in Session \cup {"proved"} => guess \in valid
    /\ phase = "delay" => valid # {guess}

\* What `omarchy-connect status` makes of the state file, while processes that
\* are no host have the pids others: it only asks whether there is a process
\* with the pid in the file.
Reported(others) ==
    IF file.present /\ (file.pid \in others \/ (running /\ file.pid = starts))
      THEN file.status ELSE "stopped"

\* What the host is doing.
Doing == IF ~ running THEN "stopped" ELSE IF phase \in Session THEN phase ELSE "listening"

\* Pids that other processes may have: any but the host's own.
Pids == 1..starts \ {p \in {starts} : running}

\* The bar shows a session exactly while there is one, and a stopped host
\* exactly while there is none, whichever way session and process ended; and
\* the lock it counts down is the lockout's, across wrong PINs, the right one
\* and restarts.  A write that fails is made good by the next one, whatever it
\* was about.  What a host leaves behind that crashed, or could not remove its
\* file, is taken for a live one once another process has its pid.
StatusIsTruthful ==
    \A others \in SUBSET Pids :
      /\ recorded => Reported(others) = Doing
      /\ recorded /\ running => file.lockedUntil = until
      /\ ~ running /\ file.pid \notin others => Reported(others) = "stopped"

=============================================================================
