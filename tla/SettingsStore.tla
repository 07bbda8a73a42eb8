---------------------------- MODULE SettingsStore ----------------------------
(***************************************************************************)
(* The settings file and the commands that change it: Settings::load and   *)
(* Settings::save of crates/host/src/settings.rs, under `pin`,             *)
(* `unattended` and `video` of crates/host/src/main.rs.  The bar's panel   *)
(* (omarchy/plugin/Panel.qml) and a terminal each start such a command as  *)
(* a process of its own, and nothing keeps two from overlapping.           *)
(*                                                                         *)
(* A command loads the file, changes the value, and saves it: it opens     *)
(* settings.json.tmp with truncation, writes it, and renames it over       *)
(* settings.json.  Names and contents are kept apart, as the file system   *)
(* does: an open file stays what it is when its name is moved.             *)
(***************************************************************************)
EXTENDS Integers

CONSTANTS
    Pins,           \* the PINs a user sets
    NoPin,          \* Option::None
    Rates,          \* frame rates
    DefaultRate,    \* the frame rate of Settings::default
    Bitrates,       \* bitrates in kb/s
    DefaultBitrate, \* the bitrate of Settings::default
    MaxCommands     \* bound: the commands, started in the order of their numbers

ASSUME CommandsAssumption == MaxCommands \in Nat
ASSUME ValuesAssumption == 
    NoPin \notin Pins /\ DefaultRate \in Rates /\ DefaultBitrate \in Bitrates

Commands == 1..MaxCommands

Value == [pin : Pins \cup {NoPin}, unattended : BOOLEAN, fps : Rates, bitrate : Bitrates]
Default == [pin |-> NoPin, unattended |-> FALSE, fps |-> DefaultRate,
            bitrate |-> DefaultBitrate]

\* A file's text: one whole value, nothing, or pieces of two values.
Whole(v) == [state |-> "whole", value |-> v]
Empty == [state |-> "empty", value |-> Default]
Torn == [state |-> "torn", value |-> Default]

\* The file command c creates when it finds no temporary file is file c; file
\* 0 is the settings file there was at first; Missing is no file.
Files == Commands \cup {0}
Missing == -1

VARIABLES
    settings,   \* the file named settings.json
    tmp,        \* the file named settings.json.tmp
    text,       \* the text of every file
    step,       \* where each command is
    name,       \* the command's name: "set", "clear", "on", "off" or "video"
    value,      \* the value a command loaded, and then the one it saves
    open,       \* the file a command writes to
    overlapped, \* history: a command started while another one ran
    forgotten   \* history: the last "set" or "clear" that took effect was "clear"

storeVars == <<settings, tmp, text, step, name, value, open, overlapped, forgotten>>

Running(c) == step[c] \in {"loaded", "opened", "written"}

\* Settings::load: no file and an empty one count as the default.
Loadable == settings = Missing \/ text[settings].state # "torn"
Loaded == IF settings = Missing THEN Default ELSE text[settings].value

-----------------------------------------------------------------------------
(* A command *)

\* What a process held is gone with it.
Exit(c, how) ==
    /\ step' = [step EXCEPT ![c] = how]
    /\ name' = [name EXCEPT ![c] = "none"]
    /\ value' = [value EXCEPT ![c] = Default]
    /\ open' = [open EXCEPT ![c] = Missing]

WithPin(v, p) == [v EXCEPT !.pin = p, !.unattended = TRUE]
WithVideo(v, r, b) == [v EXCEPT !.fps = r, !.bitrate = b]

\* What the command makes of the value it loaded; `on` needs a PIN.
Outcomes(n, v) ==
    CASE n = "set"   -> {WithPin(v, p) : p \in Pins}
      [] n = "clear" -> {[v EXCEPT !.pin = NoPin, !.unattended = FALSE]}
      [] n = "on"    -> IF v.pin = NoPin THEN {} ELSE {[v EXCEPT !.unattended = TRUE]}
      [] n = "off"   -> {[v EXCEPT !.unattended = FALSE]}
      [] n = "video" -> {WithVideo(v, r, b) : r \in Rates, b \in Bitrates}

\* A file that does not parse, or `on` without a PIN, ends the command here.
LoadAs(c, n) ==
    /\ step[c] = "start"
    /\ \A d \in Commands : d < c => step[d] # "start"
    /\ overlapped' = (overlapped \/ \E d \in Commands : Running(d))
    /\ IF Loadable /\ Outcomes(n, Loaded) # {}
         THEN \E v \in Outcomes(n, Loaded) :
                /\ name' = [name EXCEPT ![c] = n]
                /\ value' = [value EXCEPT ![c] = v]
                /\ step' = [step EXCEPT ![c] = "loaded"]
                /\ UNCHANGED open
         ELSE Exit(c, "failed")
    /\ UNCHANGED <<settings, tmp, text, forgotten>>

Load(c) == \E n \in {"set", "clear", "on", "off", "video"} : LoadAs(c, n)

\* Mutant of Open: the settings file itself is opened.
OpenInPlace(c) ==
    /\ step[c] = "loaded"
    /\ LET f == IF settings = Missing THEN c ELSE settings IN
         /\ tmp' = f
         /\ text' = [text EXCEPT ![f] = Empty]
         /\ open' = [open EXCEPT ![c] = f]
    /\ step' = [step EXCEPT ![c] = "opened"]
    /\ UNCHANGED <<settings, name, value, overlapped, forgotten>>

\* open(create, truncate): a temporary file that is there is emptied, whoever
\* else writes to it.
Open(c) ==
    /\ step[c] = "loaded"
    /\ LET f == IF tmp = Missing THEN c ELSE tmp IN
         /\ tmp' = f
         /\ text' = [text EXCEPT ![f] = Empty]
         /\ open' = [open EXCEPT ![c] = f]
    /\ step' = [step EXCEPT ![c] = "opened"]
    /\ UNCHANGED <<settings, name, value, overlapped, forgotten>>

\* write_all from the start of the file: over another command's text, the
\* tail of the longer one may stay.
Write(c) ==
    /\ step[c] = "opened"
    /\ LET f == open[c] IN
         \E t \in IF text[f] \in {Empty, Whole(value[c])}
                  THEN {Whole(value[c])} ELSE {Whole(value[c]), Torn} :
             text' = [text EXCEPT ![f] = t]
    /\ step' = [step EXCEPT ![c] = "written"]
    /\ UNCHANGED <<settings, tmp, name, value, open, overlapped, forgotten>>

\* rename moves whatever file has the temporary name by now; with none there
\* the command fails.
Rename(c) ==
    /\ step[c] = "written"
    /\ IF tmp = Missing
         THEN /\ Exit(c, "failed")
              /\ UNCHANGED <<settings, tmp, forgotten>>
         ELSE /\ Exit(c, "done")
              /\ settings' = tmp
              /\ tmp' = Missing
              /\ forgotten' = CASE name[c] = "clear" -> TRUE
                                [] name[c] = "set"   -> FALSE
                                [] OTHER             -> forgotten
    /\ UNCHANGED <<text, overlapped>>

\* A command is killed, or meets an I/O error, after any of its steps.
Die(c) ==
    /\ Running(c)
    /\ Exit(c, "failed")
    /\ UNCHANGED <<settings, tmp, text, overlapped, forgotten>>

-----------------------------------------------------------------------------

StoreInit ==
    /\ settings \in {Missing, 0}
    /\ tmp = Missing
    /\ \E v \in Value :
         /\ v.pin = NoPin => ~ v.unattended
         /\ settings = Missing => v = Default
         /\ text = [f \in Files |-> IF f = 0 THEN Whole(v) ELSE Empty]
    /\ step = [c \in Commands |-> "start"]
    /\ name = [c \in Commands |-> "none"]
    /\ value = [c \in Commands |-> Default]
    /\ open = [c \in Commands |-> Missing]
    /\ overlapped = FALSE
    /\ forgotten = FALSE

StoreNext ==
    \E c \in Commands : Load(c) \/ Open(c) \/ Write(c) \/ Rename(c) \/ Die(c)

StoreSpec == StoreInit /\ [][StoreNext]_storeVars

-----------------------------------------------------------------------------
(* Properties *)

\* What readers make of the file changes in one step, the one that completes a
\* command, and becomes that command's value: a command that dies or fails on
\* the way has changed nothing (commands that do not overlap).
SavesAreAtomic ==
    [][~ overlapped' =>
         /\ \A c \in Commands :
              step[c] # "done" /\ step'[c] = "done" => Loaded' = value[c]
         /\ Loaded' # Loaded =>
              \E c \in Commands : step[c] # "done" /\ step'[c] = "done"]_storeVars

(* What the documentation says, and the code does not do *)

PinForgotten == forgotten /\ Loadable => Loaded.pin = NoPin

\* README: "**Remove PIN** forgets it": once `pin clear` reported success the
\* file holds no PIN, as long as nobody is setting one.  The other commands
\* load the PIN with the rest and write it back, into a temporary file that they
\* share with `pin clear`: what `unattended on` writes may be in the file that
\* `pin clear` renames, or has renamed.
RemovedPinStaysRemoved == (\A c \in Commands : name[c] # "set") => PinForgotten

=============================================================================
