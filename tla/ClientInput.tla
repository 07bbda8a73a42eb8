----------------------------- MODULE ClientInput ----------------------------
(***************************************************************************)
(* What the user's hands do, what the windows of the client make of it, and *)
(* what the host's virtual device holds in the end: ClientApp of            *)
(* crates/client/src/app.rs and UinputDevice::apply of                      *)
(* crates/host/src/input.rs.  Between them is the session, here a queue in  *)
(* order (see ClientSession for how it keeps that order).                   *)
(*                                                                         *)
(* One frame of a window takes a batch of events, reads the modifiers once, *)
(* and forwards what it sees.  It sees nothing while another program has    *)
(* the focus or the path field does.  A display is shown in the overview or *)
(* in a window of its own.  The wheel leaves nothing behind and is left out.*)
(***************************************************************************)
EXTENDS DisplayLayout

CONSTANTS
    Layouts,    \* the layouts a host may have
    NewSizes,   \* sizes a monitor may change to, in pixels
    Keys,       \* physical keys, among "equal", "escape" and "f11"
    Modifiers,  \* among "shift", "ctrl" and "alt"
    Buttons,    \* pointer buttons
    None,
    MaxBatch,   \* bound: events in one frame
    MaxQueued,  \* bound: messages under way when the user acts
    MaxSteps    \* bound: steps of the user and the monitors

ASSUME LayoutsAssumption == Layouts \subseteq Seq(Regions)
ASSUME ApartAssumption == \A layout \in Layouts : Apart(layout)
ASSUME NewSizesAssumption == NewSizes \subseteq Lengths
ASSUME KeysAssumption == Keys \subseteq {"equal", "escape", "f11"}
ASSUME ModifiersAssumption == Modifiers \subseteq {"shift", "ctrl", "alt"}
ASSUME ButtonsAssumption == Buttons \cap (Keys \cup Modifiers) = {}
ASSUME NoneAssumption == None \notin Keys
ASSUME MaxBatchAssumption == MaxBatch \in Nat

VARIABLES
    layout,     \* the host's regions, read when the session starts
    shown,      \* each display as last announced: origin and size, in pixels
    focus,      \* the window with the focus: Main, a display's, or None
    typing,     \* the path field has the focus within Main
    pointer,    \* the window the pointer is over and the point, or None
    detached,   \* displays in a window of their own
    fullscreen, \* displays marked full screen
    cached,     \* the modifiers the window has told the host of
    down,       \* keys, modifiers and buttons the user holds
    queue,      \* input under way to the host
    held,       \* what the host's device holds
    spot,       \* where the host's pointer is, or None
    missed,     \* released out of the windows' sight
    resized,    \* displays that changed size in the session
    steps

hands == <<down, missed>>
windows == <<focus, typing, pointer, detached, fullscreen>>
monitors == <<layout, shown, resized>>
device == <<held, spot>>
inputVars == <<hands, windows, monitors, device, cached, queue, steps>>

Displays == DOMAIN layout
Main == 0
Physical == Keys \cup Modifiers \cup Buttons

Move(d, at, aim) == [type |-> "move", display |-> d, at |-> at, aim |-> aim]
Key(code, pressed) == [type |-> "key", code |-> code, pressed |-> pressed]
Button(b, pressed) == [type |-> "button", code |-> b, pressed |-> pressed]

-----------------------------------------------------------------------------
(* What is where in a window *)

Visible(w) == IF w = Main THEN Displays \ detached ELSE {w}

\* The origin of a picture: the overview is laid out as the host announced
\* it, a display's own window begins with its picture.
Origin(w, d) == IF w = Main THEN shown[d].at ELSE <<0, 0>>

Under(w, p) ==
    {d \in Visible(w) : \A axis \in Axes :
        p[axis] \in Origin(w, d)[axis]..(Origin(w, d)[axis] + shown[d].size[axis] - 1)}

\* hit takes the first picture under a point, the user sees the last one
\* painted.  Neither is there outside all pictures.
Hit(w, p) == IF Under(w, p) = {} THEN None ELSE Min(Under(w, p))
Hovered(w, p) == IF Under(w, p) = {} THEN None ELSE Max(Under(w, p))

\* The pixel of the display that is hit.
Pixel(w, d, p) == [axis \in Axes |-> p[axis] - Origin(w, d)[axis]]

Moves(w, p) ==
    LET d == Hit(w, p) IN
    IF d = None THEN <<>> ELSE <<Move(d, Pixel(w, d, p), Hovered(w, p))>>

\* The point of window w the pointer is at; OffScreen hits nothing.
OffScreen == <<-1000, -1000>>
PointIn(w) == IF pointer # None /\ pointer.window = w THEN pointer.at ELSE OffScreen

-----------------------------------------------------------------------------
(* apply_input: what a frame forwards *)

\* How the toolkit names a key: by the character it would type.
EguiKey(k, shifted) ==
    CASE k = "equal" -> IF shifted THEN "Plus" ELSE "Equals"
      [] k = "escape" -> "Escape"
      [] k = "f11" -> "F11"

\* Mutant of EvdevCode: the shifted character has no code.
EvdevCodeUnshifted(key) ==
    CASE key = "Equals" -> "equal"
      [] key = "Escape" -> "escape"
      [] key = "F11" -> "f11"
      [] OTHER -> None

\* evdev_code: both characters of a key give the code of the key.
EvdevCode(key) ==
    CASE key \in {"Equals", "Plus"} -> "equal"
      [] key = "Escape" -> "escape"
      [] key = "F11" -> "f11"
      [] OTHER -> None

\* Mutant of SyncMod: releases are not forwarded.
SyncModPressed(m, now) == IF m \in now \ cached THEN <<Key(m, TRUE)>> ELSE <<>>

\* sync_mod: a message when the modifier is not what was sent.
SyncMod(m, now) ==
    IF m \in cached <=> m \in now THEN <<>> ELSE <<Key(m, m \in now)>>

SyncMods(now) == SyncMod("shift", now) \o SyncMod("ctrl", now) \o SyncMod("alt", now)

\* One event of a batch in window w, on what the batch has done so far: a
\* press of what is up, a release of what is down.  A press of F11 or of
\* Escape may be the window's own; a release never is.
Take(w, batch, what) ==
    LET p == PointIn(w)
        pressed == what \notin batch.down
        after == [batch EXCEPT !.down = IF pressed THEN @ \cup {what} ELSE @ \ {what}]
        key == EguiKey(what, "shift" \in batch.down)
        code == EvdevCode(key)
    IN  CASE what \in Modifiers -> after
          [] what \in Buttons /\ Hit(w, p) = None ->
               IF pressed THEN after ELSE [after EXCEPT !.missed = @ \cup {what}]
          [] what \in Buttons /\ Hit(w, p) # None ->
               [after EXCEPT !.out = @ \o Moves(w, p) \o <<Button(what, pressed)>>,
                             !.missed = @ \ {what}]
          [] what \in Keys /\ pressed /\ key = "F11" ->
               IF Hovered(w, p) = None THEN after
               ELSE [after EXCEPT !.detached = @ \cup {Hovered(w, p)},
                                  !.fullscreen = SymDiff(@, {Hovered(w, p)})]
          [] what \in Keys /\ pressed /\ key = "Escape" /\ Hovered(w, p) \in batch.fullscreen ->
               [after EXCEPT !.fullscreen = @ \ {Hovered(w, p)}]
          [] OTHER ->
               IF code = None THEN after
               ELSE [after EXCEPT !.out = Append(@, Key(code, pressed)),
                                  !.missed = @ \ {what}]

Batches == UNION {[1..n -> Physical] : n \in 0..MaxBatch}

MayAct ==
    /\ steps < MaxSteps
    /\ Len(queue) <= MaxQueued
    /\ steps' = steps + 1

MayLook == Len(queue) <= MaxQueued /\ UNCHANGED steps

\* What a batch has done after each of its events.
Progress(w, batch) ==
    LET done[n \in 0..Len(batch)] ==
            IF n = 0
              THEN [down |-> down, missed |-> missed \ Modifiers, out |-> <<>>,
                    detached |-> detached, fullscreen |-> fullscreen]
              ELSE Take(w, done[n - 1], batch[n])
    IN  done

\* A frame of the window with the focus; without events it syncs modifiers.
Frame(w, batch) ==
    LET sees == ~ (w = Main /\ typing)
        end == Progress(w, batch)[Len(batch)]
        now == end.down \cap Modifiers
    IN  /\ MayAct
        /\ focus = w
        /\ sees
        /\ queue' = queue \o Moves(w, PointIn(w)) \o SyncMods(now) \o end.out
        /\ cached' = now
        /\ down' = end.down
        /\ missed' = end.missed
        /\ detached' = end.detached
        /\ fullscreen' = end.fullscreen
        /\ UNCHANGED <<focus, typing, pointer, monitors, device>>

\* The user presses or releases something no window looks at.
Unseen(what) ==
    /\ MayAct
    /\ focus = None \/ (focus = Main /\ typing)
    /\ IF what \in down THEN /\ down' = down \ {what}
                             /\ missed' = missed \cup {what}
                        ELSE /\ down' = down \cup {what}
                             /\ UNCHANGED missed
    /\ UNCHANGED <<windows, monitors, device, cached, queue>>

\* The pointer moves, over any window and whichever has the focus.
Point(w, p) ==
    /\ MayAct
    /\ w = Main \/ w \in detached
    /\ pointer' = [window |-> w, at |-> p]
    /\ queue' = IF w = Main /\ typing THEN queue ELSE queue \o Moves(w, p)
    /\ UNCHANGED <<hands, focus, typing, detached, fullscreen, monitors, device, cached>>

-----------------------------------------------------------------------------
(* Windows, monitors and the host *)

FocusMoves(w) ==
    /\ MayLook
    /\ w # focus
    /\ w \in {None, Main} \cup detached
    /\ focus' = w
    /\ UNCHANGED <<hands, typing, pointer, detached, fullscreen, monitors, device, cached, queue>>

FieldFocus ==
    /\ MayLook
    /\ focus = Main
    /\ typing' = ~ typing
    /\ UNCHANGED <<hands, focus, pointer, detached, fullscreen, monitors, device, cached, queue>>

\* The buttons of a monitor in the overview: Separate, and Full screen.
Separate(d, full) ==
    /\ MayAct
    /\ d \notin detached
    /\ detached' = detached \cup {d}
    /\ fullscreen' = IF full THEN fullscreen \cup {d} ELSE fullscreen
    /\ UNCHANGED <<hands, focus, typing, pointer, monitors, device, cached, queue>>

\* The button of a display's window that enters or leaves full screen.
ToggleFull(d) ==
    /\ MayAct
    /\ d \in detached
    /\ fullscreen' = SymDiff(fullscreen, {d})
    /\ UNCHANGED <<hands, focus, typing, pointer, detached, monitors, device, cached, queue>>

\* The display's window is docked or closed.
Dock(d) ==
    /\ MayAct
    /\ d \in detached
    /\ detached' = detached \ {d}
    /\ fullscreen' = fullscreen \ {d}
    /\ focus' = IF focus = d THEN None ELSE focus
    /\ pointer' = IF pointer # None /\ pointer.window = d THEN None ELSE pointer
    /\ UNCHANGED <<hands, typing, monitors, device, cached, queue>>

\* A monitor changes its mode: the client hears of the new size, while the
\* virtual device keeps the regions it was opened with, and the overview the
\* origins.
Resize(d, size) ==
    /\ MayAct
    /\ shown[d].size # size
    /\ shown' = [shown EXCEPT ![d].size = size]
    /\ resized' = resized \cup {d}
    /\ UNCHANGED <<hands, windows, layout, device, cached, queue>>

\* UinputDevice::apply
HostApplies ==
    /\ queue # <<>>
    /\ LET m == Head(queue) IN
         IF m.type = "move"
           THEN /\ spot' = [at |-> PointerAt(layout, m.display, m.at), aim |-> m.aim]
                /\ UNCHANGED held
           ELSE /\ held' = IF m.pressed THEN held \cup {m.code} ELSE held \ {m.code}
                /\ UNCHANGED spot
    /\ queue' = Tail(queue)
    /\ UNCHANGED <<hands, windows, monitors, cached, steps>>

-----------------------------------------------------------------------------

InputInit ==
    /\ layout \in Layouts
    /\ LET origins == PixelOrigins(layout) IN
         shown = [d \in Displays |-> [at |-> origins[d], size |-> layout[d].pixels]]
    /\ focus = Main
    /\ typing = FALSE
    /\ pointer = None
    /\ detached = {}
    /\ fullscreen = {}
    /\ cached = {}
    /\ down = {}
    /\ queue = <<>>
    /\ held = {}
    /\ spot = None
    /\ missed = {}
    /\ resized = {}
    /\ steps = 0

\* The points of the pictures of window w.
Points(w) ==
    UNION {{<<Origin(w, d)[1] + x, Origin(w, d)[2] + y>> :
              x \in 0..(shown[d].size[1] - 1), y \in 0..(shown[d].size[2] - 1)} :
           d \in Visible(w)}

InputNext ==
    \/ \E w \in {Main} \cup detached :
         \/ \E batch \in Batches : Frame(w, batch)
         \/ \E p \in Points(w) \cup {OffScreen} : Point(w, p)
    \/ \E what \in Physical : Unseen(what)
    \/ \E w \in {None, Main} \cup detached : FocusMoves(w)
    \/ FieldFocus
    \/ \E d \in Displays :
         \/ \E full \in BOOLEAN : Separate(d, full)
         \/ ToggleFull(d)
         \/ Dock(d)
         \/ \E size \in NewSizes : Resize(d, size)
    \/ HostApplies

InputSpec == InputInit /\ [][InputNext]_inputVars

-----------------------------------------------------------------------------
(* Properties *)

IsAbout(m, what) == m.type # "move" /\ m.code = what

\* With h held and the messages of s applied, what is held.
HeldAfter(h, s, what) ==
    \/ what \in h /\ \A i \in DOMAIN s : ~ IsAbout(s[i], what)
    \/ \E i \in DOMAIN s :
         /\ IsAbout(s[i], what) /\ s[i].pressed
         /\ \A j \in (i + 1)..Len(s) : ~ IsAbout(s[j], what)

\* What the host will hold when it has applied all that is under way.
Delivered == {what \in Physical : HeldAfter(held, queue, what)}

\* The modifiers the host holds are the ones the window remembers to have
\* sent, whatever windows the focus went through and whatever was under way
\* meanwhile: a modifier that changed out of sight is put right by the next
\* frame in sight.
ModifiersAgree == Delivered \cap Modifiers = cached

\* Nothing stays pressed on the host that the user let go of in sight of a
\* window: not when Shift turns the key into another character between press
\* and release, nor when full screen swallows the press.  A release out of
\* sight does leave a key or a button pressed, a modifier until the next frame.
NothingStuck == Delivered \subseteq down \cup missed

\* The host's pointer lands on the monitor whose picture the user pointed at,
\* at any mix of scales and in any arrangement, unless a monitor changed its
\* mode in the session: the device and the overview are laid out only once.
\* Even then it stays on the axes of the device.
PointerOnTarget ==
    spot # None =>
        /\ resized = {} => Inside(layout[spot.aim], spot.at)
        /\ \A axis \in Axes : spot.at[axis] \in LowEnd(layout, axis)..HighEnd(layout, axis)

=============================================================================
