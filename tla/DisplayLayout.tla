---------------------------- MODULE DisplayLayout ---------------------------
(***************************************************************************)
(* Where monitors are: on the host in the compositor's logical units, in   *)
(* the client's overview in pixels of the video, and how a pixel the client *)
(* points at becomes a position of the host's pointer.  layout and          *)
(* pixel_origins of crates/host/src/capture/screencopy.rs, Region and       *)
(* UinputDevice of crates/host/src/input.rs.                                *)
(*                                                                         *)
(* A region is a record: at and size are its logical rectangle, pixels the  *)
(* size of its picture, each a pair of an x and a y.  A layout is a         *)
(* sequence of regions; a display's id is its place in it.                  *)
(***************************************************************************)
EXTENDS Integers, Sequences, FiniteSetsExt

Axes == 1..2

Lengths == (Nat \ {0}) \X (Nat \ {0})
Regions == [at : Int \X Int, size : Lengths, pixels : Lengths]

\* f64::round of a / b, b > 0: halves go away from zero.
Rounded(a, b) ==
    IF a >= 0 THEN (2 * a + b) \div (2 * b) ELSE - ((b - 2 * a) \div (2 * b))

\* Region r ends on this axis where s begins, or sooner.
IsBefore(r, s, axis) == r.at[axis] + r.size[axis] <= s.at[axis]

\* Two monitors of a desktop do not overlap.
Apart(layout) ==
    \A i, j \in DOMAIN layout : i # j =>
        \E axis \in Axes : IsBefore(layout[i], layout[j], axis) \/ IsBefore(layout[j], layout[i], axis)

\* pixel_origins on one axis: a picture is flush against the furthest picture
\* of those before it; without any it is where its own scale puts it.  The code
\* goes through the regions by where they begin, so those before one are placed.
Placed(layout, axis) ==
    LET placed[i \in DOMAIN layout] ==
            LET r == layout[i]
                before == {placed[j] + layout[j].pixels[axis] :
                             j \in {k \in DOMAIN layout : IsBefore(layout[k], r, axis)}}
            IN  IF before = {}
                  THEN Rounded(r.at[axis] * r.pixels[axis], r.size[axis])
                  ELSE Max(before)
    IN  placed

PixelOrigins(layout) ==
    [i \in DOMAIN layout |-> [axis \in Axes |-> Placed(layout, axis)[i]]]

-----------------------------------------------------------------------------
(* The pointer of the virtual device, in steps of 1 / SUBPIXEL *)

SUBPIXEL == 8

LowEnd(layout, axis) ==
    Min({layout[i].at[axis] * SUBPIXEL : i \in DOMAIN layout})

HighEnd(layout, axis) ==
    Max({(layout[i].at[axis] + layout[i].size[axis]) * SUBPIXEL - 1 : i \in DOMAIN layout})

\* Mutant of ToLayout: video pixels taken for logical units.
ToLayoutUnscaled(r, p) == [axis \in Axes |-> (r.at[axis] + p[axis]) * SUBPIXEL]

ToLayout(r, p) ==
    [axis \in Axes |-> r.at[axis] * SUBPIXEL
                          + (p[axis] * r.size[axis] * SUBPIXEL) \div r.pixels[axis]]

Clamped(layout, p) ==
    [axis \in Axes |-> Min({HighEnd(layout, axis), Max({LowEnd(layout, axis), p[axis]})})]

\* Where a MouseMove puts the pointer, in layout steps.
PointerAt(layout, i, p) ==
    Clamped(layout,
        IF i \in DOMAIN layout THEN ToLayout(layout[i], p)
                               ELSE [axis \in Axes |-> LowEnd(layout, axis)])

Inside(r, p) ==
    \A axis \in Axes :
        p[axis] \in (r.at[axis] * SUBPIXEL)..((r.at[axis] + r.size[axis]) * SUBPIXEL - 1)

=============================================================================
