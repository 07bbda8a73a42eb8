---------------------------- MODULE MCClientInput ---------------------------
(* Constants for model checking ClientInput. *)
EXTENDS ClientInput

Region(at, size, pixels) == [at |-> at, size |-> size, pixels |-> pixels]

\* Side by side with a scaled monitor on the left, of the origin, stacked,
\* and corner to corner with a fractional scale.
SomeLayouts == {
    <<Region(<<0, 0>>, <<2, 1>>, <<4, 2>>), Region(<<2, 0>>, <<2, 1>>, <<2, 1>>)>>,
    <<Region(<<0, 0>>, <<2, 1>>, <<2, 1>>), Region(<<-2, 0>>, <<2, 1>>, <<3, 2>>)>>,
    <<Region(<<0, 1>>, <<2, 1>>, <<2, 1>>), Region(<<0, 0>>, <<2, 1>>, <<4, 2>>)>>,
    <<Region(<<0, 0>>, <<2, 2>>, <<3, 3>>), Region(<<1, 2>>, <<2, 1>>, <<2, 1>>)>>}

SomeSizes == {<<6, 2>>}

TheKeys == {"equal", "escape", "f11"}

=============================================================================
