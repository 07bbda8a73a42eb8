---------------------------- MODULE MCByteStreams ---------------------------
(***************************************************************************)
(* Constants for model checking ByteStreams: messages of each kind, at the *)
(* limits and beyond them, and the NALs of ffmpeg's pictures.              *)
(***************************************************************************)
EXTENDS ByteStreams


A == 65         \* a character of one byte
E1 == 195       \* the bytes of a character of two
E2 == 169

Name == <<A, A>>
\* Texts of the limit of 4, one that the limit cuts between characters, and
\* one that it cuts within a character.
AtLimit == <<E1, E2, A, A>>
Longer == <<A, A, E1, E2, A, A>>
Split == <<A, A, A, E1, E2>>

Display(id, x, name) ==
    [id |-> id, x |-> x, y |-> -40, width |-> 1920, height |-> 1080,
     scale_percent |-> 150, name |-> name]

Payload(n) == [i \in 1..n |-> i % 2]

OneOfEach == {
    [type |-> "Hello", version |-> 2, name |-> Name],
    [type |-> "HelloAck", version |-> 2],
    [type |-> "Displays", displays |-> <<>>],
    [type |-> "Displays", displays |-> <<Display(3, -1920, Name), Display(0, 0, <<>>)>>],
    [type |-> "Video", display_id |-> 1, pts_ms |-> 70000, keyframe |-> TRUE, data |-> Payload(3)],
    [type |-> "MouseMove", display_id |-> 1, x |-> 256, y |-> 0],
    [type |-> "MouseButton", display_id |-> 0, button |-> 2, pressed |-> TRUE],
    [type |-> "MouseWheel", display_id |-> 0, dx |-> -1, dy |-> 300],
    [type |-> "Key", code |-> 300, pressed |-> FALSE],
    [type |-> "FileOffer", id |-> 7, size |-> 66000, name |-> <<A>>],
    [type |-> "FileAccept", id |-> 7],
    [type |-> "FileChunk", id |-> 7, offset |-> 65536, data |-> Payload(2)],
    [type |-> "FileAck", id |-> 7, offset |-> 65538],
    [type |-> "FileComplete", id |-> 7, sha256 |-> <<0, 171>>],
    [type |-> "FileCancel", id |-> 7, reason |-> <<>>],
    [type |-> "Ping", nonce |-> 513],
    [type |-> "Pong", nonce |-> 513],
    [type |-> "Auth", spake2 |-> <<65, 1, 2>>],
    [type |-> "AuthConfirm", mac |-> <<255, 0>>],
    [type |-> "AuthDenied", retry_after_secs |-> 30, reason |-> Name]}

\* At a limit, or over it.
AtTheEdge ==
    {[type |-> "Hello", version |-> 2, name |-> t] : t \in {AtLimit, Longer, Split}}
    \cup {[type |-> "FileCancel", id |-> 0, reason |-> t] : t \in {AtLimit, Split}}
    \cup {[type |-> "Displays", displays |-> [i \in 1..3 |-> Display(i, 0, <<>>)]],
          [type |-> "Displays", displays |-> <<Display(0, 0, Split)>>]}
    \cup {[type |-> "Video", display_id |-> 0, pts_ms |-> 0, keyframe |-> FALSE, data |-> Payload(n)] :
            n \in {56, 57}}

Short == {[type |-> "FileAccept", id |-> 1], [type |-> "Key", code |-> 30, pressed |-> TRUE],
          [type |-> "HelloAck", version |-> 2]}

MCScripts ==
    {<<m>> : m \in OneOfEach \cup AtTheEdge}
    \cup {<<m, s>> : m \in AtTheEdge, s \in Short}
    \cup {<<s, t, s>> : s, t \in Short}

-----------------------------------------------------------------------------
(* Parameter sets with long start codes and slices with short ones, an       *)
(* optional delimiter, an optional SEI.                                      *)

SomeKeyShapes == {<< <<7, 4>>, <<8, 4>>, <<5, 3>> >>, << <<9, 4>>, <<7, 3>>, <<8, 4>>, <<5, 4>> >>}
SomePShapes == {<< <<1, 3>> >>, << <<6, 4>>, <<1, 3>> >>}

=============================================================================
