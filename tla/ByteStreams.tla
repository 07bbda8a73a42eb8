----------------------------- MODULE ByteStreams ----------------------------
(***************************************************************************)
(* The two places where the program takes messages out of a stream of      *)
(* bytes that comes in pieces of any length: read_message over a           *)
(* connection (Wire), and the splitter over the pipe of an ffmpeg          *)
(* (VideoStream).  They share nothing, so a behaviour is one of either.    *)
(***************************************************************************)
EXTENDS Wire

CONSTANTS MaxPictures, MaxResizes, Gop, KeyShapes, PShapes   \* of VideoStream

VARIABLES
    over,       \* "connection" or "pipe": what this behaviour is about
    taken, resizes, backend, instance, index, stdin, stdout, alive, carry, units,
    reference, broken, coded, emitted       \* those of VideoStream

Video == INSTANCE VideoStream WITH wrote <- coded

\* What an encoder is taken to write of one picture: NALs of which the last is
\* its slice, the only one.
CodesPicture(shape, slices) ==
    /\ shape \in Seq((0..31) \X {3, 4})
    /\ shape # <<>>
    /\ shape[Len(shape)][1] \in slices
    /\ \A k \in 1..(Len(shape) - 1) : ~ Video!IsVcl(shape[k][1])

\* Parameter sets come with a keyframe, after its delimiter.
ASSUME EncoderAssumption ==
    /\ Gop \in Nat \ {0}
    /\ \A shape \in KeyShapes :
         /\ CodesPicture(shape, {5})
         /\ \A j, k \in 1..Len(shape) :
              j < k /\ shape[j][1] = 7 => ~ Video!Opens(shape[k][1])
    /\ \A shape \in PShapes :
         /\ CodesPicture(shape, 1..4)
         /\ \A k \in 1..Len(shape) : shape[k][1] # 7

videoVars == <<taken, resizes, backend, instance, index, stdin, stdout, alive, carry, units,
               reference, broken, coded, emitted>>
streamVars == <<over, vars, videoVars>>

StreamInit ==
    /\ over \in {"connection", "pipe"}
    /\ InitFor(IF over = "connection" THEN Scripts ELSE {<<>>})
    /\ Video!Init

OnConnection(A) ==
    /\ over = "connection"
    /\ A
    /\ UNCHANGED <<over, videoVars>>

OnPipe ==
    /\ over = "pipe"
    /\ Video!Next
    /\ UNCHANGED <<over, vars>>

StreamNext == OnConnection(Next) \/ OnPipe

\* The fairness of Wire; nothing is asked of an ffmpeg.
StreamSpec ==
    /\ StreamInit
    /\ [][StreamNext]_streamVars
    /\ WF_streamVars(OnConnection(WriteMessage \/ Shutdown))
    /\ WF_streamVars(OnConnection(SomeRead))
    /\ WF_streamVars(OnConnection(Eof))

-----------------------------------------------------------------------------
(* Properties: those of the two parts, each about its own behaviours         *)

\* A reader that is left alone comes to an end, after everything if it saw an
\* orderly end (Wire's EverythingArrives).
EverythingIsRead == over = "connection" => EverythingArrives

\* The splitter cuts the same units wherever the reads end (push_bytes).
SplitIgnoresReads == Video!SplitIgnoresReads

\* A unit is one picture and knows whether it is a keyframe (push_bytes).
UnitsArePictures == Video!UnitsArePictures

\* The client never decodes a picture without its reference (Encoder::encode).
StreamDecodable == Video!StreamDecodable

=============================================================================
