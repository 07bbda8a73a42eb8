----------------------------- MODULE VideoStream ----------------------------
(***************************************************************************)
(* One monitor's H.264 stream from send_frame to the client's decoder:     *)
(* crates/host/src/encode.rs, nal.rs and session.rs, and decode.rs of the  *)
(* client.  The encoder is ffmpeg with h264_vaapi behind two pipes, read   *)
(* by a thread of its own through the splitter, or x264 in the process,    *)
(* which takes over for good when ffmpeg fails.                            *)
(*                                                                         *)
(* A picture is known by the encoder instance that coded it and its index  *)
(* there; a P picture can only be decoded right after its predecessor from *)
(* the same instance.  ffmpeg, x264 and OpenH264 are external.  Packets    *)
(* reach the client in order and complete (see SessionTasks), so the       *)
(* client decodes a packet when it is sent.                                *)
(***************************************************************************)
EXTENDS NalSplit

CONSTANTS
    MaxPictures,    \* bound: pictures captured
    MaxResizes,     \* bound: changes of the monitor's size
    Gop,            \* pictures from one keyframe to the next
    KeyShapes,      \* the NALs ffmpeg makes of a keyframe, <<kind, code length>>
    PShapes         \* ... and of a P picture

VARIABLES
    taken,      \* pictures captured
    resizes,    \* size changes so far
    backend,    \* Encoder.backend, or "none" without an entry in encoders
    instance,   \* encoders opened so far
    index,      \* pictures given to this one
    stdin,      \* indices of the pictures ffmpeg has not coded yet
    stdout,     \* bytes ffmpeg wrote that the reader thread has not read
    alive,      \* ffmpeg runs
    carry,      \* the reader thread's buffer
    units,      \* the channel from the reader thread
    reference,  \* the client's decoder: the picture decoded last
    broken,     \* history: a picture was decoded without its reference
    wrote,      \* history: all bytes this ffmpeg wrote
    emitted     \* history: all units split from them

ffmpegVars == <<stdin, stdout, alive, carry, units, wrote, emitted>>
clientVars == <<reference, broken>>
vars == <<taken, resizes, backend, instance, index, ffmpegVars, clientVars>>

-----------------------------------------------------------------------------
(* Bytes *)

\* A slice names its picture; the zeros are what an emulation prevention byte
\* leaves of a start code.
Payload(kind, p) == IF IsVcl(kind) THEN <<0, 0, 3, p[1], p[2] + 1>> ELSE <<2>>

Nal(kind, code, p) ==
    (IF code = 4 THEN <<0, 0, 0, 1>> ELSE <<0, 0, 1>>) \o <<96 + kind>> \o Payload(kind, p)

Coded(shape, p) ==
    FlattenSeq([i \in DOMAIN shape |-> Nal(shape[i][1], shape[i][2], p)])

IsKey(i) == i % Gop = 0

Shapes(i) == IF IsKey(i) THEN KeyShapes ELSE PShapes

\* The pictures in a packet: the kind of each slice and the picture it names.
Pictures(data) ==
    LET slices == Ascending(Len(data), {i \in Range(StartCodes(data)) : IsVcl(NalType(data, i))})
        named(h) == <<data[h + 4], data[h + 5] - 1>>
    IN  [n \in DOMAIN slices |->
            [kind |-> NalType(data, slices[n]), id |-> named(Header(data, slices[n]))]]

-----------------------------------------------------------------------------
(* The client: DecoderBank::push, one picture after the other *)

Follows(id) == <<id[1], id[2] + 1>>

\* send_frame sends every packet of one encode call, in order.
SendPackets(packets) ==
    LET pictures == FlattenSeq([i \in DOMAIN packets |-> Pictures(packets[i])])
        last(n) == IF n = 0 THEN reference ELSE pictures[n].id
    IN  /\ reference' = last(Len(pictures))
        /\ broken' = (\/ broken
                      \/ \E n \in DOMAIN pictures :
                           pictures[n].kind # 5 /\ pictures[n].id # Follows(last(n - 1)))

-----------------------------------------------------------------------------
(* drive_session: send_frame *)

NoFfmpeg ==
    /\ stdin' = <<>> /\ stdout' = <<>> /\ alive' = FALSE
    /\ carry' = <<>> /\ units' = <<>> /\ wrote' = <<>> /\ emitted' = <<>>

\* x264 opens and codes the picture it was opened for, its first: a keyframe.
OpenX264 ==
    /\ backend' = "x264"
    /\ instance' = instance + 1
    /\ index' = 1
    /\ \E shape \in KeyShapes : SendPackets(<<Coded(shape, <<instance', 0>>)>>)
    /\ NoFfmpeg

\* Encoder::open finds a render node and an ffmpeg that does not exit at once;
\* nothing is coded when the first picture has been written.
OpenVaapi ==
    /\ backend' = "vaapi"
    /\ instance' = instance + 1
    /\ index' = 1
    /\ stdin' = <<0>>
    /\ stdout' = <<>> /\ alive' = TRUE
    /\ carry' = <<>> /\ units' = <<>> /\ wrote' = <<>> /\ emitted' = <<>>
    /\ UNCHANGED clientVars

EncodeX264 ==
    /\ index' = index + 1
    /\ \E shape \in Shapes(index) : SendPackets(<<Coded(shape, <<instance, index>>)>>)
    /\ UNCHANGED <<backend, instance, ffmpegVars>>

\* VaapiEncoder::encode: write the picture, take what units there are.
EncodeVaapi ==
    /\ alive
    /\ index' = index + 1
    /\ stdin' = Append(stdin, index)
    /\ SendPackets([i \in DOMAIN units |-> units[i].data])
    /\ units' = <<>>
    /\ UNCHANGED <<backend, instance, stdout, alive, carry, wrote, emitted>>

\* Mutant of FallBack: x264 goes on with the pictures the ffmpeg was at.
FallBackMidway ==
    /\ ~ alive
    /\ backend' = "x264"
    /\ index' = index + 1
    /\ \E shape \in Shapes(index) : SendPackets(<<Coded(shape, <<instance, index>>)>>)
    /\ NoFfmpeg
    /\ UNCHANGED instance

\* The write or the look at the child fails: x264 takes over with this picture.
FallBack ==
    /\ ~ alive
    /\ OpenX264

Picture ==
    /\ taken < MaxPictures
    /\ taken' = taken + 1
    /\ \/ backend = "none" /\ (OpenX264 \/ OpenVaapi)
       \/ backend = "x264" /\ EncodeX264
       \/ backend = "vaapi" /\ (EncodeVaapi \/ FallBack)
    /\ UNCHANGED resizes

\* The picture has another size: the monitor's encoder is dropped, and its
\* ffmpeg killed.
Resize ==
    /\ resizes < MaxResizes
    /\ resizes' = resizes + 1
    /\ backend' = "none"
    /\ NoFfmpeg
    /\ UNCHANGED <<taken, instance, index, clientVars>>

-----------------------------------------------------------------------------
(* ffmpeg and the thread that reads it *)

FfmpegCodes ==
    /\ alive
    /\ stdin # <<>>
    /\ stdin' = Tail(stdin)
    /\ \E shape \in Shapes(Head(stdin)) :
         LET bytes == Coded(shape, <<instance, Head(stdin)>>) IN
           /\ stdout' = stdout \o bytes
           /\ wrote' = wrote \o bytes
    /\ UNCHANGED <<taken, resizes, backend, instance, index, alive, carry, units, emitted, clientVars>>

FfmpegDies ==
    /\ alive
    /\ alive' = FALSE
    /\ UNCHANGED <<taken, resizes, backend, instance, index, stdin, stdout, carry, units,
                   wrote, emitted, clientVars>>

\* One read of the pipe, of any length.
ReadPipe ==
    /\ \E n \in 1..Len(stdout) :
         LET pushed == PushBytes(carry, SubSeq(stdout, 1, n)) IN
           /\ stdout' = SubSeq(stdout, n + 1, Len(stdout))
           /\ carry' = pushed.buf
           /\ units' = units \o pushed.units
           /\ emitted' = emitted \o pushed.units
    /\ UNCHANGED <<taken, resizes, backend, instance, index, stdin, alive, wrote, clientVars>>

-----------------------------------------------------------------------------

Init ==
    /\ taken = 0
    /\ resizes = 0
    /\ backend = "none"
    /\ instance = 0
    /\ index = 0
    /\ stdin = <<>> /\ stdout = <<>> /\ alive = FALSE
    /\ carry = <<>> /\ units = <<>> /\ wrote = <<>> /\ emitted = <<>>
    /\ reference = <<0, 0>>
    /\ broken = FALSE

Next == Picture \/ Resize \/ FfmpegCodes \/ FfmpegDies \/ ReadPipe

Spec == Init /\ [][Next]_vars

-----------------------------------------------------------------------------
(* Properties *)

\* What the splitter returned and what it keeps depend on the bytes alone, not
\* on where the reads cut them, not even within a start code or before a
\* header; and every byte is in one of the two, once and in order (push_bytes).
\* The start codes are those that start_codes finds from left to right.
SplitIgnoresReads ==
    LET read == SubSeq(wrote, 1, Len(wrote) - Len(stdout))
        whole == PushBytes(<<>>, read)
    IN  /\ emitted = whole.units
        /\ carry = whole.buf
        /\ StartCodes(read) = ScanStarts(read)
        /\ FlattenSeq([i \in DOMAIN emitted |-> emitted[i].data]) \o carry = read

\* A unit carries at most one picture, whole, and it is marked as a keyframe
\* exactly if that is one.
UnitsArePictures ==
    \A i \in DOMAIN emitted :
        LET pictures == Pictures(emitted[i].data) IN
          /\ Len(pictures) <= 1
          /\ emitted[i].keyframe <=> pictures # <<>> /\ pictures[1].kind = 5

\* The client never decodes a picture without its reference, whatever units
\* were lost with an ffmpeg that died or was dropped: every encoder starts
\* with a keyframe, and no unit of an older one follows it.
StreamDecodable == ~ broken

=============================================================================
