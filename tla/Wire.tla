-------------------------------- MODULE Wire --------------------------------
(***************************************************************************)
(* One direction of a connection: write_message and read_message of        *)
(* crates/protocol/src/message.rs over a TLS stream, with the tasks that   *)
(* call them.  A writer task writes one message after the other, ends at   *)
(* an error or when its channel closes, and shuts the stream down.  A      *)
(* reader reads one message after the other and ends at the first error.   *)
(*                                                                         *)
(* The stream is external: it hands over the bytes in their order, in      *)
(* pieces of any length, until it is shut down or breaks.  An abort of the *)
(* writer in the middle of a message is a break for the reader, too.       *)
(***************************************************************************)
EXTENDS MessageCodec

CONSTANTS Scripts       \* bound: the messages a writer may be given, in order

ASSUME ScriptsAssumption ==
    \A s \in Scripts : s \in Seq(Range(s)) /\ \A i \in DOMAIN s : IsMessage(s[i])

VARIABLES
    script,     \* the messages still to be written
    wrote,      \* history: the messages written
    pipe,       \* the bytes written that were not read
    stream,     \* "open", "shut" by the writer, or "cut"
    part,       \* what read_exact has of the length or the body so far
    body,       \* the length of the body it reads; 0: it reads a length
    got,        \* the messages read
    result      \* how the reader ended, "" before

writerVars == <<script, wrote>>
readerVars == <<part, body, got, result>>
vars == <<writerVars, pipe, stream, readerVars>>

-----------------------------------------------------------------------------
(* write_message, and the loop around it *)

\* The limit is one of the body, without its four bytes of length.
Fits(bytes) == Len(bytes) \in 1..MaxFrame

WriteMessage ==
    /\ stream = "open"
    /\ script # <<>>
    /\ Fits(Encode(Head(script)))
    /\ pipe' = pipe \o LittleEndian(Len(Encode(Head(script))), 4) \o Encode(Head(script))
    /\ wrote' = Append(wrote, Head(script))
    /\ script' = Tail(script)
    /\ UNCHANGED <<stream, readerVars>>

\* The channel is closed and empty, or the message does not fit into a frame:
\* the loop ends and the stream is shut down.
Shutdown ==
    /\ stream = "open"
    /\ script # <<>> => ~ Fits(Encode(Head(script)))
    /\ stream' = "shut"
    /\ UNCHANGED <<writerVars, pipe, readerVars>>

\* The connection breaks, or the writer is aborted: any number of the bytes
\* under way still comes.
Cut ==
    /\ stream # "cut"
    /\ stream' = "cut"
    /\ \E n \in 0..Len(pipe) : pipe' = SubSeq(pipe, 1, n)
    /\ UNCHANGED <<writerVars, readerVars>>

-----------------------------------------------------------------------------
(* read_message, and the loop around it *)

\* The four bytes of the length are there; MaxFrame is below 2^24, so that the
\* top one must be 0.
GotLength(bytes) ==
    LET len == Number(bytes, FALSE)
    IN  /\ IF bytes[4] = 0 /\ len \in 1..MaxFrame THEN body' = len /\ UNCHANGED result
                                  ELSE result' = "BadLength" /\ UNCHANGED body
        /\ part' = <<>>
        /\ UNCHANGED got

\* The body is there.
GotBody(bytes) ==
    LET r == Decode(bytes)
    IN  /\ IF r.err = "" THEN got' = Append(got, r.v) /\ UNCHANGED result
                         ELSE result' = r.err /\ UNCHANGED got
        /\ body' = 0
        /\ part' = <<>>

\* What read_exact still waits for.
Wanted == (IF body = 0 THEN 4 ELSE body) - Len(part)

\* A read brings n bytes.
Read(n) ==
    /\ result = ""
    /\ n \in 1..Wanted
    /\ pipe' = SubSeq(pipe, n + 1, Len(pipe))
    /\ LET bytes == part \o SubSeq(pipe, 1, n)
       IN  IF n < Wanted
             THEN part' = bytes /\ UNCHANGED <<body, got, result>>
             ELSE IF body = 0 THEN GotLength(bytes) ELSE GotBody(bytes)
    /\ UNCHANGED <<writerVars, stream>>

\* Mutant of Eof: the end of the stream is only looked for between messages.
EofBetween ==
    /\ result = ""
    /\ pipe = <<>>
    /\ stream # "open"
    /\ body = 0
    /\ result' = "Closed"
    /\ UNCHANGED <<writerVars, pipe, stream, part, body, got>>

\* A read brings nothing: the stream has ended.  Within a length this is
\* called Closed as well.
Eof ==
    /\ result = ""
    /\ pipe = <<>>
    /\ stream # "open"
    /\ result' = IF body = 0 THEN "Closed" ELSE "Io"
    /\ UNCHANGED <<writerVars, pipe, stream, part, body, got>>

\* Mutant of Cancel: the caller only dropped the call, for another branch of a
\* select, and calls read_message again.
CancelAndReadOn ==
    /\ result = ""
    /\ part' = <<>>
    /\ body' = 0
    /\ UNCHANGED <<writerVars, pipe, stream, got, result>>

\* The caller drops the call: the host's reader at its token, a handshake at
\* its timeout, the client's reader by its abort.  None reads again.
Cancel ==
    /\ result = ""
    /\ result' = "dropped"
    /\ part' = <<>>
    /\ body' = 0
    /\ UNCHANGED <<writerVars, pipe, stream, got>>

-----------------------------------------------------------------------------

InitFor(scripts) ==
    /\ script \in scripts
    /\ wrote = <<>>
    /\ pipe = <<>>
    /\ stream = "open"
    /\ part = <<>>
    /\ body = 0
    /\ got = <<>>
    /\ result = ""

Init == InitFor(Scripts)

\* One byte, or all that is there: with these, every way to cut the bytes into
\* pieces leads to states that are reached.
SomeRead ==
    /\ pipe # <<>>
    /\ \E n \in {1, IF Wanted < Len(pipe) THEN Wanted ELSE Len(pipe)} : Read(n)

Next == WriteMessage \/ Shutdown \/ Cut \/ SomeRead \/ Eof \/ Cancel

Spec == Init /\ [][Next]_vars

\* Both tasks run, and the stream carries what it was given.
FairSpec == Spec /\ WF_vars(WriteMessage \/ Shutdown) /\ WF_vars(SomeRead) /\ WF_vars(Eof)

-----------------------------------------------------------------------------
(* Properties *)

Texts == {"name", "reason"}

ClipTexts(r) == [f \in DOMAIN r |-> IF f \in Texts THEN Clip(r[f]) ELSE r[f]]

\* A message as it arrives: texts are cut to what the wire carries.
Arriving(m) ==
    IF m.type = "Displays"
      THEN [m EXCEPT !.displays = [i \in DOMAIN m.displays |-> ClipTexts(m.displays[i])]]
      ELSE ClipTexts(m)

\* One direction keeps the promise of MessageStream: however the bytes are cut
\* into pieces, wherever the connection breaks and the reading is dropped,
\* what is read is a message that was written, and the next one.
Promise == INSTANCE MessageStream WITH
    sent <- [i \in DOMAIN wrote |-> Arriving(wrote[i])],
    over <- result # ""

StreamPromise == Promise!Spec

TextsWhole(r) == \A f \in DOMAIN r \cap Texts : Utf8(Clip(r[f]))

\* What the encoder accepts and the decoder does not: a text whose limit falls
\* into a character, and more displays than MaxDisplays.
Carried(m) ==
    IF m.type = "Displays"
      THEN Len(m.displays) <= MaxDisplays /\ \A i \in DOMAIN m.displays : TextsWhole(m.displays[i])
      ELSE TextsWhole(m)

Refusals == {"BadLength", "Truncated", "UnknownType", "Invalid", "Utf8"}

\* No message that the program writes makes its peer give up the connection,
\* but for those two kinds, and those always do.
OnlyOversizeIsRefused ==
    /\ result \in Refusals => ~ Carried(wrote[Len(got) + 1])
    /\ \A i \in DOMAIN got : Carried(wrote[i])

\* A reader that is left alone comes to an end when the writer does, and if it
\* saw an orderly end, all that was written has arrived.
EverythingArrives ==
    <>(/\ result # ""
       /\ result = "Closed" /\ stream = "shut" => Len(got) = Len(wrote))

=============================================================================
