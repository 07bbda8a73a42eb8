---------------------------- MODULE SessionTasks ----------------------------
(***************************************************************************)
(* The tasks of the host's sessions (crates/host/src/session.rs), from the *)
(* end of the handshake on.  run_host serves one client at a time: it      *)
(* awaits handle_client in its accept loop.  A session runs three tasks:   *)
(* drive_session (on the accept loop's own task), a reader and a writer,   *)
(* joined by a control channel, a video channel of one message and a       *)
(* cancellation token.                                                     *)
(*                                                                         *)
(* A task sees the token only where it selects on it: a write to the       *)
(* socket, a send to a full channel and writer.shutdown() do not.          *)
(***************************************************************************)
EXTENDS Integers, Sequences, FiniteSets

CONSTANTS
    MaxSessions,    \* bound: clients that get past the handshake
    CtrlCap,        \* capacity of the control channel (32 in the code)
    FileWindow,     \* messages of its own file a client has unanswered at most
    OwnWindow,      \* the same for the file the host offers (4 chunks in the code)
    MaxResizes,     \* bound: monitors that change mode in a session
    Faults          \* what may happen, a subset of AllFaults

\* "stall":  a client stops reading without closing its connection.
\* "encode": opening an encoder or encoding a frame fails.
\* "capture": the capture does not open, or ends.
AllFaults == {"stall", "encode", "capture"}

ASSUME MaxSessionsAssumption == MaxSessions \in Nat \ {0}
ASSUME CtrlCapAssumption == CtrlCap \in Nat /\ CtrlCap >= 2
ASSUME FileWindowAssumption == FileWindow \in Nat
ASSUME OwnWindowAssumption == OwnWindow \in Nat \ {0}
ASSUME MaxResizesAssumption == MaxResizes \in Nat
ASSUME TaskFaultsAssumption == Faults \subseteq AllFaults

Sessions == 1..MaxSessions

VARIABLES
    slot,       \* the session run_host awaits, 0 while it listens
    main,       \* where handle_client and drive_session are
    reader,     \* where the reader task is
    writer,     \* where the writer task is
    ctrl,       \* the control channel: a sequence of message kinds
    video,      \* messages in the video channel, 0 or 1
    cancelled,  \* the session's token
    resizes,    \* monitors that changed mode so far
    left,       \* messages of the host's own file the reader has yet to queue
    client,     \* what the client does
    inbound,    \* client messages the host has not read yet
    owed        \* messages of the host's own file a client has yet to answer

taskVars == <<slot, main, reader, writer, ctrl, video, cancelled, resizes, left>>
vars == <<taskVars, client, inbound, owed>>

\* A client sends messages of its own file, answers to the file of the host,
\* and input.  The reader replies to the first, feeds the host's file on the
\* second and injects the third.
ClientKind == {"file", "answer", "input"}
CtrlKind == {"displays", "own", "reply"}

Occurrences(q, kind) == Cardinality({i \in DOMAIN q : q[i] = kind})

\* The channels' receiving ends live in the writer task until it is gone.
WriterGone(s) == writer[s] = "gone"
CtrlHasRoom(s) == Len(ctrl[s]) < CtrlCap

\* A task that runs.  A reader that is "cut" returned amid a message.
Alive(t) == t \notin {"absent", "gone", "cut"}

\* handle_client returned; after "dropped" its tasks were left to themselves.
Ended(s) == main[s] \in {"over", "dropped"}

\* Sending ends: the video channel has main's, the control channel main's and
\* the reader's.
VideoClosed(s) == Ended(s)
CtrlClosed(s) == Ended(s) /\ ~ Alive(reader[s])

-----------------------------------------------------------------------------
(* run_host, handle_client and drive_session *)

\* A client got past the handshake; the writer task is spawned.
StartSession(s) ==
    /\ slot = 0
    /\ main[s] = "absent"
    /\ \A r \in 1..(s - 1) : main[r] # "absent"
    /\ slot' = s
    /\ main' = [main EXCEPT ![s] = "opening"]
    /\ writer' = [writer EXCEPT ![s] = "choosing"]
    /\ client' = [client EXCEPT ![s] = "reading"]
    /\ UNCHANGED <<reader, ctrl, video, cancelled, resizes, left, inbound, owed>>

\* handle_client returns to the accept loop.
LeaveAs(s, end) ==
    /\ main' = [main EXCEPT ![s] = end]
    /\ slot' = 0

Leave(s) == LeaveAs(s, "over")

\* The token fires while the capture opens.
OpenCancelled(s) ==
    /\ main[s] = "opening"
    /\ cancelled[s]
    /\ Leave(s)
    /\ writer' = [writer EXCEPT ![s] = "gone"]
    /\ UNCHANGED <<reader, ctrl, video, cancelled, resizes, left, client, inbound, owed>>

OpenFails(s) ==
    /\ "capture" \in Faults
    /\ main[s] = "opening"
    /\ Leave(s)
    /\ UNCHANGED <<reader, writer, ctrl, video, cancelled, resizes, left, client, inbound, owed>>

\* The capture is open: announce the displays and perhaps offer a file (the
\* channel is empty, so there is room for both), then spawn the reader.  A
\* writer that is gone fails the send and ends the session.
Opened(s) ==
    /\ main[s] = "opening"
    /\ IF WriterGone(s)
         THEN /\ Leave(s)
              /\ UNCHANGED <<ctrl, reader>>
         ELSE /\ \E offer \in {<<>>, <<"own">>} :
                   ctrl' = [ctrl EXCEPT ![s] = <<"displays">> \o offer]
              /\ main' = [main EXCEPT ![s] = "running"]
              /\ reader' = [reader EXCEPT ![s] = "reading"]
              /\ UNCHANGED slot
    /\ UNCHANGED <<writer, video, cancelled, resizes, left, client, inbound, owed>>

\* Mutant of Stop: the tasks are dropped, which detaches them.
StopDetached(s) ==
    /\ main[s] = "running"
    /\ cancelled[s] \/ "capture" \in Faults
    /\ Leave(s)
    /\ cancelled' = [cancelled EXCEPT ![s] = TRUE]
    /\ UNCHANGED <<reader, writer, ctrl, video, resizes, left, client, inbound, owed>>

\* The loop ends: cancel the token and abort both tasks.
Stop(s) ==
    /\ main[s] = "running"
    /\ cancelled[s] \/ "capture" \in Faults
    /\ Leave(s)
    /\ cancelled' = [cancelled EXCEPT ![s] = TRUE]
    /\ reader' = [reader EXCEPT ![s] = "gone"]
    /\ writer' = [writer EXCEPT ![s] = "gone"]
    /\ left' = [left EXCEPT ![s] = 0]
    /\ UNCHANGED <<ctrl, video, resizes, client, inbound, owed>>

\* A frame arrives.  If its monitor changed mode, the displays are announced
\* again before it is encoded.
TakeFrame(s) ==
    /\ main[s] = "running"
    /\ \/ main' = [main EXCEPT ![s] = "sendFrame"] /\ UNCHANGED resizes
       \/ /\ resizes[s] < MaxResizes
          /\ resizes' = [resizes EXCEPT ![s] = @ + 1]
          /\ main' = [main EXCEPT ![s] = "announce"]
    /\ UNCHANGED <<slot, reader, writer, ctrl, video, cancelled, left, client, inbound, owed>>

\* Mutant of Announce: the receiving end outlives the writer task.
AnnounceUnclosed(s) ==
    /\ main[s] = "announce"
    /\ ~ WriterGone(s)
    /\ CtrlHasRoom(s)
    /\ ctrl' = [ctrl EXCEPT ![s] = Append(@, "displays")]
    /\ main' = [main EXCEPT ![s] = "sendFrame"]
    /\ UNCHANGED <<slot, reader, writer, video, cancelled, resizes, left, client, inbound, owed>>

\* Waits for room in the control channel; a closed channel is ignored.
Announce(s) ==
    /\ main[s] = "announce"
    /\ \/ WriterGone(s) /\ UNCHANGED ctrl
       \/ /\ ~ WriterGone(s)
          /\ CtrlHasRoom(s)
          /\ ctrl' = [ctrl EXCEPT ![s] = Append(@, "displays")]
    /\ main' = [main EXCEPT ![s] = "sendFrame"]
    /\ UNCHANGED <<slot, reader, writer, video, cancelled, resizes, left, client, inbound, owed>>

\* The encoder fails: `?` leaves without cancelling or aborting anything.
EncodeFails(s) ==
    /\ "encode" \in Faults
    /\ main[s] = "sendFrame"
    /\ LeaveAs(s, "dropped")
    /\ UNCHANGED <<reader, writer, ctrl, video, cancelled, resizes, left, client, inbound, owed>>

\* Waits for room in the video channel; a closed channel only ends the frame.
SendFrame(s) ==
    /\ main[s] = "sendFrame"
    /\ \/ WriterGone(s) /\ UNCHANGED video
       \/ /\ ~ WriterGone(s)
          /\ video[s] = 0
          /\ video' = [video EXCEPT ![s] = 1]
    /\ main' = [main EXCEPT ![s] = "running"]
    /\ UNCHANGED <<slot, reader, writer, ctrl, cancelled, resizes, left, client, inbound, owed>>

-----------------------------------------------------------------------------
(* The reader task *)

\* Messages of the host's own file that its window counts: queued, with the
\* client, answered but not read, or about to be queued.
Flight(s) ==
    Occurrences(ctrl[s], "own") + owed[s] + Occurrences(inbound[s], "answer") + left[s]

\* Mutant of Read: the window of the host's own file is not looked at.
ReadPastWindow(s) ==
    /\ reader[s] = "reading"
    /\ inbound[s] # <<>>
    /\ inbound' = [inbound EXCEPT ![s] = Tail(@)]
    /\ UNCHANGED <<slot, main, writer, ctrl, video, cancelled, resizes, client, owed>>
    /\ \/ /\ Head(inbound[s]) = "input"
          /\ UNCHANGED <<reader, left>>
       \/ /\ Head(inbound[s]) = "file"
          /\ \E next \in {"reading", "replying"} : reader' = [reader EXCEPT ![s] = next]
          /\ UNCHANGED left
       \/ /\ Head(inbound[s]) = "answer"
          /\ \E more \in 0..OwnWindow :
               /\ left' = [left EXCEPT ![s] = more]
               /\ reader' = [reader EXCEPT ![s] = IF more = 0 THEN @ ELSE "feeding"]

\* take_file_replies: a message of the client's file has one reply or, when
\* the file is cancelled or cannot be written, none; an answer to the host's
\* own file lets it send on as far as its window goes, several chunks at once
\* after an accept.
Read(s) ==
    /\ reader[s] = "reading"
    /\ inbound[s] # <<>>
    /\ inbound' = [inbound EXCEPT ![s] = Tail(@)]
    /\ UNCHANGED <<slot, main, writer, ctrl, video, cancelled, resizes, client, owed>>
    /\ \/ /\ Head(inbound[s]) = "input"
          /\ UNCHANGED <<reader, left>>
       \/ /\ Head(inbound[s]) = "file"
          /\ \E next \in {"reading", "replying"} : reader' = [reader EXCEPT ![s] = next]
          /\ UNCHANGED left
       \/ /\ Head(inbound[s]) = "answer"
          /\ \E more \in 0..OwnWindow :
               /\ left' = [left EXCEPT ![s] = more]
               /\ reader' = [reader EXCEPT ![s] = IF more = 0 THEN @ ELSE "feeding"]
          /\ Flight(s)' <= OwnWindow

\* The writer is gone and the send fails: the task returns on the spot, past
\* the statement that cancels the token.
Cut(s) ==
    /\ WriterGone(s)
    /\ reader' = [reader EXCEPT ![s] = "cut"]
    /\ left' = [left EXCEPT ![s] = 0]
    /\ UNCHANGED ctrl

\* Waits for room in the control channel.
Reply(s) ==
    /\ reader[s] = "replying"
    /\ \/ Cut(s)
       \/ /\ ~ WriterGone(s)
          /\ CtrlHasRoom(s)
          /\ ctrl' = [ctrl EXCEPT ![s] = Append(@, "reply")]
          /\ reader' = [reader EXCEPT ![s] = "reading"]
          /\ UNCHANGED left
    /\ UNCHANGED <<slot, main, writer, video, cancelled, resizes, client, inbound, owed>>

\* The chunks go one by one, each when the channel has room.
Feed(s) ==
    /\ reader[s] = "feeding"
    /\ \/ Cut(s)
       \/ /\ ~ WriterGone(s)
          /\ CtrlHasRoom(s)
          /\ ctrl' = [ctrl EXCEPT ![s] = Append(@, "own")]
          /\ left' = [left EXCEPT ![s] = @ - 1]
          /\ reader' = [reader EXCEPT ![s] = IF left[s] = 1 THEN "reading" ELSE @]
    /\ UNCHANGED <<slot, main, writer, video, cancelled, resizes, client, inbound, owed>>


\* The stream ends, or the token fires: the loop ends and cancels the token.
ReaderEnds(s) ==
    /\ reader[s] = "reading"
    /\ cancelled[s] \/ (client[s] = "closed" /\ inbound[s] = <<>>)
    /\ reader' = [reader EXCEPT ![s] = "gone"]
    /\ cancelled' = [cancelled EXCEPT ![s] = TRUE]
    /\ UNCHANGED <<slot, main, writer, ctrl, video, resizes, left, client, inbound, owed>>

-----------------------------------------------------------------------------
(* The writer task: a biased select that prefers the token, then video *)

\* Mutant of WriterStops: closed channels are ignored.
WriterStopsOnToken(s) ==
    /\ writer[s] = "choosing"
    /\ cancelled[s]
    /\ writer' = [writer EXCEPT ![s] = "shutdown"]
    /\ UNCHANGED <<slot, main, reader, ctrl, video, cancelled, resizes, left, client, inbound, owed>>

WriterStops(s) ==
    /\ writer[s] = "choosing"
    /\ \/ cancelled[s]
       \/ video[s] = 0 /\ VideoClosed(s)
       \/ video[s] = 0 /\ ctrl[s] = <<>> /\ CtrlClosed(s)
    /\ writer' = [writer EXCEPT ![s] = "shutdown"]
    /\ UNCHANGED <<slot, main, reader, ctrl, video, cancelled, resizes, left, client, inbound, owed>>

TakeVideo(s) ==
    /\ writer[s] = "choosing"
    /\ ~ cancelled[s]
    /\ video[s] = 1
    /\ video' = [video EXCEPT ![s] = 0]
    /\ writer' = [writer EXCEPT ![s] = "writing"]
    /\ UNCHANGED <<slot, main, reader, ctrl, cancelled, resizes, left, client, inbound, owed>>

TakeCtrl(s) ==
    /\ writer[s] = "choosing"
    /\ ~ cancelled[s]
    /\ video[s] = 0
    /\ ~ VideoClosed(s)
    /\ ctrl[s] # <<>>
    /\ ctrl' = [ctrl EXCEPT ![s] = Tail(@)]
    /\ owed' = [owed EXCEPT ![s] = IF Head(ctrl[s]) = "own" THEN @ + 1 ELSE @]
    /\ writer' = [writer EXCEPT ![s] = "writing"]
    /\ UNCHANGED <<slot, main, reader, video, cancelled, resizes, left, client, inbound>>

\* A write ends when the client takes the bytes, or fails once it is gone.
WriteEnds(s) ==
    /\ writer[s] = "writing"
    /\ client[s] # "stalled"
    /\ writer' = [writer EXCEPT ![s] =
                     IF client[s] = "reading" THEN "choosing" ELSE "shutdown"]
    /\ UNCHANGED <<slot, main, reader, ctrl, video, cancelled, resizes, left, client, inbound, owed>>

\* writer.shutdown() flushes the connection; then the task drops its channels.
ShutdownEnds(s) ==
    /\ writer[s] = "shutdown"
    /\ client[s] # "stalled"
    /\ writer' = [writer EXCEPT ![s] = "gone"]
    /\ UNCHANGED <<slot, main, reader, ctrl, video, cancelled, resizes, left, client, inbound, owed>>

-----------------------------------------------------------------------------
(* The client, the network and the user at the host *)

\* Messages of the client's own file that were not yet answered to it.
Unanswered(s) ==
    Occurrences(inbound[s], "file") + Occurrences(ctrl[s], "reply")
        + (IF reader[s] = "replying" THEN 1 ELSE 0)

\* What the client sends once no reader is left is lost, and left out.
ClientSends(s) ==
    /\ client[s] = "reading"
    /\ reader[s] \notin {"gone", "cut"}
    /\ Ended(s) => reader[s] # "absent"
    /\ \/ /\ Unanswered(s) < FileWindow
          /\ inbound' = [inbound EXCEPT ![s] = Append(@, "file")]
          /\ UNCHANGED owed
       \/ /\ owed[s] > 0
          /\ owed' = [owed EXCEPT ![s] = @ - 1]
          /\ inbound' = [inbound EXCEPT ![s] = Append(@, "answer")]
       \/ /\ Occurrences(inbound[s], "input") = 0
          /\ inbound' = [inbound EXCEPT ![s] = Append(@, "input")]
          /\ UNCHANGED owed
    /\ UNCHANGED <<taskVars, client>>

ClientStalls(s) ==
    /\ "stall" \in Faults
    /\ client[s] = "reading"
    /\ client' = [client EXCEPT ![s] = "stalled"]
    /\ UNCHANGED <<taskVars, inbound, owed>>

ClientResumes(s) ==
    /\ client[s] = "stalled"
    /\ client' = [client EXCEPT ![s] = "reading"]
    /\ UNCHANGED <<taskVars, inbound, owed>>

\* The client leaves of its own accord, or because the host shut the stream.
ClientCloses(s) ==
    /\ client[s] \in {"reading", "stalled"}
    /\ client' = [client EXCEPT ![s] = "closed"]
    /\ UNCHANGED <<taskVars, inbound, owed>>

ClientSeesEnd(s) == client[s] = "reading" /\ WriterGone(s) /\ ClientCloses(s)

\* SIGUSR1 cancels the token of the current session.
Disconnect ==
    /\ slot # 0
    /\ ~ cancelled[slot]
    /\ cancelled' = [cancelled EXCEPT ![slot] = TRUE]
    /\ UNCHANGED <<slot, main, reader, writer, ctrl, video, resizes, left, client, inbound, owed>>

-----------------------------------------------------------------------------

Init ==
    /\ slot = 0
    /\ main = [s \in Sessions |-> "absent"]
    /\ reader = [s \in Sessions |-> "absent"]
    /\ writer = [s \in Sessions |-> "absent"]
    /\ ctrl = [s \in Sessions |-> <<>>]
    /\ video = [s \in Sessions |-> 0]
    /\ cancelled = [s \in Sessions |-> FALSE]
    /\ resizes = [s \in Sessions |-> 0]
    /\ client = [s \in Sessions |-> "absent"]
    /\ inbound = [s \in Sessions |-> <<>>]
    /\ left = [s \in Sessions |-> 0]
    /\ owed = [s \in Sessions |-> 0]

MainNext(s) ==
    \/ OpenCancelled(s) \/ OpenFails(s) \/ Opened(s) \/ Stop(s)
    \/ TakeFrame(s) \/ Announce(s) \/ EncodeFails(s) \/ SendFrame(s)

ReaderNext(s) == Read(s) \/ Reply(s) \/ Feed(s) \/ ReaderEnds(s)

WriterNext(s) ==
    \/ WriterStops(s) \/ TakeVideo(s) \/ TakeCtrl(s)
    \/ WriteEnds(s) \/ ShutdownEnds(s)

ClientNext(s) ==
    ClientSends(s) \/ ClientStalls(s) \/ ClientResumes(s) \/ ClientCloses(s)

Next ==
    \/ Disconnect
    \/ \E s \in Sessions :
         StartSession(s) \/ MainNext(s) \/ ReaderNext(s) \/ WriterNext(s) \/ ClientNext(s)

Spec == Init /\ [][Next]_vars

\* Each task is polled as long as it can go on.  The selects of the main loop
\* and of the reader pick at random among what is ready, so a token or an end
\* of stream that is there at every turn is seen at some turn.  A client may
\* stop reading for good; one that reads also notices the end of the stream.
\* Frames need not come.
TaskFairness(s) ==
    /\ WF_vars(Opened(s) \/ OpenCancelled(s))
    /\ SF_vars(cancelled[s] /\ Stop(s))
    /\ WF_vars(Announce(s))
    /\ WF_vars(SendFrame(s) \/ EncodeFails(s))
    /\ WF_vars(Read(s) \/ Reply(s) \/ Feed(s))
    /\ SF_vars(ReaderEnds(s))
    /\ WF_vars(WriterNext(s))
    /\ WF_vars(ClientSeesEnd(s))

FairSpec == Spec /\ \A s \in Sessions : TaskFairness(s)

-----------------------------------------------------------------------------
(* Properties *)

\* Every task, channel and client is in one of its states.
TypeOK ==
    /\ slot \in 0..MaxSessions
    /\ main \in [Sessions -> {"absent", "opening", "running", "announce",
                              "sendFrame", "over", "dropped"}]
    /\ reader \in [Sessions -> {"absent", "reading", "replying", "feeding",
                                "gone", "cut"}]
    /\ writer \in [Sessions -> {"absent", "choosing", "writing", "shutdown", "gone"}]
    /\ ctrl \in [Sessions -> Seq(CtrlKind)]
    /\ \A s \in Sessions : Len(ctrl[s]) <= CtrlCap
    /\ video \in [Sessions -> 0..1]
    /\ cancelled \in [Sessions -> BOOLEAN]
    /\ resizes \in [Sessions -> 0..MaxResizes]
    /\ client \in [Sessions -> {"absent", "reading", "stalled", "closed"}]
    /\ inbound \in [Sessions -> Seq(ClientKind)]
    /\ left \in [Sessions -> 0..OwnWindow]
    /\ owed \in [Sessions -> Nat]
    /\ \A s \in Sessions : left[s] > 0 <=> reader[s] = "feeding"

\* Only the client that holds the session slot can move the pointer or press
\* keys: no reader, which owns the injector, outlives its session, except
\* when a failing encoder dropped the tasks.
OnlyTheSlotInjects ==
    \A s \in Sessions :
        Alive(reader[s]) => slot = s \/ main[s] = "dropped"

\* The reader never waits for the control channel, so input is never held up
\* behind video the client takes slowly: replies to the client's file and the
\* chunks of the host's own cannot fill a channel with room for a window of
\* either beside the announcements.
ReaderNeverWaits ==
    \A s \in Sessions :
        reader[s] \in {"replying", "feeding"} => WriterGone(s) \/ CtrlHasRoom(s)

\* Disconnect (and a shutdown of the host, which cancels the same token) ends
\* the session and frees the slot, as long as the client takes what the host
\* sends.  session.rs has "it ends the current session" without that condition,
\* but send_frame waits for the video channel outside the select.
DisconnectEndsSession ==
    \A s \in Sessions : cancelled[s] ~> slot # s \/ client[s] = "stalled"


\* Whichever way a session ends, its tasks end too, unless its client stays
\* and neither reads nor closes.
TasksEnd ==
    \A s \in Sessions :
        Ended(s) ~> \/ ~ Alive(reader[s]) /\ ~ Alive(writer[s])
                    \/ client[s] = "stalled"

=============================================================================
