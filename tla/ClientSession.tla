---------------------------- MODULE ClientSession ---------------------------
(***************************************************************************)
(* The session of the client once the PIN is proved: the select loop of     *)
(* session in crates/client/src/net.rs, its reader and writer tasks, the    *)
(* channels between them and to the window, and the end of all of it.       *)
(*                                                                         *)
(* Each wait of the loop is a step of its own, and each message of a task.  *)
(* The host is as SessionTasks shows it: it reads without waiting, answers  *)
(* file messages, and sends video whenever there is room; it may close the  *)
(* connection, or stall.  Files are two messages each way, the offer and    *)
(* the end; Transfers has the rest.  An end that cannot open, read or store *)
(* a file says nothing of it to the other, or cancels.  Inputs are numbers  *)
(* in the order the user made them.                                         *)
(***************************************************************************)
EXTENDS Integers, Sequences

CONSTANTS
    CtrlCap,    \* places of the control channel (64 in the code)
    WireCap,    \* bound: messages under way in each direction
    FrameLimit, \* stop_after_frames
    MaxInputs,  \* bound: inputs of the user
    MaxWaiting, \* bound: commands that wait for the loop
    Configs,    \* bound: which of headless, sendFile and a file of the host
    Faults      \* what may happen: a subset of AllFaults

\* "stall": the host stops reading and sending; "close": it closes; "file":
\* one of the two cannot open, read or store a file.
AllFaults == {"stall", "close", "file"}

ASSUME CtrlCapAssumption == CtrlCap \in Nat \ {0}
ASSUME WireCapAssumption == WireCap \in Nat \ {0}
ASSUME FrameLimitAssumption == FrameLimit \in Nat \ {0}
ASSUME ConfigsAssumption == Configs \subseteq BOOLEAN \X BOOLEAN \X BOOLEAN
ASSUME SessionFaultsAssumption == Faults \subseteq AllFaults

VARIABLES
    headless,   \* no window, and the session ends after FrameLimit frames
    sendFile,   \* the configuration names a file to send
    loop,       \* "select", "sending" or "over"
    duty,       \* what the messages being sent are: "input", "offer", "reply"
    outbox,     \* what is left of them
    live,       \* Live
    commands,   \* from the window
    open,       \* the window still has its end of commands
    ctrl,       \* the control channel
    writer,     \* "writing", "shutdown" or "gone"
    reader,     \* "reading" or "gone"
    incoming,   \* the channel from the reader, of one place
    toHost, toClient,
    host,       \* "up", "stalled" or "closed"
    owed,       \* answers the host has not written yet
    offered,    \* the host has no file to offer, or has offered it
    applied,    \* the last input the host applied
    inputs,     \* inputs of the user so far
    failed      \* history: a file failed at one of the two ends

config == <<headless, sendFile>>
loopVars == <<loop, duty, outbox, live>>
hostVars == <<host, owed, offered, applied>>
vars == <<config, loopVars, commands, open, ctrl, writer, reader,
          incoming, toHost, toClient, hostVars, inputs, failed>>

Input(n) == [type |-> "input", n |-> n]
Msg(t)   == [type |-> t]

-----------------------------------------------------------------------------
(* Live, and the end of the loop *)

\* Mutant of Finished: a host that offers no file is waited for.
FinishedAfterOffer(l) ==
    /\ headless
    /\ l.frames >= FrameLimit /\ l.displays
    /\ sendFile => l.sentOk
    /\ ~ l.outgoing /\ ~ l.incoming
    /\ l.received

\* Live::finished
Finished(l) ==
    /\ headless
    /\ l.frames >= FrameLimit /\ l.displays
    /\ sendFile => l.sentOk
    /\ ~ l.outgoing /\ ~ l.incoming
    /\ l.sawOffer => l.received

\* The loop is left: everything that was queued is dropped with its tasks.
Leave ==
    /\ loop' = "over"
    /\ outbox' = <<>>
    /\ ctrl' = <<>>
    /\ writer' = "gone"
    /\ reader' = "gone"
    /\ incoming' = <<>>
    /\ commands' = <<>>
    /\ UNCHANGED <<duty, open>>

\* An iteration is over; finished is looked at after every one.
Iterate(l) ==
    IF Finished(l)
      THEN Leave
      ELSE /\ loop' = "select"
           /\ outbox' = <<>>
           /\ UNCHANGED <<duty, ctrl, writer, reader, open>>

\* The loop has messages to put in the control channel, or none.
SendAll(d, ms, l) ==
    IF ms = <<>> THEN Iterate(l)
    ELSE /\ loop' = "sending"
         /\ duty' = d
         /\ outbox' = ms
         /\ UNCHANGED <<ctrl, writer, reader, open>>

-----------------------------------------------------------------------------
(* The branches of the select *)

\* What becomes of Live, the answer, and whether a file failed with it.
Well(l, ms) == <<l, ms, FALSE>>
Ill(l) == <<l, <<>>, TRUE>>
MayFail(l) == IF "file" \in Faults THEN {Ill(l)} ELSE {}

\* take_file.  The host's file may not be created, or not be stored; the
\* client's own may not be read once it was accepted, and then keeps its slot,
\* or be cancelled by the host, and then gives it up unsent.  A message nothing
\* waits for is left alone.
TakeFile(m) ==
    CASE m.type = "offer" ->
           {Well([live EXCEPT !.sawOffer = TRUE, !.incoming = TRUE], <<Msg("accept")>>)}
             \cup MayFail([live EXCEPT !.sawOffer = TRUE])
      [] m.type = "complete" /\ live.incoming ->
           {Well([live EXCEPT !.incoming = FALSE, !.received = TRUE], <<Msg("echo")>>)}
             \cup MayFail([live EXCEPT !.incoming = FALSE])
      [] m.type = "accept" /\ live.outgoing ->
           {Well(live, <<Msg("complete")>>)} \cup MayFail(live)
      [] m.type = "echo" /\ live.outgoing ->
           {Well([live EXCEPT !.outgoing = FALSE, !.sentOk = TRUE], <<>>)}
      [] m.type = "cancel" /\ live.outgoing -> {Ill([live EXCEPT !.outgoing = FALSE])}
      [] OTHER -> {Well(live, <<>>)}

\* A picture may decode or not.  The count matters up to the limit, and with
\* a window not at all.
TakeVideo ==
    {live} \cup IF headless /\ live.frames < FrameLimit
                  THEN {[live EXCEPT !.frames = @ + 1]} ELSE {}

\* handle_message
Handle(m) ==
    CASE m.type = "displays" -> {Well([live EXCEPT !.displays = TRUE], <<>>)}
      [] m.type = "video" -> {Well(l, <<>>) : l \in TakeVideo}
      [] OTHER -> TakeFile(m)

TakeIncoming ==
    /\ loop = "select"
    /\ incoming # <<>>
    /\ IF Head(incoming).type = "end"
         THEN Leave /\ UNCHANGED <<live, failed>>
         ELSE /\ incoming' = <<>>
              /\ \E h \in Handle(Head(incoming)) :
                   /\ live' = h[1]
                   /\ failed' = (failed \/ h[3])
                   /\ IF h[2] = <<>> /\ Finished(h[1])
                        THEN Leave
                        ELSE SendAll("reply", h[2], h[1]) /\ UNCHANGED commands
    /\ UNCHANGED <<config, toHost, toClient, hostVars, inputs>>

\* A file is not sent while another is, nor one that cannot be opened.
OnCommand(m) ==
    CASE m.type = "disconnect" -> Leave /\ UNCHANGED live
      [] m.type = "input" ->
           SendAll("input", <<m>>, live) /\ commands' = Tail(commands) /\ UNCHANGED <<live, incoming>>
      [] m.type = "send" ->
           /\ \/ /\ live.outgoing \/ "file" \in Faults
                 /\ Iterate(live) /\ UNCHANGED live
              \/ /\ ~ live.outgoing
                 /\ live' = [live EXCEPT !.outgoing = TRUE]
                 /\ SendAll("offer", <<Msg("offer")>>, live')
           /\ commands' = Tail(commands)
           /\ UNCHANGED incoming

\* The select is biased: a command is looked at when no message is there.  A
\* window that is gone without a word would end the session too.
TakeCommand ==
    /\ loop = "select"
    /\ incoming = <<>>
    /\ commands # <<>> \/ ~ open
    /\ IF commands = <<>> THEN Leave /\ UNCHANGED live ELSE OnCommand(Head(commands))
    /\ UNCHANGED <<config, toHost, toClient, hostVars, inputs, failed>>

\* Mutants of Send: a full channel drops what the user did; the answer to an
\* offer is awaited where nobody takes it.
SendOrDrop ==
    /\ loop = "sending"
    /\ writer # "gone"
    /\ ctrl' = IF Len(ctrl) < CtrlCap THEN Append(ctrl, Head(outbox)) ELSE ctrl
    /\ outbox' = Tail(outbox)
    /\ loop' = IF Len(outbox) = 1 THEN "select" ELSE "sending"
    /\ UNCHANGED <<config, duty, live, commands, open, writer, reader,
                   incoming, toHost, toClient, hostVars, inputs, failed>>
SendAndWait ==
    /\ loop = "sending"
    /\ writer # "gone"
    /\ Len(ctrl) < CtrlCap
    /\ ctrl' = Append(ctrl, Head(outbox))
    /\ outbox' = Tail(outbox)
    /\ loop' = IF duty = "offer" THEN "waiting" ELSE "select"
    /\ UNCHANGED <<config, duty, live, commands, open, writer, reader,
                   incoming, toHost, toClient, hostVars, inputs, failed>>

\* A message goes into the control channel, once there is room.
Send ==
    /\ loop = "sending"
    /\ writer # "gone"
    /\ Len(ctrl) < CtrlCap
    /\ IF Len(outbox) = 1 /\ Finished(live)
         THEN Leave
         ELSE /\ ctrl' = Append(ctrl, Head(outbox))
              /\ outbox' = Tail(outbox)
              /\ loop' = IF Len(outbox) = 1 THEN "select" ELSE "sending"
              /\ UNCHANGED <<duty, commands, open, writer, reader, incoming>>
    /\ UNCHANGED <<config, live, toHost, toClient, hostVars, inputs, failed>>

\* The channel is closed: an input or a reply ends the session, an offer of
\* the window's does not (the sender keeps its slot).
SendFails ==
    /\ loop = "sending"
    /\ writer = "gone"
    /\ IF duty = "offer"
         THEN Iterate(live) /\ UNCHANGED <<commands, incoming>>
         ELSE Leave
    /\ UNCHANGED <<config, live, toHost, toClient, hostVars, inputs, failed>>

Loop == TakeIncoming \/ TakeCommand \/ Send \/ SendFails

-----------------------------------------------------------------------------
(* The reader and the writer task *)

\* A message, or the end of the stream, which is handed on like one.  What the
\* task holds between its two waits is one more place of toClient.
Read ==
    /\ reader = "reading"
    /\ incoming = <<>>
    /\ \/ /\ toClient # <<>>
          /\ incoming' = <<Head(toClient)>>
          /\ toClient' = Tail(toClient)
          /\ UNCHANGED reader
       \/ /\ toClient = <<>>
          /\ host = "closed"
          /\ incoming' = <<Msg("end")>>
          /\ reader' = "gone"
          /\ UNCHANGED toClient
    /\ UNCHANGED <<config, loopVars, commands, open, ctrl, writer, toHost,
                   hostVars, inputs, failed>>

\* The writer waits for a message and for room on the connection; what it
\* holds meanwhile is one more place of ctrl.  A write to a host that has just
\* closed may succeed, and get nowhere.
Write ==
    /\ writer = "writing"
    /\ ctrl # <<>>
    /\ \/ /\ host # "closed"
          /\ Len(toHost) < WireCap
          /\ toHost' = Append(toHost, Head(ctrl))
       \/ host = "closed" /\ UNCHANGED toHost
    /\ ctrl' = Tail(ctrl)
    /\ UNCHANGED <<config, loopVars, commands, open, writer, reader, incoming,
                   toClient, hostVars, inputs, failed>>

\* The write fails: the task shuts the stream down with the channel still
\* open behind it.
WriteFails ==
    /\ writer = "writing"
    /\ ctrl # <<>>
    /\ host = "closed"
    /\ ctrl' = Tail(ctrl)
    /\ writer' = "shutdown"
    /\ UNCHANGED <<config, loopVars, commands, open, reader, incoming, toHost,
                   toClient, hostVars, inputs, failed>>

\* Mutant of WriterEnds: the channel is closed once it is empty.
WriterEndsEmpty ==
    /\ writer = "shutdown"
    /\ ctrl = <<>>
    /\ writer' = "gone"
    /\ UNCHANGED <<config, loopVars, commands, open, ctrl, reader, incoming,
                   toHost, toClient, hostVars, inputs, failed>>

WriterEnds ==
    /\ writer = "shutdown"
    /\ writer' = "gone"
    /\ ctrl' = <<>>
    /\ UNCHANGED <<config, loopVars, commands, open, reader, incoming,
                   toHost, toClient, hostVars, inputs, failed>>

Writer == Write \/ WriteFails \/ WriterEnds

-----------------------------------------------------------------------------
(* The user and the host *)

Command(m) ==
    /\ ~ headless
    /\ open
    /\ loop # "over"
    /\ Len(commands) < MaxWaiting
    /\ commands' = Append(commands, m)
    /\ UNCHANGED <<config, loopVars, ctrl, writer, reader, incoming,
                   toHost, toClient, hostVars, failed>>

UserInput ==
    /\ inputs < MaxInputs
    /\ Command(Input(inputs + 1))
    /\ inputs' = inputs + 1
    /\ UNCHANGED open

\* The user sends a file; one waiting is enough.
UserSends ==
    /\ \A i \in DOMAIN commands : commands[i] # Msg("send")
    /\ ~ live.sentOk
    /\ Command(Msg("send"))
    /\ UNCHANGED <<open, inputs, failed>>

\* "Change host" and the exit of the window: Disconnect, then the end of
\* commands is dropped.
UserLeaves ==
    /\ Command(Msg("disconnect"))
    /\ open' = FALSE
    /\ UNCHANGED inputs

Answer(m) ==
    CASE m.type = "offer"    -> <<Msg("accept")>>
      [] m.type = "complete" -> <<Msg("echo")>>
      [] m.type = "accept"   -> <<Msg("complete")>>
      [] OTHER               -> <<>>

\* The host takes a message and answers it.  A file that it cannot store, or
\* its own that it cannot read, it only logs; an offer or an end of a file that
\* comes at the wrong time it cancels.  Once the loop is over it matters only
\* what it still takes.
HostReads ==
    /\ host = "up"
    /\ toHost # <<>>
    /\ LET m == Head(toHost) IN
         /\ applied' = IF m.type = "input" THEN m.n ELSE applied
         /\ \/ owed' = owed \o Answer(m) /\ UNCHANGED failed
            \/ /\ "file" \in Faults
               /\ Answer(m) # <<>>
               /\ owed' \in {owed} \cup
                      IF m.type = "accept" THEN {} ELSE {Append(owed, Msg("cancel"))}
               /\ failed' = TRUE
    /\ toHost' = Tail(toHost)
    /\ UNCHANGED <<config, loopVars, commands, open, ctrl, writer, reader,
                   incoming, toClient, host, offered, inputs>>

HostOffers ==
    /\ host = "up" /\ loop # "over"
    /\ ~ offered
    /\ offered' = TRUE
    /\ owed' = Append(owed, Msg("offer"))
    /\ UNCHANGED <<config, loopVars, commands, open, ctrl, writer, reader,
                   incoming, toHost, toClient, host, applied, inputs, failed>>

\* The host's writer: video whenever it likes, else what is owed.
HostWrites(video) ==
    /\ host = "up" /\ loop # "over"
    /\ Len(toClient) < WireCap
    /\ IF video THEN toClient' = Append(toClient, Msg("video")) /\ UNCHANGED owed
       ELSE /\ owed # <<>>
            /\ toClient' = Append(toClient, Head(owed))
            /\ owed' = Tail(owed)
    /\ UNCHANGED <<config, loopVars, commands, open, ctrl, writer, reader,
                   incoming, toHost, host, offered, applied, inputs, failed>>

HostStops ==
    /\ host = "up" /\ loop # "over"
    /\ \/ "stall" \in Faults /\ host' = "stalled"
       \/ "close" \in Faults /\ host' = "closed"
    /\ UNCHANGED <<config, loopVars, commands, open, ctrl, writer, reader,
                   incoming, toHost, toClient, owed, offered, applied, inputs, failed>>

-----------------------------------------------------------------------------

\* The displays are the host's first message.  A file of the configuration is
\* offered before the loop starts, into an empty channel.
Init ==
    /\ \E c \in Configs : headless = c[1] /\ sendFile = c[2] /\ offered = ~ c[3]
    /\ loop = "select"
    /\ duty = "input"
    /\ outbox = <<>>
    /\ live = [displays |-> FALSE, frames |-> 0, outgoing |-> sendFile, incoming |-> FALSE,
               sentOk |-> FALSE, sawOffer |-> FALSE, received |-> FALSE]
    /\ commands = <<>>
    /\ open = TRUE
    /\ ctrl = IF sendFile THEN <<Msg("offer")>> ELSE <<>>
    /\ writer = "writing"
    /\ reader = "reading"
    /\ incoming = <<>>
    /\ toHost = <<>>
    /\ toClient = <<Msg("displays")>>
    /\ host = "up"
    /\ owed = <<>>
    /\ applied = 0
    /\ inputs = 0
    /\ failed = FALSE

Next ==
    \/ Loop \/ Read \/ Writer
    \/ UserInput \/ UserSends \/ UserLeaves
    \/ HostReads \/ HostOffers \/ HostStops
    \/ \E video \in BOOLEAN : HostWrites(video)

Spec == Init /\ [][Next]_vars

\* The tasks run as long as they can, and a host that is up reads what it is
\* sent.
Fairness ==
    /\ WF_vars(Loop)
    /\ WF_vars(Read)
    /\ WF_vars(Write \/ WriteFails) /\ WF_vars(WriterEnds)
    /\ WF_vars(HostReads)

FairSpec == Spec /\ Fairness

-----------------------------------------------------------------------------
(* Properties *)

\* What the user does reaches the host in order, nothing lost, doubled or
\* overtaken on the way through three queues and two tasks, as long as the
\* session and the connection last; what is cut off in the end is a tail.
InputsInOrder ==
    LET way == toHost \o ctrl \o outbox \o commands
        sent == {i \in DOMAIN way : way[i].type = "input"}
    IN  host # "closed" =>
          /\ \A i, j \in sent : i < j => way[i].n < way[j].n
          /\ \E last \in applied..inputs :
               /\ {way[i].n : i \in sent} = (applied + 1)..last
               /\ loop # "over" => last = inputs

\* The end of the connection reaches the loop from every wait: from the
\* select, and from a full channel whose writer met it first.
HostGoneEndsSession == host = "closed" ~> loop = "over"

\* What the scheduling of the code does not give.  Both selects are biased,
\* the loop's to messages over commands and the host's writer's to video: a
\* command, or an answer, is reached only if the video leaves a gap now and
\* then; and pictures need not decode.
Decodes == TakeIncoming /\ live'.frames > live.frames

LoopKeepsUp == SF_vars(TakeCommand)
HostKeepsUp == SF_vars(HostWrites(FALSE)) /\ SF_vars(HostWrites(TRUE))
PicturesDecode == SF_vars(Decodes)

\* If the loop keeps up with the video, a user who leaves is let go, whatever
\* queues in front of the Disconnect and whatever file is under way, unless
\* the host stopped reading: the loop may then wait for room for ever.  If it
\* does not keep up, the biased select need not come to the Disconnect at all.
DisconnectObeyed == LoopKeepsUp => (~ open ~> loop = "over" \/ host = "stalled")

\* A session without a window ends by itself while both ends keep up, with a
\* file to send, with one to receive, with both or none.  When a file failed,
\* at either end, Live::finished may wait for it for ever.
HeadlessEnds ==
    HostKeepsUp /\ PicturesDecode =>
        (headless ~> loop = "over" \/ host = "stalled" \/ failed)

=============================================================================
