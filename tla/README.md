# A TLA+ model of Omarchy Connect

Omarchy Connect is a remote desktop: a host on Omarchy (Hyprland, Wayland)
captures its monitors, encodes them as H.264 and sends them to a client, which
sends keyboard, mouse and files back over one TLS connection. The modules in
this directory model the parts of it that run concurrently, fail or keep state
across steps. TLC checks them on small instances; TLAPS proves nearly every safety
property of the runs for all values of the constants (section 5). Paths below are
relative to `src/`.

## 1. The system

| Component | Source | State it keeps | Operations |
|---|---|---|---|
| File transfer | `crates/protocol/src/file.rs` | sender: offsets sent and acked, accepted, complete sent; receiver: bytes written, hash, partial file | `poll`, `on_peer`; `accept`, `handle`, `cancel` |
| Transfers of a session | `session.rs` 639-720, `net.rs` 417-444 and 531-618 | one outgoing and one incoming slot at each end | `take_file_replies`, `take_file`, `queue_send`, the host's `--offer-file` |
| Host session | `session.rs` 266-575 | three tasks, a control channel of 32, a video channel of 1, a cancellation token, the session slot | `handle_client`, `drive_session`, reader and writer tasks |
| Host access | `session.rs` 79-260 and 359-425, `lockout.rs`, `state.rs`, `status.rs` | failures and lock, the PIN read, the published state | accept, hello, PIN exchange, verdict, SIGUSR1, SIGTERM |
| Settings | `settings.rs`, `main.rs` 199-276 | `settings.json` and its temporary file | `load`, `save`; `pin set`, `pin clear`, `unattended`, `video` |
| Capture | `capture/screencopy.rs`, `capture/mod.rs` | rounds, one request per output, a slot per monitor | `run`, `round_send`, `dispatch_until`, `publish`, `recv`, `close` |
| Video stream | `encode.rs`, `nal.rs`, client `decode.rs` | an encoder per monitor, ffmpeg's pipes, the splitter's buffer, the decoder's reference | `open`, `encode`, `push_bytes`, `push` |
| Getting in | client `app.rs`, `net.rs` 200-330; host `session.rs` 79-260 | a thread per attempt, the one the window shows, the host's backlog | `try_connect`, `update`, `session`, `authenticate` |
| Client session | client `net.rs` 249-500 | a reader and a writer task, a channel of 1 from the one, of 64 to the other, an unbounded one from the window, `Live` | `session`, `handle_message`, `queue_send`, `finished` |
| Client window and input | client `app.rs`, `keys.rs`; host `input.rs`, `screencopy.rs` 508-535 | cached modifiers, detached and full-screen displays; the virtual device's regions | `apply_input`, `show_detached`, `pixel_origins`, `UinputDevice::apply` |
| Wire format | `message.rs` | what `read_exact` has so far, the bytes under way | `encode`, `decode`, `read_message`, `write_message` |
| Portal capture | `capture/portal.rs`, `capture/mod.rs` | the restore token and its file, portal sessions, a PipeWire thread per share | `open_portal`, `start_screencast`, `save_token`, `pipewire_thread`, `drop`; `LiveCapture::open` |
| PIN exchange, TLS | `auth.rs`, `tls.rs` | none that outlives a handshake | SPAKE2, HMAC over the TLS exporter |
| Bar panel | `omarchy/plugin/Panel.qml`, `status.rs` | what `status --json` said last, three processes, `busy` | `refresh`, `run`, `setVideo`, start the host |
| Installer | `install.sh` | none | |

How they interact. `run_host` serves one client at a time: it awaits
`handle_client` in its accept loop, so a handshake or a session holds the only
slot. A session is three tasks joined by two bounded channels and a token. The
capture runs on a thread of its own and hands pictures over in a `FrameInbox`;
ffmpeg runs in a process whose output a further thread reads. The reader task
takes messages from the client, injects input and answers file messages through
the control channel. The CLI, and the bar through it, talk to the host only by
files: `settings.json`, which every handshake reads again, `state.json`, which the
host publishes, and by SIGUSR1. A client that connects meanwhile waits in the
listener's backlog. The portal hands out a token with a share that spares the
picker the next time; the host keeps it in a file of its own.

What is hard about it: three tasks that must end together whichever stops first;
sends and writes that no token interrupts; a bounded channel whose sender is the
only reader of the peer; a notification that is not sticky; answers of a
compositor that race a deadline; an encoder process that dies with pictures in
its pipes; bytes cut anywhere; file messages of both directions in one stream;
a lock that starts while an exchange is under way; commands that overlap, and
processes that die, between two file operations; a select that prefers one of its
branches and waits inside them; keys let go where nobody looks; a handshake without
a timeout whose window has moved on; a token that is used up by using it; a status
read before a click and shown after it. `PROJECT.json` lists these
hazards at their lines.

What makes each part correct:

- *File transfer*: the receiving user sees the whole file or nothing, the sender
  is told "confirmed" only when the file is there, "failed" only when it never
  will be; the window and the queues stay bounded; without a fault it finishes.
- *Transfers of a session*: the same for every transfer, whatever crosses or
  precedes it; without a fault no offer is refused.
- *Host session*: only the slot's client injects input; the reader never waits;
  a disconnect, a closed connection or a failure ends all tasks.
- *Host access*: guesses cost time, only a PIN
  that was active since the connection lets in, and only a wrong one is charged; the
  bar shows the truth.
- *Getting in*: client and host agree on who is in; every attempt gets in or is told
  why not, and nobody waits for a client that stalls in front of him.
- *Client session*: what the user does arrives in order and complete; the session
  ends when the host closes, when the user leaves, and when a run without a
  window is through.
- *Client window*: the host holds no key the user let go of in sight, and the
  pointer is where the user sees it.
- *Settings and panel*: saves are atomic, and the panel comes to show what is so,
  with its buttons on.
- *Capture*: no wakeup and no picture is lost, one bad output does not stop the
  others, the end of either side reaches the other; the picker comes up only when the
  portal would not restore the last share; a portal capture ends with its share.
- *Wire format*: what is read is what was written, in order, however the bytes come;
  no message the program writes makes its peer give up, but for two kinds.
- *Video stream*: the access units do not depend on how the pipe was read, and
  the decoder never misses a reference.

## 2. The modules

Integers stand for chunks, time units and pictures; messages are records.
Variables and actions carry the names of the fields and functions they stand for;
the map in `PROJECT.json` gives the lines of every definition. A definition
whose comment begins "Mutant of" is a plausible bug in the definition after it,
kept to show that a property notices; no behaviour uses it.

**FileDelivery** is the promise of a transfer to its two users: `Deliver`,
`Confirm`, `Fail`, each at most once, in an order that makes sense.

**FileTransfer** is one transfer in full. A handler is one action that takes one
message (`OnAccept`, `OnAck`, `OnCompleteEcho`, `OnCancel` at the sender,
`OnOffer`, `OnChunk`, `OnComplete` at the receiver), each followed by the poll
that the session makes, and every early return is a disjunct. Disk errors, read
errors, garbled bytes and the loss of the connection are actions or disjuncts
that the constant `Faults` allows. Chunk k holds the number k; a hash is the
sequence of bytes it was taken from, so two hashes are equal exactly if the bytes
are. `DeliveryPromise` is the refinement of FileDelivery, with `delivered` mapped
to the file under its final name.

**Transfers** has both slots of both ends and the stream between them. Each message is
asked of the outgoing transfer first, then taken as an offer, then given to the
incoming one, as the code does; `Claims` and `Receives` are those decisions. The host
offers one file before its reader starts, the client any number when its slot is free.
`NextId` sets `HostBit` in the host's ids; that it lies above every number counted is
an assumption (`FilesAssumption`; the bit is 2^31 in the code). `EveryDelivery` says
that each file keeps the promise of FileDelivery, where delivered means saved under
its name with its bytes.

**SessionTasks** has the session's three tasks as program counters (`main`,
`reader`, `writer`), the two channels, the token and the client's end of the
connection. A step runs from one await to the next. That `send_frame`, a write and
`shutdown` look at no token is in the guards: only the `select!`s do.
An encoder error takes `EncodeFails`, which leaves the token and the tasks alone
as the `?` does. Of file messages `Read` takes two kinds, as `take_file_replies`
does: one of the client's file has one reply or none, an answer to the file that the
host offers lets the reader send on as far as the sender's window (`OwnWindow`,
counted by `Flight`) goes, several chunks at once after an accept; `Feed` is the loop
that puts them into the channel one by one, each when there is room.

**HostAccess** has one variable `phase` for where `run_host` is with its client,
the lockout, the settings, the state file, the process and a clock. `ReadPin` reads
the settings, `StartExchange` looks at the lock, `WrongPin` and `RightPin` judge:
three steps, with changes of settings and time between them. The lock doubles with
each failure; `Shifted` lists the eleven powers of two the code's shift can give. `Crash` ends the
process anywhere and `Start` begins a new one with an empty lockout. The state is kept
twice, in memory (`live`) and in the file, and every change goes through `Publish`,
which writes all of it or, if the write fails, leaves the file as it was (`Keep`), as
`Publisher::update` does; the removal at the end may fail as well. What the bar reports
is `Reported(others)`: the code asks only whether the pid in the file is alive, so it
depends on which pids other processes have, and `StatusIsTruthful` says what holds for
every such set.

**Admission** extends HostAccess with this client's side: the window's attempts,
each a thread that reads what `Expected` says and answers with `Answer`, the message
under way in each direction, and the connections the host has not accepted. Each
host action of HostAccess is joined with the message it takes or sends (`Take`,
`Say`, `HangUp`). `Leave` is the user who goes back to the form: the thread runs on
and looks at its commands only once it is in. `FallSilent` is a network that goes
without telling anyone. A behaviour is one of two kinds: strangers connect and the
clock and the settings move, as HostAccess has it, or this client connects, both
stand still and writes succeed; the product of the two is beyond TLC.

**SettingsStore** has files as objects apart from their names, so that a file
opened before a rename is still written after it. Commands load, open and truncate
the temporary file, write and rename, in four steps; any may die between two.

**Panel** puts the bar's panel and a terminal over it. Of the panel's three
processes one reads the status at one moment and shows it at a later one
(`StatusReads`, `StatusEnds`), one runs the command of a click, one starts the host.
`Refresh` is dropped while a status process runs, as the code drops it. A click makes
a command whose new settings depend on what is shown (`setVideo` writes back the
value the other button shows).

**FrameInbox** is the slot per monitor with tokio's `Notify` as documented there:
`notify_one` leaves a permit if nobody waits, `notify_waiters` leaves nothing.
`recv` has three steps: pop, look at `closed`, wait. **Screencopy** is the capture
thread in front of it, instantiated as `Inbox`, with a compositor that answers,
fails, sleeps or changes an output's mode.

**Portal** is `open_portal` with its second attempt without a token, the token file
written in two steps, and portal sessions and PipeWire threads, which outlive the
opening that made them. The portal itself is external: it honours some tokens, may
issue one with each share and drop the one used, and may show the picker of an
opening that nobody waits for any more. **LiveCapture** is the choice between
Screencopy and Portal by the capture mode, with the portal asked in mode "auto"
where screencopy is refused.

**MessageStream** is the promise of one direction of a connection: what is received
is a prefix of what was sent. **MessageCodec** has the bytes. `Puts` and `Gets` list
the fields that `encode` appends and `decode` takes, apart from each other because
the code writes them apart; integers keep width and sign, texts are bytes that
`Utf8` accepts or not, and `Clip` cuts at the limit. `IsMessage` is what the program can
ask `encode` for: the fields of the kind with values of their Rust types. **Wire** is `write_message` and
`read_message` over a stream that hands over any piece, ends, or breaks anywhere,
and a reader that may be dropped at any byte. `StreamPromise` is its refinement of
MessageStream. **ByteStreams** puts Wire and VideoStream into one specification, as
the two places that take messages out of a stream in pieces; they share no state.

**NalSplit** is the splitter of `nal.rs` on sequences of bytes. `StartCodes`,
`Boundary` and `Cuts` say which places are start codes, which NALs open a unit and
where the buffer is cut; `ScanStarts` is the loop as it is written, and
`SplitIgnoresReads` compares the two. **VideoStream** adds the encoders, ffmpeg's
pipes, the thread that reads them in pieces of any length, and the client's decoder,
which decodes a P picture correctly only after its predecessor of the same encoder. A
slice names its picture by encoder and index, and a picture of x264 is one of them
though x264 may slice it, since its slices share a packet; what surrounds it is one of a few
shapes, of which `EncoderAssumption` in ByteStreams says what they are taken to be.

**ClientSession** is the client's `session` after the handshake. `TakeIncoming` and
`TakeCommand` are the branches of the biased select, the second with the first one's
absence in its guard; a branch that sends goes through the state "sending", where
`Send` waits for room, so that what can happen in between does. `Leave` is every
way out of the loop, with the queues that are dropped there; `SendFails` shows which
failed sends end the session. A file message that no transfer waits for changes
nothing (`TakeFile`). Either end may fail with a file, to open, read or store it: the
other is told nothing, or gets a cancel, and `failed` records it. The reader and the
writer are one step per message. The host answers files and sends video; it closes or
stalls when `Faults` lets it.

**DisplayLayout** has the arithmetic of monitors: `PixelOrigins` places the pictures
in the overview, `ToLayout` and `PointerAt` map a pixel of a picture to a step of
the host's pointer. The code places the monitors in the order in which they begin;
all this order does is that those before a monitor are placed when it is, and
`Placed` is the recursive function that says so. `Apart` is what a compositor
guarantees of a desktop: no two monitors overlap. **ClientInput** puts it between a user and a virtual device.
`Frame` is `apply_input` on a batch of events: it looks at the modifiers once
(`SyncMod`, a call for each), then takes the events one by one (`Take`, and
`Progress` for what has become of the batch after each), with F11, Escape and the release of a button
outside a picture each treated as there. `Unseen` is what a user does
while no window or the path field has the focus. A pixel is a fraction of the picture;
the scale of the window, which cancels out, and the clamp of `app.rs:890-899` to just
below its edge are left out. What the user holds (`down`) and
let go of out of sight (`missed`) are history for the properties. Between the window and
`HostApplies` is a queue in order, which is what ClientSession's `InputsInOrder`
provides.

Each `MC*` module only defines constants for TLC.

## 3. The runs

All runs check deadlock off: a transfer that is over, a host that was stopped, a
session whose bound is reached have nothing left to do.

| Run | Bounds | What it shows |
|---|---|---|
| FileTransfer | files of 0..9 chunks, window 4, all faults | the stages of the protocol (`Protocol`, the inductive invariant of the proofs), `SavedWhole`, `QueuesBounded`, `OnlyCancelFails`, the refinement, and `EventuallyConfirmed` |
| FileTransferUnanswered | 2 chunks, disk faults | violation: a completed transfer without an answer |
| Transfers | one file of the host, three of the client, files of 0 or 5 chunks, window 3, two faults | `SlotsAgree`, `EveryDelivery`, `EveryFileConfirmed` |
| SessionTasks | one session, control channel of 5, one file message of the client's unanswered, a window of 2 for the host's own file, one mode change, all faults | who injects, `ReaderNeverWaits`, and that disconnects, closed clients and failures end a session |
| Admission | 2 PINs; for strangers locks of 1 and 2 units from the second failure, 4 time units, 4 failures, 2 starts, 2 changes of the settings, one failed write; 2 connection threads of this client | `GuessRate`, `JudgedByRecentPin`, `StatusIsTruthful`, `EndsAgree`, `AttemptsEnd` |
| Panel | 2 commands, one PIN, two rates, two bitrates, one upset | `SavesAreAtomic`, `PanelCatchesUp` |
| SettingsStoreRemoved | 2 commands | violation: a removed PIN comes back |
| LiveCapture | 2 outputs, 2 sizes of which one is too small, one mode change; 3 shares of the portal, 2 upsets | `NoPictureSleeps`, `NothingReadyIsDropped`; `PickerOnlyWhenNeeded`, `CapturesEnd` |
| ScreencopyLive | 2 outputs, 1 size, one change | `EndsReachEachOther`, `SteadyKeepsFlowing` |
| ByteStreams | 1 to 3 messages of every type, at and over each limit (texts of 4 bytes, 2 displays, frames of 70 bytes); 4 pictures, one change of size, a keyframe every third picture, two shapes of each access unit | `StreamPromise`, `OnlyOversizeIsRefused`, `EverythingIsRead`; splitter and decodability |
| ClientSession | control channel, connection and frame limit of 1, 3 inputs of the user, 3 commands waiting; all faults, those of files included; without a window all combinations of files, with one the user's | `InputsInOrder`, and the three ways a session must end |
| ClientInput | 4 layouts of two monitors, 3 steps with up to 2 events a frame, 1 message under way when the user acts | `ModifiersAgree`, `NothingStuck`, `PointerOnTarget` |

Why the bounds are enough. The window of 4 chunks is the code's (64 KiB of 16 KiB
chunks), and with 9 chunks gives two full windows and a rest, every order of acks and
polls, and every place for a fault. Two slots per end and three files in a row reach a
transfer after a failed one and beside one the other way; five chunks with a window of
three keep chunks under way long enough for a receiver's cancel to find its sender
still open. One session suffices for the tasks' liveness, since sessions share only
the slot; a control channel of 5 is exactly what a reply to the client's file, a window
of two chunks of the host's own, one change of mode and one announcement more can fill,
which is the theorem's bound (the code has 32 places for windows of 4 and 4). Two starts are a crash and a restart, and one failed write is one
anywhere, the first and the removal included. Two connection
threads are one the user sees and one left behind, in front of it in the backlog or
after it. Two commands overlap in every way two can. Two outputs show one output's
harm to another. Three shares of the portal are one whose token is saved, one restored
from it or refused, and the second attempt of that opening or the next session's; two
upsets are a failed call and a failed write, crash or dropped opening. A read brings
one byte or all there is: every way to cut a stream leads through the states these
reach. Of the limits of the wire only the relations matter: a text of the limit, one
over it, one that it cuts within a character, a frame that fits exactly and one of a
byte more; integers keep the code's widths. Four pictures with a keyframe every third
reach a second keyframe, and a switch of encoder at every position of the group. With
channels of one place every wait of the client's session happens, and three inputs
fill the channel, the loop and the queue behind it; a file is two messages each way
there, since Transfers has the rest. The layouts are a scaled monitor left of another
one, one left of the origin, one above, and one that touches by a corner at a scale of
3/2; three steps of two events are enough to press in one window, move the focus or
change Shift, and release in another.

### Fairness

- *FileTransfer, Transfers*: both ends keep reading and the host or user makes
  its first move; nothing is assumed of faults. The tasks behind it loop for ever.
- *SessionTasks*: tokio runs every task that is ready (weak fairness on each
  task's own steps). Two choices are strong: drive_session's `select!` is not
  biased and picks at random among its ready branches, so a cancelled token that
  is ready at every turn is taken at some turn, and so is the end of the reader. The
  client reads unless it stalls; nothing makes it resume, send or close.
- *Admission*: the host accepts while it is free, the handshake's timeout fires, a
  session ends whose client is gone or whose token fired (what SessionTasks shows),
  the accept loop's `select!`, random as above, sees the shutdown, and a connection
  thread runs while its network carries it. Nothing is assumed of a client that fell
  silent or of the user.
- *Panel*: the timer goes off again and again, and every process ends.
- *Wire*: the writer and the reader run, and the stream carries what it was given;
  nothing forbids that it breaks.
- *LiveCapture*: the tasks that close shares run, and a PipeWire thread sees its flag.
- *ClientSession*: the tasks run and a host that is up reads what it is sent (weak
  fairness), no more. What the code's scheduling does not give is not assumed by the
  specification but stands in the properties as their premise. `DisconnectObeyed` is
  about sessions with `LoopKeepsUp`: the loop's select is biased, and video that
  leaves no gap keeps the commands, Disconnect among them, waiting for ever.
  `HeadlessEnds` is about those with `HostKeepsUp`, for the host's biased writer has to
  come to its answers, and `PicturesDecode`, which is OpenH264's affair.
- *Screencopy*: the thread runs and its deadline passes; the session comes back
  to `recv`; an output that is awake answers. The last is strong, since each
  request is a new one: `SteadyKeepsFlowing` is about outputs that answer, while
  the others never need to.

## 4. Disagreements between the code and what it says

Two runs end in a violation on purpose:

- `CompleteIsAnswered`: `message.rs` says that the receiver of a complete message
  echoes it or cancels. On a hash mismatch (`file.rs:310`) the cancel is
  built and dropped, on a disk error (`file.rs:314-318`) none is built; the
  session logs it, and the sender waits until the session ends.
- `RemovedPinStaysRemoved`: README.md says that "**Remove PIN** forgets it", but
  commands that overlap share one temporary file. In the trace `unattended on` loads
  the PIN and opens the file that `pin clear` wrote; `pin clear` renames it to
  `settings.json` and reports success; `unattended on` then writes the PIN into it.

Two more are in the properties that hold. `session.rs:181` says that SIGUSR1 "ends
the current session", but `send_frame` waits for the video channel outside the
`select!`, so a client that stops reading holds the session: `DisconnectEndsSession`
excepts a stalled client. `nal.rs:4-6` says that a unit is emitted once the next one
has started; `push_bytes` waits until the first NAL of the next one is complete,
so the buffer may keep two pictures.

Seen while modelling, with no statement in the repository that says otherwise: a
failed `poll` keeps the sender's slot (`session.rs:663`, `net.rs:541`), so the
session can send no further file; an encoder error detaches reader and writer
(`session.rs:565`), which end only with their client; a reader that meets the
closed control channel first returns without cancelling (`session.rs:520`); a
restart of the host lifts a lock; a write of `state.json` that fails is only logged
(`state.rs:55`), so the bar shows the state before it until the next one; a pid that is
alive is taken for the host (`status.rs:80`), so a file left behind by a crash shows a
host again once the pid is reused; `close` of the inbox can be missed when it falls
between `recv`'s two checks (`mod.rs:69-72`; `EndsReachEachOther` excepts exactly that);
the pop in `recv` takes the youngest picture first and can starve a monitor. In the
client: a run without a window in which a file fails at either end
may never finish, since `Live::finished` waits for it
(`HeadlessEnds` excepts it); the last echo may be aborted with the writer
(`net.rs:346`), so that the host never learns its file was saved; a reply that
cannot be sent is reported as "session complete" (`net.rs:403`). Between window and
device: a key or button let go out of sight stays pressed on the host, a modifier
only until the next frame in sight; the release of F11 and Escape is forwarded
though their press was taken; the device's regions and the overview's origins are
not renewed when a monitor changes its mode, so the pointer can land on the
neighbour (`PointerOnTarget` excepts such sessions).

On the wire: a stream cut within the four bytes of a length is reported `Closed`,
like an orderly end, and one cut within a body is not; a text that its limit cuts
within a UTF-8 character, and more displays than the limit, are encoded and then
refused by the peer's decoder (`OnlyOversizeIsRefused` names both). While
connecting: an attempt the user left goes on, may wait in the host's backlog, and
then counts a wrong PIN, or gets in for a moment before it obeys its Disconnect. In
the portal: any failure with a saved token removes the file, though the log says
"restore token rejected" (`portal.rs:58-62`), even a token that was saved a moment
before; a failed or dropped opening leaves its share or its picker open; a share
that the user revokes is not noticed; `save_token` truncates before it writes. In
the panel: `setVideo` writes back the value that the other row shows, which may be
older than the file, so that a second click soon after the first can undo it until
the user looks again, where `Panel.qml:8-11` says that daemon, terminal and panel
never disagree; `PanelCatchesUp` is what does hold.

## 5. The proofs

Eight modules named `*_proofs` hold the theorems. They quantify over every value of the
constants that satisfies the named `ASSUME`s of the modules, which say no more than what
a constant is (a set of sizes is one of naturals, None is no message, a script is a
sequence of messages the program can write), with four exceptions that are stated
below: `ApartAssumption`, `LimitsAssumption`, `EncoderAssumption` and the hypothesis of
`InputIsNotHeldUp`. The bounds of the runs, on faults, sessions, files, commands and
time, are constants as well, and the theorems hold for every value of them.

| Module | Theorem | Statement |
|---|---|---|
| FileTransfer_proofs | `TypeCorrect`, `StagesCorrect` | `Spec => []TypeOK`, `Spec => []Protocol` |
| | `DeliveredWhole`, `WindowKept`, `QueuesStayBounded` | `Spec => []SavedWhole`, `[]AckChain`, `[]QueuesBounded` |
| | `FailureMeansCancel` | `Spec => OnlyCancelFails` |
| | `ImplementsDelivery` | `Spec => DeliveryPromise`, the refinement of FileDelivery |
| Transfers_proofs | `TypeCorrect`, `OnlyWholeFilesAreSaved` | `Spec => []TypeOK`, `Spec => []SavedWhole` |
| | `EveryFileIsDelivered` | `Spec => EveryDelivery`, the refinement of FileDelivery by each file |
| | `SlotsNeverDisagree`, `NothingFailsByItself` | `Spec => []SlotsAgree`; without a fault no verdict is "failed" |
| Host_proofs | `TypeCorrect`, `OneClientInjects` | `Spec => []TypeOK`, `Spec => []OnlyTheSlotInjects` (Spec is SessionTasks'), which excepts sessions dropped by an encoder error |
| | `OneClientInjectsWhileEncoding` | every reader that is alive is that of the slot's session, if no encoder fails |
| | `InputIsNotHeldUp` | `Spec => []ReaderNeverWaits`, if `CtrlCap >= FileWindow + OwnWindow + MaxResizes + 1` |
| | `SavesAtomically` | `StoreSpec => SavesAreAtomic` |
| | `RemovedPinStaysWithoutOverlap` | `StoreSpec => [](~ overlapped => PinForgotten /\ RemovedPinStaysRemoved)` |
| | `PanelUsesTheCommands`, `ClicksAreAtomic` | `PanelSpec => StoreSpec`, `PanelSpec => SavesAreAtomic` |
| Admission_proofs | `TypeCorrect`, `GuessesAreRare` | `Spec => []TypeOK`, `Spec => []GuessRate` (Spec is HostAccess's) |
| | `JudgedByTheSettings`, `TheBarIsTruthful` | `Spec => []JudgedByRecentPin`, `Spec => []StatusIsTruthful` |
| | `ImplementsHostAccess`, `PromisesOfTheHostHold` | `AdmissionSpec => Spec`, and so the three invariants |
| | `BothEndsAgree` | `AdmissionSpec => []EndsAgree` |
| LiveCapture_proofs | `NoWakeupIsLost`, `RoundsLoseNothing` | `CaptureSpec => []NoPictureSleeps`, `CaptureSpec => NothingReadyIsDropped` |
| | `ScreencopyTypeCorrect` | `Spec => []TypeOK`, which bounds the inbox by one picture a display |
| | `PickerIsSpared` | `CaptureSpec => PickerOnlyWhenNeeded` |
| Client_proofs | `InputsStayInOrder` | `Spec => []InputsInOrder` (Spec is ClientSession's) |
| | `PicturesDoNotOverlap` | two pictures of the overview have no point in common |
| | `ModifiersStayInStep`, `NothingStaysPressed` | `InputSpec => []ModifiersAgree`, `InputSpec => []NothingStuck` |
| | `PointerLandsOnTarget` | `InputSpec => []PointerOnTarget` |
| ByteStreams_proofs | `RoundTrip` | `Decode(Encode(m))` is `m` as it arrives, if `m` can be carried, and an error if not |
| | `WireInvariant`, `OnlyOversizeIsRefusedHolds` | `StreamSpec => []WireInv`, `StreamSpec => []OnlyOversizeIsRefused` |
| | `StreamPromiseHolds` | `StreamSpec => StreamPromise`, the refinement of MessageStream |
| VideoStream_proofs | `VideoInvariant` | `StreamSpec => []VideoInv` |
| | `SplitIgnoresReadsHolds`, `UnitsArePicturesHolds` | `StreamSpec => []SplitIgnoresReads`, `StreamSpec => []UnitsArePictures` |
| | `StreamDecodableHolds` | `StreamSpec => []StreamDecodable` |

Host_proofs is about SessionTasks and about SettingsStore with its Panel, which share no
variable; VideoStream_proofs goes on from the lemmas of ByteStreams_proofs.

Every argument is the same three steps, an initial one, one per action and a
conclusion; what differs is the invariant that makes it go through.

*FileTransfer* (`IInv`). `SavedWhole` alone is not inductive: whether the hash of a
complete message matches depends on what was sent, and whether the acks run ahead
depends on everything under way in both directions. `Protocol` therefore says in
which of four stages a transfer is, *NotOffered*, *Offered*, *Streaming* or
*Completing*, and what is under way in each: while streaming, the chunks under way
ascend and none lies before what was received, the acks under way count up from
`acked` one by one, and together they are no more than `next - acked`. The
refinement holds because only `OnComplete` makes `disk` saved, only `OnCompleteEcho`
confirms, and a cancel is never under way when the file is saved.

*Transfers* (`DInv`, and `Calm` without faults). With faults nothing ties a message
to the transfer that is in the slot when it arrives, so `DInv` speaks of one message
and its file: an ack under way is of no more than was sent, a cancel is of a file that
is `Dead`, an echo is of a file that was saved, an offer is there once. From it follow
`SavedWhole` and the refinement for each file. Without faults `Calm` adds which of six
places each direction is at, from `Idle` to `Echoed`, with exactly the messages that
are then under way and their order. `SlotsAgree` is a consequence; it is not
inductive, since a slot that is wrong shows only when the next offer meets it.

*SessionTasks* (`SlotHeld`; `Room`, `FedAll`). Only the slot's reader injects because the slot
belongs to the session that `main` is in, and no other reader is alive unless its tasks
were dropped. For the reader `Room` counts what the control channel holds: the replies
are no more than the client's file window, the announcements no more than one and the
mode changes so far; `FedAll` adds that the host's own file has no more than a window of
messages under way, with those the reader has yet to queue. So a
channel with `CtrlCap >= FileWindow + OwnWindow + MaxResizes + 1` always
has room. The code has 32 places and windows of 4 and 4: the theorem covers it while a
session sees at most 23 changes of mode in all. Counting needs a
few lemmas on how often a message is in a sequence (`Occurrences`).

*HostAccess, Admission* (`Locks`, `Recent`, `Published`; `EInv`). `GuessRate` is about
the time waited; a wrong PIN has to find that time served, so `Locks` adds the rest of
the lock that runs: (failures - free + 1) locks are no more than the time waited plus
what is left, and a PIN is judged only when nothing is left; the bound is the base lock's, what the
doubling adds is not stated. `Published` says that the memory always has the phase and
the lock, that the file has the memory's if the last write succeeded and
is gone if the last removal did. Each Admission step is a
step of HostAccess or leaves its variables alone, which is the refinement. For
`EndsAgree` the invariant says where both ends of a handshake are: at the same place or
one a message ahead (`InStep`, nine cases), with the message that is under way then, a
backlog without doubles, and nothing under way to a client that is not served.

*SettingsStore, Panel* (`SInv`). While no two commands overlap, a command that has
opened the temporary file is the one whose file has that name (`Alone`), and no
value that waits to be saved holds the removed PIN (`Forgets`). `SavesAreAtomic` is
an action property and follows step by step. That the finding `RemovedPinStaysRemoved`
needs an overlap is a theorem of its own. The panel's steps are the store's or none.

*LiveCapture* (`Rounds`, `TokenInv`). `NoPictureSleeps` is inductive. A round loses
nothing because what is ready has a frame that is done or none, and a round ends only
with no frame ready. `PickerOnlyWhenNeeded` needs to know where a token is between the
portal's answer and the file: while the portal would honour the newest share, its token
is the one at hand, being written, in the file, or being tried (`Remembered`), and
shares are numbered in the order they come (`Numbered`).

*ClientSession* (`SessionInv`). Each of the four queues on the way of an input carries
a `Run`, the consecutive inputs after one number up to another, and a run begins where
the one before it ends (`Chain`), until the connection closes. A step takes one off
one end or moves one over; `outbox` has inputs only while the loop's duty is input.

*DisplayLayout, ClientInput* (`InputInv`). `PicturesDoNotOverlap` goes by the order of
the monitors on an axis: one that begins where another ends, or after it, has its
picture behind the other's (`PicturesInTurn`). It needs `ApartAssumption`, and so does
`PointerOnTarget`: overlapping monitors cannot be told apart by a point.
`PointerLandsOnTarget` adds integer arithmetic, that
`(p * size * 8) div pixels` is below `size * 8` for a pixel p of the picture
(`PixelInRegion`), that the device's axes contain every monitor, and `Aims`: each
message under way names the picture under the pointer. The other two are about
`HeldAfter`, what the host holds once the messages of a sequence are applied: one lemma
for a message at its end, one for a message at its head. A batch keeps `BatchInv`, that
nothing is held but what is down or was missed and that modifiers are left to `SyncMod`.

*Wire, MessageCodec* (`WireInv`). Encoding writes the fields of a message one after the
other and decoding takes them off again; `RoundTrip` rests on one lemma for each kind of
field, that it is read back from wherever it lies (`Rests` and `NumberBack` for a number,
little endian), and on `LimitsAssumption`, that a length within its limit fits the width
it is written in. The invariant then says where the bytes lie: what was written is the
frames of the messages one after the other (`LinedUp`), and what the reader has of a
frame with what is in the pipe begins at the first message it has not taken (`Lies`,
`UnderWay`), wherever the reads ended. So a message that is complete decodes to the one
that was written, and the reader stops with an error only at one that is too long.

*NalSplit, VideoStream* (`VideoInv`). A start code, a boundary and a cut are places with
a property, so what a scan collects is the ascending list of a set (`Lists`), and two
lists of one set are equal (`OneList`). That the reads do not matter is one lemma:
splitting s, and then what arrives behind what was kept of it, is splitting the whole
(`Resume`). It rests on two facts: a NAL that another follows is the same whatever is
appended (`FoundInTime`, `OpeningExtend`), and behind a cut the rest opens its units
where the whole does (`OpeningTail`), because the code cuts only where the count of
slices begins anew. `ScanFinds` shows by induction from the end that the loop over
the bytes finds those start codes.
The invariant then says what the bytes are: the pictures of one encoder from its
first, one slice each, every NAL complete (`IsPictures`). A picture that ffmpeg appends
keeps that (`OnePictureMore`), because the bytes of a NAL never make a start code with
what follows: they end in one that is not zero. A unit, from one cut to the next, has one
slice at most (`OneSlice`), so the units show the pictures in their order
(`UnitsInOrder`). What the client has decoded of an encoder is always a first part of
what was split (`IsSent`), and the picture decoded last is the last of it. An encoder that
is lost takes its channel and its carry with it, and the next one begins with a keyframe.
`EncoderAssumption` is what these proofs, and the splitter, ask of ffmpeg and x264: a
picture is one slice at the end of its NALs, parameter sets come with a keyframe and
nothing opens a unit between them and its slice, and the first picture of an encoder
is a keyframe. A picture in two slices would be cut into two units.

Two techniques recur. Induction is over sets of naturals with a least element
(`WFMin` of the library), since the induction theorems with an operator as
parameter are out of reach of the provers. And for a recursive function (`Placed`,
`Progress`) it is first proved that its equation has a solution, then that the
`CHOOSE` behind it satisfies the equation.

All eight modules together take about thirty-five minutes, VideoStream_proofs and
ByteStreams_proofs most of it.

Only model-checked, and why:

- All liveness: TLAPS has no rule for fairness and ENABLED that its provers support.
- That is all: every safety invariant and action property that a run checks is a theorem.

## 6. Not modelled, and why

- SPAKE2, the MACs and TLS: cryptography, taken by what it decides. The other modules
  take a message as a unit that arrives complete and in order, which TLS over TCP
  and `read_message` (Wire) provide.
- Pixels (`yuv.rs`, `synthetic.rs`, the GUI's drawing, the portal's formats and
  PipeWire's buffers): pure computation; pictures of the portal go through the
  FrameInbox as Screencopy's do.
- Of the client's windows the wheel, the buttons painted over a picture, and the
  fields and texts of the connect form.
- Of the panel its Disconnect and reset of the share, which only occupy the process
  that runs clicks, its messages and the clipboard.
- `install.sh`, argument parsing, paths: no state of their own that a step of the
  others depends on.
- The product of this client's attempts with moving settings and the clock, and
  Screencopy and Portal in one session's pictures: beyond what TLC covers here.

## 7. Plan

In order of importance; the first seven stages are what sections 2 to 5 describe.

1. *Done*: FileDelivery, FileTransfer with its proofs, Transfers.
2. *Done*: SessionTasks, HostAccess, SettingsStore.
3. *Done*: FrameInbox and Screencopy, NalSplit and VideoStream.
4. *Done*: ClientSession, DisplayLayout and ClientInput.
5. *Done*: MessageCodec, MessageStream and Wire; Portal and LiveCapture.
6. *Done*: Admission, the composition of HostAccess with its clients; Panel, that of
   SettingsStore with the bar.
7. *Done*: the proofs of section 5, for every component.
8. Compositions: ClientSession with SessionTasks, to show that their channels form
   no cycle that fills; ClientInput over ClientSession in place of its queue, where
   `InputsStayInOrder` and `HeldAfter` meet.
