----------------------------- MODULE Screencopy -----------------------------
(***************************************************************************)
(* The capture thread of crates/host/src/capture/screencopy.rs: Grabber    *)
(* asks the compositor for one frame of every output per round, publishes  *)
(* each to the FrameInbox as it becomes ready, and gives up on the rest at *)
(* the round's deadline.  drive_session reads the other end of the inbox.  *)
(*                                                                         *)
(* The compositor is external: it answers a request with the size of a     *)
(* buffer, copies into the buffer it is given, and says ready or failed;   *)
(* an output that sleeps answers nothing, and one may change its mode.     *)
(* The deadline may pass at any time the compositor is silent.             *)
(***************************************************************************)
EXTENDS Integers, Sequences

CONSTANTS
    Outputs,        \* indices into State.outputs
    Sizes,          \* what the Spec of a buffer may say
    Tiny,           \* the sizes too small for a display
    None,           \* no Spec: no usable format was offered, or no buffer
    MaxModes        \* bound: mode changes of the compositor's outputs

ASSUME OutputsAssumption == Outputs \subseteq Nat
ASSUME TinyAssumption == Tiny \subseteq Sizes /\ None \notin Sizes
ASSUME ModesAssumption == MaxModes \in Nat

VARIABLES
    grab,           \* where the thread is
    spec,           \* Output.spec
    shm,            \* the Spec of Output.shm
    pending,        \* Output.pending
    sent,           \* the outputs round_send is done with
    ids,            \* the size of each display, None for an output without
    late,           \* dispatch_until returned false
    heard,          \* this call of dispatch_until handled an event
    stop,           \* ScreencopyCapture was dropped
    screen,         \* the compositor: the size of each output, None if unusable
    asleep,         \* the compositor: DPMS off
    frame,          \* the compositor: how far it is with each request
    modes,          \* mode changes so far
    shown,          \* history: the outputs published in this round
    slots, closed, permit, producer, consumer, missed

Inbox == INSTANCE FrameInbox WITH Monitors <- Outputs

inboxVars == <<slots, closed, permit, producer, consumer, missed>>
compositorVars == <<screen, asleep, modes>>
grabVars == <<grab, spec, shm, pending, sent, ids, late, heard, frame, shown>>
vars == <<grabVars, compositorVars, stop, inboxVars>>

Listed == {o \in Outputs : ids[o] # None}

-----------------------------------------------------------------------------
(* A round: begin_round, dispatch_until, end_round *)

BeginRound ==
    /\ pending' = [o \in Outputs |-> "waiting"]
    /\ frame' = [o \in Outputs |-> "asked"]
    /\ grab' = "scan"

EndRound(at) ==
    /\ pending' = [o \in Outputs |-> IF pending[o] = "waiting" THEN "failed" ELSE pending[o]]
    /\ frame' = [o \in Outputs |-> "none"]
    /\ grab' = at

Dispatching == grab \in {"connect", "dispatch"} /\ ~ late

\* attach: a buffer of the offered size, made anew when the size changed.
Attach(o) ==
    \/ /\ spec'[o] = None
       /\ pending' = [pending EXCEPT ![o] = "failed"]
       /\ frame' = [frame EXCEPT ![o] = "done"]
       /\ UNCHANGED shm
    \/ /\ spec'[o] # None
       /\ shm' = [shm EXCEPT ![o] = spec'[o]]
       /\ frame' = [frame EXCEPT ![o] = "copying"]
       /\ UNCHANGED pending
    \/ \* create_buffer fails
       /\ spec'[o] # None
       /\ shm[o] # spec'[o]
       /\ shm' = [shm EXCEPT ![o] = None]
       /\ pending' = [pending EXCEPT ![o] = "failed"]
       /\ frame' = [frame EXCEPT ![o] = "done"]

\* Event::Buffer and Event::BufferDone.  A format without a pixel order
\* leaves the Spec as it was.
OnBuffer(o) ==
    /\ Dispatching
    /\ frame[o] = "asked"
    /\ ~ asleep[o]
    /\ spec' = [spec EXCEPT ![o] = IF screen[o] = None THEN spec[o] ELSE screen[o]]
    /\ Attach(o)
    /\ heard' = TRUE
    /\ UNCHANGED <<grab, sent, ids, late, shown, compositorVars, stop, inboxVars>>

\* Event::Ready and Event::Failed.  A copy of another size than the output has
\* by now fails.
OnAnswer(o) ==
    /\ Dispatching
    /\ ~ asleep[o]
    /\ \/ frame[o] = "copying" /\ shm[o] = screen[o] /\ pending' = [pending EXCEPT ![o] = "ready"]
       \/ frame[o] \in {"asked", "copying"} /\ pending' = [pending EXCEPT ![o] = "failed"]
    /\ frame' = [frame EXCEPT ![o] = "done"]
    /\ heard' = TRUE
    /\ UNCHANGED <<grab, spec, shm, sent, ids, late, shown, compositorVars, stop, inboxVars>>

\* Mutant of Expire: no deadline.
NeverExpire == FALSE /\ UNCHANGED vars

\* dispatch_until returns false: the deadline passed in silence.
Expire ==
    /\ Dispatching
    /\ ~ heard
    /\ late' = TRUE
    /\ grab' = IF grab = "dispatch" THEN "scan" ELSE grab
    /\ UNCHANGED <<spec, shm, pending, sent, ids, heard, frame, shown,
                   compositorVars, stop, inboxVars>>

\* dispatch_until returns true.
DispatchDone ==
    /\ heard
    /\ heard' = FALSE
    /\ grab' = IF grab = "dispatch" THEN "scan" ELSE grab
    /\ UNCHANGED <<spec, shm, pending, sent, ids, late, frame, shown,
                   compositorVars, stop, inboxVars>>

\* The Wayland connection breaks: connect or run returns the error.
ConnectionLost ==
    /\ Dispatching
    /\ grab' = IF grab = "dispatch" THEN "close" ELSE "refused"
    /\ UNCHANGED <<spec, shm, pending, sent, ids, late, heard, frame, shown,
                   compositorVars, stop, inboxVars>>

-----------------------------------------------------------------------------
(* connect: one round that publishes nothing, to learn the sizes *)

\* round waits for every output, or the deadline; layout then lists the
\* outputs with a usable size, and without any there is no capture.
Connected ==
    /\ grab = "connect"
    /\ ~ heard
    /\ late \/ \A o \in Outputs : pending[o] # "waiting"
    /\ EndRound(IF \E o \in Outputs : spec[o] # None THEN "between" ELSE "refused")
    /\ ids' = [o \in Outputs |-> IF spec[o] \in Tiny THEN None ELSE spec[o]]
    /\ late' = FALSE
    /\ UNCHANGED <<spec, shm, sent, heard, shown, compositorVars, stop, inboxVars>>

-----------------------------------------------------------------------------
(* run and round_send *)

\* Mutant of BeginSend: the flag is not looked at.
BeginSendAnyway ==
    /\ grab = "between"
    /\ BeginRound
    /\ UNCHANGED <<sent, late, heard, shown, spec, shm, ids, compositorVars, stop, inboxVars>>

BeginSend ==
    /\ grab = "between"
    /\ ~ stop
    /\ BeginRound
    /\ UNCHANGED <<sent, late, heard, shown, spec, shm, ids, compositorVars, stop, inboxVars>>

\* What publish_ready acts on.
Due(o) == o \in Listed \ sent /\ pending[o] \in {"ready", "failed"}

\* publish_ready goes through the displays in the order of their indices.
Scanning(o) ==
    /\ grab = "scan"
    /\ producer = "idle"
    /\ Due(o)
    /\ \A other \in Outputs : Due(other) => o <= other

Done(o) ==
    /\ sent' = sent \cup {o}
    /\ pending' = [pending EXCEPT ![o] = "failed"]
    /\ UNCHANGED <<grab, spec, shm, ids, late, heard, frame, compositorVars, stop>>

\* frame checks the buffer against the size the display was announced with.
Fits(o) == shm[o] = ids[o]

PublishFrame(o) ==
    /\ Scanning(o)
    /\ pending[o] = "ready"
    /\ Fits(o)
    /\ Inbox!Publish([display |-> o, size |-> shm[o]])
    /\ shown' = shown \cup {o}
    /\ Done(o)

SkipFrame(o) ==
    /\ Scanning(o)
    /\ pending[o] = "failed" \/ ~ Fits(o)
    /\ Done(o)
    /\ UNCHANGED <<shown, inboxVars>>

\* Mutant of ScanDone: publish_ready leaves its loop early.
ScanDoneEarly ==
    /\ grab = "scan"
    /\ producer = "idle"
    /\ grab' = IF late \/ sent = Outputs THEN "end" ELSE "dispatch"
    /\ UNCHANGED <<spec, shm, pending, sent, ids, late, heard, frame, shown,
                   compositorVars, stop, inboxVars>>

\* publish_ready returns: the round is over when every output is done, listed
\* or not, or the deadline has passed; else it waits for more events.
ScanDone ==
    /\ grab = "scan"
    /\ producer = "idle"
    /\ \A o \in Outputs : ~ Due(o)
    /\ grab' = IF late \/ sent = Outputs THEN "end" ELSE "dispatch"
    /\ UNCHANGED <<spec, shm, pending, sent, ids, late, heard, frame, shown,
                   compositorVars, stop, inboxVars>>

EndSend ==
    /\ grab = "end"
    /\ EndRound("between")
    /\ late' = FALSE
    /\ sent' = {}
    /\ shown' = {}
    /\ UNCHANGED <<spec, shm, ids, heard, compositorVars, stop, inboxVars>>

\* run's loop looks at the flag between rounds.
Stopped ==
    /\ grab = "between"
    /\ stop
    /\ grab' = "close"
    /\ UNCHANGED <<spec, shm, pending, sent, ids, late, heard, frame, shown,
                   compositorVars, stop, inboxVars>>

CloseInbox ==
    /\ grab = "close"
    /\ grab' = "gone"
    /\ Inbox!Close
    /\ UNCHANGED <<spec, shm, pending, sent, ids, late, heard, frame, shown,
                   compositorVars, stop>>

Notify ==
    /\ Inbox!NotifyOne \/ Inbox!NotifyWaiters
    /\ UNCHANGED <<grabVars, compositorVars, stop>>

Events == \E o \in Outputs : OnBuffer(o) \/ OnAnswer(o)

Grab ==
    \/ Expire \/ Connected \/ BeginSend
    \/ \E o \in Outputs : PublishFrame(o) \/ SkipFrame(o)
    \/ ScanDone \/ DispatchDone \/ EndSend \/ Stopped \/ CloseInbox \/ Notify

-----------------------------------------------------------------------------
(* drive_session and the compositor *)

\* There is no session before the capture is connected.
Receive ==
    /\ grab \notin {"connect", "refused"}
    /\ ~ stop
    /\ Inbox!Consume
    /\ UNCHANGED <<grabVars, compositorVars, stop>>

\* The session ends, for a reason of its own or because recv returned None,
\* and drops the capture.
SessionEnds ==
    /\ grab \notin {"connect", "refused"}
    /\ ~ stop
    /\ stop' = TRUE
    /\ consumer' = "ended"
    /\ UNCHANGED <<grabVars, compositorVars, slots, closed, permit, producer, missed>>

\* A mode change, DPMS off, or on again.
OutputChanges(o) ==
    /\ modes < MaxModes
    /\ modes' = modes + 1
    /\ \/ screen[o] # None
          /\ \E s \in Sizes : s # screen[o] /\ screen' = [screen EXCEPT ![o] = s]
          /\ UNCHANGED asleep
       \/ asleep' = [asleep EXCEPT ![o] = ~ asleep[o]] /\ UNCHANGED screen
    /\ UNCHANGED <<grabVars, stop, inboxVars>>

-----------------------------------------------------------------------------

Init ==
    /\ Inbox!Init
    /\ grab = "connect"
    /\ spec = [o \in Outputs |-> None]
    /\ shm = [o \in Outputs |-> None]
    /\ pending = [o \in Outputs |-> "waiting"]
    /\ sent = {}
    /\ ids = [o \in Outputs |-> None]
    /\ late = FALSE
    /\ heard = FALSE
    /\ stop = FALSE
    /\ screen \in [Outputs -> Sizes \cup {None}]
    /\ asleep \in [Outputs -> BOOLEAN]
    /\ frame = [o \in Outputs |-> "asked"]
    /\ modes = 0
    /\ shown = {}

Next ==
    \/ Grab
    \/ ConnectionLost
    \/ Events
    \/ Receive
    \/ SessionEnds
    \/ \E o \in Outputs : OutputChanges(o)

Spec == Init /\ [][Next]_vars

-----------------------------------------------------------------------------
(* Properties *)

\* An output that is awake and as it was announced.
Steady(o) == ~ asleep[o] /\ o \in Listed /\ screen[o] = ids[o]

\* The thread runs and the deadline passes; drive_session comes back to recv;
\* an awake output answers its request, and answers in time again and again.
Fairness ==
    /\ WF_vars(Grab)
    /\ WF_vars(Receive)
    /\ \A o \in Outputs :
         /\ SF_vars(OnBuffer(o) /\ frame'[o] = "copying")
         /\ SF_vars(OnAnswer(o) /\ pending'[o] = "ready")

FairSpec == Spec /\ Fairness

\* Every variable keeps its type, and no monitor has two pictures waiting.
TypeOK ==
    /\ Inbox!TypeOK
    /\ grab \in {"connect", "refused", "between", "scan", "dispatch", "end", "close", "gone"}
    /\ spec \in [Outputs -> Sizes \cup {None}]
    /\ shm \in [Outputs -> Sizes \cup {None}]
    /\ pending \in [Outputs -> {"waiting", "ready", "failed"}]
    /\ sent \subseteq Listed
    /\ ids \in [Outputs -> Sizes \cup {None}]
    /\ late \in BOOLEAN /\ heard \in BOOLEAN /\ stop \in BOOLEAN
    /\ screen \in [Outputs -> Sizes \cup {None}]
    /\ asleep \in [Outputs -> BOOLEAN]
    /\ frame \in [Outputs -> {"none", "asked", "copying", "done"}]
    /\ modes \in 0..MaxModes
    /\ shown \subseteq sent

\* publish and recv: no wakeup is lost for a picture.
NoPictureSleeps == Inbox!NoPictureSleeps

\* No answer of a round is lost: when the round ends, every display whose
\* frame became ready with its announced size has been published, and once.
NothingReadyIsDropped ==
    [][\A o \in Listed :
         /\ grab = "end" => pending[o] # "ready"
         /\ grab \in {"scan", "dispatch"} /\ pending[o] = "ready"
              => \/ pending'[o] = "ready"
                 \/ Fits(o) <=> o \in shown' \ shown]_vars

\* A display that stays awake and unchanged is published again and again,
\* although others sleep, fail or changed: the deadline bounds their harm.
SteadyKeepsFlowing ==
    \A o \in Outputs :
        <>[](Steady(o) /\ grab \notin {"close", "gone"} /\ ~ stop)
            => []<><<o \in shown' \ shown>>_vars

\* Each side's end reaches the other: when the session drops the capture the
\* thread ends, wherever it is in its round; and the end of the capture is
\* noticed by recv, but for one window.
EndsReachEachOther == (stop ~> grab = "gone") /\ Inbox!CloseIsSeen

=============================================================================
