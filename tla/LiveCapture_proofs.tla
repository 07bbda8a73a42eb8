------------------------- MODULE LiveCapture_proofs -------------------------
(***************************************************************************)
(* Proofs about the captures: the slots and wakeups of FrameInbox, the     *)
(* rounds of Screencopy, and the restore token of Portal.                  *)
(***************************************************************************)
EXTENDS LiveCapture, SequenceTheorems, TLAPS

-----------------------------------------------------------------------------
(* FrameInbox: wakeups *)

\* What becomes of the inbox in a step of either side.
InboxStep ==
    \/ \E p : Inbox!Publish(p)
    \/ Inbox!NotifyOne \/ Inbox!Close \/ Inbox!NotifyWaiters \/ Inbox!Consume
    \/ consumer' = "ended" /\ UNCHANGED <<slots, closed, permit, producer, missed>>
    \/ UNCHANGED inboxVars

LEMMA WakeupInductive == NoPictureSleeps /\ InboxStep => NoPictureSleeps'
  <1> SUFFICES ASSUME NoPictureSleeps, InboxStep PROVE NoPictureSleeps'
    OBVIOUS
  <1> USE DEF NoPictureSleeps, Inbox!NoPictureSleeps
  <1>1. ASSUME NEW p, Inbox!Publish(p) PROVE NoPictureSleeps'
    BY <1>1 DEF Inbox!Publish
  <1>2. CASE Inbox!NotifyOne
    BY <1>2 DEF Inbox!NotifyOne
  <1>3. CASE Inbox!Close
    BY <1>3 DEF Inbox!Close
  <1>4. CASE Inbox!NotifyWaiters
    BY <1>4 DEF Inbox!NotifyWaiters
  <1>5. CASE Inbox!Pop
    BY <1>5 DEF Inbox!Pop
  <1>6. CASE Inbox!Check
    BY <1>6 DEF Inbox!Check
  <1>7. CASE Inbox!Wait
    BY <1>7 DEF Inbox!Wait
  <1>8. CASE Inbox!Encoded
    BY <1>8 DEF Inbox!Encoded
  <1>9. CASE consumer' = "ended" /\ UNCHANGED <<slots, closed, permit, producer, missed>>
    BY <1>9
  <1>10. CASE UNCHANGED inboxVars
    BY <1>10 DEF inboxVars
  <1> QED
    BY <1>1, <1>2, <1>3, <1>4, <1>5, <1>6, <1>7, <1>8, <1>9, <1>10 DEF InboxStep, Inbox!Consume


\* A capture thread, a session and a compositor do no more to the inbox.
LEMMA StepsOfTheInbox == Next \/ AskPortal => InboxStep
  <1> USE DEF inboxVars, grabVars, compositorVars
  <1>1. ASSUME NEW o \in Outputs, PublishFrame(o) PROVE InboxStep
    BY <1>1 DEF PublishFrame, InboxStep
  <1>2. ASSUME NEW o \in Outputs, SkipFrame(o) PROVE InboxStep
    BY <1>2 DEF SkipFrame, InboxStep
  <1>3. CASE Grab
    <2>1. CASE Expire \/ Connected \/ BeginSend \/ ScanDone \/ DispatchDone \/ EndSend \/ Stopped
      BY <2>1 DEF Expire, Connected, BeginSend, ScanDone, DispatchDone, EndSend, Stopped, InboxStep
    <2>2. CASE CloseInbox \/ Notify
      BY <2>2 DEF CloseInbox, Notify, InboxStep
    <2> QED
      BY <1>1, <1>2, <1>3, <2>1, <2>2 DEF Grab
  <1>4. CASE ConnectionLost \/ Events
    BY <1>4 DEF ConnectionLost, Events, OnBuffer, OnAnswer, InboxStep
  <1>5. CASE Receive \/ SessionEnds
    BY <1>5 DEF Receive, SessionEnds, InboxStep
  <1>6. CASE (\E o \in Outputs : OutputChanges(o)) \/ AskPortal
    BY <1>6 DEF OutputChanges, AskPortal, InboxStep
  <1> QED
    BY <1>3, <1>4, <1>5, <1>6 DEF Next

\* The steps of a capture, for what they mean to Screencopy.
LEMMA StepsOfTheCapture ==
    [CaptureNext]_captureVars => Next \/ AskPortal \/ UNCHANGED vars
  BY DEF CaptureNext, UseScreencopy, UsePortal, captureVars

\* No wakeup is lost for a picture: while one is in a slot and its publish has
\* returned, recv does not sleep and will not (FrameInbox::publish, recv and
\* close, over tokio's Notify), in whatever round the capture is.
THEOREM NoWakeupIsLost == CaptureSpec => []NoPictureSleeps
  <1>1. CaptureInit => NoPictureSleeps
    BY DEF CaptureInit, Init, Inbox!Init, NoPictureSleeps, Inbox!NoPictureSleeps
  <1>2. NoPictureSleeps /\ [CaptureNext]_captureVars => NoPictureSleeps'
    <2>1. UNCHANGED vars => InboxStep
      BY DEF vars, inboxVars, InboxStep
    <2> QED
      BY <2>1, StepsOfTheCapture, StepsOfTheInbox, WakeupInductive
  <1> QED
    BY <1>1, <1>2, PTL DEF CaptureSpec

-----------------------------------------------------------------------------
(* Screencopy: the rounds *)

\* What a round knows of its outputs.  An output is answered before its
\* request is done; what was sent counts as failed, so that nothing publishes
\* it again; and a round that ends has nothing left to send.
Rounds ==
    /\ pending \in [Outputs -> {"waiting", "ready", "failed"}]
    /\ frame \in [Outputs -> {"none", "asked", "copying", "done"}]
    /\ sent \subseteq Listed
    /\ shown \subseteq sent
    /\ \A o \in Outputs : pending[o] # "waiting" => frame[o] \in {"none", "done"}
    /\ \A o \in sent : pending[o] = "failed"
    /\ grab \in {"connect", "between"} => sent = {}
    /\ grab = "end" => \A o \in Listed : pending[o] # "ready"

LEMMA RoundsInductive == Rounds /\ (Next \/ AskPortal \/ UNCHANGED vars) => Rounds'
  <1> SUFFICES ASSUME Rounds, Next \/ AskPortal \/ UNCHANGED vars PROVE Rounds'
    OBVIOUS
  <1> USE DEF Rounds, Listed
  <1>1. CASE UNCHANGED vars
    BY <1>1 DEF vars, grabVars
  <1>2. CASE AskPortal
    BY <1>2 DEF AskPortal
  <1>3. ASSUME NEW o \in Outputs, OnBuffer(o) PROVE Rounds'
    <2>1. /\ Dispatching /\ frame[o] = "asked" /\ pending[o] = "waiting"
          /\ UNCHANGED <<grab, sent, ids, shown>>
      BY <1>3 DEF OnBuffer
    <2>2. \/ /\ pending' = [pending EXCEPT ![o] = "failed"]
             /\ frame' = [frame EXCEPT ![o] = "done"]
          \/ UNCHANGED pending /\ frame' = [frame EXCEPT ![o] = "copying"]
      BY <1>3 DEF OnBuffer, Attach
    <2> QED
      BY <2>1, <2>2 DEF Dispatching
  <1>4. ASSUME NEW o \in Outputs, OnAnswer(o) PROVE Rounds'
    <2>1. /\ Dispatching /\ frame[o] \in {"asked", "copying"} /\ pending[o] = "waiting"
          /\ UNCHANGED <<grab, sent, ids, shown>> /\ frame' = [frame EXCEPT ![o] = "done"]
          /\ \E answer \in {"ready", "failed"} : pending' = [pending EXCEPT ![o] = answer]
      BY <1>4 DEF OnAnswer
    <2> QED
      BY <2>1 DEF Dispatching
  <1>5. CASE Expire \/ DispatchDone \/ ConnectionLost \/ Stopped \/ CloseInbox
    BY <1>5 DEF Expire, DispatchDone, ConnectionLost, Stopped, CloseInbox, Dispatching
  <1>6. CASE Connected
    BY <1>6 DEF Connected, EndRound
  <1>7. CASE BeginSend
    BY <1>7 DEF BeginSend, BeginRound
  <1>8. CASE ScanDone
    <2>1. /\ \A o \in Outputs : ~ Due(o)
          /\ UNCHANGED <<pending, sent, ids, frame, shown>> /\ grab' \in {"end", "dispatch"}
      BY <1>8 DEF ScanDone
    <2>2. \A o \in Listed : pending[o] # "ready"
      BY <2>1 DEF Due
    <2> QED
      BY <2>1, <2>2
  <1>9. CASE EndSend
    BY <1>9 DEF EndSend, EndRound
  <1>10. ASSUME NEW o \in Outputs, PublishFrame(o) \/ SkipFrame(o) PROVE Rounds'
    <2>1. /\ grab = "scan" /\ o \in Listed /\ pending[o] \in {"ready", "failed"}
          /\ sent' = sent \cup {o} /\ pending' = [pending EXCEPT ![o] = "failed"]
          /\ UNCHANGED <<grab, ids, frame>> /\ shown' \in {shown, shown \cup {o}}
      BY <1>10 DEF PublishFrame, SkipFrame, Scanning, Due, Done
    <2> QED
      BY <2>1
  <1>11. CASE Notify \/ Receive \/ SessionEnds \/ \E o \in Outputs : OutputChanges(o)
    BY <1>11 DEF Notify, Receive, SessionEnds, OutputChanges, grabVars
  <1> QED
    BY <1>1, <1>2, <1>3, <1>4, <1>5, <1>6, <1>7, <1>8, <1>9, <1>10, <1>11
    DEF Next, Grab, Events

\* What a step does to an output that is ready in a round that goes on.
LEMMA ReadyStep ==
    ASSUME Rounds, Next \/ AskPortal \/ UNCHANGED vars, NEW o \in Listed,
           grab \in {"scan", "dispatch"}, pending[o] = "ready"
    PROVE  \/ pending'[o] = "ready"
           \/ Fits(o) <=> o \in shown' \ shown
  <1> USE DEF Rounds
  <1>1. o \in Outputs /\ o \notin shown
    BY DEF Listed
  <1>2. ASSUME NEW other \in Outputs, OnBuffer(other) \/ OnAnswer(other)
        PROVE  pending'[o] = "ready"
    <2>1. frame[other] \in {"asked", "copying"} /\ other # o
      BY <1>1, <1>2 DEF OnBuffer, OnAnswer
    <2>2. UNCHANGED pending \/ \E answer : pending' = [pending EXCEPT ![other] = answer]
      BY <1>2 DEF OnBuffer, Attach, OnAnswer
    <2> QED
      BY <1>1, <2>1, <2>2
  <1>3. ASSUME NEW other \in Outputs, PublishFrame(other) \/ SkipFrame(other)
        PROVE  \/ pending'[o] = "ready"
               \/ Fits(o) <=> o \in shown' \ shown
    <2>1. pending' = [pending EXCEPT ![other] = "failed"]
      BY <1>3 DEF PublishFrame, SkipFrame, Done
    <2>2. CASE other = o
      BY <1>1, <1>3, <2>2 DEF PublishFrame, SkipFrame
    <2>3. CASE other # o
      BY <1>1, <2>1, <2>3
    <2> QED
      BY <2>2, <2>3
  <1>4. CASE UNCHANGED pending
    BY <1>4
  <1>5. CASE Connected \/ BeginSend \/ EndSend \/ Stopped \/ CloseInbox \/ AskPortal
    BY <1>5 DEF Connected, BeginSend, EndSend, Stopped, CloseInbox, AskPortal
  <1>6. CASE Expire \/ DispatchDone \/ ConnectionLost \/ ScanDone \/ Notify
    BY <1>4, <1>6 DEF Expire, DispatchDone, ConnectionLost, ScanDone, Notify, grabVars
  <1>7. CASE Receive \/ SessionEnds \/ \E other \in Outputs : OutputChanges(other)
    BY <1>4, <1>7 DEF Receive, SessionEnds, OutputChanges, grabVars
  <1>8. CASE UNCHANGED vars
    BY <1>4, <1>8 DEF vars, grabVars
  <1> QED
    BY <1>2, <1>3, <1>5, <1>6, <1>7, <1>8 DEF Next, Grab, Events

\* No answer of a round is lost: a frame that became ready with its announced
\* size is published once, before its round ends, and no other is, however
\* answers, deadline, mode changes and the end of the session interleave
\* (publish_ready and round_send of the Grabber).
THEOREM RoundsLoseNothing == CaptureSpec => NothingReadyIsDropped
  <1>1. CaptureInit => Rounds
    BY DEF CaptureInit, Init, Rounds, Listed
  <1>2. Rounds /\ [CaptureNext]_captureVars => Rounds'
    BY StepsOfTheCapture, RoundsInductive
  <1>3. Rounds /\ [CaptureNext]_captureVars =>
          [\A o \in Listed :
             /\ grab = "end" => pending[o] # "ready"
             /\ grab \in {"scan", "dispatch"} /\ pending[o] = "ready"
                  => \/ pending'[o] = "ready"
                     \/ Fits(o) <=> o \in shown' \ shown]_vars
    <2> SUFFICES ASSUME Rounds, [CaptureNext]_captureVars, NEW o \in Listed
                 PROVE  /\ grab = "end" => pending[o] # "ready"
                        /\ grab \in {"scan", "dispatch"} /\ pending[o] = "ready"
                             => \/ pending'[o] = "ready"
                                \/ Fits(o) <=> o \in shown' \ shown
      OBVIOUS
    <2>1. grab = "end" => pending[o] # "ready"
      BY DEF Rounds
    <2> QED
      BY <2>1, StepsOfTheCapture, ReadyStep
  <1> QED
    BY <1>1, <1>2, <1>3, PTL DEF CaptureSpec, NothingReadyIsDropped

-----------------------------------------------------------------------------
(* Screencopy: types, and one slot for each monitor *)

LEMMA PublishKeepsSlots ==
    ASSUME Inbox!TypeOK, NEW p \in Inbox!Picture, Inbox!Publish(p)
    PROVE  Inbox!TypeOK'
  <1> USE DEF Inbox!TypeOK
  <1>1. /\ slots \in Seq(Inbox!Picture)
        /\ \A i, j \in DOMAIN slots : slots[i].display = slots[j].display => i = j
    OBVIOUS
  <1>2. /\ Len(slots) \in Nat /\ DOMAIN slots = 1..Len(slots)
        /\ slots \in [1..Len(slots) -> Inbox!Picture]
    BY <1>1, LenProperties
  <1>3. slots' \in Seq(Inbox!Picture)
        /\ \A i, j \in DOMAIN slots' : slots'[i].display = slots'[j].display => i = j
    <2>1. CASE Inbox!SlotOf(p.display) = {}
      <3>1. slots' = Append(slots, p)
        BY <2>1 DEF Inbox!Publish
      <3>2. /\ slots' \in Seq(Inbox!Picture) /\ Len(slots') = Len(slots) + 1
            /\ \A i \in 1..Len(slots) : slots'[i] = slots[i]
            /\ slots'[Len(slots) + 1] = p
        BY <1>1, <3>1, AppendProperties
      <3>3. DOMAIN slots' = 1..(Len(slots) + 1)
        BY <3>2, LenProperties
      <3>4. \A i \in 1..Len(slots) : slots[i].display # p.display
        BY <1>2, <2>1 DEF Inbox!SlotOf
      <3> QED
        BY <1>1, <1>2, <3>2, <3>3, <3>4
    <2>2. CASE Inbox!SlotOf(p.display) # {}
      <3>1. slots' = [i \in DOMAIN slots |-> IF i \in Inbox!SlotOf(p.display) THEN p ELSE slots[i]]
        BY <2>2 DEF Inbox!Publish
      <3>2. slots' \in [1..Len(slots) -> Inbox!Picture]
        BY <1>2, <3>1
      <3>3. slots' \in Seq(Inbox!Picture)
        BY <1>2, <3>2, SeqDef
      <3>4. DOMAIN slots' = DOMAIN slots /\ \A i \in DOMAIN slots : slots'[i].display = slots[i].display
        BY <3>1 DEF Inbox!SlotOf
      <3> QED
        BY <1>1, <3>3, <3>4
    <2> QED
      BY <2>1, <2>2
  <1> QED
    BY <1>3 DEF Inbox!Publish

LEMMA InboxTypes ==
    ASSUME Inbox!TypeOK,
           \/ Inbox!NotifyOne \/ Inbox!Close \/ Inbox!NotifyWaiters \/ Inbox!Consume
           \/ consumer' = "ended" /\ UNCHANGED <<slots, closed, permit, producer, missed>>
           \/ UNCHANGED inboxVars
    PROVE  Inbox!TypeOK'
  <1> USE DEF Inbox!TypeOK
  <1>1. CASE UNCHANGED slots
    <2>1. /\ closed' \in BOOLEAN /\ permit' \in BOOLEAN /\ missed' \in BOOLEAN
          /\ producer' \in {"idle", "notifyOne", "notifyWaiters", "gone"}
          /\ consumer' \in {"pop", "check", "wait", "waiting", "encode", "ended"}
      BY <1>1 DEF Inbox!NotifyOne, Inbox!Close, Inbox!NotifyWaiters, Inbox!Consume, Inbox!Pop,
         Inbox!Check, Inbox!Wait, Inbox!Encoded, inboxVars
    <2> QED
      BY <1>1, <2>1
  <1>2. CASE slots' # slots
    <2>1. /\ slots # <<>> /\ slots' = SubSeq(slots, 1, Len(slots) - 1)
          /\ consumer' = "encode" /\ UNCHANGED <<closed, permit, producer, missed>>
      BY <1>2 DEF Inbox!NotifyOne, Inbox!Close, Inbox!NotifyWaiters, Inbox!Consume, Inbox!Pop,
         Inbox!Check, Inbox!Wait, Inbox!Encoded, inboxVars
    <2>2. slots \in Seq(Inbox!Picture)
      OBVIOUS
    <2>3. /\ Len(slots) \in Nat \ {0} /\ DOMAIN slots = 1..Len(slots)
          /\ \A i \in 1..Len(slots) : slots[i] \in Inbox!Picture
      BY <2>1, <2>2, LenProperties, EmptySeq, ElementOfSeq
    <2>4. /\ slots' \in Seq(Inbox!Picture) /\ Len(slots') = Len(slots) - 1
          /\ \A i \in 1..(Len(slots) - 1) : slots'[i] = slots[i]
      <3> DEFINE n == Len(slots) - 1
      <3>1. n \in Nat /\ \A i \in 1..n : slots[i] \in Inbox!Picture
        BY <2>3
      <3> HIDE DEF n
      <3>2. /\ SubSeq(slots, 1, n) \in Seq(Inbox!Picture)
            /\ Len(SubSeq(slots, 1, n)) = IF 1 <= n THEN n - 1 + 1 ELSE 0
            /\ \A i \in 1..(n - 1 + 1) : SubSeq(slots, 1, n)[i] = slots[1 + i - 1]
        BY <3>1, SubSeqProperties
      <3>3. Len(SubSeq(slots, 1, n)) = n
        BY <3>1, <3>2
      <3>4. \A i \in 1..n : SubSeq(slots, 1, n)[i] = slots[i]
        BY <3>1, <3>2
      <3> QED
        BY <2>1, <3>2, <3>3, <3>4 DEF n
    <2>5. DOMAIN slots' = 1..(Len(slots) - 1)
      BY <2>4, LenProperties
    <2>6. \A i, j \in DOMAIN slots' : slots'[i].display = slots'[j].display => i = j
      BY <2>3, <2>4, <2>5
    <2> QED
      BY <2>1, <2>4, <2>6
  <1> QED
    BY <1>1, <1>2


LEMMA ScreencopyTypes == TypeOK /\ Rounds /\ [Next]_vars => TypeOK'
  <1> SUFFICES ASSUME TypeOK, Rounds, [Next]_vars PROVE TypeOK'
    OBVIOUS
  <1>1. pending' \in [Outputs -> {"waiting", "ready", "failed"}]
        /\ frame' \in [Outputs -> {"none", "asked", "copying", "done"}]
        /\ sent' \subseteq Listed' /\ shown' \subseteq sent'
    BY RoundsInductive DEF Rounds
  <1> DEFINE Sized == Sizes \cup {None}
             Outside == /\ grab' \in {"connect", "refused", "between", "scan", "dispatch",
                                      "end", "close", "gone"}
                        /\ spec' \in [Outputs -> Sized] /\ shm' \in [Outputs -> Sized]
                        /\ ids' \in [Outputs -> Sized]
                        /\ late' \in BOOLEAN /\ heard' \in BOOLEAN /\ stop' \in BOOLEAN
                        /\ screen' \in [Outputs -> Sized]
                        /\ asleep' \in [Outputs -> BOOLEAN]
                        /\ modes' \in 0..MaxModes
  <1>2. Outside /\ Inbox!TypeOK' => TypeOK'
    BY <1>1 DEF TypeOK
  <1> USE DEF TypeOK, Dispatching, grabVars, compositorVars
  <1>3. ASSUME NEW o \in Outputs, PublishFrame(o) PROVE TypeOK'
    <2>1. shm[o] \in Sizes
      BY <1>3 DEF PublishFrame, Fits, Scanning, Due, Listed
    <2>2. [display |-> o, size |-> shm[o]] \in Inbox!Picture
      BY <2>1 DEF Inbox!Picture
    <2>3. Inbox!TypeOK'
      BY <1>3, <2>2, PublishKeepsSlots DEF PublishFrame
    <2>4. Outside
      BY <1>3 DEF PublishFrame, Done
    <2> QED
      BY <1>2, <2>3, <2>4
  <1>4. ASSUME NEW o \in Outputs, SkipFrame(o) PROVE TypeOK'
    <2>1. Outside /\ UNCHANGED inboxVars
      BY <1>4 DEF SkipFrame, Done
    <2> QED
      BY <1>2, <2>1, InboxTypes
  <1>5. ASSUME NEW o \in Outputs, OnBuffer(o) PROVE TypeOK'
    <2>1. spec' = [spec EXCEPT ![o] = IF screen[o] = None THEN spec[o] ELSE screen[o]]
      BY <1>5 DEF OnBuffer
    <2>2. spec' \in [Outputs -> Sized]
      BY <2>1
    <2>3. shm' \in [Outputs -> Sized]
      BY <1>5, <2>2 DEF OnBuffer, Attach
    <2>4. heard' = TRUE /\ UNCHANGED <<grab, ids, late, compositorVars, stop, inboxVars>>
      BY <1>5 DEF OnBuffer
    <2>5. Outside
      BY <2>2, <2>3, <2>4
    <2> QED
      BY <1>2, <2>4, <2>5, InboxTypes
  <1>6. CASE \/ \E o \in Outputs : OnAnswer(o)
             \/ Expire \/ DispatchDone \/ ConnectionLost \/ BeginSend \/ ScanDone \/ EndSend \/ Stopped
    <2>1. UNCHANGED <<spec, shm, ids, compositorVars, stop, inboxVars>>
      BY <1>6 DEF OnAnswer, Expire, DispatchDone, ConnectionLost, BeginSend, ScanDone, EndSend, Stopped
    <2>2. /\ grab' \in {"connect", "refused", "between", "scan", "dispatch", "end", "close", "gone"}
          /\ late' \in BOOLEAN /\ heard' \in BOOLEAN
      BY <1>6 DEF OnAnswer, Expire, DispatchDone, ConnectionLost, BeginSend, BeginRound, ScanDone,
         EndSend, EndRound, Stopped
    <2>3. Outside
      BY <2>1, <2>2
    <2> QED
      BY <1>2, <2>1, <2>3, InboxTypes
  <1>7. CASE Connected
    <2>1. /\ grab' \in {"between", "refused"} /\ late' = FALSE
          /\ ids' = [o \in Outputs |-> IF spec[o] \in Tiny THEN None ELSE spec[o]]
          /\ UNCHANGED <<spec, shm, heard, compositorVars, stop, inboxVars>>
      BY <1>7 DEF Connected, EndRound
    <2>2. Outside
      BY <2>1
    <2> QED
      BY <1>2, <2>1, <2>2, InboxTypes
  <1>8. CASE CloseInbox
    <2>1. Outside /\ Inbox!Close
      BY <1>8 DEF CloseInbox
    <2> QED
      BY <1>2, <2>1, InboxTypes
  <1>9. CASE Notify \/ Receive
    <2>1. Outside /\ (Inbox!NotifyOne \/ Inbox!NotifyWaiters \/ Inbox!Consume)
      BY <1>9 DEF Notify, Receive
    <2> QED
      BY <1>2, <2>1, InboxTypes
  <1>10. CASE SessionEnds
    <2>1. Outside /\ consumer' = "ended" /\ UNCHANGED <<slots, closed, permit, producer, missed>>
      BY <1>10 DEF SessionEnds
    <2> QED
      BY <1>2, <2>1, InboxTypes
  <1>11. ASSUME NEW o \in Outputs, OutputChanges(o) PROVE TypeOK'
    <2>1. modes' \in 0..MaxModes /\ UNCHANGED <<grabVars, stop, inboxVars>>
      BY <1>11, ModesAssumption DEF OutputChanges
    <2>2. screen' \in [Outputs -> Sized] /\ asleep' \in [Outputs -> BOOLEAN]
      BY <1>11 DEF OutputChanges
    <2>3. Outside
      BY <2>1, <2>2
    <2> QED
      BY <1>2, <2>1, <2>3, InboxTypes
  <1>12. CASE UNCHANGED vars
    <2>1. Outside /\ UNCHANGED inboxVars
      BY <1>12 DEF vars
    <2> QED
      BY <1>2, <2>1, InboxTypes
  <1> QED
    BY <1>3, <1>4, <1>5, <1>6, <1>7, <1>8, <1>9, <1>10, <1>11, <1>12 DEF Next, Grab, Events

\* Types, and above all: no monitor ever has two pictures waiting, so a slow
\* session gets the newest of each (FrameInbox::publish), and every picture in
\* a slot has a size that its display was announced with.
THEOREM ScreencopyTypeCorrect == Spec => []TypeOK
  <1>1. Init => TypeOK /\ Rounds
    <2> SUFFICES ASSUME Init PROVE TypeOK /\ Rounds
      OBVIOUS
    <2>1. Inbox!TypeOK
      <3>1. slots = <<>> /\ slots \in Seq(Inbox!Picture) /\ DOMAIN slots = {}
        BY EmptySeq DEF Init, Inbox!Init
      <3> QED
        BY <3>1 DEF Init, Inbox!Init, Inbox!TypeOK
    <2>2. Rounds
      BY DEF Init, Rounds, Listed
    <2> QED
      <3>1. /\ 0 \in 0..MaxModes
            /\ screen \in [Outputs -> Sizes \cup {None}] /\ asleep \in [Outputs -> BOOLEAN]
            /\ spec \in [Outputs -> Sizes \cup {None}] /\ shm \in [Outputs -> Sizes \cup {None}]
            /\ ids \in [Outputs -> Sizes \cup {None}]
        BY ModesAssumption DEF Init
      <3>2. modes = 0 /\ grab = "connect" /\ late = FALSE /\ heard = FALSE /\ stop = FALSE
        BY DEF Init
      <3> QED
        BY <2>1, <2>2, <3>1, <3>2 DEF TypeOK, Rounds
  <1>2. Rounds /\ [Next]_vars => Rounds'
    BY RoundsInductive
  <1> QED
    BY <1>1, <1>2, ScreencopyTypes, PTL DEF Spec

-----------------------------------------------------------------------------
(* Portal: the restore token *)

\* A token the portal honours and nothing since may have lost is the one in
\* the file, or is on its way there, and is offered when a share is opened.
Remembered ==
    /\ ~ forgotten /\ newest \in honoured =>
         /\ opening \in {"save", "write"} => newest = mine
         /\ opening \notin {"save", "write"} => file = newest
         /\ opening = "write" => file # None
         /\ opening \in {"create", "asked"} => tried = newest

\* The portal's sessions, numbered in the order they are created.
Numbered ==
    /\ mine \in 0..MaxShares
    /\ opening \notin {"idle", "create"} => mine > 0
    /\ honoured \subseteq Portal!Shares
    /\ share \in [Portal!Shares -> {"none", "asked", "open", "closing", "closed"}]
    /\ \A s \in Portal!Shares : s > mine => share[s] = "none"
    /\ newest # None => newest \in Portal!Shares /\ share[newest] \notin {"none", "asked"}

TokenInv == Numbered /\ Remembered

LEMMA TokenInductive == TokenInv /\ [Portal!Next]_portalVars => TokenInv'
  <1> SUFFICES ASSUME TokenInv, [Portal!Next]_portalVars PROVE TokenInv'
    OBVIOUS
  <1> USE NoneAssumption, SharesAssumption
      DEF TokenInv, Numbered, Remembered, Portal!Shares, Portal!Empty, Portal!historyVars,
          Portal!shareVars, Portal!openVars
  <1>1. CASE Portal!Open
    BY <1>1 DEF Portal!Open, Portal!ReadToken
  <1>2. CASE Portal!Create
    BY <1>2 DEF Portal!Create
  <1>3. CASE Portal!CreateFails
    BY <1>3 DEF Portal!CreateFails, Portal!Failed
  <1>4. CASE Portal!Started
    <2>1. /\ opening = "asked" /\ UNCHANGED <<tried, mine, file>>
          /\ share' = [share EXCEPT ![mine] = "open"]
      BY <1>4 DEF Portal!Started, Portal!Answer
    <2>2. PICK issues \in BOOLEAN :
            /\ honoured' \subseteq honoured \cup (IF issues THEN {mine} ELSE {})
            /\ opening' = IF issues THEN "save" ELSE "remote"
            /\ newest' = IF issues THEN mine ELSE newest
            /\ forgotten' = (forgotten /\ ~ issues)
      BY <1>4 DEF Portal!Started, Portal!Answer
    <2>3. mine \in Portal!Shares
      BY <2>1
    <2>4. CASE issues
      <3>1. /\ honoured' \subseteq Portal!Shares /\ newest' = mine /\ opening' = "save"
            /\ share' \in [Portal!Shares -> {"none", "asked", "open", "closing", "closed"}]
            /\ share'[mine] = "open"
            /\ \A s \in Portal!Shares : s > mine => share'[s] = "none"
        BY <2>1, <2>2, <2>3, <2>4
      <3>2. Numbered'
        BY <2>1, <2>3, <3>1
      <3>3. Remembered'
        BY <2>1, <2>2, <3>1
      <3> QED
        BY <3>2, <3>3
    <2>5. CASE ~ issues
      <3>1. /\ honoured' \subseteq honoured /\ opening' = "remote"
            /\ newest' = newest /\ (forgotten' <=> forgotten)
        BY <2>2, <2>5
      <3>2. /\ share' \in [Portal!Shares -> {"none", "asked", "open", "closing", "closed"}]
            /\ \A s \in Portal!Shares : s > mine => share'[s] = "none"
            /\ \A s \in Portal!Shares : share'[s] \in {share[s], "open"}
        BY <2>1, <2>3
      <3>3. Numbered'
        BY <2>1, <2>3, <3>1, <3>2
      <3>4. Remembered'
        BY <2>1, <3>1
      <3> QED
        BY <3>3, <3>4
    <2> QED
      BY <2>4, <2>5
  <1>5. CASE Portal!Refused
    BY <1>5 DEF Portal!Refused, Portal!Failed
  <1>6. CASE Portal!SaveBegins \/ Portal!SaveEnds \/ Portal!SaveFails
    <2>1. UNCHANGED <<mine, honoured, share, newest, tried>> /\ opening \in {"save", "write"}
      BY <1>6 DEF Portal!SaveBegins, Portal!SaveEnds, Portal!SaveFails
    <2>2. CASE Portal!SaveBegins
      <3>1. opening' = "write" /\ file' = 0 /\ forgotten' = forgotten
        BY <2>2 DEF Portal!SaveBegins
      <3> QED
        BY <2>1, <3>1
    <2>3. CASE Portal!SaveEnds
      <3>1. /\ opening = "write" /\ opening' = "remote" /\ forgotten' = forgotten
            /\ file # None => file' = mine
        BY <2>3 DEF Portal!SaveEnds
      <3> QED
        BY <2>1, <3>1
    <2>4. CASE Portal!SaveFails
      <3>1. opening' = "remote" /\ forgotten' = TRUE
        BY <2>4 DEF Portal!SaveFails
      <3> QED
        BY <2>1, <3>1
    <2> QED
      BY <1>6, <2>2, <2>3, <2>4
  <1>7. CASE Portal!Remote
    BY <1>7 DEF Portal!Remote
  <1>8. CASE Portal!RemoteFails
    BY <1>8 DEF Portal!RemoteFails, Portal!Failed
  <1>9. CASE Portal!OpeningDropped
    BY <1>9 DEF Portal!OpeningDropped
  <1>10. CASE Portal!Drop
    BY <1>10 DEF Portal!Drop
  <1>11. ASSUME NEW s \in Portal!Shares, Portal!Close(s) \/ Portal!ThreadStops(s) \/ Portal!ThreadFails(s)
         PROVE  TokenInv'
    BY <1>11 DEF Portal!Close, Portal!ThreadStops, Portal!ThreadFails
  <1>12. ASSUME NEW s \in Portal!Shares, Portal!AnsweredLate(s) PROVE TokenInv'
    BY <1>12 DEF Portal!AnsweredLate, Portal!Answer
  <1>13. CASE Portal!Revoke
    BY <1>13 DEF Portal!Revoke
  <1>14. CASE Portal!ResetShare
    BY <1>14 DEF Portal!ResetShare
  <1>15. CASE Portal!Crash
    BY <1>15 DEF Portal!Crash
  <1>16. CASE UNCHANGED portalVars
    BY <1>16 DEF portalVars
  <1> QED
    BY <1>1, <1>2, <1>3, <1>4, <1>5, <1>6, <1>7, <1>8, <1>9, <1>10, <1>11, <1>12,
       <1>13, <1>14, <1>15, <1>16 DEF Portal!Next


\* The picker appears only when it must: whenever the portal would still
\* restore the last share, its token is offered, over any number of sessions,
\* refusals, dropped openings, late answers and deaths of the host, unless a
\* call or a write failed or reset-share removed the file (open_portal,
\* start_screencast, save_token).
THEOREM PickerIsSpared == CaptureSpec => PickerOnlyWhenNeeded
  <1>1. CaptureInit => TokenInv
    BY NoneAssumption, SharesAssumption
    DEF CaptureInit, Portal!Init, TokenInv, Numbered, Remembered, Portal!Shares
  <1>2. TokenInv /\ [CaptureNext]_captureVars => TokenInv'
    <2>1. [CaptureNext]_captureVars => [Portal!Next]_portalVars
      BY DEF CaptureNext, UseScreencopy, AskPortal, UsePortal, captureVars
    <2> QED
      BY <2>1, TokenInductive
  <1>3. TokenInv =>
          [opening = "create" /\ opening' = "asked" /\ tried \notin honoured
             => newest \notin honoured \/ forgotten]_(Portal!vars)
    BY DEF TokenInv, Remembered
  <1> QED
    BY <1>1, <1>2, <1>3, PTL DEF CaptureSpec, PickerOnlyWhenNeeded, Portal!PickerOnlyWhenNeeded

=============================================================================
