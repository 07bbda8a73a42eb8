----------------------------- MODULE FrameInbox -----------------------------
(***************************************************************************)
(* The slot per monitor between the capture thread and drive_session:      *)
(* FrameInbox of crates/host/src/capture/mod.rs, over one producer (the    *)
(* capture thread) and one consumer (drive_session, which receives a       *)
(* picture, encodes and sends it, and comes back).  Screencopy puts the    *)
(* capture thread in front of it.                                          *)
(*                                                                         *)
(* tokio's Notify: notify_one wakes the waiting task or leaves one permit; *)
(* notify_waiters wakes the waiting task and leaves nothing.               *)
(***************************************************************************)
EXTENDS Integers, Sequences

CONSTANTS Monitors, Sizes

VARIABLES
    slots,      \* the pictures not received yet
    closed,     \* FrameInbox.closed
    permit,     \* the permit of FrameInbox.notify
    producer,   \* where the capture thread is in publish or close
    consumer,   \* where recv is, or "encode" outside it
    missed      \* history: the close found recv about to wait

vars == <<slots, closed, permit, producer, consumer, missed>>

Picture == [display : Monitors, size : Sizes]

SlotOf(m) == {i \in DOMAIN slots : slots[i].display = m}

-----------------------------------------------------------------------------
(* The capture thread *)

\* Mutant of Publish: a queue in the place of the slots.
PublishQueued(p) ==
    /\ producer = "idle"
    /\ Len(slots) < 3
    /\ slots' = Append(slots, p)
    /\ producer' = "notifyOne"
    /\ UNCHANGED <<closed, permit, consumer, missed>>

\* publish: replace the monitor's picture or append it, under the lock ...
Publish(p) ==
    /\ producer = "idle"
    /\ slots' = IF SlotOf(p.display) = {}
                  THEN Append(slots, p)
                  ELSE [i \in DOMAIN slots |->
                            IF i \in SlotOf(p.display) THEN p ELSE slots[i]]
    /\ producer' = "notifyOne"
    /\ UNCHANGED <<closed, permit, consumer, missed>>

\* Mutant of NotifyOne: notify_waiters, which leaves no permit.
NotifyOneWaiters ==
    /\ producer = "notifyOne"
    /\ producer' = "idle"
    /\ consumer' = IF consumer = "waiting" THEN "pop" ELSE consumer
    /\ UNCHANGED <<slots, closed, permit, missed>>

\* ... and notify_one after it.
NotifyOne ==
    /\ producer = "notifyOne"
    /\ producer' = "idle"
    /\ IF consumer = "waiting"
         THEN consumer' = "pop" /\ UNCHANGED permit
         ELSE permit' = TRUE /\ UNCHANGED consumer
    /\ UNCHANGED <<slots, closed, missed>>

\* close: set the flag ...
Close ==
    /\ producer = "idle"
    /\ closed' = TRUE
    /\ producer' = "notifyWaiters"
    /\ UNCHANGED <<slots, permit, consumer, missed>>

\* Mutant of NotifyWaiters: nobody is woken.
NotifyNobody ==
    /\ producer = "notifyWaiters"
    /\ producer' = "gone"
    /\ missed' = (consumer = "wait" /\ ~ permit)
    /\ UNCHANGED <<slots, closed, permit, consumer>>

\* ... and wake who waits.
NotifyWaiters ==
    /\ producer = "notifyWaiters"
    /\ producer' = "gone"
    /\ consumer' = IF consumer = "waiting" THEN "pop" ELSE consumer
    /\ missed' = (consumer = "wait" /\ ~ permit)
    /\ UNCHANGED <<slots, closed, permit>>

-----------------------------------------------------------------------------
(* drive_session *)

\* recv takes the last slot, if there is one.
Pop ==
    /\ consumer = "pop"
    /\ IF slots = <<>>
         THEN consumer' = "check" /\ UNCHANGED slots
         ELSE /\ slots' = SubSeq(slots, 1, Len(slots) - 1)
              /\ consumer' = "encode"
    /\ UNCHANGED <<closed, permit, producer, missed>>

Check ==
    /\ consumer = "check"
    /\ consumer' = IF closed THEN "ended" ELSE "wait"
    /\ UNCHANGED <<slots, closed, permit, producer, missed>>

\* notified().await takes a permit, or waits for one.
Wait ==
    /\ consumer = "wait"
    /\ consumer' = IF permit THEN "pop" ELSE "waiting"
    /\ permit' = FALSE
    /\ UNCHANGED <<slots, closed, producer, missed>>

\* The picture is encoded and sent; the loop calls recv again.
Encoded ==
    /\ consumer = "encode"
    /\ consumer' = "pop"
    /\ UNCHANGED <<slots, closed, permit, producer, missed>>

Consume == Pop \/ Check \/ Wait \/ Encoded

-----------------------------------------------------------------------------

Init ==
    /\ slots = <<>>
    /\ closed = FALSE
    /\ permit = FALSE
    /\ producer = "idle"
    /\ consumer = "pop"
    /\ missed = FALSE

\* Every variable keeps its type; a monitor never has two slots.
TypeOK ==
    /\ slots \in Seq(Picture)
    /\ \A i, j \in DOMAIN slots : slots[i].display = slots[j].display => i = j
    /\ closed \in BOOLEAN
    /\ permit \in BOOLEAN
    /\ producer \in {"idle", "notifyOne", "notifyWaiters", "gone"}
    /\ consumer \in {"pop", "check", "wait", "waiting", "encode", "ended"}
    /\ missed \in BOOLEAN

\* No wakeup is lost for a picture: while one is in a slot and its publish has
\* returned, recv does not sleep, and if it is about to sleep a permit is there.
NoPictureSleeps ==
    slots # <<>> /\ producer # "notifyOne" =>
        /\ consumer # "waiting"
        /\ consumer \in {"check", "wait"} => permit

\* When the capture ends, drive_session notices, unless the close came exactly
\* between recv's look at the flag and its wait: notify_waiters leaves no
\* permit, and nothing wakes recv after that.
CloseIsSeen == closed ~> (consumer = "ended" \/ missed)

=============================================================================
