---------------------------- MODULE FileTransfer ----------------------------
(***************************************************************************)
(* One file on its way from one end of a session to the other: FileSender  *)
(* and FileReceiver of crates/protocol/src/file.rs, each in the slot its   *)
(* session keeps for it (take_file_replies in the host, take_file in the   *)
(* client).  Both directions of a session run this protocol independently. *)
(*                                                                         *)
(* Offsets, sizes and the window count chunks of FILE_CHUNK_SIZE bytes:    *)
(* every offset the code computes is a multiple of it, except the end of   *)
(* the file, which only the last chunk reaches.  The bytes of chunk k are  *)
(* the number k, or Garbled if they changed on the way, and a SHA-256 is   *)
(* the sequence of bytes it was computed from.                             *)
(***************************************************************************)
EXTENDS Integers, Sequences

CONSTANTS
    MaxSize,    \* bound: the largest file, in chunks
    Window,     \* FILE_WINDOW_BYTES in chunks
    Faults      \* what may go wrong, a subset of AllFaults

\* "read":  reading the file to send fails, for good or once.
\* "disk":  creating, writing, syncing or renaming the received file fails.
\* "wire":  bytes of a chunk change on the way (what the hash is there for).
\* "link":  the connection, and with it the session at both ends, is lost.
AllFaults == {"read", "disk", "wire", "link"}

ASSUME MaxSizeAssumption == MaxSize \in Nat
ASSUME WindowAssumption == Window \in Nat \ {0}
ASSUME FaultsAssumption == Faults \subseteq AllFaults

VARIABLES
    size,           \* chunks in the file
    link,           \* the session is up
    outgoing,       \* the sender's slot, and what became of the transfer
    accepted,       \* FileSender.accepted
    next,           \* FileSender.next_offset
    acked,          \* FileSender.acked
    completeSent,   \* FileSender.complete_sent
    incoming,       \* the receiver's slot
    written,        \* the bytes FileReceiver wrote and hashed, in order
    disk,           \* what the receiver's download directory holds
    toReceiver,     \* messages under way from sender to receiver, in order
    toSender,       \* messages under way from receiver to sender, in order
    faulty          \* history: one of the Faults has struck

senderVars == <<outgoing, accepted, next, acked, completeSent>>
receiverVars == <<incoming, written, disk>>
vars == <<size, link, senderVars, receiverVars, toReceiver, toSender, faulty>>

-----------------------------------------------------------------------------
(* Messages and bytes *)

Garbled == -1
Bytes == Nat \cup {Garbled}

\* The first n chunks of the file as the sender read them.
Content(n) == [i \in 1..n |-> i - 1]

Offer       == [type |-> "offer"]
Accept      == [type |-> "accept"]
Cancel      == [type |-> "cancel"]
Chunk(k, b) == [type |-> "chunk", offset |-> k, data |-> b]
Ack(k)      == [type |-> "ack", offset |-> k]
Complete(h) == [type |-> "complete", hash |-> h]

ToReceiverMessage ==
    {Offer}
        \cup [type : {"chunk"}, offset : Nat, data : Bytes]
        \cup [type : {"complete"}, hash : Seq(Bytes)]

ToSenderMessage ==
    {Accept, Cancel}
        \cup [type : {"ack"}, offset : Nat]
        \cup [type : {"complete"}, hash : Seq(Bytes)]

received == Len(written)

AtSender(t) ==
    /\ link
    /\ toSender # <<>>
    /\ Head(toSender).type = t

AtReceiver(t) ==
    /\ link
    /\ toReceiver # <<>>
    /\ Head(toReceiver).type = t

-----------------------------------------------------------------------------
(* The sender.  on_peer and the poll after it run under one lock, so one   *)
(* action does both: it consumes the head of toSender, settles `accepted`  *)
(* and `acked`, and polls with those values.                               *)

\* Mutant of PollEnd: a loop without the window.
PollEndNoWindow(a) == size

\* Where poll's loop stops: at the end of the file or of the window.
PollEnd(a) == IF size < a + Window THEN size ELSE a + Window

\* Mutant of Chunks: the offset is taken after it was advanced.
ChunksAhead(from, to) == [i \in 1..(to - from) |-> Chunk(from + i, from + i - 1)]

Chunks(from, to) == [i \in 1..(to - from) |-> Chunk(from + i - 1, from + i - 1)]

\* What poll appends for an accepted transfer whose bytes are acked up to a.
Polled(a) ==
    Chunks(next, PollEnd(a))
        \o IF a = size THEN <<Complete(Content(size))>> ELSE <<>>

PollSucceeds(a) ==
    /\ IF accepted' /\ ~ completeSent
         THEN /\ next' = PollEnd(a)
              /\ completeSent' = (a = size)
              /\ toReceiver' = toReceiver \o Polled(a)
         ELSE UNCHANGED <<next, completeSent, toReceiver>>
    /\ UNCHANGED faulty

\* Reading chunk k fails: the chunks read before it in this call count as
\* sent but are dropped with the result, and the transfer keeps its slot.
PollFails(a) ==
    /\ "read" \in Faults
    /\ accepted'
    /\ ~ completeSent
    /\ \E k \in next..(PollEnd(a) - 1) : next' = k
    /\ faulty' = TRUE
    /\ UNCHANGED <<completeSent, toReceiver>>

Poll(a) == PollSucceeds(a) \/ PollFails(a)

\* FileSender::open and the poll that offers the file.
OfferFile ==
    /\ link
    /\ outgoing = "idle"
    /\ outgoing' = "open"
    /\ toReceiver' = Append(toReceiver, Offer)
    /\ UNCHANGED <<size, link, faulty, accepted, next, acked, completeSent,
                   receiverVars, toSender>>

\* Mutant of OnAccept: the session does not poll after an accept.
OnAcceptUnpolled ==
    /\ AtSender("accept")
    /\ outgoing = "open"
    /\ accepted' = TRUE
    /\ toSender' = Tail(toSender)
    /\ UNCHANGED <<size, link, faulty, outgoing, next, acked, completeSent,
                   receiverVars, toReceiver>>

OnAccept ==
    /\ AtSender("accept")
    /\ outgoing = "open"
    /\ accepted' = TRUE
    /\ Poll(acked)
    /\ toSender' = Tail(toSender)
    /\ UNCHANGED <<size, link, outgoing, acked, receiverVars>>

\* Mutant of OnAck: `>=` where the code has `>`.
OnAckStrict ==
    /\ AtSender("ack")
    /\ outgoing = "open"
    /\ LET o == Head(toSender).offset IN
         IF o >= next
           THEN /\ outgoing' = "failed"
                /\ UNCHANGED <<accepted, next, acked, completeSent, toReceiver, faulty>>
           ELSE /\ acked' = o
                /\ UNCHANGED <<outgoing, accepted>>
                /\ Poll(acked')
    /\ toSender' = Tail(toSender)
    /\ UNCHANGED <<size, link, receiverVars>>

\* A stale ack changes nothing, one past the sent bytes fails the transfer.
OnAck ==
    /\ AtSender("ack")
    /\ outgoing = "open"
    /\ LET o == Head(toSender).offset IN
         IF o > next \/ o > size
           THEN /\ outgoing' = "failed"
                /\ UNCHANGED <<accepted, next, acked, completeSent, toReceiver, faulty>>
           ELSE /\ acked' = IF o < acked THEN acked ELSE o
                /\ UNCHANGED <<outgoing, accepted>>
                /\ Poll(acked')
    /\ toSender' = Tail(toSender)
    /\ UNCHANGED <<size, link, receiverVars>>

\* The receiver's echo.  A hash is there to compare with once it was sent.
OnCompleteEcho ==
    /\ AtSender("complete")
    /\ outgoing = "open"
    /\ outgoing' = IF completeSent /\ Head(toSender).hash # Content(next)
                     THEN "failed" ELSE "confirmed"
    /\ toSender' = Tail(toSender)
    /\ UNCHANGED <<size, link, faulty, accepted, next, acked, completeSent,
                   receiverVars, toReceiver>>

OnCancel ==
    /\ AtSender("cancel")
    /\ outgoing = "open"
    /\ outgoing' = "failed"
    /\ toSender' = Tail(toSender)
    /\ UNCHANGED <<size, link, faulty, accepted, next, acked, completeSent,
                   receiverVars, toReceiver>>

\* `take_file_replies` also ignores a message when the slot is empty.  That has
\* no action: nothing is under way to a closed sender (SlotOpenForReplies).
SenderNext ==
    OnAccept \/ OnAck \/ OnCompleteEcho \/ OnCancel

-----------------------------------------------------------------------------
(* The receiver.  A receiver that cancels stays in its slot; one that meets *)
(* an error is dropped from it, and the error goes no further than the log. *)

Reply(m) ==
    /\ toReceiver' = Tail(toReceiver)
    /\ toSender' = Append(toSender, m)

NoReply ==
    /\ toReceiver' = Tail(toReceiver)
    /\ UNCHANGED toSender

\* FileReceiver::cancel
CancelTransfer ==
    /\ incoming' = "cancelled"
    /\ disk' = "absent"
    /\ Reply(Cancel)
    /\ UNCHANGED written

OnOffer ==
    /\ AtReceiver("offer")
    /\ incoming = "empty"
    /\ incoming' = "receiving"
    /\ disk' = "partial"
    /\ Reply(Accept)
    /\ UNCHANGED <<size, link, faulty, senderVars, written>>

OnChunk ==
    /\ AtReceiver("chunk")
    /\ incoming = "receiving"
    /\ LET m == Head(toReceiver) IN
         IF m.offset # received \/ received + 1 > size
           THEN CancelTransfer
           ELSE /\ written' = Append(written, m.data)
                /\ Reply(Ack(received + 1))
                /\ UNCHANGED <<incoming, disk>>
    /\ UNCHANGED <<size, link, faulty, senderVars>>

\* Mutants of OnComplete: the hash is not checked, or the file not renamed.
OnCompleteAs(saved) ==
    /\ AtReceiver("complete")
    /\ incoming = "receiving"
    /\ received = size
    /\ incoming' = "empty"
    /\ disk' = saved
    /\ Reply(Head(toReceiver))
    /\ UNCHANGED <<size, link, faulty, senderVars, written>>

OnCompleteUnchecked == OnCompleteAs("saved")
OnCompleteUnrenamed == OnCompleteAs("partial")

OnComplete ==
    /\ AtReceiver("complete")
    /\ incoming = "receiving"
    /\ \/ /\ received # size
          /\ CancelTransfer
       \/ \* cancel's message is thrown away on this path
          /\ received = size
          /\ Head(toReceiver).hash # written
          /\ incoming' = "empty"
          /\ disk' = "absent"
          /\ NoReply
       \/ /\ received = size
          /\ Head(toReceiver).hash = written
          /\ incoming' = "empty"
          /\ disk' = "saved"
          /\ Reply(Head(toReceiver))
    /\ UNCHANGED <<size, link, faulty, senderVars, written>>

\* Creating the partial file fails: no receiver, and no reply.
OfferFails ==
    /\ "disk" \in Faults
    /\ AtReceiver("offer")
    /\ incoming = "empty"
    /\ NoReply
    /\ faulty' = TRUE
    /\ UNCHANGED <<size, link, senderVars, receiverVars>>

\* Writing a chunk, or syncing and renaming the whole file, fails.  The
\* partial file stays where it is.
ReceiverFails ==
    /\ "disk" \in Faults
    /\ incoming = "receiving"
    /\ \/ AtReceiver("chunk") /\ Head(toReceiver).offset = received
       \/ AtReceiver("complete") /\ Head(toReceiver).hash = written
    /\ incoming' = "empty"
    /\ NoReply
    /\ faulty' = TRUE
    /\ UNCHANGED <<size, link, senderVars, written, disk>>

\* No receiver, or one that already cancelled.
ReceiverIgnores ==
    /\ AtReceiver("chunk") \/ AtReceiver("complete")
    /\ incoming # "receiving"
    /\ NoReply
    /\ UNCHANGED <<size, link, faulty, senderVars, receiverVars>>

ReceiverNext ==
    \/ OnOffer \/ OnChunk \/ OnComplete
    \/ OfferFails \/ ReceiverFails \/ ReceiverIgnores

-----------------------------------------------------------------------------
(* The environment *)

Garble ==
    /\ "wire" \in Faults
    /\ link
    /\ \E i \in 1..Len(toReceiver) :
         /\ toReceiver[i].type = "chunk"
         /\ toReceiver' = [toReceiver EXCEPT ![i].data = Garbled]
    /\ faulty' = TRUE
    /\ UNCHANGED <<size, link, senderVars, receiverVars, toSender>>

\* The session ends at both ends: what was under way is lost, the slots go
\* with the session, and what is on disk stays.
LoseLink ==
    /\ "link" \in Faults
    /\ link
    /\ link' = FALSE
    /\ outgoing' = IF outgoing = "open" THEN "lost" ELSE outgoing
    /\ incoming' = "empty"
    /\ toReceiver' = <<>>
    /\ toSender' = <<>>
    /\ faulty' = TRUE
    /\ UNCHANGED <<size, accepted, next, acked, completeSent, written, disk>>

-----------------------------------------------------------------------------

Init ==
    /\ size \in 0..MaxSize
    /\ link = TRUE
    /\ outgoing = "idle"
    /\ accepted = FALSE
    /\ next = 0
    /\ acked = 0
    /\ completeSent = FALSE
    /\ incoming = "empty"
    /\ written = <<>>
    /\ disk = "absent"
    /\ toReceiver = <<>>
    /\ toSender = <<>>
    /\ faulty = FALSE

Next ==
    OfferFile \/ SenderNext \/ ReceiverNext \/ Garble \/ LoseLink

Spec == Init /\ [][Next]_vars

\* The reader task of each session keeps reading; the offer is sent before it
\* starts (host) or when the user asks (client).
Fairness ==
    /\ WF_vars(OfferFile)
    /\ WF_vars(SenderNext)
    /\ WF_vars(ReceiverNext)

FairSpec == Spec /\ Fairness

-----------------------------------------------------------------------------
(* Properties *)

\* Every variable keeps its type; offsets stay within the file and the window.
TypeOK ==
    /\ size \in Nat
    /\ link \in BOOLEAN
    /\ outgoing \in {"idle", "open", "confirmed", "failed", "lost"}
    /\ accepted \in BOOLEAN
    /\ next \in 0..size
    /\ acked \in 0..next
    /\ completeSent \in BOOLEAN
    /\ incoming \in {"empty", "receiving", "cancelled"}
    /\ written \in Seq(Bytes)
    /\ disk \in {"absent", "partial", "saved"}
    /\ toReceiver \in Seq(ToReceiverMessage)
    /\ toSender \in Seq(ToSenderMessage)
    /\ faulty \in BOOLEAN

\* A file that reaches the download directory is, chunk for chunk, the file
\* that was read: nothing missing, doubled, swapped or garbled, whatever
\* failed on the way (FileReceiver::handle).
SavedWhole == disk = "saved" => written = Content(size)

\* The cumulative acks never run ahead of the bytes that arrived, nor those
\* ahead of the bytes sent, and the sender never has more than the window
\* outstanding (FileSender::poll, on_peer).
AckChain ==
    /\ acked <= received
    /\ received <= next
    /\ next <= acked + Window

\* One transfer never has more messages under way, chunks and replies
\* together, than the window has chunks.  This is what keeps a peer's
\* bounded control queue from filling with file traffic.
QueuesBounded == Len(toReceiver) + Len(toSender) <= Window

\* Between peers that follow the protocol the sender's own checks ("ack past
\* sent bytes", "peer hash mismatch") never fire: a transfer fails only
\* because the receiver cancelled it.
OnlyCancelFails ==
    [][outgoing = "open" /\ outgoing' = "failed"
         => Head(toSender) = Cancel]_vars

\* Unless something fails, every file is delivered and confirmed: the window
\* never closes for good and no reply is left out.
EventuallyConfirmed == <>(outgoing = "confirmed" \/ faulty)

\* The transfer keeps the promise of FileDelivery.
Delivery == INSTANCE FileDelivery WITH
    delivered <- disk = "saved",
    verdict <- IF outgoing \in {"confirmed", "failed"} THEN outgoing ELSE "none"

DeliveryPromise == Delivery!Spec

(* The stages of a transfer: the inductive invariant behind the above *)

Quiet == toReceiver = <<>> /\ toSender = <<>>

\* Nothing is offered yet.
NotOffered ==
    /\ outgoing = "idle"
    /\ ~ accepted
    /\ ~ completeSent
    /\ next = 0
    /\ written = <<>>
    /\ incoming = "empty"
    /\ Quiet

\* The offer, or the answer to it, is under way, or got lost in a disk error.
Offered ==
    /\ outgoing = "open"
    /\ ~ accepted
    /\ ~ completeSent
    /\ next = 0
    /\ written = <<>>
    /\ \/ toReceiver = <<Offer>> /\ toSender = <<>> /\ incoming = "empty"
       \/ toReceiver = <<>> /\ toSender = <<Accept>> /\ incoming = "receiving"
       \/ Quiet /\ incoming = "empty"

\* Chunks go one way, in order and none before what the receiver has; acks
\* come back one by one, and a cancel may end them.
Streaming ==
    /\ outgoing \in {"open", "failed"}
    /\ accepted
    /\ ~ completeSent
    /\ Len(toReceiver) + Len(toSender) <= next - acked
    /\ \A i \in 1..Len(toReceiver) :
         /\ toReceiver[i].type = "chunk"
         /\ toReceiver[i].offset \in received..(next - 1)
    /\ \A i, j \in 1..Len(toReceiver) :
         i < j => toReceiver[i].offset < toReceiver[j].offset
    /\ \A i \in 1..Len(toSender) :
         \/ toSender[i] = Ack(acked + i) /\ acked + i <= received
         \/ /\ toSender[i] = Cancel
            /\ i = Len(toSender)
            /\ incoming = "cancelled"
    /\ incoming = "receiving" => received = acked + Len(toSender)
    /\ outgoing = "failed" => toSender = <<>>

\* Everything is acked; the hash, or the answer to it, is under way, or the
\* answer never comes, or the transfer is settled.
Completing ==
    /\ outgoing \in {"open", "confirmed", "failed"}
    /\ accepted
    /\ completeSent
    /\ next = size
    /\ acked = size
    /\ \/ /\ outgoing = "open"
          /\ toReceiver = <<Complete(Content(size))>>
          /\ toSender = <<>>
       \/ /\ outgoing = "open"
          /\ toReceiver = <<>>
          /\ toSender = <<Complete(Content(size))>>
          /\ disk = "saved"
       \/ /\ outgoing = "open"
          /\ toReceiver = <<>>
          /\ toSender = <<Cancel>>
          /\ incoming = "cancelled"
       \/ Quiet /\ incoming # "receiving"

\* What the disk holds and what the sender was told never contradict.
Outcome ==
    /\ incoming = "receiving" => disk = "partial" /\ outgoing = "open"
    /\ disk = "saved" =>
         /\ completeSent
         /\ written = Content(size)
         /\ incoming = "empty"
         /\ toReceiver = <<>>
         /\ outgoing # "failed"
    /\ outgoing = "confirmed" => disk = "saved"

\* The protocol is always in one of its stages.
Protocol ==
    /\ AckChain
    /\ Outcome
    /\ link => NotOffered \/ Offered \/ Streaming \/ Completing
    /\ ~ link => incoming = "empty" /\ Quiet

(* What the documentation says, and the code does not do *)

\* message.rs, FileComplete: "The receiver checks the hash and echoes
\* FileComplete, or sends FileCancel": a completed transfer is answered.
CompleteIsAnswered == completeSent ~> outgoing \in {"confirmed", "failed"}

=============================================================================
