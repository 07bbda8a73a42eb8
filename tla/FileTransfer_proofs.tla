------------------------- MODULE FileTransfer_proofs -------------------------
(***************************************************************************)
(* Proofs about FileTransfer, for every size, window and set of faults.    *)
(***************************************************************************)
EXTENDS FileTransfer, SequenceTheorems, TLAPS

-----------------------------------------------------------------------------
(* Sequences of messages and of bytes *)

\* The bytes of a file are a sequence of bytes as long as the file.
LEMMA ContentIsBytes ==
    ASSUME NEW n \in Nat
    PROVE  Content(n) \in Seq(Bytes) /\ Len(Content(n)) = n
  BY DEF Content, Bytes

\* The chunks of one poll are messages, one for each offset it passes.
LEMMA ChunksAreMessages ==
    ASSUME NEW from \in Nat, NEW to \in Nat, from <= to
    PROVE  /\ Chunks(from, to) \in Seq(ToReceiverMessage)
           /\ Len(Chunks(from, to)) = to - from
           /\ \A i \in 1..(to - from) :
                Chunks(from, to)[i] = Chunk(from + i - 1, from + i - 1)
  <1>1. \A i \in 1..(to - from) :
          Chunk(from + i - 1, from + i - 1) \in ToReceiverMessage
    BY DEF Chunk, ToReceiverMessage, Bytes
  <1> QED
    BY <1>1 DEF Chunks

\* What one poll appends is a sequence of messages.
LEMMA PolledAreMessages ==
    ASSUME TypeOK, NEW a \in Nat, next <= PollEnd(a)
    PROVE  Polled(a) \in Seq(ToReceiverMessage)
  <1>1. PollEnd(a) \in Nat /\ next \in Nat /\ size \in Nat
    BY WindowAssumption DEF TypeOK, PollEnd
  <1>2. Chunks(next, PollEnd(a)) \in Seq(ToReceiverMessage)
    BY <1>1, ChunksAreMessages
  <1>3. Complete(Content(size)) \in ToReceiverMessage
    BY <1>1, ContentIsBytes DEF Complete, ToReceiverMessage
  <1>4. (IF a = size THEN <<Complete(Content(size))>> ELSE <<>>)
          \in Seq(ToReceiverMessage)
    BY <1>3
  <1> QED
    BY <1>2, <1>4, ConcatProperties DEF Polled

\* Where a poll stops when the sent bytes lie within the window.
LEMMA PollEndBounds ==
    ASSUME TypeOK, NEW a \in Nat, a <= size, next <= a + Window
    PROVE  /\ PollEnd(a) \in next..size
           /\ a <= PollEnd(a)
           /\ PollEnd(a) <= a + Window
  BY WindowAssumption DEF TypeOK, PollEnd

-----------------------------------------------------------------------------
(* The invariant holds initially *)

IInv == TypeOK /\ Protocol

LEMMA InitInvariant == Init => IInv
  <1> SUFFICES ASSUME Init PROVE IInv
    OBVIOUS
  <1>1. TypeOK
    <2>1. /\ written \in Seq(Bytes)
          /\ toReceiver \in Seq(ToReceiverMessage)
          /\ toSender \in Seq(ToSenderMessage)
      BY DEF Init
    <2>2. size \in Nat /\ next \in 0..size /\ acked \in 0..next
      BY MaxSizeAssumption DEF Init
    <2> QED
      BY <2>1, <2>2 DEF Init, TypeOK
  <1>2. Protocol
    BY WindowAssumption, MaxSizeAssumption
    DEF Init, Protocol, AckChain, Outcome, NotOffered, Quiet, received
  <1> QED
    BY <1>1, <1>2 DEF IInv

-----------------------------------------------------------------------------
(* Every step of the sender preserves it *)

LEMMA OfferStep == IInv /\ OfferFile => IInv'
  <1> SUFFICES ASSUME TypeOK, Protocol, OfferFile PROVE IInv'
    BY DEF IInv
  <1>1. NotOffered
    BY DEF OfferFile, Protocol, NotOffered, Offered, Streaming, Completing
  <1>2. toReceiver' = <<Offer>> /\ toSender' = <<>>
    BY <1>1 DEF OfferFile, NotOffered, Quiet
  <1>3. TypeOK'
    BY <1>2 DEF OfferFile, TypeOK, receiverVars, ToReceiverMessage
  <1>4. AckChain'
    BY DEF OfferFile, Protocol, AckChain, received, receiverVars
  <1>5. Outcome'
    BY <1>1 DEF OfferFile, Protocol, Outcome, NotOffered, receiverVars
  <1>6. Offered'
    BY <1>1, <1>2 DEF OfferFile, Offered, NotOffered, receiverVars
  <1> QED
    BY <1>3, <1>4, <1>5, <1>6 DEF IInv, Protocol, OfferFile

\* In a streaming transfer, an ack that reached the sender is the next one:
\* it acknowledges one more chunk, and that chunk was sent.
LEMMA NextAck ==
    ASSUME TypeOK, Protocol, AtSender("ack")
    PROVE  /\ Streaming
           /\ Head(toSender) = Ack(acked + 1)
           /\ acked + 1 <= received
           /\ acked + 1 <= next
  <1>1. Head(toSender) = toSender[1] /\ toSender # <<>> /\ link
    BY DEF AtSender, TypeOK
  <1>2. toSender[1].type = "ack"
    BY <1>1 DEF AtSender
  <1>3. Streaming
    BY <1>1, <1>2 DEF Protocol, NotOffered, Offered, Completing, Quiet, Accept,
                      Cancel, Complete
  <1>4. Len(toSender) \in Nat \ {0}
    BY <1>1, EmptySeq DEF TypeOK
  <1>5. toSender[1] = Ack(acked + 1) /\ acked + 1 <= received
    BY <1>2, <1>3, <1>4 DEF Streaming, Cancel
  <1>6. acked + 1 <= next
    BY <1>5 DEF TypeOK, Protocol, AckChain, received
  <1> QED
    BY <1>1, <1>3, <1>5, <1>6

\* What OnAccept and OnAck have settled when they poll, with `a` chunks acked:
\* an open transfer that streams, or starts to.
Settled(a) ==
    /\ link
    /\ outgoing = "open"
    /\ ~ completeSent
    /\ acked' = a
    /\ accepted' = TRUE
    /\ UNCHANGED <<size, link, outgoing, receiverVars>>
    /\ toSender' \in Seq(ToSenderMessage)

Acknowledged(a) ==
    /\ a <= received
    /\ next <= a + Window
    /\ Len(toReceiver) + Len(toSender') <= next - a
    /\ incoming = "receiving" => received = a + Len(toSender')

ChunksUnderWay ==
    /\ \A i \in 1..Len(toReceiver) :
         /\ toReceiver[i].type = "chunk"
         /\ toReceiver[i].offset \in received..(next - 1)
    /\ \A i, j \in 1..Len(toReceiver) :
         i < j => toReceiver[i].offset < toReceiver[j].offset

RepliesUnderWay(a) ==
    \A i \in 1..Len(toSender') :
       \/ toSender'[i] = Ack(a + i) /\ a + i <= received
       \/ /\ toSender'[i] = Cancel
          /\ i = Len(toSender')
          /\ incoming = "cancelled"

\* The poll leaves the transfer streaming, or completing if all is acked.
LEMMA PollStep ==
    ASSUME TypeOK, Protocol, NEW a \in Nat, Settled(a), Acknowledged(a),
           ChunksUnderWay, RepliesUnderWay(a), Poll(a)
    PROVE  IInv'
  <1>1. /\ received \in Nat /\ size \in Nat /\ next \in Nat
        /\ next <= size /\ received <= next
        /\ Len(toReceiver) \in Nat /\ Len(toSender') \in Nat
    BY LenProperties DEF TypeOK, Protocol, AckChain, received, Settled
  <1>2. /\ PollEnd(a) \in Nat
        /\ next <= PollEnd(a) /\ PollEnd(a) <= size
        /\ a <= PollEnd(a) /\ PollEnd(a) <= a + Window
    BY <1>1, PollEndBounds DEF Acknowledged
  <1>3. /\ next' \in next..PollEnd(a)
        /\ written' = written /\ size' = size /\ incoming' = incoming
        /\ disk' = disk /\ outgoing' = outgoing /\ link' = link
    BY <1>1, <1>2 DEF Poll, PollSucceeds, PollFails, receiverVars, Settled
  <1>4. toReceiver' \in Seq(ToReceiverMessage)
    <2>1. CASE PollSucceeds(a)
      <3>1. Polled(a) \in Seq(ToReceiverMessage)
        BY <1>2, PolledAreMessages
      <3>2. toReceiver' = toReceiver \o Polled(a)
        BY <2>1 DEF PollSucceeds, Settled
      <3> QED
        BY <3>1, <3>2, ConcatProperties DEF TypeOK
    <2>2. CASE PollFails(a)
      BY <2>2 DEF PollFails, TypeOK
    <2> QED
      BY <2>1, <2>2 DEF Poll
  <1>5. TypeOK'
    <2>1. next' \in 0..size' /\ acked' \in 0..next'
      BY <1>1, <1>2, <1>3 DEF Settled, Acknowledged
    <2>2. completeSent' \in BOOLEAN /\ accepted' \in BOOLEAN /\ faulty' \in BOOLEAN
      BY DEF Poll, PollSucceeds, PollFails, TypeOK, Settled
    <2> QED
      BY <1>3, <1>4, <2>1, <2>2 DEF TypeOK, Settled
  <1>6. AckChain'
    BY <1>1, <1>2, <1>3, WindowAssumption DEF AckChain, received, Settled, Acknowledged
  <1>7. Outcome'
    BY <1>3 DEF Outcome, Protocol, Settled
  <1>8. Streaming' \/ Completing'
    <2>1. CASE PollFails(a)
      <3>1. toReceiver' = toReceiver /\ ~ completeSent'
        BY <2>1 DEF PollFails
      <3> QED
        BY <3>1, <1>1, <1>2, <1>3 DEF Streaming, received, Settled, Acknowledged,
                                ChunksUnderWay, RepliesUnderWay
    <2>2. CASE PollSucceeds(a) /\ a = size
      <3>0. /\ next' = PollEnd(a) /\ completeSent'
            /\ toReceiver' = toReceiver \o Polled(a)
        BY <2>2 DEF PollSucceeds, Settled
      <3>1. next' = size /\ Len(toReceiver) = 0 /\ Len(toSender') = 0
        BY <2>2, <3>0, <1>1, <1>2 DEF Acknowledged
      <3>2. toReceiver = <<>> /\ toSender' = <<>>
        BY <3>1, EmptySeq DEF TypeOK, Settled
      <3>3. Chunks(next, PollEnd(a)) = <<>>
        <4>1. Len(Chunks(next, PollEnd(a))) = 0
          <5>1. next = PollEnd(a)
            BY <2>2, <1>1, <1>2 DEF Acknowledged
          <5>2. Len(Chunks(next, PollEnd(a))) = PollEnd(a) - next
            BY <1>1, <1>2, ChunksAreMessages
          <5> QED
            BY <5>1, <5>2, <1>1
        <4> QED
          BY <4>1, <1>1, <1>2, ChunksAreMessages, EmptySeq
      <3>4. Complete(Content(size)) \in ToReceiverMessage
        BY <1>1, ContentIsBytes DEF Complete, ToReceiverMessage
      <3>5. toReceiver' = <<Complete(Content(size))>>
        BY <2>2, <3>0, <3>2, <3>3, <3>4, ConcatEmptySeq DEF Polled
      <3> QED
        BY <2>2, <3>0, <3>1, <3>2, <3>5, <1>3 DEF Completing, Settled
    <2>3. CASE PollSucceeds(a) /\ a # size
      <3> DEFINE C == Chunks(next, PollEnd(a))
      <3>1. /\ next' = PollEnd(a) /\ ~ completeSent'
            /\ toReceiver' = toReceiver \o Polled(a)
        BY <2>3 DEF PollSucceeds, Settled
      <3>2. /\ C \in Seq(ToReceiverMessage)
            /\ Len(C) = PollEnd(a) - next
            /\ \A i \in 1..Len(C) : C[i] = Chunk(next + i - 1, next + i - 1)
        <4>1. /\ C \in Seq(ToReceiverMessage)
              /\ Len(C) = PollEnd(a) - next
          BY <1>1, <1>2, ChunksAreMessages
        <4>2. \A i \in 1..(PollEnd(a) - next) :
                C[i] = Chunk(next + i - 1, next + i - 1)
          BY <1>1, <1>2, ChunksAreMessages
        <4> QED
          BY <4>1, <4>2
      <3>3. Polled(a) = C
        BY <2>3, <3>2, ConcatEmptySeq DEF Polled
      <3>4. /\ Len(toReceiver') = Len(toReceiver) + Len(C)
            /\ \A i \in 1..Len(toReceiver') : toReceiver'[i] =
                 IF i <= Len(toReceiver) THEN toReceiver[i]
                 ELSE C[i - Len(toReceiver)]
        BY <3>1, <3>2, <3>3, ConcatProperties DEF TypeOK
      <3> HIDE DEF C
      <3>5. \A i \in 1..Len(toReceiver') :
              /\ toReceiver'[i].type = "chunk"
              /\ toReceiver'[i].offset =
                   IF i <= Len(toReceiver) THEN toReceiver[i].offset
                   ELSE next + (i - Len(toReceiver)) - 1
        <4> TAKE i \in 1..Len(toReceiver')
        <4>1. CASE i <= Len(toReceiver)
          BY <4>1, <3>4, <1>1 DEF ChunksUnderWay
        <4>2. CASE i > Len(toReceiver)
          <5>1. i - Len(toReceiver) \in 1..Len(C)
            BY <4>2, <3>2, <3>4, <1>1, <1>2
          <5>2. toReceiver'[i] = C[i - Len(toReceiver)]
            BY <4>2, <3>4, <1>1
          <5> QED
            BY <5>1, <5>2, <3>2, <4>2, <1>1 DEF Chunk
        <4> QED
          BY <4>1, <4>2, <1>1
      <3>6. \A i \in 1..Len(toReceiver') :
              toReceiver'[i].offset \in received..(next' - 1)
        <4> TAKE i \in 1..Len(toReceiver')
        <4>1. CASE i <= Len(toReceiver)
          BY <4>1, <3>1, <3>4, <3>5, <1>1, <1>2 DEF ChunksUnderWay
        <4>2. CASE i > Len(toReceiver)
          <5>1. toReceiver'[i].offset = next + (i - Len(toReceiver)) - 1
            BY <4>2, <3>5, <1>1
          <5>2. i - Len(toReceiver) \in 1..(PollEnd(a) - next)
            BY <4>2, <3>2, <3>4, <1>1, <1>2
          <5>3. i - Len(toReceiver) \in Nat \ {0} /\ next' = PollEnd(a)
            BY <5>2, <3>1, <1>2
          <5>4. received \in Nat /\ next \in Nat /\ received <= next
            BY <1>1, <1>2
          <5> QED
            BY <5>1, <5>2, <5>3, <5>4, <1>2
        <4> QED
          BY <4>1, <4>2, <1>1
      <3>7. \A i, j \in 1..Len(toReceiver') :
              i < j => toReceiver'[i].offset < toReceiver'[j].offset
        <4> TAKE i, j \in 1..Len(toReceiver')
        <4> HAVE i < j
        <4>1. CASE j <= Len(toReceiver)
          BY <4>1, <3>5, <1>1 DEF ChunksUnderWay
        <4>2. CASE i > Len(toReceiver)
          BY <4>2, <3>5, <1>1
        <4>3. CASE i <= Len(toReceiver) /\ j > Len(toReceiver)
          <5>1. toReceiver[i].offset \in received..(next - 1)
            BY <4>3, <1>1 DEF ChunksUnderWay
          <5> QED
            BY <4>3, <5>1, <3>5, <1>1
        <4> QED
          BY <4>1, <4>2, <4>3, <1>1
      <3>8. Len(toReceiver') + Len(toSender') <= next' - a
        BY <3>1, <3>2, <3>4, <1>1, <1>2 DEF Acknowledged
      <3> QED
        BY <3>1, <3>5, <3>6, <3>7, <3>8, <1>3 DEF Streaming, received, Settled, Acknowledged,
                                                   RepliesUnderWay
    <2> QED
      BY <2>1, <2>2, <2>3 DEF Poll
  <1> QED
    BY <1>3, <1>5, <1>6, <1>7, <1>8 DEF IInv, Protocol, Settled

\* What is left of a sequence when its head is taken.
LEMMA TailOf ==
    ASSUME NEW S, NEW s \in Seq(S), s # <<>>
    PROVE  /\ Tail(s) \in Seq(S)
           /\ Len(s) \in Nat /\ Len(Tail(s)) = Len(s) - 1
           /\ Head(s) = s[1]
           /\ \A i \in 1..Len(Tail(s)) : i + 1 \in 1..Len(s) /\ Tail(s)[i] = s[i + 1]
           /\ Len(s) = 1 => Tail(s) = <<>>
  <1>1. Tail(s) \in Seq(S) /\ Len(s) \in Nat /\ Len(Tail(s)) = Len(s) - 1
    OBVIOUS
  <1>2. \A i \in 1..Len(Tail(s)) : i + 1 \in 1..Len(s) /\ Tail(s)[i] = s[i + 1]
    BY <1>1
  <1>3. Len(s) = 1 => Tail(s) = <<>>
    <2> SUFFICES ASSUME Len(s) = 1 PROVE Tail(s) = <<>>
      OBVIOUS
    <2>1. Len(Tail(s)) = 0
      BY <1>1
    <2> QED
      BY <1>1, <2>1, EmptySeq
  <1> QED
    BY <1>1, <1>2, <1>3

\* While chunks stream, the reply that reaches the sender next is the ack of
\* the next chunk, or the cancel that ends the transfer.
LEMMA FirstReply ==
    ASSUME TypeOK, Streaming, toSender # <<>>
    PROVE  \/ toSender[1] = Ack(acked + 1) /\ acked + 1 <= received
           \/ toSender[1] = Cancel /\ Len(toSender) = 1 /\ incoming = "cancelled"
  <1>1. Len(toSender) \in Nat \ {0}
    BY EmptySeq DEF TypeOK
  <1>2. 1 \in 1..Len(toSender)
    BY <1>1
  <1> QED
    BY <1>2 DEF Streaming

\* An accept is only ever the answer to the offer.
LEMMA AcceptAnswersOffer ==
    ASSUME TypeOK, Protocol, AtSender("accept")
    PROVE  /\ Offered
           /\ toReceiver = <<>> /\ toSender = <<Accept>>
           /\ incoming = "receiving"
  <1>1. link /\ toSender # <<>> /\ toSender[1].type = "accept"
    BY DEF AtSender, TypeOK
  <1>2. ~ Streaming
    BY <1>1, FirstReply DEF Ack, Cancel
  <1>3. Offered
    BY <1>1, <1>2 DEF Protocol, NotOffered, Completing, Quiet, Cancel, Complete
  <1> QED
    BY <1>1, <1>3 DEF Offered, Quiet

LEMMA OnAcceptStep == IInv /\ OnAccept => IInv'
  <1> SUFFICES ASSUME TypeOK, Protocol, OnAccept PROVE IInv'
    BY DEF IInv
  <1>1. /\ Offered /\ link /\ outgoing = "open" /\ ~ completeSent
        /\ toReceiver = <<>> /\ toSender = <<Accept>>
    BY AcceptAnswersOffer DEF OnAccept, AtSender, Offered
  <1>2. /\ next = 0 /\ acked = 0 /\ written = <<>> /\ received = 0
        /\ toSender' = <<>>
    BY <1>1 DEF Offered, TypeOK, received, OnAccept
  <1>3. Settled(acked)
    BY <1>1, <1>2 DEF Settled, OnAccept
  <1>4. Acknowledged(acked)
    BY <1>1, <1>2, WindowAssumption DEF Acknowledged
  <1>5. ChunksUnderWay /\ RepliesUnderWay(acked)
    BY <1>1, <1>2 DEF ChunksUnderWay, RepliesUnderWay
  <1>6. Poll(acked) /\ acked \in Nat
    BY <1>2 DEF OnAccept
  <1> QED
    BY <1>3, <1>4, <1>5, <1>6, PollStep

LEMMA OnAckStep == IInv /\ OnAck => IInv'
  <1> SUFFICES ASSUME TypeOK, Protocol, OnAck PROVE IInv'
    BY DEF IInv
  <1> DEFINE a == acked + 1
  <1>1. /\ Streaming /\ link /\ outgoing = "open"
        /\ Head(toSender) = Ack(a) /\ toSender # <<>>
        /\ a <= received /\ a <= next
    BY NextAck DEF OnAck, AtSender
  <1>2. /\ a \in Nat /\ acked \in Nat /\ next \in Nat /\ size \in Nat
        /\ next <= size /\ next <= acked + Window
    BY DEF TypeOK, Protocol, AckChain
  <1>3. /\ acked' = a /\ Poll(a)
        /\ UNCHANGED <<outgoing, accepted>>
    BY <1>1, <1>2 DEF OnAck, Ack
  <1>4. /\ toSender' = Tail(toSender)
        /\ toSender' \in Seq(ToSenderMessage)
        /\ Len(toSender') = Len(toSender) - 1 /\ Len(toSender) \in Nat
        /\ \A i \in 1..Len(toSender') :
             i + 1 \in 1..Len(toSender) /\ toSender'[i] = toSender[i + 1]
    BY <1>1, TailOf DEF OnAck, TypeOK
  <1>5. Settled(a)
    BY <1>1, <1>3, <1>4 DEF Settled, OnAck, Streaming
  <1>6. Acknowledged(a)
    <2>1. Len(toReceiver) \in Nat
      BY DEF TypeOK
    <2>2. /\ Len(toReceiver) + Len(toSender) <= next - acked
          /\ incoming = "receiving" => received = acked + Len(toSender)
      BY <1>1 DEF Streaming
    <2>3. Len(toReceiver) + Len(toSender') <= next - a
      BY <1>2, <1>4, <2>1, <2>2
    <2>4. incoming = "receiving" => received = a + Len(toSender')
      BY <1>2, <1>4, <2>2
    <2>5. next <= a + Window
      BY <1>2, WindowAssumption
    <2> QED
      BY <1>1, <2>3, <2>4, <2>5 DEF Acknowledged
  <1>7. ChunksUnderWay
    BY <1>1 DEF ChunksUnderWay, Streaming
  <1>8. RepliesUnderWay(a)
    <2> SUFFICES ASSUME NEW i \in 1..Len(toSender')
                 PROVE  \/ toSender'[i] = Ack(a + i) /\ a + i <= received
                        \/ /\ toSender'[i] = Cancel
                           /\ i = Len(toSender')
                           /\ incoming = "cancelled"
      BY DEF RepliesUnderWay
    <2>1. /\ i + 1 \in 1..Len(toSender) /\ toSender'[i] = toSender[i + 1]
          /\ acked + (i + 1) = a + i
      BY <1>2, <1>4
    <2>2. \/ toSender[i + 1] = Ack(acked + (i + 1)) /\ acked + (i + 1) <= received
          \/ /\ toSender[i + 1] = Cancel
             /\ i + 1 = Len(toSender)
             /\ incoming = "cancelled"
      BY <1>1, <2>1 DEF Streaming
    <2>3. i + 1 = Len(toSender) => i = Len(toSender')
      <3>1. i \in Int /\ Len(toSender') = Len(toSender) - 1 /\ Len(toSender) \in Nat
        BY <1>4
      <3> QED
        BY <3>1
    <2> QED
      BY <2>1, <2>2, <2>3
  <1> HIDE DEF a
  <1> QED
    BY <1>2, <1>3, <1>5, <1>6, <1>7, <1>8, PollStep

\* The receiver's echo is only ever the answer to the hash, for a file saved.
LEMMA EchoConfirms ==
    ASSUME TypeOK, Protocol, OnCompleteEcho
    PROVE  /\ Completing /\ link /\ outgoing = "open" /\ disk = "saved"
           /\ toReceiver = <<>> /\ toSender = <<Complete(Content(size))>>
           /\ outgoing' = "confirmed" /\ toSender' = <<>>
  <1>1. /\ link /\ outgoing = "open" /\ toSender # <<>>
        /\ toSender[1].type = "complete"
    BY DEF OnCompleteEcho, AtSender, TypeOK
  <1>2. ~ Streaming
    BY <1>1, FirstReply DEF Ack, Cancel
  <1>3. Completing
    BY <1>1, <1>2 DEF Protocol, NotOffered, Offered, Quiet, Accept
  <1>4. /\ toReceiver = <<>> /\ toSender = <<Complete(Content(size))>>
        /\ disk = "saved" /\ next = size
    BY <1>1, <1>3 DEF Completing, Quiet, Cancel
  <1>5. outgoing' = "confirmed"
    <2>1. Head(toSender).hash = Content(next)
      BY <1>4 DEF Complete
    <2> QED
      BY <2>1 DEF OnCompleteEcho
  <1>6. toSender' = <<>>
    <2>1. toSender' = Tail(toSender)
      BY DEF OnCompleteEcho
    <2>2. Tail(toSender) = <<>>
      BY <1>4
    <2> QED
      BY <2>1, <2>2
  <1> QED
    BY <1>1, <1>3, <1>4, <1>5, <1>6

LEMMA OnCompleteEchoStep == IInv /\ OnCompleteEcho => IInv'
  <1> SUFFICES ASSUME TypeOK, Protocol, OnCompleteEcho PROVE IInv'
    BY DEF IInv
  <1>1. /\ Completing /\ link /\ outgoing = "open" /\ disk = "saved"
        /\ toReceiver = <<>> /\ toSender = <<Complete(Content(size))>>
        /\ outgoing' = "confirmed" /\ toSender' = <<>>
    BY EchoConfirms
  <1>2. UNCHANGED <<size, link, faulty, accepted, next, acked, completeSent,
                    incoming, written, disk, toReceiver>>
    BY DEF OnCompleteEcho, receiverVars
  <1>3. TypeOK'
    BY <1>1, <1>2 DEF TypeOK
  <1>4. AckChain'
    BY <1>2 DEF Protocol, AckChain, received
  <1>5. Outcome'
    BY <1>1, <1>2 DEF Protocol, Outcome
  <1>6. Completing'
    BY <1>1, <1>2 DEF Completing, Quiet, Protocol, Outcome
  <1> QED
    BY <1>1, <1>2, <1>3, <1>4, <1>5, <1>6 DEF IInv, Protocol

LEMMA OnCancelStep == IInv /\ OnCancel => IInv'
  <1> SUFFICES ASSUME TypeOK, Protocol, OnCancel PROVE IInv'
    BY DEF IInv
  <1>1. /\ link /\ outgoing = "open" /\ toSender # <<>>
        /\ toSender[1].type = "cancel" /\ outgoing' = "failed"
        /\ toSender' = Tail(toSender) /\ Len(toSender) \in Nat \ {0}
    BY EmptySeq DEF OnCancel, AtSender, TypeOK
  <1>2. Streaming \/ Completing
    BY <1>1 DEF Protocol, NotOffered, Offered, Quiet, Accept
  <1>3. incoming = "cancelled" /\ Len(toSender) = 1
    BY <1>1, <1>2, FirstReply DEF Completing, Quiet, Ack, Complete
  <1>4. toSender' = <<>>
    BY <1>1, <1>3, TailOf DEF TypeOK
  <1>5. TypeOK'
    BY <1>1, <1>4 DEF OnCancel, TypeOK, receiverVars
  <1>6. AckChain'
    BY DEF OnCancel, Protocol, AckChain, received, receiverVars
  <1>7. Outcome'
    BY <1>1, <1>3 DEF OnCancel, Protocol, Outcome, receiverVars
  <1>8. Streaming' \/ Completing'
    <2>1. CASE Streaming
      <3>1. Len(toReceiver) + Len(toSender') <= next - acked
        <4>1. Len(toReceiver) \in Nat /\ next \in Nat /\ acked \in Nat
          BY DEF TypeOK
        <4>2. Len(toReceiver) + Len(toSender) <= next - acked
          BY <2>1 DEF Streaming
        <4> QED
          BY <4>1, <4>2, <1>3, <1>4
      <3>2. Len(toSender') = 0 /\ incoming # "receiving"
        BY <1>3, <1>4
      <3>3. UNCHANGED <<accepted, next, acked, completeSent, incoming, written,
                        toReceiver>>
        BY DEF OnCancel, receiverVars
      <3>4. /\ \A i \in 1..Len(toReceiver') :
                 /\ toReceiver'[i].type = "chunk"
                 /\ toReceiver'[i].offset \in received'..(next' - 1)
            /\ \A i, j \in 1..Len(toReceiver') :
                 i < j => toReceiver'[i].offset < toReceiver'[j].offset
        BY <2>1, <3>3 DEF Streaming, received
      <3> QED
        BY <2>1, <3>1, <3>2, <3>3, <3>4, <1>1, <1>4 DEF Streaming, received
    <2>2. CASE Completing
      <3>1. toReceiver = <<>>
        BY <2>2, <1>1, <1>3 DEF Completing, Quiet, Complete
      <3> QED
        BY <2>2, <3>1, <1>1, <1>3, <1>4 DEF OnCancel, Completing, Quiet, receiverVars
    <2> QED
      BY <1>2, <2>1, <2>2
  <1> QED
    BY <1>1, <1>5, <1>6, <1>7, <1>8 DEF IInv, Protocol, OnCancel

\* Whatever reaches the sender finds its slot open.
LEMMA SlotOpenForReplies == IInv /\ link /\ toSender # <<>> => outgoing = "open"
  BY DEF IInv, Protocol, NotOffered, Offered, Streaming, Completing, Quiet

LEMMA SenderStep == IInv /\ SenderNext => IInv'
  BY OnAcceptStep, OnAckStep, OnCompleteEchoStep, OnCancelStep DEF SenderNext

-----------------------------------------------------------------------------
(* Every step of the receiver preserves it *)

\* What arrives at the receiver says in which stage the transfer is.
LEMMA ArrivalStages ==
    ASSUME TypeOK, Protocol
    PROVE  /\ AtReceiver("offer") => Offered /\ toReceiver = <<Offer>> /\ toSender = <<>>
           /\ AtReceiver("chunk") => Streaming
           /\ AtReceiver("complete") =>
                /\ Completing /\ outgoing = "open"
                /\ toReceiver = <<Complete(Content(size))>> /\ toSender = <<>>
  <1>1. SUFFICES ASSUME link, toReceiver # <<>>
                 PROVE  /\ toReceiver[1].type = "offer" =>
                             Offered /\ toReceiver = <<Offer>> /\ toSender = <<>>
                        /\ toReceiver[1].type = "chunk" => Streaming
                        /\ toReceiver[1].type = "complete" =>
                             /\ Completing /\ outgoing = "open"
                             /\ toReceiver = <<Complete(Content(size))>>
                             /\ toSender = <<>>
    BY DEF AtReceiver, TypeOK
  <1>2. Offered \/ Streaming \/ Completing
    BY <1>1 DEF Protocol, NotOffered, Quiet
  <1>3. CASE Offered
    BY <1>1, <1>3 DEF Offered, Quiet, Offer
  <1>4. CASE Streaming
    <2>1. Len(toReceiver) \in Nat \ {0}
      BY <1>1, EmptySeq DEF TypeOK
    <2>2. 1 \in 1..Len(toReceiver)
      BY <2>1
    <2>3. toReceiver[1].type = "chunk"
      BY <1>4, <2>2 DEF Streaming
    <2> QED
      BY <1>4, <2>3
  <1>5. CASE Completing
    BY <1>1, <1>5 DEF Completing, Quiet, Complete
  <1> QED
    BY <1>2, <1>3, <1>4, <1>5

\* What is left to arrive once the receiver took the next chunk.
LEMMA ChunkTaken ==
    ASSUME TypeOK, Streaming, toReceiver # <<>>, toReceiver' = Tail(toReceiver)
    PROVE  /\ toReceiver' \in Seq(ToReceiverMessage)
           /\ Len(toReceiver) \in Nat /\ Len(toReceiver') = Len(toReceiver) - 1
           /\ Head(toReceiver) = toReceiver[1]
           /\ toReceiver[1].type = "chunk"
           /\ toReceiver[1].offset \in received..(next - 1)
           /\ \A i \in 1..Len(toReceiver') :
                /\ toReceiver'[i].type = "chunk"
                /\ toReceiver'[i].offset \in received..(next - 1)
                /\ toReceiver[1].offset < toReceiver'[i].offset
           /\ \A i, j \in 1..Len(toReceiver') :
                i < j => toReceiver'[i].offset < toReceiver'[j].offset
  <1>1. /\ toReceiver' \in Seq(ToReceiverMessage)
        /\ Len(toReceiver) \in Nat /\ Len(toReceiver') = Len(toReceiver) - 1
        /\ Head(toReceiver) = toReceiver[1]
    BY TailOf DEF TypeOK
  <1>2. \A i \in 1..Len(toReceiver') :
          i + 1 \in 1..Len(toReceiver) /\ toReceiver'[i] = toReceiver[i + 1]
    BY TailOf DEF TypeOK
  <1>3. 1 \in 1..Len(toReceiver)
    <2>1. Len(toReceiver) # 0
      BY EmptySeq DEF TypeOK
    <2> QED
      BY <1>1, <2>1
  <1>4. /\ toReceiver[1].type = "chunk"
        /\ toReceiver[1].offset \in received..(next - 1)
    BY <1>3 DEF Streaming
  <1>5. ASSUME NEW i \in 1..Len(toReceiver')
        PROVE  /\ toReceiver'[i].type = "chunk"
               /\ toReceiver'[i].offset \in received..(next - 1)
               /\ toReceiver[1].offset < toReceiver'[i].offset
    <2>1. i + 1 \in 1..Len(toReceiver) /\ 1 < i + 1
      BY <1>2
    <2> QED
      BY <1>2, <1>3, <2>1 DEF Streaming
  <1>6. ASSUME NEW i \in 1..Len(toReceiver'), NEW j \in 1..Len(toReceiver'), i < j
        PROVE  toReceiver'[i].offset < toReceiver'[j].offset
    <2>1. i + 1 \in 1..Len(toReceiver) /\ j + 1 \in 1..Len(toReceiver) /\ i + 1 < j + 1
      BY <1>2, <1>6
    <2> QED
      BY <1>2, <2>1 DEF Streaming
  <1> QED
    BY <1>1, <1>4, <1>5, <1>6

LEMMA OnOfferStep == IInv /\ OnOffer => IInv'
  <1> SUFFICES ASSUME TypeOK, Protocol, OnOffer PROVE IInv'
    BY DEF IInv
  <1>1. /\ Offered /\ link /\ toReceiver = <<Offer>> /\ toSender = <<>>
    BY ArrivalStages DEF OnOffer, AtReceiver
  <1>2. /\ incoming' = "receiving" /\ disk' = "partial"
        /\ UNCHANGED <<size, link, faulty, outgoing, accepted, next, acked,
                       completeSent, written>>
    BY DEF OnOffer, senderVars
  <1>3. toReceiver' = <<>> /\ toSender' = <<Accept>>
    BY <1>1 DEF OnOffer, Reply
  <1>4. TypeOK'
    BY <1>2, <1>3 DEF TypeOK, ToSenderMessage
  <1>5. AckChain'
    BY <1>2 DEF Protocol, AckChain, received
  <1>6. Outcome'
    BY <1>1, <1>2 DEF Protocol, Outcome, Offered
  <1>7. Offered'
    BY <1>1, <1>2, <1>3 DEF Offered
  <1> QED
    BY <1>1, <1>2, <1>4, <1>5, <1>6, <1>7 DEF IInv, Protocol

LEMMA OfferFailsStep == IInv /\ OfferFails => IInv'
  <1> SUFFICES ASSUME TypeOK, Protocol, OfferFails PROVE IInv'
    BY DEF IInv
  <1>1. Offered /\ link /\ toReceiver = <<Offer>> /\ toSender = <<>>
    BY ArrivalStages DEF OfferFails, AtReceiver
  <1>2. /\ incoming = "empty"
        /\ faulty' = TRUE
        /\ UNCHANGED <<size, link, outgoing, accepted, next, acked, completeSent,
                       incoming, written, disk>>
    BY DEF OfferFails, senderVars, receiverVars
  <1>3. toReceiver' = <<>> /\ toSender' = <<>>
    BY <1>1 DEF OfferFails, NoReply
  <1>4. TypeOK'
    BY <1>2, <1>3 DEF TypeOK
  <1>5. AckChain' /\ Outcome'
    BY <1>2, <1>3 DEF Protocol, AckChain, Outcome, received
  <1>6. Offered'
    BY <1>1, <1>2, <1>3 DEF Offered, Quiet
  <1> QED
    BY <1>1, <1>2, <1>4, <1>5, <1>6 DEF IInv, Protocol

\* A chunk that does not fit ends the transfer; the receiver cancels it.
LEMMA ChunkCancelled ==
    ASSUME TypeOK, Protocol, Streaming, link, toReceiver # <<>>,
           incoming = "receiving", CancelTransfer,
           UNCHANGED <<size, link, faulty, senderVars>>
    PROVE  IInv'
  <1>1. /\ incoming' = "cancelled" /\ disk' = "absent" /\ written' = written
        /\ toReceiver' = Tail(toReceiver) /\ toSender' = Append(toSender, Cancel)
        /\ UNCHANGED <<size, link, faulty, outgoing, accepted, next, acked, completeSent>>
    BY DEF CancelTransfer, Reply, senderVars
  <1>2. /\ outgoing = "open" /\ received = acked + Len(toSender)
        /\ Len(toReceiver) + Len(toSender) <= next - acked
    BY DEF Streaming, Protocol, Outcome
  <1>3. /\ Len(toSender) \in Nat /\ Len(toSender') = Len(toSender) + 1
        /\ toSender' \in Seq(ToSenderMessage)
        /\ \A i \in 1..Len(toSender) : toSender'[i] = toSender[i]
        /\ toSender'[Len(toSender) + 1] = Cancel
    BY <1>1 DEF TypeOK, ToSenderMessage
  <1>4. next \in Nat /\ acked \in Nat
    BY DEF TypeOK
  <1>5. TypeOK'
    BY <1>1, <1>3, ChunkTaken DEF TypeOK
  <1>6. AckChain' /\ Outcome'
    BY <1>1 DEF Protocol, AckChain, Outcome, received, Streaming
  <1>7. Streaming'
    <2>1. Len(toReceiver') + Len(toSender') <= next' - acked'
      BY <1>1, <1>2, <1>3, <1>4, ChunkTaken
    <2>2. /\ \A i \in 1..Len(toReceiver') :
               /\ toReceiver'[i].type = "chunk"
               /\ toReceiver'[i].offset \in received'..(next' - 1)
          /\ \A i, j \in 1..Len(toReceiver') :
               i < j => toReceiver'[i].offset < toReceiver'[j].offset
      BY <1>1, ChunkTaken DEF received
    <2>3. ASSUME NEW i \in 1..Len(toSender')
          PROVE  \/ toSender'[i] = Ack(acked' + i) /\ acked' + i <= received'
                 \/ /\ toSender'[i] = Cancel
                    /\ i = Len(toSender')
                    /\ incoming' = "cancelled"
      <3>1. CASE i \in 1..Len(toSender)
        BY <3>1, <1>1, <1>3 DEF Streaming, received
      <3>2. CASE i = Len(toSender) + 1
        BY <3>2, <1>1, <1>3
      <3> QED
        BY <3>1, <3>2, <1>3
    <2> QED
      BY <2>1, <2>2, <2>3, <1>1, <1>2 DEF Streaming
  <1> QED
    BY <1>1, <1>5, <1>6, <1>7 DEF IInv, Protocol

\* A chunk that fits is written, and acked.
LEMMA ChunkWritten ==
    ASSUME TypeOK, Protocol, Streaming, link, toReceiver # <<>>,
           incoming = "receiving", toReceiver[1].offset = received,
           written' = Append(written, Head(toReceiver).data),
           Reply(Ack(received + 1)),
           UNCHANGED <<size, link, faulty, senderVars, incoming, disk>>
    PROVE  IInv'
  <1>1. /\ toReceiver' = Tail(toReceiver)
        /\ toSender' = Append(toSender, Ack(received + 1))
        /\ UNCHANGED <<size, link, faulty, outgoing, accepted, next, acked,
                       completeSent, incoming, disk>>
    BY DEF Reply, senderVars
  <1>2. /\ outgoing = "open" /\ received = acked + Len(toSender)
        /\ Len(toReceiver) + Len(toSender) <= next - acked
        /\ ~ completeSent
    BY DEF Streaming, Protocol, Outcome
  <1>3. next \in Nat /\ acked \in Nat /\ received \in Nat
    BY DEF TypeOK, received
  <1>4. /\ Head(toReceiver) \in ToReceiverMessage /\ Head(toReceiver).type = "chunk"
        /\ received \in 0..(next - 1)
    <2>1. /\ Head(toReceiver) = toReceiver[1] /\ toReceiver[1].type = "chunk"
          /\ received \in received..(next - 1)
      BY <1>1, ChunkTaken
    <2>2. Head(toReceiver) \in ToReceiverMessage
      BY DEF TypeOK
    <2> QED
      BY <1>3, <2>1, <2>2
  <1>5. Head(toReceiver).data \in Bytes
    BY <1>4 DEF ToReceiverMessage, Offer
  <1>6. written' \in Seq(Bytes) /\ received' = received + 1
    BY <1>5 DEF TypeOK, received
  <1>7. Ack(received + 1) \in ToSenderMessage
    BY <1>3 DEF Ack, ToSenderMessage
  <1>8. /\ Len(toSender) \in Nat /\ Len(toSender') = Len(toSender) + 1
        /\ toSender' \in Seq(ToSenderMessage)
        /\ \A i \in 1..Len(toSender) : toSender'[i] = toSender[i]
        /\ toSender'[Len(toSender) + 1] = Ack(received + 1)
    BY <1>1, <1>7 DEF TypeOK
  <1>9. TypeOK'
    BY <1>1, <1>6, <1>8, ChunkTaken DEF TypeOK
  <1>10. AckChain'
    BY <1>1, <1>3, <1>4, <1>6 DEF Protocol, AckChain
  <1>11. Outcome'
    BY <1>1, <1>2 DEF Protocol, Outcome
  <1>12. Streaming'
    <2>1. Len(toReceiver') + Len(toSender') <= next' - acked'
      BY <1>1, <1>2, <1>3, <1>8, ChunkTaken
    <2>2. \A i \in 1..Len(toReceiver') :
            /\ toReceiver'[i].type = "chunk"
            /\ toReceiver'[i].offset \in received'..(next' - 1)
      <3> TAKE i \in 1..Len(toReceiver')
      <3>1. /\ toReceiver'[i].type = "chunk"
            /\ toReceiver'[i].offset \in received..(next - 1)
            /\ received < toReceiver'[i].offset
        BY <1>1, ChunkTaken
      <3> QED
        BY <3>1, <1>1, <1>3, <1>6
    <2>3. \A i, j \in 1..Len(toReceiver') :
            i < j => toReceiver'[i].offset < toReceiver'[j].offset
      BY <1>1, ChunkTaken
    <2>4. ASSUME NEW i \in 1..Len(toSender')
          PROVE  toSender'[i] = Ack(acked' + i) /\ acked' + i <= received'
      <3>1. CASE i \in 1..Len(toSender)
        <4>1. toSender[i] = Ack(acked + i) /\ acked + i <= received
          BY <3>1 DEF Streaming
        <4> QED
          BY <3>1, <4>1, <1>1, <1>3, <1>6, <1>8
      <3>2. CASE i = Len(toSender) + 1
        <4>1. acked + i = received + 1
          BY <3>2, <1>2, <1>3, <1>8
        <4> QED
          BY <3>2, <4>1, <1>1, <1>3, <1>6, <1>8
      <3> QED
        BY <3>1, <3>2, <1>8
    <2>5. received' = acked' + Len(toSender')
      BY <1>1, <1>2, <1>3, <1>6, <1>8
    <2> QED
      BY <2>1, <2>2, <2>3, <2>4, <2>5, <1>1, <1>2 DEF Streaming
  <1> QED
    BY <1>1, <1>9, <1>10, <1>11, <1>12 DEF IInv, Protocol

LEMMA OnChunkStep == IInv /\ OnChunk => IInv'
  <1> SUFFICES ASSUME TypeOK, Protocol, OnChunk PROVE IInv'
    BY DEF IInv
  <1>1. /\ Streaming /\ link /\ toReceiver # <<>> /\ incoming = "receiving"
        /\ UNCHANGED <<size, link, faulty, senderVars>>
    BY ArrivalStages DEF OnChunk, AtReceiver
  <1>2. CASE CancelTransfer
    BY <1>1, <1>2, ChunkCancelled
  <1>3. CASE /\ Head(toReceiver).offset = received
             /\ written' = Append(written, Head(toReceiver).data)
             /\ Reply(Ack(received + 1))
             /\ UNCHANGED <<incoming, disk>>
    <2>1. toReceiver[1].offset = received
      BY <1>1, <1>3 DEF TypeOK
    <2> QED
      BY <1>1, <1>3, <2>1, ChunkWritten
  <1> QED
    BY <1>2, <1>3 DEF OnChunk

LEMMA OnCompleteStep == IInv /\ OnComplete => IInv'
  <1> SUFFICES ASSUME TypeOK, Protocol, OnComplete PROVE IInv'
    BY DEF IInv
  <1>1. /\ Completing /\ link /\ outgoing = "open" /\ incoming = "receiving"
        /\ toReceiver = <<Complete(Content(size))>> /\ toSender = <<>>
        /\ UNCHANGED <<size, link, faulty, outgoing, accepted, next, acked, completeSent>>
    BY ArrivalStages DEF OnComplete, AtReceiver, senderVars
  <1>2. Head(toReceiver) = Complete(Content(size)) /\ Tail(toReceiver) = <<>>
    BY <1>1
  <1>3. Head(toReceiver).hash = Content(size)
    BY <1>2 DEF Complete
  <1>4. /\ toReceiver' = <<>> /\ written' = written
        /\ \/ /\ incoming' = "cancelled" /\ disk' = "absent"
              /\ toSender' = <<Cancel>>
           \/ /\ incoming' = "empty" /\ disk' = "absent"
              /\ toSender' = <<>>
           \/ /\ incoming' = "empty" /\ disk' = "saved"
              /\ written = Content(size)
              /\ toSender' = <<Complete(Content(size))>>
    <2>1. CASE received # size /\ CancelTransfer
      BY <2>1, <1>1, <1>2 DEF CancelTransfer, Reply
    <2>2. CASE /\ incoming' = "empty" /\ disk' = "absent" /\ NoReply
               /\ written' = written
      BY <2>2, <1>1, <1>2 DEF NoReply
    <2>3. CASE /\ incoming' = "empty" /\ disk' = "saved" /\ written' = written
               /\ Head(toReceiver).hash = written /\ Reply(Head(toReceiver))
      BY <2>3, <1>1, <1>2, <1>3 DEF Reply
    <2> QED
      BY <2>1, <2>2, <2>3 DEF OnComplete
  <1>5. Complete(Content(size)) \in ToSenderMessage /\ Cancel \in ToSenderMessage
    <2>1. Content(size) \in Seq(Bytes)
      BY ContentIsBytes DEF TypeOK
    <2>2. Complete(Content(size)) \in ToSenderMessage
      BY <2>1 DEF Complete, ToSenderMessage
    <2>3. Cancel \in ToSenderMessage
      BY DEF ToSenderMessage
    <2> QED
      BY <2>2, <2>3
  <1>6. TypeOK'
    <2>1. toSender' \in Seq(ToSenderMessage)
      <3>1. \/ toSender' = <<>>
            \/ \E m \in ToSenderMessage : toSender' = <<m>>
        BY <1>4, <1>5, Zenon
      <3>2. ASSUME NEW m \in ToSenderMessage PROVE <<m>> \in Seq(ToSenderMessage)
        OBVIOUS
      <3> QED
        BY <3>1, <3>2, EmptySeq
    <2>2. /\ incoming' \in {"empty", "cancelled"} /\ disk' \in {"absent", "saved"}
          /\ toReceiver' = <<>> /\ written' = written
      BY <1>4
    <2> QED
      BY <1>1, <2>1, <2>2 DEF TypeOK
  <1>7. AckChain'
    BY <1>1, <1>4 DEF Protocol, AckChain, received
  <1>8. Outcome'
    BY <1>1, <1>4 DEF Outcome, Completing
  <1>9. Completing'
    BY <1>1, <1>4 DEF Completing, Quiet
  <1> QED
    BY <1>1, <1>6, <1>7, <1>8, <1>9 DEF IInv, Protocol

\* A message the receiver takes without a reply and without another one
\* outstanding for it: because it met an error, or has no transfer.
LEMMA TakenSilently ==
    ASSUME TypeOK, Protocol, AtReceiver("chunk") \/ AtReceiver("complete"),
           NoReply, UNCHANGED <<size, link, senderVars, written, disk>>,
           faulty' \in BOOLEAN,
           \/ incoming = "receiving" /\ incoming' = "empty"
           \/ incoming # "receiving" /\ incoming' = incoming
    PROVE  IInv'
  <1>1. /\ link /\ toReceiver # <<>>
        /\ toReceiver' = Tail(toReceiver) /\ toSender' = toSender
        /\ UNCHANGED <<size, link, outgoing, accepted, next, acked, completeSent,
                       written, disk>>
        /\ incoming' # "receiving" /\ incoming' \in {"empty", "cancelled"}
        /\ incoming = "cancelled" => incoming' = "cancelled"
    BY DEF AtReceiver, NoReply, senderVars, TypeOK
  <1>2. toReceiver' \in Seq(ToReceiverMessage)
    BY <1>1, TailOf DEF TypeOK
  <1>3. TypeOK'
    BY <1>1, <1>2 DEF TypeOK
  <1>4. AckChain'
    BY <1>1 DEF Protocol, AckChain, received
  <1>5. Outcome'
    BY <1>1 DEF Protocol, Outcome
  <1>6. Streaming' \/ Completing'
    <2>1. CASE AtReceiver("chunk")
      <3>1. Streaming
        BY <2>1, ArrivalStages
      <3>2. Len(toReceiver') + Len(toSender') <= next' - acked'
        <4>1. Len(toReceiver) + Len(toSender) <= next - acked
          BY <3>1 DEF Streaming
        <4>2. next \in Nat /\ acked \in Nat /\ Len(toSender) \in Nat
          BY DEF TypeOK
        <4> QED
          BY <1>1, <3>1, <4>1, <4>2, ChunkTaken
      <3>3. /\ \A i \in 1..Len(toReceiver') :
                 /\ toReceiver'[i].type = "chunk"
                 /\ toReceiver'[i].offset \in received'..(next' - 1)
            /\ \A i, j \in 1..Len(toReceiver') :
                 i < j => toReceiver'[i].offset < toReceiver'[j].offset
        BY <1>1, <3>1, ChunkTaken DEF received
      <3>4. \A i \in 1..Len(toSender') :
              \/ toSender'[i] = Ack(acked' + i) /\ acked' + i <= received'
              \/ /\ toSender'[i] = Cancel
                 /\ i = Len(toSender')
                 /\ incoming' = "cancelled"
        BY <1>1, <3>1 DEF Streaming, received
      <3> QED
        BY <1>1, <3>1, <3>2, <3>3, <3>4 DEF Streaming
    <2>2. CASE AtReceiver("complete")
      <3>1. /\ Completing /\ toReceiver = <<Complete(Content(size))>>
            /\ toSender = <<>>
        BY <2>2, ArrivalStages
      <3>2. Quiet'
        BY <1>1, <3>1 DEF Quiet
      <3> QED
        BY <1>1, <3>1, <3>2 DEF Completing
    <2> QED
      BY <2>1, <2>2
  <1> QED
    BY <1>1, <1>3, <1>4, <1>5, <1>6 DEF IInv, Protocol

LEMMA ReceiverStep == IInv /\ ReceiverNext => IInv'
  <1> SUFFICES ASSUME IInv, ReceiverNext PROVE IInv'
    OBVIOUS
  <1>1. TypeOK /\ Protocol
    BY DEF IInv
  <1>2. CASE ReceiverFails
    BY <1>1, <1>2, TakenSilently DEF ReceiverFails
  <1>3. CASE ReceiverIgnores
    BY <1>1, <1>3, TakenSilently DEF ReceiverIgnores, receiverVars, TypeOK
  <1> QED
    BY <1>2, <1>3, OnOfferStep, OnChunkStep, OnCompleteStep, OfferFailsStep
    DEF ReceiverNext

-----------------------------------------------------------------------------
(* Every step of the environment preserves it *)

LEMMA GarbleStep == IInv /\ Garble => IInv'
  <1> SUFFICES ASSUME TypeOK, Protocol, link,
                      NEW k \in 1..Len(toReceiver), toReceiver[k].type = "chunk",
                      toReceiver' = [toReceiver EXCEPT ![k].data = Garbled],
                      UNCHANGED <<size, link, senderVars, receiverVars, toSender>>,
                      faulty' = TRUE
               PROVE  IInv'
    BY DEF IInv, Garble
  <1>1. UNCHANGED <<size, link, outgoing, accepted, next, acked, completeSent,
                    incoming, written, disk, toSender>>
    BY DEF senderVars, receiverVars
  <1>2. /\ toReceiver[k] \in ToReceiverMessage /\ Len(toReceiver) \in Nat
        /\ toReceiver # <<>>
    BY DEF TypeOK
  <1>3. Streaming
    BY <1>2 DEF Protocol, NotOffered, Offered, Completing, Quiet, Offer, Complete
  <1>4. [toReceiver[k] EXCEPT !.data = Garbled] \in ToReceiverMessage
    BY <1>2 DEF ToReceiverMessage, Offer, Bytes
  <1>5. /\ toReceiver' \in Seq(ToReceiverMessage)
        /\ Len(toReceiver') = Len(toReceiver)
        /\ \A i \in 1..Len(toReceiver) : toReceiver'[i] =
             IF i = k THEN [toReceiver[k] EXCEPT !.data = Garbled] ELSE toReceiver[i]
    BY <1>4 DEF TypeOK
  <1>6. \A i \in 1..Len(toReceiver) :
          /\ toReceiver'[i].type = toReceiver[i].type
          /\ toReceiver'[i].offset = toReceiver[i].offset
    BY <1>2, <1>5 DEF ToReceiverMessage, Offer
  <1>7. TypeOK'
    BY <1>1, <1>5 DEF TypeOK
  <1>8. AckChain'
    BY <1>1 DEF Protocol, AckChain, received
  <1>9. Outcome'
    BY <1>1, <1>2, <1>3 DEF Protocol, Outcome, Streaming
  <1>10. Streaming'
    BY <1>1, <1>3, <1>5, <1>6 DEF Streaming, received
  <1> QED
    BY <1>1, <1>7, <1>8, <1>9, <1>10 DEF IInv, Protocol

LEMMA LoseLinkStep == IInv /\ LoseLink => IInv'
  <1> SUFFICES ASSUME TypeOK, Protocol, LoseLink PROVE IInv'
    BY DEF IInv
  <1>1. TypeOK'
    <2>1. /\ link' \in BOOLEAN /\ incoming' = "empty" /\ faulty' = TRUE
          /\ outgoing' \in {"idle", "open", "confirmed", "failed", "lost"}
      BY DEF LoseLink, TypeOK
    <2>2. toReceiver' = <<>> /\ toSender' = <<>>
      BY DEF LoseLink
    <2>3. UNCHANGED <<size, accepted, next, acked, completeSent, written, disk>>
      BY DEF LoseLink
    <2> QED
      BY <2>1, <2>2, <2>3 DEF TypeOK
  <1>2. AckChain'
    BY DEF LoseLink, Protocol, AckChain, received
  <1>3. Outcome'
    BY DEF LoseLink, Protocol, Outcome
  <1> QED
    BY <1>1, <1>2, <1>3 DEF IInv, Protocol, LoseLink, Quiet

\* One step of the whole: the invariant is inductive.
LEMMA InvariantStep == IInv /\ [Next]_vars => IInv'
  <1> SUFFICES ASSUME IInv, [Next]_vars PROVE IInv'
    OBVIOUS
  <1>1. CASE UNCHANGED vars
    BY <1>1 DEF IInv, TypeOK, Protocol, AckChain, Outcome, NotOffered, Offered,
                Streaming, Completing, Quiet, received, vars, senderVars,
                receiverVars
  <1> QED
    BY <1>1, OfferStep, SenderStep, ReceiverStep, GarbleStep, LoseLinkStep DEF Next

-----------------------------------------------------------------------------
(* The theorems *)

\* A transfer is always in one of its stages (IInv, of FileTransfer.Protocol).
THEOREM Invariance == Spec => []IInv
  BY InitInvariant, InvariantStep, PTL DEF Spec

\* Every variable keeps its type, and offsets stay within the file and the
\* window (FileSender, FileReceiver).
THEOREM TypeCorrect == Spec => []TypeOK
  <1>1. IInv => TypeOK
    BY DEF IInv
  <1> QED
    BY <1>1, Invariance, PTL

\* The transfer is always in one of the stages of Protocol.
THEOREM StagesCorrect == Spec => []Protocol
  <1>1. IInv => Protocol
    BY DEF IInv
  <1> QED
    BY <1>1, Invariance, PTL

\* A file in the download directory is the file that was sent, whatever
\* failed on the way (FileReceiver::handle).
THEOREM DeliveredWhole == Spec => []SavedWhole
  <1>1. IInv => SavedWhole
    BY DEF IInv, Protocol, Outcome, SavedWhole
  <1> QED
    BY <1>1, Invariance, PTL

\* The sender never has more than the window outstanding, and acks never
\* outrun what arrived (FileSender::poll, FileSender::on_peer).
THEOREM WindowKept == Spec => []AckChain
  <1>1. IInv => AckChain
    BY DEF IInv, Protocol
  <1> QED
    BY <1>1, Invariance, PTL

\* One transfer never has more messages under way than the window has chunks,
\* so its replies fit the queues the sessions reserve for them.
THEOREM QueuesStayBounded == Spec => []QueuesBounded
  <1>1. ASSUME IInv PROVE QueuesBounded
    <2>1. TypeOK /\ Protocol
      BY <1>1 DEF IInv
    <2>2. Window >= 1 /\ Window \in Nat
      BY WindowAssumption
    <2>3. CASE Quiet
      BY <2>2, <2>3 DEF Quiet, QueuesBounded
    <2>4. CASE Offered \/ Completing
      <3>1. Len(toReceiver) + Len(toSender) <= 1
        <4>1. \/ toReceiver = <<>> /\ toSender = <<>>
              \/ \E m : toReceiver = <<m>> /\ toSender = <<>>
              \/ \E m : toReceiver = <<>> /\ toSender = <<m>>
          BY <2>4, Zenon DEF Offered, Completing, Quiet
        <4> QED
          BY <4>1
      <3>2. Len(toReceiver) \in Nat /\ Len(toSender) \in Nat
        BY <2>1 DEF TypeOK
      <3> QED
        BY <2>2, <3>1, <3>2 DEF QueuesBounded
    <2>5. CASE Streaming
      <3>1. /\ Len(toReceiver) + Len(toSender) <= next - acked
            /\ next <= acked + Window
        BY <2>1, <2>5 DEF Streaming, Protocol, AckChain
      <3>2. /\ Len(toReceiver) \in Nat /\ Len(toSender) \in Nat
            /\ next \in Nat /\ acked \in Nat
        BY <2>1 DEF TypeOK
      <3> QED
        BY <2>2, <3>1, <3>2 DEF QueuesBounded
    <2> QED
      BY <2>1, <2>3, <2>4, <2>5 DEF Protocol, NotOffered
  <1> QED
    BY <1>1, Invariance, PTL

\* The sender's own checks never fire: a transfer fails only when the receiver
\* cancels it (FileSender::on_peer).
THEOREM FailureMeansCancel == Spec => OnlyCancelFails
  <1> DEFINE Fine == outgoing = "open" /\ outgoing' = "failed"
                       => Head(toSender) = Cancel
  <1>1. ASSUME IInv, [Next]_vars PROVE [Fine]_vars
    <2>1. TypeOK /\ Protocol
      BY <1>1 DEF IInv
    <2>2. CASE OnAck
      <3>1. Head(toSender).offset = acked + 1 /\ acked + 1 <= next
        BY <2>1, <2>2, NextAck DEF OnAck, Ack
      <3>2. acked + 1 \in Nat /\ next \in Nat /\ size \in Nat /\ next <= size
        BY <2>1 DEF TypeOK
      <3> QED
        BY <2>2, <3>1, <3>2 DEF OnAck
    <2>3. CASE OnCompleteEcho
      BY <2>1, <2>3, EchoConfirms
    <2>4. CASE OnCancel
      <3>1. Head(toSender) \in ToSenderMessage /\ Head(toSender).type = "cancel"
        BY <2>1, <2>4 DEF OnCancel, AtSender, TypeOK
      <3> QED
        BY <3>1 DEF ToSenderMessage, Accept, Cancel
    <2>5. CASE OfferFile \/ OnAccept \/ ReceiverNext \/ Garble
                \/ LoseLink \/ UNCHANGED vars
      BY <2>5 DEF OfferFile, OnAccept, ReceiverNext, Garble,
                  LoseLink, OnOffer, OnChunk, OnComplete, OfferFails,
                  ReceiverFails, ReceiverIgnores, senderVars, vars
    <2> QED
      BY <1>1, <2>2, <2>3, <2>4, <2>5 DEF Next, SenderNext
  <1> QED
    BY <1>1, Invariance, PTL DEF Spec, OnlyCancelFails

\* The transfer implements FileDelivery: every step delivers, confirms or fails
\* as that module allows, or changes nothing it promises.
THEOREM ImplementsDelivery == Spec => DeliveryPromise
  <1>1. Init => Delivery!Init
    BY DEF Init, Delivery!Init
  <1>2. ASSUME IInv, [Next]_vars PROVE [Delivery!Next]_(Delivery!vars)
    <2>1. TypeOK /\ Protocol /\ IInv'
      BY <1>2, InvariantStep DEF IInv
    <2>2. CASE OnComplete
      <3>1. outgoing = "open" /\ outgoing' = outgoing /\ disk = "partial"
        BY <2>1, <2>2, ArrivalStages DEF OnComplete, senderVars, Protocol, Outcome
      <3>2. CASE disk' = "saved"
        <4>1. Delivery!Deliver
          BY <3>1, <3>2 DEF Delivery!Deliver
        <4> QED
          BY <4>1 DEF Delivery!Next
      <3>3. CASE disk' # "saved"
        BY <3>1, <3>3 DEF Delivery!vars
      <3> QED
        BY <3>2, <3>3
    <2>3. CASE OnCompleteEcho
      <3>1. /\ outgoing = "open" /\ outgoing' = "confirmed"
            /\ disk = "saved" /\ disk' = disk
        BY <2>1, <2>3, EchoConfirms DEF OnCompleteEcho, receiverVars
      <3>2. Delivery!Confirm
        BY <3>1 DEF Delivery!Confirm
      <3> QED
        BY <3>2 DEF Delivery!Next
    <2>4. CASE OnCancel
      <3>1. outgoing = "open" /\ outgoing' = "failed" /\ disk' = disk
        BY <2>4 DEF OnCancel, receiverVars
      <3>2. disk # "saved"
        BY <2>1, <3>1 DEF IInv, Protocol, Outcome
      <3>3. Delivery!Fail
        BY <3>1, <3>2 DEF Delivery!Fail
      <3> QED
        BY <3>3 DEF Delivery!Next
    <2>5. CASE OnChunk
      <3>1. /\ outgoing' = outgoing
            /\ disk # "saved" /\ disk' # "saved"
        <4>1. incoming = "receiving" /\ disk = "partial" /\ outgoing' = outgoing
          BY <2>1, <2>5 DEF OnChunk, Protocol, Outcome, senderVars
        <4>2. disk' = disk \/ disk' = "absent"
          BY <2>5 DEF OnChunk, CancelTransfer
        <4> QED
          BY <4>1, <4>2
      <3> QED
        BY <3>1 DEF Delivery!vars
    <2>6. CASE OnOffer
      <3>1. /\ outgoing' = outgoing /\ disk' = "partial" /\ Offered
        BY <2>1, <2>6, ArrivalStages DEF OnOffer, senderVars
      <3>2. disk # "saved"
        BY <2>1, <3>1 DEF Protocol, Outcome, Offered
      <3> QED
        BY <3>1, <3>2 DEF Delivery!vars
    <2>7. CASE OnAck
      <3>1. Head(toSender).offset = acked + 1 /\ acked + 1 <= next
        BY <2>1, <2>7, NextAck DEF OnAck, Ack
      <3>2. acked + 1 \in Nat /\ next \in Nat /\ size \in Nat /\ next <= size
        BY <2>1 DEF TypeOK
      <3>3. UNCHANGED <<outgoing, disk>>
        BY <2>7, <3>1, <3>2 DEF OnAck, receiverVars
      <3> QED
        BY <3>3 DEF Delivery!vars
    <2>8. CASE OfferFile \/ LoseLink
      <3>1. /\ disk' = disk
            /\ \/ /\ outgoing \notin {"confirmed", "failed"}
                  /\ outgoing' \notin {"confirmed", "failed"}
               \/ outgoing' = outgoing
        BY <2>8 DEF OfferFile, LoseLink, receiverVars
      <3> QED
        BY <3>1 DEF Delivery!vars
    <2>9. CASE OnAccept \/ OfferFails \/ ReceiverFails
                \/ ReceiverIgnores \/ Garble \/ UNCHANGED vars
      <3>1. UNCHANGED <<outgoing, disk>>
        BY <2>9 DEF OnAccept, OfferFails, ReceiverFails,
                    ReceiverIgnores, Garble, senderVars, receiverVars, vars
      <3> QED
        BY <3>1 DEF Delivery!vars
    <2> QED
      BY <1>2, <2>2, <2>3, <2>4, <2>5, <2>6, <2>7, <2>8, <2>9
      DEF Next, SenderNext, ReceiverNext
  <1> QED
    BY <1>1, <1>2, Invariance, PTL DEF Spec, DeliveryPromise, Delivery!Spec

=============================================================================
