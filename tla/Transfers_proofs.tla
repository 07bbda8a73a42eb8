-------------------------- MODULE Transfers_proofs --------------------------
(***************************************************************************)
(* Proofs about Transfers: every transfer of a session keeps the promise   *)
(* of FileDelivery, whatever fails and whatever else is under way; and     *)
(* without a fault the two ends agree about their slots.                   *)
(***************************************************************************)
EXTENDS Transfers, SequenceTheorems, TLAPS

USE FilesAssumption, SizesAssumption, WindowAssumption, NoneAssumption

Elems(s) == {s[i] : i \in DOMAIN s}

IdOf(f) == NextId(f.from, f.n)

-----------------------------------------------------------------------------
(* Types *)

Message ==
    [type : {"accept", "cancel"}, id : Nat]
      \cup [type : {"ack"}, id : Nat, offset : Nat]
      \cup [type : {"chunk"}, id : Nat, offset : Nat, data : Datum]
      \cup [type : {"offer"}, id : Nat, name : File, size : Nat]
      \cup [type : {"complete"}, id : Nat, hash : Seq(Datum)]

TypeOK ==
    /\ outgoing \in [Peer -> FileSender \cup {None}]
    /\ incoming \in [Peer -> FileReceiver \cup {None}]
    /\ wire \in [Peer -> Seq(Message)]
    /\ asked \in [Peer -> 0..MaxFiles]
    /\ saved \subseteq [name : File, size : Nat, data : Seq(Datum)]
    /\ verdict \in [File -> {"none", "confirmed", "failed"}]
    /\ faults \in Nat

-----------------------------------------------------------------------------
(* The invariant, whatever fails *)

\* Files have been offered in the order of their numbers.
Known(f) == f.n <= asked[f.from]

\* The sender in p's slot has p's last file, which has no verdict yet.
Sending ==
    \A p \in Peer : outgoing[p] # None =>
        /\ outgoing[p].name = [from |-> p, n |-> asked[p]]
        /\ outgoing[p].id = IdOf(outgoing[p].name)
        /\ verdict[outgoing[p].name] = "none"
        /\ outgoing[p].acked <= outgoing[p].next
        /\ outgoing[p].next <= outgoing[p].size
        /\ outgoing[p].next <= outgoing[p].acked + Window

Receiving ==
    \A p \in Peer : incoming[p] # None =>
        /\ incoming[p].name.from = Other(p)
        /\ incoming[p].id = IdOf(incoming[p].name)
        /\ Known(incoming[p].name)

\* What has become of file f at its receiver: at most one of the three.
OfferUnderWay(f) ==
    \E m \in Elems(wire[Other(f.from)]) : m.type = "offer" /\ m.id = IdOf(f)
BeingReceived(f) ==
    incoming[Other(f.from)] # None /\ incoming[Other(f.from)].id = IdOf(f)
Saved(f) == \E s \in saved : s.name = f

\* Nothing will come of file f any more.
Dead(f) ==
    /\ ~ OfferUnderWay(f)
    /\ ~ Saved(f)
    /\ BeingReceived(f) => incoming[Other(f.from)].failed

Files ==
    \A f \in File :
        /\ OfferUnderWay(f) => ~ BeingReceived(f) /\ ~ Saved(f)
        /\ BeingReceived(f) => ~ Saved(f)
        /\ verdict[f] = "confirmed" => Saved(f)
        /\ verdict[f] = "failed" => Dead(f)
        /\ ~ Known(f) => verdict[f] = "none" /\ ~ Saved(f)

\* The sender of file f, while f is in its slot.
SenderOf(f) == outgoing[f.from]
InSlot(f) == SenderOf(f) # None /\ SenderOf(f).id = IdOf(f)

\* What message m to p, which is about file f, says of the two ends.
Good(p, f, m) ==
    /\ m.id = IdOf(f)
    /\ Known(f)
    /\ m.type \in {"offer", "chunk"} => f.from # p
    /\ m.type \in {"accept", "ack", "cancel"} => f.from = p
    /\ m.type = "offer" => m.name = f
    /\ m.type = "chunk" /\ InSlot(f) => m.offset < SenderOf(f).next
    /\ m.type = "ack" /\ InSlot(f) => m.offset <= SenderOf(f).next
    /\ m.type = "cancel" => Dead(f)
    /\ m.type = "complete" =>
         /\ m.hash = Bytes(f, Len(m.hash))
         /\ InSlot(f) => m.hash = Bytes(f, SenderOf(f).size)
         /\ f.from = p => Saved(f)

Post == \A p \in Peer : \A m \in Elems(wire[p]) : \E f \in File : Good(p, f, m)

\* An offer is sent once.
OneOffer ==
    \A p \in Peer : \A i, j \in DOMAIN wire[p] :
        wire[p][i].type = "offer" /\ wire[p][j].type = "offer"
          /\ wire[p][i].id = wire[p][j].id => i = j

SavedWhole == \A s \in saved : s.data = Bytes(s.name, s.size)

DInv == TypeOK /\ Sending /\ Receiving /\ Files /\ Post /\ OneOffer /\ SavedWhole

-----------------------------------------------------------------------------
(* The invariant while nothing has failed *)

\* Message a may be before message b of the same transfer.
Before(a, b) ==
    \/ a.type \in {"offer", "accept"} /\ b.type \notin {"offer", "accept"}
    \/ a.type \in {"chunk", "ack"} /\ b.type = a.type /\ a.offset < b.offset
    \/ a.type \in {"chunk", "ack"} /\ b.type = "complete"

Ordered(s) == \A i, j \in DOMAIN s : i < j /\ s[i].id = s[j].id => Before(s[i], s[j])

\* What is under way from p's sender and to it.
About(p, m) == \E n \in 1..MaxFiles : m.id = NextId(p, n)
Forth(p) == {m \in Elems(wire[Other(p)]) : About(p, m)}
Back(p) == {m \in Elems(wire[p]) : About(p, m)}

Idle(p) == outgoing[p] = None /\ incoming[Other(p)] = None /\ Forth(p) = {} /\ Back(p) = {}

Offered(p, o) ==
    /\ incoming[Other(p)] = None
    /\ ~ o.accepted /\ ~ o.complete /\ o.next = 0 /\ o.acked = 0
    /\ Forth(p) = {OfferOf(o)}
    /\ Back(p) = {}

\* The receiver that goes with sender o.
Matches(r, o) ==
    /\ r # None
    /\ r.id = o.id /\ r.name = o.name /\ r.size = o.size
    /\ ~ r.failed
    /\ r.written = Bytes(o.name, Len(r.written))

Accepted(p, o) ==
    /\ Matches(incoming[Other(p)], o)
    /\ Len(incoming[Other(p)].written) = 0
    /\ ~ o.accepted /\ ~ o.complete /\ o.next = 0 /\ o.acked = 0
    /\ Forth(p) = {}
    /\ Back(p) = {Accept(o.id)}

Streaming(p, o) ==
    /\ Matches(incoming[Other(p)], o)
    /\ o.accepted /\ ~ o.complete
    /\ o.acked <= Len(incoming[Other(p)].written)
    /\ Len(incoming[Other(p)].written) <= o.next
    /\ o.acked < o.size
    /\ Forth(p) = {Chunk(o.name, o.id, k) : k \in (Len(incoming[Other(p)].written) + 1)..o.next}
    /\ Back(p) \subseteq {Ack(o.id, k) : k \in (o.acked + 1)..Len(incoming[Other(p)].written)}

Completing(p, o) ==
    /\ Matches(incoming[Other(p)], o)
    /\ o.accepted /\ o.complete /\ o.acked = o.size /\ o.next = o.size
    /\ Len(incoming[Other(p)].written) = o.size
    /\ Forth(p) = {Complete(o.id, Bytes(o.name, o.size))}
    /\ Back(p) = {}

Echoed(p, o) ==
    /\ incoming[Other(p)] = None
    /\ o.accepted /\ o.complete /\ o.acked = o.size /\ o.next = o.size
    /\ Forth(p) = {}
    /\ Back(p) = {Complete(o.id, Bytes(o.name, o.size))}

Stages(p, o) ==
    Offered(p, o) \/ Accepted(p, o) \/ Streaming(p, o) \/ Completing(p, o) \/ Echoed(p, o)

ChannelIsCalm(p) ==
    /\ outgoing[p] = None => Idle(p)
    /\ outgoing[p] # None => Stages(p, outgoing[p])

Calm == \A p \in Peer : Ordered(wire[p]) /\ ChannelIsCalm(p)

CalmUnlessFaults == faults = 0 => Calm

-----------------------------------------------------------------------------
(* Sequences of messages *)

LEMMA ElemsOfTail ==
    ASSUME NEW S, NEW s \in Seq(S), s # <<>>
    PROVE  /\ Tail(s) \in Seq(S)
           /\ Elems(s) = {Head(s)} \cup Elems(Tail(s))
  <1>1. /\ DOMAIN s = 1..Len(s) /\ Len(s) \in Nat \ {0}
        /\ Tail(s) \in Seq(S) /\ DOMAIN Tail(s) = 1..(Len(s) - 1)
        /\ \A i \in 1..(Len(s) - 1) : Tail(s)[i] = s[i + 1]
        /\ Head(s) = s[1]
    BY LenProperties, EmptySeq, HeadTailProperties
  <1>2. \A i \in DOMAIN s : i = 1 \/ (i - 1 \in DOMAIN Tail(s) /\ s[i] = Tail(s)[i - 1])
    BY <1>1
  <1>3. \A i \in DOMAIN Tail(s) : i + 1 \in DOMAIN s /\ Tail(s)[i] = s[i + 1]
    BY <1>1
  <1>4. ASSUME NEW i \in DOMAIN s PROVE s[i] \in {Head(s)} \cup Elems(Tail(s))
    <2>1. i = 1 \/ \E j \in DOMAIN Tail(s) : s[i] = Tail(s)[j]
      BY <1>2
    <2>2. \A j \in DOMAIN Tail(s) : Tail(s)[j] \in Elems(Tail(s))
      BY DEF Elems
    <2> QED
      BY <1>1, <2>1, <2>2
  <1>5. Elems(Tail(s)) \subseteq Elems(s) /\ Head(s) \in Elems(s)
    BY <1>1, <1>3 DEF Elems
  <1>6. \A m \in Elems(s) : \E i \in DOMAIN s : m = s[i]
    BY DEF Elems
  <1> QED
    BY <1>1, <1>4, <1>5, <1>6

LEMMA ElemsOfConcat ==
    ASSUME NEW S, NEW s \in Seq(S), NEW t \in Seq(S)
    PROVE  /\ s \o t \in Seq(S)
           /\ Elems(s \o t) = Elems(s) \cup Elems(t)
  <1>1. /\ DOMAIN s = 1..Len(s) /\ Len(s) \in Nat
        /\ DOMAIN t = 1..Len(t) /\ Len(t) \in Nat
        /\ s \o t \in Seq(S) /\ DOMAIN (s \o t) = 1..(Len(s) + Len(t))
        /\ \A i \in 1..(Len(s) + Len(t)) :
             (s \o t)[i] = IF i <= Len(s) THEN s[i] ELSE t[i - Len(s)]
    BY LenProperties, ConcatProperties
  <1>2. \A i \in DOMAIN s : i \in DOMAIN (s \o t) /\ (s \o t)[i] = s[i]
    BY <1>1
  <1>3. \A i \in DOMAIN t : i + Len(s) \in DOMAIN (s \o t) /\ (s \o t)[i + Len(s)] = t[i]
    BY <1>1
  <1>4. \A i \in DOMAIN (s \o t) :
          \/ i \in DOMAIN s /\ (s \o t)[i] = s[i]
          \/ i - Len(s) \in DOMAIN t /\ (s \o t)[i] = t[i - Len(s)]
    BY <1>1
  <1> QED
    BY <1>1, <1>2, <1>3, <1>4 DEF Elems

LEMMA OrderedTail ==
    ASSUME NEW S, NEW s \in Seq(S), s # <<>>, Ordered(s)
    PROVE  /\ Ordered(Tail(s))
           /\ \A m \in Elems(Tail(s)) : m.id = Head(s).id => Before(Head(s), m)
  <1>1. /\ DOMAIN s = 1..Len(s) /\ Len(s) \in Nat \ {0}
        /\ DOMAIN Tail(s) = 1..(Len(s) - 1)
        /\ \A i \in 1..(Len(s) - 1) : Tail(s)[i] = s[i + 1]
        /\ Head(s) = s[1]
    BY LenProperties, EmptySeq, HeadTailProperties
  <1>2. \A i \in DOMAIN Tail(s) : i + 1 \in DOMAIN s /\ Tail(s)[i] = s[i + 1] /\ 1 < i + 1
    BY <1>1
  <1>3. 1 \in DOMAIN s
    BY <1>1
  <1>4. \A i, j \in DOMAIN Tail(s) : i < j => i + 1 < j + 1
    BY <1>1
  <1> QED
    BY <1>1, <1>2, <1>3, <1>4 DEF Ordered, Elems

LEMMA OrderedConcat ==
    ASSUME NEW S, NEW s \in Seq(S), NEW t \in Seq(S), Ordered(s), Ordered(t),
           \A a \in Elems(s), b \in Elems(t) : a.id = b.id => Before(a, b)
    PROVE  Ordered(s \o t)
  <1>1. /\ DOMAIN s = 1..Len(s) /\ Len(s) \in Nat
        /\ DOMAIN t = 1..Len(t) /\ Len(t) \in Nat
        /\ DOMAIN (s \o t) = 1..(Len(s) + Len(t))
        /\ \A i \in 1..(Len(s) + Len(t)) :
             (s \o t)[i] = IF i <= Len(s) THEN s[i] ELSE t[i - Len(s)]
    BY LenProperties, ConcatProperties
  <1> SUFFICES ASSUME NEW i \in DOMAIN (s \o t), NEW j \in DOMAIN (s \o t),
                      i < j, (s \o t)[i].id = (s \o t)[j].id
               PROVE  Before((s \o t)[i], (s \o t)[j])
    BY DEF Ordered
  <1>2. CASE j <= Len(s)
    <2>1. i \in DOMAIN s /\ j \in DOMAIN s /\ (s \o t)[i] = s[i] /\ (s \o t)[j] = s[j]
      BY <1>1, <1>2
    <2> QED
      BY <2>1 DEF Ordered
  <1>3. CASE i <= Len(s) /\ j > Len(s)
    <2>1. /\ i \in DOMAIN s /\ (s \o t)[i] = s[i]
          /\ j - Len(s) \in DOMAIN t /\ (s \o t)[j] = t[j - Len(s)]
      BY <1>1, <1>3
    <2>2. s[i] \in Elems(s) /\ t[j - Len(s)] \in Elems(t)
      BY <2>1 DEF Elems
    <2> QED
      BY <2>1, <2>2
  <1>4. CASE i > Len(s)
    <2>1. /\ i - Len(s) \in DOMAIN t /\ (s \o t)[i] = t[i - Len(s)]
          /\ j - Len(s) \in DOMAIN t /\ (s \o t)[j] = t[j - Len(s)]
          /\ i - Len(s) < j - Len(s)
      BY <1>1, <1>4
    <2> QED
      BY <2>1 DEF Ordered
  <1> QED
    BY <1>1, <1>2, <1>3, <1>4

LEMMA ElemsOfNone == Elems(<<>>) = {} /\ Ordered(<<>>)
  BY DEF Elems, Ordered

LEMMA ElemsOfOne == ASSUME NEW m PROVE Elems(<<m>>) = {m} /\ Ordered(<<m>>)
  <1>1. DOMAIN <<m>> = {1} /\ <<m>>[1] = m
    OBVIOUS
  <1> QED
    BY <1>1 DEF Elems, Ordered

LEMMA ElemsTyped == ASSUME NEW S, NEW s \in Seq(S) PROVE Elems(s) \subseteq S
  BY ElementOfSeq DEF Elems

-----------------------------------------------------------------------------
(* Ids, messages and polls *)

LEMMA Ends ==
    /\ \A p \in Peer : Other(p) \in Peer /\ Other(p) # p /\ Other(Other(p)) = p
    /\ \A p, x \in Peer : x = p \/ x = Other(p)
  BY DEF Peer, Other

LEMMA IdsApart ==
    /\ \A f \in File : IdOf(f) \in Nat /\ f.from \in Peer /\ f.n \in 1..MaxFiles
    /\ \A f, g \in File : IdOf(f) = IdOf(g) => f = g
    /\ \A p \in Peer, n \in 1..MaxFiles : [from |-> p, n |-> n] \in File
  BY DEF File, IdOf, NextId, Peer

LEMMA BytesType ==
    ASSUME NEW f \in File, NEW n \in Nat
    PROVE  Bytes(f, n) \in Seq(Datum) /\ Len(Bytes(f, n)) = n
  <1>1. \A k \in 1..n : <<f, k>> \in Datum
    BY DEF Datum
  <1>2. Bytes(f, n) \in [1..n -> Datum]
    BY <1>1 DEF Bytes
  <1> QED
    BY <1>2, LenProperties, SeqDef

LEMMA MessageTypes ==
    /\ \A i \in Nat : Accept(i) \in Message /\ Cancel(i) \in Message
    /\ \A i, k \in Nat : Ack(i, k) \in Message
    /\ \A f \in File, i \in Nat, k \in Nat \ {0} : Chunk(f, i, k) \in Message
    /\ \A f \in File, i, n \in Nat : Offer(f, i, n) \in Message
    /\ \A i \in Nat, h \in Seq(Datum) : Complete(i, h) \in Message
  <1>1. \A f \in File, i \in Nat, k \in Nat \ {0} : Chunk(f, i, k) \in Message
    <2>1. \A f \in File, k \in Nat \ {0} : <<f, k>> \in Datum
      BY DEF Datum
    <2> QED
      BY <2>1 DEF Chunk, Message
  <1> QED
    BY <1>1 DEF Accept, Cancel, Ack, Offer, Complete, Message

\* What one poll does to the sender.
LEMMA PollSteps ==
    ASSUME NEW o \in FileSender, o.acked <= o.next, o.next <= o.size,
           o.next <= o.acked + Window
    PROVE  /\ AfterPoll(o) \in FileSender
           /\ AfterPoll(o).id = o.id /\ AfterPoll(o).name = o.name
           /\ AfterPoll(o).size = o.size /\ AfterPoll(o).acked = o.acked
           /\ AfterPoll(o).accepted = o.accepted
           /\ o.next <= AfterPoll(o).next
           /\ AfterPoll(o).next <= o.size
           /\ AfterPoll(o).next <= o.acked + Window
           /\ PollEnd(o) \in Nat /\ o.next <= PollEnd(o) /\ PollEnd(o) <= o.size
           /\ PollEnd(o) <= o.acked + Window
           /\ Polls(o) => /\ AfterPoll(o).next = PollEnd(o)
                          /\ (AfterPoll(o).complete <=> o.acked = o.size)
           /\ ~ Polls(o) => AfterPoll(o) = o
  <1>1. /\ PollEnd(o) \in Nat /\ o.next <= PollEnd(o) /\ PollEnd(o) <= o.size
        /\ PollEnd(o) <= o.acked + Window
    BY DEF PollEnd, FileSender
  <1>2. CASE Polls(o)
    <2>1. AfterPoll(o) = [o EXCEPT !.next = PollEnd(o), !.complete = (o.acked = o.size)]
      BY <1>2 DEF AfterPoll
    <2>2. PICK b \in BOOLEAN : b <=> o.acked = o.size
      OBVIOUS
    <2>3. AfterPoll(o) = [o EXCEPT !.next = PollEnd(o), !.complete = b]
      BY <2>1, <2>2
    <2>4. /\ AfterPoll(o) \in FileSender
          /\ AfterPoll(o).id = o.id /\ AfterPoll(o).name = o.name
          /\ AfterPoll(o).size = o.size /\ AfterPoll(o).acked = o.acked
          /\ AfterPoll(o).accepted = o.accepted
          /\ AfterPoll(o).next = PollEnd(o) /\ AfterPoll(o).complete = b
      BY <1>1, <2>3 DEF FileSender
    <2> QED
      BY <1>1, <1>2, <2>2, <2>4
  <1>3. CASE ~ Polls(o)
    <2>1. AfterPoll(o) = o
      BY <1>3 DEF AfterPoll
    <2>2. o.next \in Nat
      BY DEF FileSender
    <2> QED
      BY <1>1, <1>3, <2>1, <2>2
  <1> QED
    BY <1>2, <1>3

\* The chunks of one poll, as a set and in their order.
Polled(o) == {Chunk(o.name, o.id, k) : k \in (o.next + 1)..PollEnd(o)}

LEMMA PollSends ==
    ASSUME NEW o \in FileSender, o.acked <= o.next, o.next <= o.size,
           o.next <= o.acked + Window
    PROVE  /\ PollMessages(o) \in Seq(Message)
           /\ Ordered(PollMessages(o))
           /\ Elems(PollMessages(o)) =
                IF ~ Polls(o) THEN {}
                ELSE IF o.acked = o.size
                  THEN Polled(o) \cup {Complete(o.id, Bytes(o.name, o.size))}
                  ELSE Polled(o)
  <1> DEFINE n == PollEnd(o) - o.next
             chunks == [i \in 1..n |-> Chunk(o.name, o.id, o.next + i)]
             end == IF o.acked = o.size
                      THEN <<Complete(o.id, Bytes(o.name, o.size))>> ELSE <<>>
  <1>1. /\ n \in Nat /\ o.name \in File /\ o.id \in Nat /\ o.next \in Nat /\ o.size \in Nat
        /\ PollEnd(o) \in Nat
    BY PollSteps DEF FileSender
  <1>2. chunks \in Seq(Message)
    <2>1. chunks \in [1..n -> Message]
      BY <1>1, MessageTypes
    <2> QED
      BY <1>1, <2>1, SeqDef
  <1>3. Elems(chunks) = Polled(o)
    <2>1. ASSUME NEW i \in DOMAIN chunks PROVE chunks[i] \in Polled(o)
      <3>1. o.next + i \in (o.next + 1)..PollEnd(o) /\ chunks[i] = Chunk(o.name, o.id, o.next + i)
        BY <1>1
      <3> QED
        BY <3>1 DEF Polled
    <2>2. ASSUME NEW k \in (o.next + 1)..PollEnd(o)
          PROVE  Chunk(o.name, o.id, k) \in Elems(chunks)
      <3>1. k - o.next \in DOMAIN chunks /\ chunks[k - o.next] = Chunk(o.name, o.id, k)
        BY <1>1
      <3> QED
        BY <3>1 DEF Elems
    <2> QED
      BY <2>1, <2>2 DEF Polled, Elems
  <1>4. Ordered(chunks)
    BY <1>1 DEF Ordered, Before, Chunk
  <1>5. /\ end \in Seq(Message)
        /\ Ordered(end)
        /\ Elems(end) = IF o.acked = o.size THEN {Complete(o.id, Bytes(o.name, o.size))} ELSE {}
    <2>1. Complete(o.id, Bytes(o.name, o.size)) \in Message
      BY <1>1, BytesType, MessageTypes
    <2>2. CASE o.acked = o.size
      <3>1. end = <<Complete(o.id, Bytes(o.name, o.size))>>
        BY <2>2
      <3> HIDE DEF end
      <3> QED
        BY <2>1, <2>2, <3>1, ElemsOfOne
    <2>3. CASE o.acked # o.size
      <3>1. end = <<>>
        BY <2>3
      <3> HIDE DEF end
      <3> QED
        BY <2>3, <3>1, ElemsOfNone
    <2> QED
      BY <2>2, <2>3
  <1>6. \A a \in Elems(chunks), b \in Elems(end) : Before(a, b)
    BY <1>3, <1>5 DEF Polled, Before, Chunk, Complete
  <1> HIDE DEF chunks, end, n
  <1>7. CASE Polls(o)
    <2>1. PollMessages(o) = chunks \o end
      BY <1>7 DEF PollMessages, chunks, end, n
    <2>2. Ordered(chunks \o end)
      BY <1>2, <1>4, <1>5, <1>6, OrderedConcat
    <2>3. chunks \o end \in Seq(Message) /\ Elems(chunks \o end) = Elems(chunks) \cup Elems(end)
      BY <1>2, <1>5, ElemsOfConcat
    <2> QED
      BY <1>3, <1>5, <1>7, <2>1, <2>2, <2>3
  <1>8. CASE ~ Polls(o)
    BY <1>8, ElemsOfNone DEF PollMessages
  <1> QED
    BY <1>7, <1>8

-----------------------------------------------------------------------------
(* One message is taken *)

LEMMA SendSteps ==
    ASSUME TypeOK, NEW p \in Peer, wire[p] # <<>>, NEW msgs \in Seq(Message), Send(p, msgs)
    PROVE  /\ wire' \in [Peer -> Seq(Message)]
           /\ wire'[p] = Tail(wire[p])
           /\ wire'[Other(p)] = wire[Other(p)] \o msgs
           /\ Head(wire[p]) \in Message
           /\ Elems(wire[p]) = {Head(wire[p])} \cup Elems(wire'[p])
           /\ Elems(wire'[Other(p)]) = Elems(wire[Other(p)]) \cup Elems(msgs)
  <1>1. wire[p] \in Seq(Message) /\ wire[Other(p)] \in Seq(Message)
    BY Ends DEF TypeOK
  <1>2. wire'[p] = Tail(wire[p]) /\ wire'[Other(p)] = wire[Other(p)] \o msgs
    BY Ends DEF TypeOK, Send
  <1>3. /\ Tail(wire[p]) \in Seq(Message)
        /\ Elems(wire[p]) = {Head(wire[p])} \cup Elems(Tail(wire[p]))
    BY <1>1, ElemsOfTail
  <1>4. /\ wire[Other(p)] \o msgs \in Seq(Message)
        /\ Elems(wire[Other(p)] \o msgs) = Elems(wire[Other(p)]) \cup Elems(msgs)
    BY <1>1, ElemsOfConcat
  <1>5. wire' \in [Peer -> Seq(Message)]
    BY <1>3, <1>4 DEF TypeOK, Send
  <1>6. Head(wire[p]) \in Message
    BY <1>1, <1>3, ElemsTyped
  <1> QED
    BY <1>2, <1>3, <1>4, <1>5, <1>6

\* An answer is not an offer, and an offer that is taken was the only one.
LEMMA OffersStay ==
    ASSUME TypeOK, OneOffer, NEW p \in Peer, wire[p] # <<>>, NEW msgs \in Seq(Message),
           Send(p, msgs), \A m \in Elems(msgs) : m.type # "offer"
    PROVE  /\ OneOffer'
           /\ \A f \in File : OfferUnderWay(f)' => OfferUnderWay(f)
           /\ \A f \in File : /\ Head(wire[p]).type = "offer"
                              /\ Head(wire[p]).id = IdOf(f)
                              /\ f.from # p
                              => OfferUnderWay(f) /\ ~ OfferUnderWay(f)'
  <1> DEFINE s == wire[p]
             t == wire[Other(p)]
  <1>1. /\ wire'[p] = Tail(s) /\ wire'[Other(p)] = t \o msgs
        /\ Elems(s) = {Head(s)} \cup Elems(wire'[p])
        /\ Elems(wire'[Other(p)]) = Elems(t) \cup Elems(msgs)
    BY SendSteps
  <1>2. s \in Seq(Message) /\ t \in Seq(Message)
    BY Ends DEF TypeOK
  <1>3. /\ DOMAIN s = 1..Len(s) /\ Len(s) \in Nat \ {0}
        /\ DOMAIN Tail(s) = 1..(Len(s) - 1)
        /\ \A i \in 1..(Len(s) - 1) : Tail(s)[i] = s[i + 1]
        /\ Head(s) = s[1]
    BY <1>2, LenProperties, EmptySeq, HeadTailProperties
  <1>4. /\ DOMAIN t = 1..Len(t) /\ Len(t) \in Nat
        /\ DOMAIN msgs = 1..Len(msgs) /\ Len(msgs) \in Nat
        /\ DOMAIN (t \o msgs) = 1..(Len(t) + Len(msgs))
        /\ \A i \in 1..(Len(t) + Len(msgs)) :
             (t \o msgs)[i] = IF i <= Len(t) THEN t[i] ELSE msgs[i - Len(t)]
    BY <1>2, LenProperties, ConcatProperties
  <1>5. ASSUME NEW i \in DOMAIN Tail(s), NEW j \in DOMAIN Tail(s),
               Tail(s)[i].type = "offer", Tail(s)[j].type = "offer",
               Tail(s)[i].id = Tail(s)[j].id
        PROVE  i = j
    <2>1. i + 1 \in DOMAIN s /\ j + 1 \in DOMAIN s /\ Tail(s)[i] = s[i + 1] /\ Tail(s)[j] = s[j + 1]
      BY <1>3
    <2>2. i + 1 = j + 1
      BY <1>5, <2>1 DEF OneOffer
    <2> QED
      BY <1>3, <2>2
  <1>6. ASSUME NEW i \in DOMAIN (t \o msgs), NEW j \in DOMAIN (t \o msgs),
               (t \o msgs)[i].type = "offer", (t \o msgs)[j].type = "offer",
               (t \o msgs)[i].id = (t \o msgs)[j].id
        PROVE  i = j
    <2>1. ASSUME NEW k \in DOMAIN (t \o msgs), (t \o msgs)[k].type = "offer"
          PROVE  k \in DOMAIN t /\ (t \o msgs)[k] = t[k]
      <3>1. CASE k > Len(t)
        <4>1. k - Len(t) \in DOMAIN msgs /\ (t \o msgs)[k] = msgs[k - Len(t)]
          BY <1>4, <3>1
        <4> QED
          BY <2>1, <4>1 DEF Elems
      <3> QED
        BY <1>4, <3>1
    <2> QED
      BY <1>6, <2>1, Ends DEF OneOffer
  <1>7. OneOffer'
    <2>1. \A x \in Peer : x = p \/ x = Other(p)
      BY Ends
    <2> QED
      BY <1>1, <1>5, <1>6, <2>1 DEF OneOffer
  <1>8. ASSUME NEW f \in File, OfferUnderWay(f)' PROVE OfferUnderWay(f)
    <2>1. Other(f.from) = p \/ Other(f.from) = Other(p)
      BY Ends, IdsApart
    <2>2. PICK m \in Elems(wire'[Other(f.from)]) : m.type = "offer" /\ m.id = IdOf(f)
      BY <1>8 DEF OfferUnderWay
    <2>3. m \in Elems(wire[Other(f.from)])
      BY <1>1, <2>1, <2>2
    <2> QED
      BY <2>2, <2>3 DEF OfferUnderWay
  <1>9. ASSUME NEW f \in File, Head(s).type = "offer", Head(s).id = IdOf(f), f.from # p
        PROVE  OfferUnderWay(f) /\ ~ OfferUnderWay(f)'
    <2>1. Other(f.from) = p
      BY <1>9, Ends, IdsApart
    <2>2. OfferUnderWay(f)
      BY <1>1, <1>9, <2>1 DEF OfferUnderWay
    <2>3. ASSUME NEW i \in DOMAIN Tail(s), Tail(s)[i].type = "offer", Tail(s)[i].id = IdOf(f)
          PROVE  FALSE
      <3>1. 1 \in DOMAIN s /\ i + 1 \in DOMAIN s /\ Tail(s)[i] = s[i + 1] /\ i + 1 # 1
        BY <1>3
      <3> QED
        BY <1>3, <1>9, <2>3, <3>1 DEF OneOffer
    <2> QED
      BY <1>1, <2>1, <2>2, <2>3 DEF OfferUnderWay, Elems
  <1> QED
    BY <1>7, <1>8, <1>9

\* What was true of a message stays true.
LEMMA GoodStays ==
    ASSUME NEW f \in File, NEW x \in Peer, NEW m \in Message, Good(x, f, m), asked' = asked,
           InSlot(f)' => /\ InSlot(f)
                         /\ SenderOf(f)'.size = SenderOf(f).size
                         /\ SenderOf(f).next \in Nat /\ SenderOf(f)'.next \in Nat
                         /\ SenderOf(f).next <= SenderOf(f)'.next,
           Dead(f) => Dead(f)',
           Saved(f) => Saved(f)'
    PROVE  Good(x, f, m)'
  <1>1. m.type \in {"chunk", "ack"} => m.offset \in Nat
    BY DEF Message
  <1>2. Known(f)' <=> Known(f)
    BY DEF Known
  <1>3. InSlot(f)' /\ m.type = "chunk" => m.offset < SenderOf(f)'.next
    BY <1>1 DEF Good
  <1>4. InSlot(f)' /\ m.type = "ack" => m.offset <= SenderOf(f)'.next
    BY <1>1 DEF Good
  <1>5. InSlot(f)' /\ m.type = "complete" => m.hash = Bytes(f, SenderOf(f)'.size)
    BY DEF Good
  <1> QED
    BY <1>2, <1>3, <1>4, <1>5 DEF Good

\* The sender's part of the state goes on, or the file leaves its slot.
SlotGoesOn ==
    /\ asked' = asked
    /\ outgoing' \in [Peer -> FileSender \cup {None}]
    /\ \A x \in Peer : outgoing'[x] # None =>
         /\ outgoing[x] # None
         /\ outgoing'[x].id = outgoing[x].id
         /\ outgoing'[x].name = outgoing[x].name
         /\ outgoing'[x].size = outgoing[x].size
         /\ outgoing[x].next <= outgoing'[x].next

LEMMA PostStays ==
    ASSUME TypeOK, Post, NEW p \in Peer, wire[p] # <<>>, NEW msgs \in Seq(Message),
           Send(p, msgs), SlotGoesOn,
           \A f \in File : Dead(f) => Dead(f)',
           \A f \in File : Saved(f) => Saved(f)',
           \A m \in Elems(msgs) : \E f \in File : Good(Other(p), f, m)'
    PROVE  Post'
  <1>1. ASSUME NEW f \in File, InSlot(f)'
        PROVE  /\ InSlot(f)
               /\ SenderOf(f)'.size = SenderOf(f).size
               /\ SenderOf(f).next \in Nat /\ SenderOf(f)'.next \in Nat
               /\ SenderOf(f).next <= SenderOf(f)'.next
    <2>1. f.from \in Peer
      BY IdsApart
    <2>2. outgoing'[f.from] \in FileSender /\ outgoing[f.from] \in FileSender
      BY <1>1, <2>1 DEF SlotGoesOn, TypeOK, InSlot, SenderOf
    <2>3. outgoing[f.from].next \in Nat /\ outgoing'[f.from].next \in Nat
      BY <2>2 DEF FileSender
    <2> QED
      BY <1>1, <2>1, <2>3 DEF SlotGoesOn, InSlot, SenderOf
  <1>2. asked' = asked
    BY DEF SlotGoesOn
  <1>3. ASSUME NEW x \in Peer, NEW m \in Elems(wire[x]) PROVE \E f \in File : Good(x, f, m)'
    <2>1. PICK f \in File : Good(x, f, m)
      BY <1>3 DEF Post
    <2>2. m \in Message
      BY ElemsTyped DEF TypeOK
    <2> QED
      BY <1>1, <1>2, <2>1, <2>2, GoodStays
  <1>4. \A x \in Peer : x = p \/ x = Other(p)
    BY Ends
  <1>5. /\ Elems(wire'[p]) \subseteq Elems(wire[p])
        /\ Elems(wire'[Other(p)]) = Elems(wire[Other(p)]) \cup Elems(msgs)
    BY SendSteps
  <1>6. Other(p) \in Peer
    BY Ends
  <1> QED
    BY <1>3, <1>4, <1>5, <1>6 DEF Post

-----------------------------------------------------------------------------
(* The sender's steps *)

\* Nothing of the receivers' changes, and no offer is sent.
LEMMA SenderKeepsFiles ==
    ASSUME DInv, UNCHANGED <<incoming, asked, saved>>,
           \A f \in File : OfferUnderWay(f)' => OfferUnderWay(f)
    PROVE  /\ \A f \in File : (BeingReceived(f)' <=> BeingReceived(f)) /\ (Saved(f)' <=> Saved(f))
           /\ \A f \in File : Dead(f) => Dead(f)'
           /\ Receiving'
           /\ SavedWhole'
           /\ \A f \in File : verdict'[f] = verdict[f] =>
                /\ OfferUnderWay(f)' => ~ BeingReceived(f)' /\ ~ Saved(f)'
                /\ BeingReceived(f)' => ~ Saved(f)'
                /\ verdict'[f] = "confirmed" => Saved(f)'
                /\ verdict'[f] = "failed" => Dead(f)'
                /\ ~ Known(f)' => verdict'[f] = "none" /\ ~ Saved(f)'
  <1>1. \A f \in File : (BeingReceived(f)' <=> BeingReceived(f)) /\ (Saved(f)' <=> Saved(f))
    BY DEF BeingReceived, Saved
  <1>2. \A f \in File : Dead(f) => Dead(f)'
    BY <1>1 DEF Dead
  <1>3. Receiving' /\ SavedWhole'
    BY DEF DInv, Receiving, SavedWhole, Known
  <1>4. \A f \in File : Known(f)' <=> Known(f)
    BY DEF Known
  <1> QED
    BY <1>1, <1>2, <1>3, <1>4 DEF DInv, Files

LEMMA SenderGoesOn ==
    ASSUME DInv, NEW p \in Peer, wire[p] # <<>>, outgoing[p] # None,
           NEW x \in FileSender, NEW msgs \in Seq(Message),
           x.id = outgoing[p].id, x.name = outgoing[p].name, x.size = outgoing[p].size,
           outgoing[p].next <= x.next, x.acked <= x.next, x.next <= x.size,
           x.next <= x.acked + Window,
           outgoing' = [outgoing EXCEPT ![p] = x],
           Send(p, msgs),
           \A m \in Elems(msgs) :
               \/ m.type = "chunk" /\ m.id = x.id /\ m.offset < x.next
               \/ m = Complete(x.id, Bytes(x.name, x.size)),
           faults' \in Nat,
           UNCHANGED <<incoming, asked, saved, verdict>>
    PROVE  DInv'
  <1> USE DEF DInv
  <1>1. \A m \in Elems(msgs) : m.type # "offer"
    BY DEF Complete
  <1>2. OneOffer' /\ \A f \in File : OfferUnderWay(f)' => OfferUnderWay(f)
    BY <1>1, OffersStay
  <1>3. /\ \A f \in File : Dead(f) => Dead(f)'
        /\ \A f \in File : Saved(f) => Saved(f)'
        /\ Receiving' /\ SavedWhole'
    BY <1>2, SenderKeepsFiles
  <1>4. Files'
    BY <1>2, SenderKeepsFiles DEF Files
  <1>5. wire' \in [Peer -> Seq(Message)]
    BY SendSteps
  <1>6. outgoing' \in [Peer -> FileSender \cup {None}]
    BY DEF TypeOK
  <1>7. TypeOK'
    BY <1>5, <1>6 DEF TypeOK
  <1>8. outgoing'[p] = x /\ \A y \in Peer : y # p => outgoing'[y] = outgoing[y]
    BY DEF TypeOK
  <1>9. \A y \in Peer : outgoing[y] # None => outgoing[y] \in FileSender /\ outgoing[y].next \in Nat
    BY DEF TypeOK, FileSender
  <1>10. SlotGoesOn
    BY <1>6, <1>8, <1>9 DEF SlotGoesOn
  <1>11. Sending'
    BY <1>8 DEF Sending
  <1>12. /\ x.name = [from |-> p, n |-> asked[p]]
         /\ x.id = IdOf(x.name)
         /\ x.name \in File /\ x.name.from = p /\ x.name.n = asked[p]
         /\ x.size \in Nat
    BY DEF Sending, FileSender
  <1>13. ASSUME NEW m \in Elems(msgs) PROVE Good(Other(p), x.name, m)'
    <2>1. Known(x.name)' /\ x.name.from # Other(p)
      BY <1>12, Ends DEF Known, TypeOK
    <2>2. SenderOf(x.name)' = x
      BY <1>8, <1>12 DEF SenderOf
    <2>3. CASE m.type = "chunk" /\ m.id = x.id /\ m.offset < x.next
      BY <1>12, <2>1, <2>2, <2>3 DEF Good
    <2>4. CASE m = Complete(x.id, Bytes(x.name, x.size))
      <3>1. m.type = "complete" /\ m.id = x.id /\ m.hash = Bytes(x.name, x.size)
        BY <2>4 DEF Complete
      <3>2. m.hash = Bytes(x.name, Len(m.hash))
        BY <1>12, <3>1, BytesType
      <3> QED
        BY <1>12, <2>1, <2>2, <3>1, <3>2 DEF Good
    <2> QED
      BY <2>3, <2>4
  <1>14. Post'
    BY <1>3, <1>10, <1>12, <1>13, PostStays
  <1> QED
    BY <1>2, <1>3, <1>4, <1>7, <1>11, <1>14

\* GoOn and ReadFails are such steps.
LEMMA PollGoesOn ==
    ASSUME DInv, NEW p \in Peer, wire[p] # <<>>, outgoing[p] # None, NEW o \in FileSender,
           o.id = outgoing[p].id, o.name = outgoing[p].name, o.size = outgoing[p].size,
           o.next = outgoing[p].next, o.acked <= o.next, o.next <= o.size,
           o.next <= o.acked + Window,
           GoOn(p, o) \/ ReadFails(p, o),
           UNCHANGED <<incoming, asked, saved, verdict>>
    PROVE  DInv'
  <1>0. o.next \in Nat /\ o.size \in Nat /\ o.acked \in Nat /\ o.name \in File /\ faults \in Nat
    BY DEF FileSender, DInv, TypeOK
  <1>1. CASE GoOn(p, o)
    <2> DEFINE x == AfterPoll(o)
    <2>1. /\ outgoing' = [outgoing EXCEPT ![p] = x]
          /\ Send(p, PollMessages(o))
          /\ faults' \in Nat
      BY <1>0, <1>1 DEF GoOn
    <2>2. /\ x \in FileSender
          /\ x.id = outgoing[p].id /\ x.name = outgoing[p].name /\ x.size = outgoing[p].size
          /\ outgoing[p].next <= x.next /\ x.acked <= x.next /\ x.next <= x.size
          /\ x.next <= x.acked + Window
      <3>1. x \in FileSender /\ x.next \in Nat /\ x.acked \in Nat
        BY PollSteps DEF FileSender
      <3> HIDE DEF x
      <3>2. /\ x.id = o.id /\ x.name = o.name /\ x.size = o.size /\ x.acked = o.acked
            /\ o.next <= x.next /\ x.next <= x.size /\ x.next <= x.acked + Window
        BY PollSteps DEF x
      <3> QED
        BY <1>0, <3>1, <3>2
    <2>3. PollMessages(o) \in Seq(Message)
      BY PollSends
    <2>4. \A m \in Elems(PollMessages(o)) :
            \/ m.type = "chunk" /\ m.id = x.id /\ m.offset < x.next
            \/ m = Complete(x.id, Bytes(x.name, x.size))
      <3>1. /\ x.id = o.id /\ x.name = o.name /\ x.size = o.size /\ PollEnd(o) \in Nat
            /\ Polls(o) => x.next = PollEnd(o)
        BY PollSteps
      <3> HIDE DEF x
      <3>2. Polls(o) => \A m \in Polled(o) : m.type = "chunk" /\ m.id = x.id /\ m.offset < x.next
        BY <1>0, <3>1 DEF Polled, Chunk
      <3> QED
        BY <3>1, <3>2, PollSends
    <2> HIDE DEF x
    <2> QED
      BY <2>1, <2>2, <2>3, <2>4, SenderGoesOn
  <1>2. CASE ReadFails(p, o)
    <2>1. PICK k \in o.next..(PollEnd(o) - 1) : outgoing' = [outgoing EXCEPT ![p] = [o EXCEPT !.next = k]]
      BY <1>2 DEF ReadFails
    <2> DEFINE x == [o EXCEPT !.next = k]
    <2>2. /\ PollEnd(o) \in Nat /\ PollEnd(o) <= o.size /\ PollEnd(o) <= o.acked + Window
      BY PollSteps
    <2>3. k \in Nat /\ o.next <= k /\ k <= o.size /\ k <= o.acked + Window /\ o.acked <= k
      BY <1>0, <2>2
    <2>4. /\ x \in FileSender
          /\ x.id = o.id /\ x.name = o.name /\ x.size = o.size /\ x.acked = o.acked /\ x.next = k
      BY <2>3 DEF FileSender
    <2>5. Send(p, <<>>) /\ outgoing' = [outgoing EXCEPT ![p] = x]
      BY <1>2, <2>1 DEF ReadFails
    <2>8. faults' \in Nat
      BY <1>0, <1>2 DEF ReadFails
    <2>6. <<>> \in Seq(Message) /\ Elems(<<>>) = {}
      BY ElemsOfNone
    <2> HIDE DEF x
    <2>7. \A m \in Elems(<<>>) :
            \/ m.type = "chunk" /\ m.id = x.id /\ m.offset < x.next
            \/ m = Complete(x.id, Bytes(x.name, x.size))
      BY <2>6
    <2> QED
      BY <2>3, <2>4, <2>5, <2>6, <2>7, <2>8, SenderGoesOn
  <1> QED
    BY <1>1, <1>2

\* A file leaves its slot with the verdict it deserves.
LEMMA SettleStep ==
    ASSUME DInv, NEW p \in Peer, wire[p] # <<>>, outgoing[p] # None,
           NEW how \in {"confirmed", "failed"}, Settle(p, how),
           how = "confirmed" => Saved(outgoing[p].name),
           how = "failed" => Dead(outgoing[p].name),
           UNCHANGED <<incoming, asked, saved>>
    PROVE  DInv'
  <1> USE DEF DInv
  <1>1. /\ outgoing' = [outgoing EXCEPT ![p] = None]
        /\ verdict' = [verdict EXCEPT ![outgoing[p].name] = how]
        /\ Send(p, <<>>)
        /\ faults' = faults
    BY DEF Settle
  <1>2. <<>> \in Seq(Message) /\ Elems(<<>>) = {}
    BY ElemsOfNone
  <1>3. OneOffer' /\ \A f \in File : OfferUnderWay(f)' => OfferUnderWay(f)
    BY <1>1, <1>2, OffersStay
  <1>4. /\ \A f \in File : (BeingReceived(f)' <=> BeingReceived(f)) /\ (Saved(f)' <=> Saved(f))
        /\ \A f \in File : Dead(f) => Dead(f)'
        /\ Receiving' /\ SavedWhole'
    BY <1>3, SenderKeepsFiles
  <1>5. /\ outgoing[p] \in FileSender
        /\ outgoing[p].name \in File
        /\ outgoing[p].name = [from |-> p, n |-> asked[p]]
    BY DEF TypeOK, Sending, FileSender
  <1>6. Files'
    <2>0. PICK g \in File : g = outgoing[p].name
      BY <1>5
    <2>1. ASSUME NEW f \in File, f # g PROVE verdict'[f] = verdict[f]
      BY <1>1, <2>0, <2>1 DEF TypeOK
    <2>2. verdict'[g] = how /\ g.from = p /\ g.n = asked[p]
      BY <1>1, <1>5, <2>0 DEF TypeOK
    <2>3. Known(g)'
      BY <2>2 DEF Known, TypeOK
    <2>4. /\ OfferUnderWay(g)' => ~ BeingReceived(g)' /\ ~ Saved(g)'
          /\ BeingReceived(g)' => ~ Saved(g)'
      BY <1>3, <1>4 DEF Files
    <2>5. /\ how = "confirmed" => Saved(g)'
          /\ how = "failed" => Dead(g)'
      BY <1>4, <2>0
    <2> QED
      BY <1>3, <2>1, <2>2, <2>3, <2>4, <2>5, SenderKeepsFiles DEF Files
  <1>7. wire' \in [Peer -> Seq(Message)]
    BY <1>1, <1>2, SendSteps
  <1>8. outgoing' \in [Peer -> FileSender \cup {None}] /\ verdict' \in [File -> {"none", "confirmed", "failed"}]
    BY <1>1, <1>5 DEF TypeOK
  <1>9. TypeOK'
    BY <1>1, <1>7, <1>8 DEF TypeOK
  <1>10. outgoing'[p] = None /\ \A y \in Peer : y # p => outgoing'[y] = outgoing[y]
    BY <1>1 DEF TypeOK
  <1>11. \A y \in Peer : outgoing[y] # None => outgoing[y] \in FileSender /\ outgoing[y].next \in Nat
    BY DEF TypeOK, FileSender
  <1>12. SlotGoesOn
    BY <1>8, <1>10, <1>11 DEF SlotGoesOn
  <1>13. Sending'
    <2>1. ASSUME NEW y \in Peer, outgoing'[y] # None
          PROVE  outgoing[y].name # outgoing[p].name /\ outgoing'[y] = outgoing[y] /\ outgoing[y].name \in File
      <3>1. y # p /\ outgoing'[y] = outgoing[y]
        BY <1>10, <2>1
      <3>2. outgoing[y] # None /\ outgoing[y] \in FileSender
        BY <1>11, <2>1, <3>1
      <3>3. outgoing[y].name.from = y /\ outgoing[p].name.from = p
        <4>1. outgoing[y].name = [from |-> y, n |-> asked[y]]
          BY <3>2 DEF Sending
        <4> QED
          BY <1>5, <4>1
      <3> QED
        BY <3>1, <3>2, <3>3 DEF FileSender
    <2> QED
      BY <1>1, <2>1 DEF Sending, TypeOK
  <1>14. Post'
    BY <1>1, <1>2, <1>4, <1>12, PostStays
  <1> QED
    BY <1>3, <1>4, <1>6, <1>9, <1>13, <1>14

-----------------------------------------------------------------------------
(* The four messages a sender takes *)

\* What Post says of the message that p is about to take.
LEMMA HeadIsGood ==
    ASSUME DInv, NEW p \in Peer, wire[p] # <<>>
    PROVE  /\ Head(wire[p]) \in Message
           /\ \E f \in File : Good(p, f, Head(wire[p]))
  <1>1. wire[p] \in Seq(Message)
    BY DEF DInv, TypeOK
  <1>2. Head(wire[p]) \in Elems(wire[p])
    BY <1>1, ElemsOfTail
  <1>3. Head(wire[p]) \in Message
    BY <1>1, <1>2, ElemsTyped
  <1> QED
    BY <1>2, <1>3 DEF DInv, Post

\* A message that is claimed is about the file in the slot.
LEMMA ClaimedIsGood ==
    ASSUME DInv, NEW p \in Peer, wire[p] # <<>>, Claims(p)
    PROVE  /\ outgoing[p] \in FileSender
           /\ outgoing[p].name \in File
           /\ outgoing[p].name.from = p
           /\ InSlot(outgoing[p].name)
           /\ SenderOf(outgoing[p].name) = outgoing[p]
           /\ Good(p, outgoing[p].name, Head(wire[p]))
  <1>1. /\ outgoing[p] # None /\ outgoing[p] \in FileSender
        /\ Head(wire[p]).id = outgoing[p].id
    BY DEF Claims, DInv, TypeOK
  <1>2. /\ outgoing[p].name \in File
        /\ outgoing[p].name = [from |-> p, n |-> asked[p]]
        /\ outgoing[p].id = IdOf(outgoing[p].name)
    BY <1>1 DEF DInv, Sending, FileSender
  <1>3. outgoing[p].name.from = p
    BY <1>2
  <1>4. InSlot(outgoing[p].name) /\ SenderOf(outgoing[p].name) = outgoing[p]
    BY <1>1, <1>2, <1>3 DEF InSlot, SenderOf
  <1>5. PICK f \in File : Good(p, f, Head(wire[p]))
    BY HeadIsGood
  <1>6. f = outgoing[p].name
    BY <1>1, <1>2, <1>5, IdsApart DEF Good
  <1> QED
    BY <1>1, <1>2, <1>3, <1>4, <1>5, <1>6

LEMMA TakeAcceptStep == ASSUME DInv, NEW p \in Peer, TakeAccept(p) PROVE DInv'
  <1> DEFINE o == [outgoing[p] EXCEPT !.accepted = TRUE]
  <1>1. wire[p] # <<>> /\ Claims(p) /\ outgoing[p] # None
    BY DEF TakeAccept, At, Claims
  <1>2. outgoing[p] \in FileSender
    BY <1>1, ClaimedIsGood
  <1>3. /\ GoOn(p, o) \/ ReadFails(p, o)
        /\ UNCHANGED <<incoming, asked, saved, verdict>>
    BY DEF TakeAccept
  <1>4. /\ o \in FileSender
        /\ o.id = outgoing[p].id /\ o.name = outgoing[p].name /\ o.size = outgoing[p].size
        /\ o.next = outgoing[p].next /\ o.acked = outgoing[p].acked
    BY <1>2 DEF FileSender
  <1>5. /\ outgoing[p].acked <= outgoing[p].next
        /\ outgoing[p].next <= outgoing[p].size
        /\ outgoing[p].next <= outgoing[p].acked + Window
    BY <1>1 DEF DInv, Sending
  <1> HIDE DEF o
  <1> QED
    BY <1>1, <1>3, <1>4, <1>5, PollGoesOn

\* No acknowledgement is of a chunk that was not sent.
LEMMA TakeAckStep ==
    ASSUME DInv, NEW p \in Peer, TakeAck(p)
    PROVE  DInv' /\ saved' = saved /\ verdict' = verdict
  <1> DEFINE k == Head(wire[p]).offset
             a == IF k < outgoing[p].acked THEN outgoing[p].acked ELSE k
             o == [outgoing[p] EXCEPT !.acked = IF k < @ THEN @ ELSE k]
  <1>1. wire[p] # <<>> /\ Claims(p) /\ outgoing[p] # None /\ Head(wire[p]).type = "ack"
    BY DEF TakeAck, At, Claims
  <1>2. outgoing[p] \in FileSender /\ Good(p, outgoing[p].name, Head(wire[p]))
        /\ InSlot(outgoing[p].name) /\ SenderOf(outgoing[p].name) = outgoing[p]
    BY <1>1, ClaimedIsGood
  <1>3. /\ outgoing[p].acked <= outgoing[p].next
        /\ outgoing[p].next <= outgoing[p].size
        /\ outgoing[p].next <= outgoing[p].acked + Window
        /\ outgoing[p].acked \in Nat /\ outgoing[p].next \in Nat /\ outgoing[p].size \in Nat
    BY <1>1, <1>2 DEF DInv, Sending, FileSender
  <1>4. k \in Nat /\ k <= outgoing[p].next
    <2>1. k \in Nat
      BY <1>1, HeadIsGood DEF Message
    <2> QED
      BY <1>1, <1>2, <2>1 DEF Good
  <1>5. k <= outgoing[p].size
    BY <1>3, <1>4
  <1>6. /\ GoOn(p, o) \/ ReadFails(p, o)
        /\ UNCHANGED <<incoming, asked, saved, verdict>>
    BY <1>3, <1>4, <1>5 DEF TakeAck
  <1>7. a \in Nat /\ a <= outgoing[p].next /\ outgoing[p].acked <= a
    BY <1>3, <1>4
  <1>8. o = [outgoing[p] EXCEPT !.acked = a]
    OBVIOUS
  <1> HIDE DEF a, k
  <1>9. /\ o \in FileSender
        /\ o.id = outgoing[p].id /\ o.name = outgoing[p].name /\ o.size = outgoing[p].size
        /\ o.next = outgoing[p].next /\ o.acked = a
    BY <1>2, <1>7, <1>8 DEF FileSender
  <1> HIDE DEF o
  <1>10. o.acked <= o.next /\ o.next <= o.size /\ o.next <= o.acked + Window
    BY <1>3, <1>7, <1>9
  <1> QED
    BY <1>1, <1>6, <1>9, <1>10, PollGoesOn

\* Whoever gets an echo gets the right one, and the file is there.
LEMMA TakeEchoStep ==
    ASSUME DInv, NEW p \in Peer, TakeEcho(p)
    PROVE  /\ DInv'
           /\ Settle(p, "confirmed") /\ Saved(outgoing[p].name) /\ outgoing[p].name \in File
           /\ saved' = saved
  <1>1. wire[p] # <<>> /\ Claims(p) /\ outgoing[p] # None /\ Head(wire[p]).type = "complete"
    BY DEF TakeEcho, At, Claims
  <1>2. /\ Good(p, outgoing[p].name, Head(wire[p]))
        /\ InSlot(outgoing[p].name) /\ SenderOf(outgoing[p].name) = outgoing[p]
        /\ outgoing[p].name.from = p /\ outgoing[p].name \in File
    BY <1>1, ClaimedIsGood
  <1>3. /\ Head(wire[p]).hash = Bytes(outgoing[p].name, outgoing[p].size)
        /\ Saved(outgoing[p].name)
    BY <1>1, <1>2 DEF Good
  <1>4. Settle(p, "confirmed") /\ UNCHANGED <<incoming, asked, saved>>
    BY <1>3 DEF TakeEcho
  <1> QED
    BY <1>1, <1>2, <1>3, <1>4, SettleStep

\* A receiver that cancels has not saved the file and will not.
LEMMA TakeCancelStep ==
    ASSUME DInv, NEW p \in Peer, TakeCancel(p)
    PROVE  /\ DInv'
           /\ Settle(p, "failed") /\ Dead(outgoing[p].name) /\ outgoing[p].name \in File
           /\ saved' = saved
  <1>1. wire[p] # <<>> /\ Claims(p) /\ outgoing[p] # None /\ Head(wire[p]).type = "cancel"
    BY DEF TakeCancel, At, Claims
  <1>2. Good(p, outgoing[p].name, Head(wire[p])) /\ outgoing[p].name \in File
    BY <1>1, ClaimedIsGood
  <1>3. Dead(outgoing[p].name)
    BY <1>1, <1>2 DEF Good
  <1>4. Settle(p, "failed") /\ UNCHANGED <<incoming, asked, saved>>
    BY DEF TakeCancel
  <1> QED
    BY <1>1, <1>2, <1>3, <1>4, SettleStep

-----------------------------------------------------------------------------
(* The receiver's steps *)

\* The receiver of p becomes r, and files news are saved: r goes on with the
\* file it had or begins the one that is offered, and what is saved is the file
\* of a receiver that has not failed, which leaves its slot.
LEMMA ReceiverStep ==
    ASSUME DInv, NEW p \in Peer, wire[p] # <<>>, NEW r \in FileReceiver \cup {None},
           NEW msgs \in Seq(Message),
           NEW news \in SUBSET [name : File, size : Nat, data : Seq(Datum)],
           incoming' = [incoming EXCEPT ![p] = r],
           Send(p, msgs),
           saved' = saved \cup news,
           faults' \in Nat,
           UNCHANGED <<outgoing, asked, verdict>>,
           r # None => r.name.from = Other(p) /\ r.id = IdOf(r.name) /\ Known(r.name),
           r # None => \/ /\ incoming[p] # None
                          /\ r.id = incoming[p].id
                          /\ incoming[p].failed => r.failed
                       \/ Head(wire[p]).type = "offer" /\ Head(wire[p]).id = r.id,
           \A s \in news : /\ r = None /\ incoming[p] # None /\ ~ incoming[p].failed
                           /\ s.name = incoming[p].name
                           /\ s.data = Bytes(s.name, s.size),
           \A m \in Elems(msgs) : m.type # "offer" /\ \E f \in File : Good(Other(p), f, m)'
    PROVE  DInv'
  <1> USE DEF DInv
  <1>1. /\ OneOffer'
        /\ \A f \in File : OfferUnderWay(f)' => OfferUnderWay(f)
        /\ \A f \in File : /\ Head(wire[p]).type = "offer"
                           /\ Head(wire[p]).id = IdOf(f)
                           /\ f.from # p
                           => OfferUnderWay(f) /\ ~ OfferUnderWay(f)'
    BY OffersStay
  <1>2. wire' \in [Peer -> Seq(Message)]
    BY SendSteps
  <1>3. TypeOK'
    BY <1>2 DEF TypeOK
  <1>4. incoming'[p] = r /\ \A y \in Peer : y # p => incoming'[y] = incoming[y]
    BY DEF TypeOK
  <1>5. Sending'
    BY DEF Sending
  <1>6. Receiving'
    <2>1. r # None => r.name.from = Other(p) /\ r.id = IdOf(r.name) /\ Known(r.name)'
      BY DEF Known
    <2>2. \A y \in Peer : y # p /\ incoming'[y] # None =>
            /\ incoming'[y].name.from = Other(y)
            /\ incoming'[y].id = IdOf(incoming'[y].name)
            /\ incoming'[y].name.n <= asked'[incoming'[y].name.from]
      BY <1>4 DEF Receiving, Known
    <2> QED
      BY <1>4, <2>1, <2>2 DEF Receiving, Known
  <1>7. SavedWhole'
    BY DEF SavedWhole
  \* The file that p was receiving.
  <1>8. incoming[p] # None =>
          /\ incoming[p].name \in File /\ incoming[p].name.from = Other(p)
          /\ incoming[p].id = IdOf(incoming[p].name) /\ Known(incoming[p].name)
    BY DEF TypeOK, Receiving, FileReceiver
  <1>9. ASSUME NEW f \in File, BeingReceived(f)', ~ BeingReceived(f)
        PROVE  OfferUnderWay(f) /\ ~ OfferUnderWay(f)'
    <2>1. Other(f.from) \in Peer /\ (Other(f.from) = p => f.from # p)
      BY Ends, IdsApart
    <2>2. Other(f.from) = p /\ r # None /\ r.id = IdOf(f)
      BY <1>4, <1>9, <2>1 DEF BeingReceived
    <2>3. Head(wire[p]).type = "offer" /\ Head(wire[p]).id = IdOf(f)
      BY <1>9, <2>2 DEF BeingReceived
    <2> QED
      BY <1>1, <2>1, <2>2, <2>3
  <1>10. ASSUME NEW f \in File, BeingReceived(f)', BeingReceived(f)
         PROVE  incoming[Other(f.from)].failed => incoming'[Other(f.from)].failed
    <2>1. Other(f.from) \in Peer /\ (Other(f.from) = p => f.from # p)
      BY Ends, IdsApart
    <2>2. CASE Other(f.from) # p
      BY <1>4, <2>1, <2>2
    <2>3. CASE Other(f.from) = p /\ Head(wire[p]).type = "offer" /\ Head(wire[p]).id = IdOf(f)
      BY <1>1, <1>10, <2>1, <2>3 DEF Files
    <2> QED
      BY <1>4, <1>10, <2>2, <2>3 DEF BeingReceived
  <1>11. ASSUME NEW f \in File, Saved(f)', ~ Saved(f)
         PROVE  /\ BeingReceived(f) /\ ~ BeingReceived(f)'
                /\ ~ incoming[Other(f.from)].failed
                /\ Known(f)
    <2>1. PICK s \in news : s.name = f
      BY <1>11 DEF Saved
    <2>2. r = None /\ incoming[p] # None /\ ~ incoming[p].failed /\ f = incoming[p].name
      BY <2>1
    <2>3. f.from = Other(p) /\ Other(f.from) = p
      BY <1>8, <2>2, Ends
    <2> QED
      BY <1>4, <1>8, <2>2, <2>3 DEF BeingReceived
  <1>12. \A f \in File : Saved(f) => Saved(f)'
    BY DEF Saved
  <1>13. \A f \in File : Dead(f) => Dead(f)'
    BY <1>1, <1>9, <1>10, <1>11 DEF Dead
  <1>14. Files'
    <2>1. \A f \in File : Known(f)' <=> Known(f)
      BY DEF Known
    <2> SUFFICES ASSUME NEW f \in File
                 PROVE  /\ OfferUnderWay(f)' => ~ BeingReceived(f)' /\ ~ Saved(f)'
                        /\ BeingReceived(f)' => ~ Saved(f)'
                        /\ verdict[f] = "confirmed" => Saved(f)'
                        /\ verdict[f] = "failed" => Dead(f)'
                        /\ ~ Known(f) => verdict[f] = "none" /\ ~ Saved(f)'
      BY <2>1 DEF Files
    <2>2. /\ OfferUnderWay(f) => ~ BeingReceived(f) /\ ~ Saved(f)
          /\ BeingReceived(f) => ~ Saved(f)
          /\ verdict[f] = "confirmed" => Saved(f)
          /\ verdict[f] = "failed" => Dead(f)
          /\ ~ Known(f) => verdict[f] = "none" /\ ~ Saved(f)
      BY DEF Files
    <2> QED
      BY <1>1, <1>9, <1>11, <1>12, <1>13, <2>2
  <1>15. SlotGoesOn
    <2>1. \A y \in Peer : outgoing[y] # None => outgoing[y].next \in Nat
      BY DEF TypeOK, FileSender
    <2> QED
      BY <2>1 DEF SlotGoesOn, TypeOK
  <1>16. Post'
    BY <1>12, <1>13, <1>15, PostStays
  <1> QED
    BY <1>1, <1>3, <1>5, <1>6, <1>7, <1>14, <1>16

\* A receiver with file f that is not failed and whose slot p has it.
LEMMA ReceivedIsKnown ==
    ASSUME DInv, NEW p \in Peer, incoming[p] # None
    PROVE  /\ incoming[p] \in FileReceiver
           /\ incoming[p].id \in Nat /\ incoming[p].size \in Nat
           /\ incoming[p].written \in Seq(Datum)
           /\ incoming[p].name \in File /\ incoming[p].name.from = Other(p)
           /\ Other(incoming[p].name.from) = p
           /\ incoming[p].id = IdOf(incoming[p].name) /\ Known(incoming[p].name)
           /\ BeingReceived(incoming[p].name)
           /\ ~ Saved(incoming[p].name) /\ ~ OfferUnderWay(incoming[p].name)
  <1>1. incoming[p] \in FileReceiver
    BY DEF DInv, TypeOK
  <1>2. /\ incoming[p].id \in Nat /\ incoming[p].size \in Nat
        /\ incoming[p].written \in Seq(Datum) /\ incoming[p].name \in File
    BY <1>1 DEF FileReceiver
  <1>3. /\ incoming[p].name.from = Other(p) /\ Other(incoming[p].name.from) = p
        /\ incoming[p].id = IdOf(incoming[p].name) /\ Known(incoming[p].name)
    BY Ends DEF DInv, Receiving
  <1>4. BeingReceived(incoming[p].name)
    BY <1>3 DEF BeingReceived
  <1>5. ~ Saved(incoming[p].name) /\ ~ OfferUnderWay(incoming[p].name)
    BY <1>2, <1>4 DEF DInv, Files
  <1> QED
    BY <1>1, <1>2, <1>3, <1>4, <1>5

\* handle returns an error, or nobody is there to take the message.
LEMMA DropStep ==
    ASSUME DInv, NEW p \in Peer, wire[p] # <<>>, NEW r \in {None, incoming[p]},
           incoming' = [incoming EXCEPT ![p] = r], Send(p, <<>>),
           faults' \in Nat, UNCHANGED <<outgoing, asked, saved, verdict>>
    PROVE  DInv'
  <1>1. <<>> \in Seq(Message) /\ Elems(<<>>) = {}
    BY ElemsOfNone
  <1>2. r \in FileReceiver \cup {None} /\ saved' = saved \cup {}
    BY DEF DInv, TypeOK
  <1>3. r # None => /\ r.name.from = Other(p) /\ r.id = IdOf(r.name) /\ Known(r.name)
                    /\ incoming[p] # None /\ r.id = incoming[p].id
                    /\ incoming[p].failed => r.failed
    BY ReceivedIsKnown
  <1>4. {} \in SUBSET [name : File, size : Nat, data : Seq(Datum)]
    OBVIOUS
  <1> QED
    BY <1>1, <1>2, <1>3, <1>4, ReceiverStep

\* A cancel goes to the sender of a file that is dead by then.
LEMMA CancelStep ==
    ASSUME DInv, NEW p \in Peer, wire[p] # <<>>, incoming[p] # None, CancelReceiver(p),
           faults' \in Nat, UNCHANGED <<outgoing, asked, saved, verdict>>
    PROVE  DInv'
  <1>0. incoming[p] \in FileReceiver /\ incoming[p].id \in Nat
    BY ReceivedIsKnown
  <1>1. PICK r, m : /\ r = [incoming[p] EXCEPT !.failed = TRUE]
                    /\ m = Cancel(incoming[p].id)
    OBVIOUS
  <1>2. PICK f \in File : f = incoming[p].name
    BY ReceivedIsKnown
  <1>3. /\ r \in FileReceiver
        /\ r.name = incoming[p].name /\ r.id = incoming[p].id /\ r.failed
    BY <1>0, <1>1 DEF FileReceiver
  <1>4. /\ r.name.from = Other(p) /\ r.id = IdOf(r.name) /\ Known(r.name)
    BY <1>3, ReceivedIsKnown
  <1>5. m \in Message /\ m.type = "cancel" /\ m.id = incoming[p].id
    BY <1>0, <1>1, MessageTypes DEF Cancel
  <1>10. <<m>> \in Seq(Message) /\ Elems(<<m>>) = {m}
    BY <1>5, ElemsOfOne
  <1>6. incoming' = [incoming EXCEPT ![p] = r] /\ Send(p, <<m>>) /\ incoming'[p] = r
    BY <1>1 DEF CancelReceiver, Receiver, DInv, TypeOK
  <1>7. Dead(f)'
    <2>1. ~ OfferUnderWay(f) /\ ~ Saved(f) /\ Other(f.from) = p
      BY <1>2, ReceivedIsKnown
    <2>2. ~ OfferUnderWay(f)'
      BY <1>5, <1>6, <1>10, <2>1, OffersStay DEF DInv
    <2> QED
      BY <1>3, <1>6, <2>1, <2>2 DEF Dead, Saved
  <1>8. Good(Other(p), f, m)'
    <2>1. m.id = IdOf(f) /\ f.from = Other(p) /\ Known(f)
      BY <1>2, <1>5, ReceivedIsKnown
    <2> QED
      BY <1>5, <1>7, <2>1 DEF Good, Known
  <1>9. {} \in SUBSET [name : File, size : Nat, data : Seq(Datum)] /\ saved' = saved \cup {}
    OBVIOUS
  <1>11. \A x \in Elems(<<m>>) : x.type # "offer" /\ \E g \in File : Good(Other(p), g, x)'
    BY <1>5, <1>8, <1>10
  <1>12. r \in FileReceiver \cup {None} /\ (incoming[p].failed => r.failed)
    BY <1>3
  <1> QED
    BY <1>3, <1>4, <1>6, <1>9, <1>10, <1>11, <1>12, ReceiverStep

LEMMA OfferFields ==
    ASSUME NEW m \in Message
    PROVE  /\ m.id \in Nat
           /\ m.type = "offer" => m.name \in File /\ m.size \in Nat
           /\ m.type \in {"chunk", "ack"} => m.offset \in Nat
           /\ m.type = "chunk" => m.data \in Datum
           /\ m.type = "complete" => m.hash \in Seq(Datum)
  BY DEF Message

LEMMA TakeOfferStep == ASSUME DInv, NEW p \in Peer, TakeOffer(p) PROVE DInv'
  <1>1. PICK m \in Message : m = Head(wire[p])
    BY HeadIsGood DEF TakeOffer, At
  <1>2. wire[p] # <<>> /\ m.type = "offer" /\ UNCHANGED <<outgoing, asked, saved, verdict>>
    BY <1>1 DEF TakeOffer, At
  <1>3. PICK f \in File : Good(p, f, m)
    BY <1>1, <1>2, HeadIsGood
  <1>4. /\ m.id = IdOf(f) /\ m.id \in Nat /\ m.name = f /\ m.size \in Nat
        /\ Known(f) /\ f.from = Other(p) /\ f.from # p /\ Other(f.from) = p
    BY <1>2, <1>3, Ends, IdsApart, OfferFields DEF Good
  <1>5. {} \in SUBSET [name : File, size : Nat, data : Seq(Datum)] /\ saved' = saved \cup {}
    BY <1>2
  <1>6. CASE incoming[p] # None /\ Send(p, <<Cancel(m.id)>>) /\ UNCHANGED <<incoming, faults>>
    <2>1. PICK c \in Message : c = Cancel(m.id)
      BY <1>4, MessageTypes
    <2>2. /\ <<c>> \in Seq(Message) /\ Elems(<<c>>) = {c} /\ Send(p, <<c>>)
          /\ c.type = "cancel" /\ c.id = m.id
      BY <1>6, <2>1, ElemsOfOne DEF Cancel
    <2>3. OfferUnderWay(f) /\ ~ OfferUnderWay(f)'
      BY <1>1, <1>2, <1>4, <2>2, OffersStay DEF DInv
    <2>4. Dead(f)'
      <3>1. ~ BeingReceived(f) /\ ~ Saved(f)
        BY <2>3 DEF DInv, Files
      <3> QED
        BY <1>2, <1>6, <2>3, <3>1 DEF Dead, BeingReceived, Saved
    <2>5. Good(Other(p), f, c)'
      BY <1>2, <1>4, <2>2, <2>4 DEF Good, Known
    <2>6. \A x \in Elems(<<c>>) : x.type # "offer" /\ \E g \in File : Good(Other(p), g, x)'
      BY <2>2, <2>5
    <2>7. PICK r \in FileReceiver : r = incoming[p]
      BY <1>6, ReceivedIsKnown
    <2>8. /\ incoming' = [incoming EXCEPT ![p] = r]
          /\ r.name.from = Other(p) /\ r.id = IdOf(r.name) /\ Known(r.name)
          /\ r.id = incoming[p].id /\ (incoming[p].failed => r.failed)
          /\ faults' \in Nat
      BY <1>6, <2>7, ReceivedIsKnown DEF DInv, TypeOK
    <2>9. r \in FileReceiver \cup {None} /\ incoming[p] # None
      BY <1>6, <2>7
    <2> QED
      BY <1>2, <1>5, <2>2, <2>6, <2>8, <2>9, ReceiverStep
  <1>7. CASE /\ incoming[p] = None
             /\ incoming' = [incoming EXCEPT ![p] =
                    [id |-> m.id, name |-> m.name, size |-> m.size, written |-> <<>>,
                     failed |-> FALSE]]
             /\ Send(p, <<Accept(m.id)>>)
             /\ UNCHANGED faults
    <2>1. PICK a \in Message : a = Accept(m.id)
      BY <1>4, MessageTypes
    <2>2. /\ <<a>> \in Seq(Message) /\ Elems(<<a>>) = {a} /\ Send(p, <<a>>)
          /\ a.type = "accept" /\ a.id = m.id
      BY <1>7, <2>1, ElemsOfOne DEF Accept
    <2>3. PICK r : r = [id |-> m.id, name |-> m.name, size |-> m.size, written |-> <<>>,
                        failed |-> FALSE]
      OBVIOUS
    <2>4. /\ r \in FileReceiver
          /\ r.name = f /\ r.id = m.id
      BY <1>4, <2>3 DEF FileReceiver
    <2>5. Good(Other(p), f, a)'
      BY <1>2, <1>4, <2>2 DEF Good, Known
    <2>6. \A x \in Elems(<<a>>) : x.type # "offer" /\ \E g \in File : Good(Other(p), g, x)'
      BY <2>2, <2>5
    <2>7. incoming' = [incoming EXCEPT ![p] = r] /\ faults' \in Nat
      BY <1>7, <2>3 DEF DInv, TypeOK
    <2>8. /\ r \in FileReceiver \cup {None}
          /\ r.name.from = Other(p) /\ r.id = IdOf(r.name) /\ Known(r.name)
          /\ Head(wire[p]).type = "offer" /\ Head(wire[p]).id = r.id
      BY <1>1, <1>2, <1>4, <2>4
    <2> QED
      BY <1>2, <1>5, <2>2, <2>6, <2>7, <2>8, ReceiverStep
  <1>8. CASE incoming[p] = None /\ faults' = faults + 1 /\ Send(p, <<>>) /\ UNCHANGED incoming
    <2>1. incoming' = [incoming EXCEPT ![p] = incoming[p]] /\ faults' \in Nat
      BY <1>8 DEF DInv, TypeOK
    <2> QED
      BY <1>2, <1>8, <2>1, DropStep
  <1> QED
    BY <1>1, <1>6, <1>7, <1>8 DEF TakeOffer

LEMMA TakeChunkStep == ASSUME DInv, NEW p \in Peer, TakeChunk(p) PROVE DInv'
  <1>1. PICK m \in Message : m = Head(wire[p])
    BY HeadIsGood DEF TakeChunk, At
  <1>2. /\ wire[p] # <<>> /\ m.type = "chunk" /\ UNCHANGED <<outgoing, asked, saved, verdict>>
        /\ incoming[p] # None /\ m.id = incoming[p].id
    BY <1>1 DEF TakeChunk, At, Receives
  <1>3. PICK f \in File : Good(p, f, m)
    BY <1>1, <1>2, HeadIsGood
  <1>9. /\ incoming[p] \in FileReceiver /\ incoming[p].written \in Seq(Datum)
        /\ incoming[p].id \in Nat
        /\ incoming[p].name \in File /\ incoming[p].name.from = Other(p)
        /\ incoming[p].id = IdOf(incoming[p].name)
    BY <1>2, ReceivedIsKnown
  <1>10. m.id = IdOf(f) /\ Known(f) /\ m.offset \in Nat /\ m.data \in Datum
    BY <1>2, <1>3, OfferFields DEF Good
  <1>11. f = incoming[p].name
    BY <1>2, <1>9, <1>10, IdsApart
  <1>4. /\ f = incoming[p].name /\ Known(f) /\ f.from = Other(p) /\ m.id = IdOf(f)
        /\ incoming[p] \in FileReceiver /\ incoming[p].written \in Seq(Datum)
        /\ incoming[p].id \in Nat /\ m.offset \in Nat /\ m.data \in Datum
    BY <1>9, <1>10, <1>11
  <1>5. faults \in Nat
    BY DEF DInv, TypeOK
  <1>6. CASE CancelReceiver(p) /\ UNCHANGED faults
    BY <1>2, <1>5, <1>6, CancelStep
  <1>7. CASE faults' = faults + 1 /\ DropReceiver(p)
    <2>1. incoming' = [incoming EXCEPT ![p] = None] /\ Send(p, <<>>) /\ faults' \in Nat
      BY <1>5, <1>7 DEF DropReceiver
    <2> QED
      BY <1>2, <2>1, DropStep
  <1>8. CASE /\ incoming' = [incoming EXCEPT ![p].written = Append(@, m.data)]
             /\ Send(p, <<Ack(incoming[p].id, m.offset + 1)>>)
             /\ UNCHANGED faults
    <2>1. PICK a \in Message : a = Ack(incoming[p].id, m.offset + 1)
      BY <1>4, MessageTypes
    <2>2. /\ <<a>> \in Seq(Message) /\ Elems(<<a>>) = {a} /\ Send(p, <<a>>)
          /\ a.type = "ack" /\ a.id = m.id /\ a.offset = m.offset + 1
      BY <1>2, <1>8, <2>1, ElemsOfOne DEF Ack
    <2>3. PICK r : r = [incoming[p] EXCEPT !.written = Append(@, m.data)]
      OBVIOUS
    <2>4. /\ r \in FileReceiver
          /\ r.name = f /\ r.id = m.id /\ r.failed = incoming[p].failed
      <3>1. Append(incoming[p].written, m.data) \in Seq(Datum)
        BY <1>4, AppendProperties
      <3> QED
        BY <1>2, <1>4, <2>3, <3>1 DEF FileReceiver
    <2>5. Good(Other(p), f, a)'
      <3>1. InSlot(f)' => a.offset <= SenderOf(f)'.next
        <4>1. InSlot(f)' => InSlot(f) /\ SenderOf(f)' = SenderOf(f)
          BY <1>2 DEF InSlot, SenderOf
        <4>2. InSlot(f) => SenderOf(f) \in FileSender /\ SenderOf(f).next \in Nat
          BY <1>4, Ends DEF InSlot, SenderOf, DInv, TypeOK, FileSender
        <4> QED
          BY <1>2, <1>3, <1>4, <2>2, <4>1, <4>2 DEF Good
      <3> QED
        BY <1>2, <1>4, <2>2, <3>1 DEF Good, Known
    <2>6. \A x \in Elems(<<a>>) : x.type # "offer" /\ \E g \in File : Good(Other(p), g, x)'
      BY <2>2, <2>5
    <2>7. incoming' = [incoming EXCEPT ![p] = r] /\ faults' \in Nat
      BY <1>5, <1>8, <2>3 DEF DInv, TypeOK
    <2>8. {} \in SUBSET [name : File, size : Nat, data : Seq(Datum)] /\ saved' = saved \cup {}
      BY <1>2
    <2>9. /\ r.name.from = Other(p) /\ r.id = IdOf(r.name) /\ Known(r.name)
          /\ r.id = incoming[p].id /\ (incoming[p].failed => r.failed)
      BY <1>2, <1>4, <2>4
    <2> QED
      BY <1>2, <2>2, <2>4, <2>6, <2>7, <2>8, <2>9, ReceiverStep
  <1> QED
    BY <1>1, <1>6, <1>7, <1>8 DEF TakeChunk, Receiver

\* Only what is whole and as it was sent is saved.
LEMMA TakeCompleteStep ==
    ASSUME DInv, NEW p \in Peer, TakeComplete(p)
    PROVE  /\ DInv'
           /\ incoming[p] # None /\ ~ incoming[p].failed
           /\ \A s \in saved' : s \in saved \/ s.name = incoming[p].name
           /\ saved \subseteq saved' /\ verdict' = verdict
  <1>1. PICK m \in Message : m = Head(wire[p])
    BY HeadIsGood DEF TakeComplete, At
  <1>2. /\ wire[p] # <<>> /\ m.type = "complete" /\ UNCHANGED <<outgoing, asked, verdict>>
        /\ incoming[p] # None /\ ~ incoming[p].failed /\ m.id = incoming[p].id
    BY <1>1 DEF TakeComplete, At, Receives
  <1>3. PICK f \in File : Good(p, f, m)
    BY <1>1, <1>2, HeadIsGood
  <1>4. PICK old \in FileReceiver : old = incoming[p]
    BY <1>2, ReceivedIsKnown
  <1>5. /\ old.written \in Seq(Datum) /\ old.id \in Nat /\ old.size \in Nat
        /\ old.name \in File /\ old.name.from = Other(p)
        /\ old.id = IdOf(old.name)
    BY <1>2, <1>4, ReceivedIsKnown
  <1>6. m.id = IdOf(f) /\ Known(f) /\ m.hash \in Seq(Datum) /\ m.hash = Bytes(f, Len(m.hash))
    BY <1>2, <1>3, OfferFields DEF Good
  <1>7. f = old.name
    BY <1>2, <1>4, <1>5, <1>6, IdsApart
  <1>8. faults \in Nat
    BY DEF DInv, TypeOK
  <1>9. CASE CancelReceiver(p) /\ UNCHANGED <<saved, faults>>
    BY <1>2, <1>8, <1>9, CancelStep
  <1>10. CASE DropReceiver(p) /\ UNCHANGED saved /\ faults' \in Nat
    <2>1. incoming' = [incoming EXCEPT ![p] = None] /\ Send(p, <<>>)
      BY <1>10 DEF DropReceiver
    <2> QED
      BY <1>2, <1>10, <2>1, DropStep
  <1>11. CASE /\ Len(old.written) = old.size /\ HashMatches(old, m)
              /\ saved' = saved \cup {[name |-> old.name, size |-> old.size, data |-> old.written]}
              /\ incoming' = [incoming EXCEPT ![p] = None]
              /\ Send(p, <<m>>)
              /\ UNCHANGED faults
    <2>1. PICK s : s = [name |-> old.name, size |-> old.size, data |-> old.written]
      OBVIOUS
    <2>2. /\ {s} \in SUBSET [name : File, size : Nat, data : Seq(Datum)]
          /\ s.name = f /\ s.size = old.size /\ s.data = old.written
          /\ saved' = saved \cup {s}
      BY <1>5, <1>7, <1>11, <2>1
    <2>3. s.data = Bytes(s.name, s.size)
      BY <1>6, <1>11, <2>2 DEF HashMatches
    <2>4. <<m>> \in Seq(Message) /\ Elems(<<m>>) = {m}
      BY ElemsOfOne
    <2>5. Good(Other(p), f, m)'
      <3>1. InSlot(f)' => m.hash = Bytes(f, SenderOf(f)'.size)
        <4>1. InSlot(f)' => InSlot(f) /\ SenderOf(f)' = SenderOf(f)
          BY <1>2 DEF InSlot, SenderOf
        <4> QED
          BY <1>2, <1>3, <4>1 DEF Good
      <3>2. Saved(f)'
        BY <2>2 DEF Saved
      <3> QED
        BY <1>2, <1>6, <3>1, <3>2 DEF Good, Known
    <2>6. \A x \in Elems(<<m>>) : x.type # "offer" /\ \E g \in File : Good(Other(p), g, x)'
      BY <1>2, <2>4, <2>5
    <2>7. \A x \in {s} : /\ incoming[p] # None /\ ~ incoming[p].failed
                         /\ x.name = incoming[p].name
                         /\ x.data = Bytes(x.name, x.size)
      BY <1>2, <1>4, <1>7, <2>2, <2>3
    <2>8. PICK r \in FileReceiver \cup {None} : r = None
      OBVIOUS
    <2>10. faults' \in Nat /\ incoming' = [incoming EXCEPT ![p] = r] /\ Send(p, <<m>>)
      BY <1>8, <1>11, <2>8
    <2>11. \A x \in {s} : /\ r = None /\ incoming[p] # None /\ ~ incoming[p].failed
                          /\ x.name = incoming[p].name
                          /\ x.data = Bytes(x.name, x.size)
      BY <2>7, <2>8
    <2>12. PICK news \in SUBSET [name : File, size : Nat, data : Seq(Datum)] : news = {s}
      BY <2>2
    <2>13. PICK msgs \in Seq(Message) : msgs = <<m>>
      BY <2>4
    <2>14. /\ wire[p] # <<>> /\ UNCHANGED <<outgoing, asked, verdict>>
           /\ faults' \in Nat /\ incoming' = [incoming EXCEPT ![p] = r]
           /\ Send(p, msgs) /\ saved' = saved \cup news
      BY <1>2, <2>2, <2>10, <2>12, <2>13
    <2>15. \A x \in news : /\ r = None /\ incoming[p] # None /\ ~ incoming[p].failed
                           /\ x.name = incoming[p].name
                           /\ x.data = Bytes(x.name, x.size)
      BY <2>11, <2>12
    <2>16. \A x \in Elems(msgs) : x.type # "offer" /\ \E g \in File : Good(Other(p), g, x)'
      BY <2>6, <2>13
    <2>9. DInv'
      BY <2>8, <2>14, <2>15, <2>16, ReceiverStep
    <2> QED
      BY <1>2, <2>2, <2>7, <2>9
  <1> QED
    BY <1>1, <1>2, <1>4, <1>8, <1>9, <1>10, <1>11 DEF TakeComplete, Receiver, Finished

LEMMA IgnoreStep == ASSUME DInv, NEW p \in Peer, Ignore(p) PROVE DInv'
  <1>1. /\ wire[p] # <<>> /\ Send(p, <<>>)
        /\ UNCHANGED <<outgoing, incoming, asked, saved, verdict, faults>>
    BY DEF Ignore
  <1>2. incoming' = [incoming EXCEPT ![p] = incoming[p]] /\ faults' \in Nat
    BY <1>1 DEF DInv, TypeOK
  <1> QED
    BY <1>1, <1>2, DropStep

-----------------------------------------------------------------------------
(* The other steps *)

LEMMA ElemsOfAppend ==
    ASSUME NEW S, NEW s \in Seq(S), NEW e \in S
    PROVE  /\ Append(s, e) \in Seq(S)
           /\ Elems(Append(s, e)) = Elems(s) \cup {e}
  <1>1. /\ DOMAIN s = 1..Len(s) /\ Len(s) \in Nat
        /\ Append(s, e) \in Seq(S) /\ DOMAIN Append(s, e) = 1..(Len(s) + 1)
        /\ \A i \in 1..Len(s) : Append(s, e)[i] = s[i]
        /\ Append(s, e)[Len(s) + 1] = e
    BY LenProperties, AppendProperties
  <1>2. \A i \in DOMAIN Append(s, e) : i \in DOMAIN s \/ i = Len(s) + 1
    BY <1>1
  <1>3. \A i \in DOMAIN s : i \in DOMAIN Append(s, e)
    BY <1>1
  <1>4. Len(s) + 1 \in DOMAIN Append(s, e)
    BY <1>1
  <1> QED
    BY <1>1, <1>2, <1>3, <1>4 DEF Elems

\* A new file has a new id: nobody knows of it yet.
LEMMA NewFileIsNew ==
    ASSUME DInv, NEW f \in File, ~ Known(f)
    PROVE  /\ \A x \in Peer : \A m \in Elems(wire[x]) : m.id # IdOf(f)
           /\ ~ OfferUnderWay(f) /\ ~ BeingReceived(f) /\ ~ Saved(f) /\ verdict[f] = "none"
  <1>1. \A x \in Peer : \A m \in Elems(wire[x]) : m.id # IdOf(f)
    BY IdsApart DEF DInv, Post, Good
  <1>2. Other(f.from) \in Peer
    BY Ends, IdsApart
  <1>3. ~ OfferUnderWay(f)
    BY <1>1, <1>2 DEF OfferUnderWay
  <1>4. ~ BeingReceived(f)
    BY <1>2, IdsApart, ReceivedIsKnown DEF BeingReceived
  <1> QED
    BY <1>1, <1>3, <1>4 DEF DInv, Files

LEMMA SendFileStep == ASSUME DInv, SendFile PROVE DInv'
  <1> DEFINE n0 == asked["client"] + 1
  <1>0. "client" \in Peer /\ "host" \in Peer /\ "client" # "host" /\ Other("host") = "client"
        /\ Other("client") = "host"
    BY DEF Peer, Other
  <1>1. asked["client"] \in 0..MaxFiles /\ asked["client"] < MaxFiles
    BY <1>0 DEF SendFile, DInv, TypeOK
  <1>2. PICK f \in File : f = [from |-> "client", n |-> n0]
    <2>1. n0 \in 1..MaxFiles
      BY <1>1
    <2> QED
      BY <1>0, <2>1, IdsApart
  <1>3. f.from = "client" /\ f.n = n0 /\ ~ Known(f)
    BY <1>1, <1>2 DEF Known
  <1>4. /\ asked' = [asked EXCEPT !["client"] = n0]
        /\ asked'["client"] = n0
        /\ asked' \in [Peer -> 0..MaxFiles]
        /\ \A y \in Peer : asked[y] <= asked'[y]
    BY <1>0, <1>1 DEF SendFile, DInv, TypeOK
  <1>5. PICK size \in Sizes :
          /\ outgoing' = [outgoing EXCEPT !["client"] = Opened(f, size)]
          /\ wire' = [wire EXCEPT !["host"] = Append(@, OfferOf(Opened(f, size)))]
    BY <1>2, <1>4 DEF SendFile
  <1>6. outgoing["client"] = None /\ UNCHANGED <<incoming, saved, verdict, faults>>
    BY DEF SendFile
  <1>7. PICK o : o = Opened(f, size)
    OBVIOUS
  <1>8. /\ o \in FileSender /\ o.name = f /\ o.id = IdOf(f)
        /\ o.acked = 0 /\ o.next = 0 /\ o.size = size /\ size \in Nat
    <2>1. size \in Nat /\ IdOf(f) \in Nat
      BY IdsApart
    <2> QED
      BY <1>7, <2>1 DEF Opened, IdOf, FileSender
  <1>9. PICK m \in Message : m = OfferOf(o)
    BY <1>8, MessageTypes DEF OfferOf, FileSender
  <1>10. m.type = "offer" /\ m.id = IdOf(f) /\ m.name = f
    BY <1>8, <1>9 DEF OfferOf, Offer
  <1>11. /\ outgoing'["client"] = o /\ outgoing'["host"] = outgoing["host"]
         /\ wire'["host"] = Append(wire["host"], m) /\ wire'["client"] = wire["client"]
         /\ wire["host"] \in Seq(Message)
    BY <1>0, <1>5, <1>7, <1>9 DEF DInv, TypeOK
  <1>12. /\ wire'["host"] \in Seq(Message)
         /\ Elems(wire'["host"]) = Elems(wire["host"]) \cup {m}
    BY <1>11, ElemsOfAppend
  <1>13. TypeOK'
    <2>1. outgoing' \in [Peer -> FileSender \cup {None}]
      BY <1>5, <1>7, <1>8 DEF DInv, TypeOK
    <2>2. wire' \in [Peer -> Seq(Message)]
      BY <1>5, <1>7, <1>9, <1>11, <1>12 DEF DInv, TypeOK
    <2> QED
      BY <1>4, <1>6, <2>1, <2>2 DEF DInv, TypeOK
  <1>14. \A y \in Peer : y = "client" \/ y = "host"
    BY DEF Peer
  <1>15. /\ \A x \in Peer : \A k \in Elems(wire[x]) : k.id # IdOf(f)
         /\ ~ OfferUnderWay(f) /\ ~ BeingReceived(f) /\ ~ Saved(f) /\ verdict[f] = "none"
    BY <1>3, NewFileIsNew
  <1>16. Sending'
    <2>1. /\ outgoing'["client"].name = [from |-> "client", n |-> asked'["client"]]
          /\ outgoing'["client"].id = IdOf(outgoing'["client"].name)
          /\ verdict'[outgoing'["client"].name] = "none"
          /\ outgoing'["client"].acked <= outgoing'["client"].next
          /\ outgoing'["client"].next <= outgoing'["client"].size
          /\ outgoing'["client"].next <= outgoing'["client"].acked + Window
      BY <1>2, <1>4, <1>6, <1>8, <1>11, <1>15
    <2>2. asked'["host"] = asked["host"]
      BY <1>0, <1>4 DEF DInv, TypeOK
    <2> QED
      BY <1>0, <1>6, <1>11, <1>14, <2>1, <2>2 DEF DInv, Sending
  <1>17. \A g \in File : Known(g) => Known(g)'
    BY <1>4, <1>13, IdsApart DEF Known, DInv, TypeOK
  <1>18. Receiving'
    <2>1. \A y \in Peer : incoming[y] # None => incoming[y].name.n <= asked'[incoming[y].name.from]
      BY <1>17, ReceivedIsKnown DEF Known
    <2> QED
      BY <1>6, <2>1 DEF DInv, Receiving, Known
  <1>19. SavedWhole'
    BY <1>6 DEF DInv, SavedWhole
  <1>20. \A g \in File : (BeingReceived(g)' <=> BeingReceived(g)) /\ (Saved(g)' <=> Saved(g))
    BY <1>6 DEF BeingReceived, Saved
  <1>21. \A g \in File : OfferUnderWay(g)' => OfferUnderWay(g) \/ g = f
    <2> SUFFICES ASSUME NEW g \in File, OfferUnderWay(g)' PROVE OfferUnderWay(g) \/ g = f
      OBVIOUS
    <2>1. Other(g.from) = "client" \/ Other(g.from) = "host"
      BY <1>14, Ends, IdsApart
    <2>2. PICK k \in Elems(wire'[Other(g.from)]) : k.type = "offer" /\ k.id = IdOf(g)
      BY DEF OfferUnderWay
    <2>3. k \in Elems(wire[Other(g.from)]) \/ k = m
      BY <1>11, <1>12, <2>1, <2>2
    <2> QED
      BY <1>10, <2>2, <2>3, IdsApart DEF OfferUnderWay
  <1>22. \A g \in File : Dead(g) /\ g # f => Dead(g)'
    BY <1>6, <1>20, <1>21 DEF Dead
  <1>23. Files'
    <2>1. Known(f)'
      BY <1>3, <1>4 DEF Known
    <2> QED
      BY <1>6, <1>15, <1>17, <1>20, <1>21, <1>22, <2>1 DEF DInv, Files
  <1>24. Post'
    <2>1. Good("host", f, m)'
      <3>1. Known(f)'
        BY <1>3, <1>4 DEF Known
      <3> QED
        BY <1>3, <1>0, <1>10, <3>1 DEF Good
    <2>2. ASSUME NEW x \in Peer, NEW k \in Elems(wire[x]) PROVE \E g \in File : Good(x, g, k)'
      <3>1. PICK g \in File : Good(x, g, k)
        BY <2>2 DEF DInv, Post
      <3>2. g # f /\ k \in Message /\ Known(g)'
        BY <1>3, <1>17, <2>2, <3>1, ElemsTyped DEF Good, DInv, TypeOK
      <3>3. InSlot(g)' => InSlot(g) /\ SenderOf(g)' = SenderOf(g)
        <4>1. CASE g.from = "client"
          BY <1>8, <1>11, <3>2, <4>1, IdsApart DEF InSlot, SenderOf
        <4>2. CASE g.from = "host"
          BY <1>11, <4>2 DEF InSlot, SenderOf
        <4> QED
          BY <1>14, <4>1, <4>2, IdsApart
      <3>4. (Dead(g) => Dead(g)') /\ (Saved(g) => Saved(g)')
        BY <1>20, <1>22, <3>2
      <3> QED
        BY <3>1, <3>2, <3>3, <3>4 DEF Good
    <2> QED
      BY <1>11, <1>12, <1>14, <2>1, <2>2 DEF Post
  <1>25. OneOffer'
    <2>1. /\ DOMAIN wire["host"] = 1..Len(wire["host"]) /\ Len(wire["host"]) \in Nat
          /\ DOMAIN wire'["host"] = 1..(Len(wire["host"]) + 1)
          /\ \A i \in 1..Len(wire["host"]) : wire'["host"][i] = wire["host"][i]
          /\ wire'["host"][Len(wire["host"]) + 1] = m
      BY <1>11, LenProperties, AppendProperties
    <2>2. \A i \in 1..Len(wire["host"]) : wire["host"][i].id # m.id
      BY <1>0, <1>10, <1>15, <2>1 DEF Elems
    <2>3. ASSUME NEW i \in DOMAIN wire'["host"], NEW j \in DOMAIN wire'["host"],
                 wire'["host"][i].type = "offer", wire'["host"][j].type = "offer",
                 wire'["host"][i].id = wire'["host"][j].id
          PROVE  i = j
      <3>1. CASE i \in 1..Len(wire["host"]) /\ j \in 1..Len(wire["host"])
        <4>1. wire'["host"][i] = wire["host"][i] /\ wire'["host"][j] = wire["host"][j]
          BY <2>1, <3>1
        <4> QED
          BY <1>0, <2>1, <2>3, <3>1, <4>1 DEF DInv, OneOffer
      <3>2. CASE i = Len(wire["host"]) + 1 \/ j = Len(wire["host"]) + 1
        <4>1. \A k \in DOMAIN wire'["host"] : wire'["host"][k].id = m.id => k = Len(wire["host"]) + 1
          BY <2>1, <2>2
        <4> QED
          BY <2>1, <2>3, <3>2, <4>1
      <3> QED
        BY <2>1, <3>1, <3>2
    <2> QED
      BY <1>11, <1>14, <2>3 DEF DInv, OneOffer
  <1> QED
    BY <1>13, <1>16, <1>18, <1>19, <1>23, <1>24, <1>25 DEF DInv

\* A garbled chunk is still a chunk of its place.
LEMMA GarbleSteps ==
    ASSUME TypeOK, NEW p \in Peer, Garble(p)
    PROVE  /\ wire' \in [Peer -> Seq(Message)]
           /\ UNCHANGED <<outgoing, incoming, asked, saved, verdict>>
           /\ faults' = faults + 1
           /\ \A x \in Peer : DOMAIN wire'[x] = DOMAIN wire[x]
           /\ \A x \in Peer : \A j \in DOMAIN wire[x] :
                \/ wire'[x][j] = wire[x][j]
                \/ /\ wire[x][j].type = "chunk" /\ wire'[x][j].type = "chunk"
                   /\ wire'[x][j].id = wire[x][j].id
                   /\ wire'[x][j].offset = wire[x][j].offset
  <1>1. PICK i \in DOMAIN wire[p] :
          /\ wire[p][i].type = "chunk"
          /\ wire' = [wire EXCEPT ![p][i].data = <<Garbled>>]
    BY DEF Garble
  <1>2. PICK m : m = [wire[p][i] EXCEPT !.data = <<Garbled>>]
    OBVIOUS
  <1>3. wire[p] \in Seq(Message) /\ wire[p][i] \in Message
    BY <1>1, ElementOfSeq DEF TypeOK
  <1>4. /\ m \in Message /\ m.type = "chunk" /\ m.id = wire[p][i].id
        /\ m.offset = wire[p][i].offset
    <2>1. wire[p][i] \in [type : {"chunk"}, id : Nat, offset : Nat, data : Datum]
      BY <1>1, <1>3 DEF Message
    <2>2. <<Garbled>> \in Datum
      BY DEF Datum
    <2> QED
      BY <1>2, <2>1, <2>2 DEF Message
  <1>5. wire' = [wire EXCEPT ![p] = [wire[p] EXCEPT ![i] = m]]
    BY <1>1, <1>2
  <1>6. PICK s : s = [wire[p] EXCEPT ![i] = m]
    OBVIOUS
  <1>7. s \in Seq(Message) /\ DOMAIN s = DOMAIN wire[p]
        /\ s[i] = m /\ \A j \in DOMAIN wire[p] : j # i => s[j] = wire[p][j]
    <2>1. wire[p] \in [1..Len(wire[p]) -> Message] /\ Len(wire[p]) \in Nat /\ DOMAIN wire[p] = 1..Len(wire[p])
      BY <1>3, LenProperties
    <2>2. s \in [1..Len(wire[p]) -> Message]
      BY <1>1, <1>4, <1>6, <2>1
    <2> QED
      BY <1>1, <1>6, <2>1, <2>2, SeqDef
  <1>8. wire'[p] = s /\ \A x \in Peer : x # p => wire'[x] = wire[x]
    BY <1>5, <1>6 DEF TypeOK
  <1>9. wire' \in [Peer -> Seq(Message)]
    BY <1>5, <1>6, <1>7 DEF TypeOK
  <1> QED
    BY <1>1, <1>4, <1>7, <1>8, <1>9 DEF Garble

LEMMA GarbleStep == ASSUME DInv, NEW p \in Peer, Garble(p) PROVE DInv'
  <1>1. /\ wire' \in [Peer -> Seq(Message)]
        /\ UNCHANGED <<outgoing, incoming, asked, saved, verdict>>
        /\ faults' = faults + 1
        /\ \A x \in Peer : DOMAIN wire'[x] = DOMAIN wire[x]
        /\ \A x \in Peer : \A j \in DOMAIN wire[x] :
             \/ wire'[x][j] = wire[x][j]
             \/ /\ wire[x][j].type = "chunk" /\ wire'[x][j].type = "chunk"
                /\ wire'[x][j].id = wire[x][j].id
                /\ wire'[x][j].offset = wire[x][j].offset
    BY GarbleSteps DEF DInv
  <1>2. TypeOK'
    BY <1>1 DEF DInv, TypeOK
  <1>3. OneOffer'
    BY <1>1 DEF DInv, OneOffer
  <1>4. \A f \in File : OfferUnderWay(f)' => OfferUnderWay(f)
    <2> SUFFICES ASSUME NEW f \in File, OfferUnderWay(f)' PROVE OfferUnderWay(f)
      OBVIOUS
    <2>1. Other(f.from) \in Peer
      BY Ends, IdsApart
    <2> QED
      BY <1>1, <2>1 DEF OfferUnderWay, Elems
  <1>5. /\ \A f \in File : Dead(f) => Dead(f)'
        /\ \A f \in File : Saved(f) => Saved(f)'
        /\ Receiving' /\ SavedWhole'
    BY <1>1, <1>4, SenderKeepsFiles
  <1>6. Files'
    BY <1>1, <1>4, SenderKeepsFiles DEF Files
  <1>7. Sending'
    BY <1>1 DEF DInv, Sending
  <1>8. Post'
    <2> SUFFICES ASSUME NEW x \in Peer, NEW m \in Elems(wire'[x])
                 PROVE  \E f \in File : Good(x, f, m)'
      BY DEF Post
    <2>1. PICK j \in DOMAIN wire'[x] : m = wire'[x][j]
      BY DEF Elems
    <2>2. PICK n \in Elems(wire[x]) : n = wire[x][j]
      BY <1>1, <2>1 DEF Elems
    <2>3. PICK f \in File : Good(x, f, n)
      BY DEF DInv, Post
    <2>4. \/ m = n
          \/ n.type = "chunk" /\ m.type = "chunk" /\ m.id = n.id /\ m.offset = n.offset
      BY <1>1, <2>1, <2>2
    <2>5. Good(x, f, m)
      BY <2>3, <2>4 DEF Good
    <2>6. (InSlot(f)' <=> InSlot(f)) /\ SenderOf(f)' = SenderOf(f) /\ (Known(f)' <=> Known(f))
      BY <1>1 DEF InSlot, SenderOf, Known
    <2>7. Good(x, f, m)'
      BY <1>5, <2>5, <2>6 DEF Good
    <2> QED
      BY <2>7
  <1> QED
    BY <1>2, <1>3, <1>5, <1>6, <1>7, <1>8 DEF DInv

LEMMA TransfersInit == ASSUME Init PROVE DInv
  <1>0. "client" \in Peer /\ "host" \in Peer /\ "client" # "host" /\ Other("host") = "client"
        /\ Other("client") = "host" /\ \A y \in Peer : y = "client" \/ y = "host"
    BY DEF Peer, Other
  <1>1. /\ \A p \in Peer : incoming[p] = None
        /\ incoming \in [Peer -> {None}]
        /\ saved = {} /\ verdict \in [File -> {"none"}] /\ faults = 0
    BY DEF Init
  <1>2. \A f \in File : ~ BeingReceived(f) /\ ~ Saved(f) /\ verdict[f] = "none"
    <2>1. \A f \in File : Other(f.from) \in Peer
      BY Ends, IdsApart
    <2> QED
      BY <1>1, <2>1 DEF BeingReceived, Saved
  <1>3. Files
    BY <1>2 DEF Files
  <1>4. Receiving /\ SavedWhole
    BY <1>1 DEF Receiving, SavedWhole
  <1>5. CASE /\ asked = [p \in Peer |-> 0]
             /\ outgoing = [p \in Peer |-> None]
             /\ wire = [p \in Peer |-> <<>>]
    <2>1. TypeOK
      BY <1>1, <1>5 DEF TypeOK
    <2>2. \A p \in Peer : Elems(wire[p]) = {} /\ DOMAIN wire[p] = {}
      BY <1>5, ElemsOfNone
    <2>3. Post /\ OneOffer /\ Sending
      BY <1>5, <2>2 DEF Post, OneOffer, Sending
    <2> QED
      BY <1>3, <1>4, <2>1, <2>3 DEF DInv
  <1>6. CASE /\ asked = [p \in Peer |-> IF p = "host" THEN 1 ELSE 0]
             /\ \E n \in Sizes :
                  LET o == Opened([from |-> "host", n |-> 1], n) IN
                    /\ outgoing = [p \in Peer |-> IF p = "host" THEN o ELSE None]
                    /\ wire = [p \in Peer |-> IF p = "client" THEN <<OfferOf(o)>> ELSE <<>>]
    <2>a. PICK n \in Sizes :
            LET o == Opened([from |-> "host", n |-> 1], n) IN
              /\ outgoing = [p \in Peer |-> IF p = "host" THEN o ELSE None]
              /\ wire = [p \in Peer |-> IF p = "client" THEN <<OfferOf(o)>> ELSE <<>>]
      BY <1>6
    <2>b. PICK o : o = Opened([from |-> "host", n |-> 1], n)
      OBVIOUS
    <2>1. /\ o = Opened([from |-> "host", n |-> 1], n)
          /\ outgoing = [p \in Peer |-> IF p = "host" THEN o ELSE None]
          /\ wire = [p \in Peer |-> IF p = "client" THEN <<OfferOf(o)>> ELSE <<>>]
      BY <2>a, <2>b
    <2>0. 1 \in 1..MaxFiles
      OBVIOUS
    <2>2. PICK f \in File : f = [from |-> "host", n |-> 1]
      BY <1>0, <2>0, IdsApart
    <2>3. /\ o \in FileSender /\ o.name = f /\ o.id = IdOf(f)
          /\ o.acked = 0 /\ o.next = 0 /\ o.size = n /\ n \in Nat
      <3>1. n \in Nat /\ IdOf(f) \in Nat
        BY IdsApart
      <3> QED
        BY <2>1, <2>2, <3>1 DEF Opened, IdOf, FileSender
    <2>4. PICK m \in Message : m = OfferOf(o)
      BY <2>3, MessageTypes DEF OfferOf, FileSender
    <2>5. m.type = "offer" /\ m.id = IdOf(f) /\ m.name = f
      BY <2>3, <2>4 DEF OfferOf, Offer
    <2>6. <<m>> \in Seq(Message) /\ Elems(<<m>>) = {m} /\ DOMAIN <<m>> = {1} /\ Elems(<<>>) = {}
      BY ElemsOfOne, ElemsOfNone
    <2>7. wire["client"] = <<m>> /\ wire["host"] = <<>> /\ outgoing["host"] = o /\ outgoing["client"] = None
      BY <1>0, <2>1, <2>4
    <2>8. TypeOK
      <3>1. wire \in [Peer -> Seq(Message)]
        BY <1>0, <2>1, <2>4, <2>6
      <3>2. outgoing \in [Peer -> FileSender \cup {None}] /\ asked \in [Peer -> 0..MaxFiles]
        BY <1>6, <2>1, <2>3
      <3> QED
        BY <1>1, <3>1, <3>2 DEF TypeOK
    <2>9. OneOffer
      BY <1>0, <2>6, <2>7 DEF OneOffer
    <2>10. Sending
      BY <1>0, <1>2, <1>6, <2>2, <2>3, <2>7 DEF Sending
    <2>11. Post
      <3>1. f.from = "host" /\ f.n = 1 /\ Known(f)
        BY <1>0, <1>6, <2>2 DEF Known
      <3>2. Good("client", f, m)
        BY <1>0, <2>5, <3>1 DEF Good
      <3> QED
        BY <1>0, <2>6, <2>7, <3>2 DEF Post
    <2> QED
      BY <1>3, <1>4, <2>8, <2>9, <2>10, <2>11 DEF DInv
  <1> QED
    BY <1>5, <1>6 DEF Init

-----------------------------------------------------------------------------
(* Every transfer keeps its promise *)

LEMMA TransfersStep == ASSUME DInv, [Next]_vars PROVE DInv'
  <1>1. CASE SendFile
    BY <1>1, SendFileStep
  <1>2. ASSUME NEW p \in Peer, Take(p) PROVE DInv'
    BY <1>2, TakeAcceptStep, TakeAckStep, TakeEchoStep, TakeCancelStep, TakeOfferStep,
       TakeChunkStep, TakeCompleteStep, IgnoreStep DEF Take
  <1>3. ASSUME NEW p \in Peer, Garble(p) PROVE DInv'
    BY <1>3, GarbleStep
  <1>4. CASE UNCHANGED vars
    BY <1>4 DEF vars, DInv, TypeOK, Sending, Receiving, Known, Files, OfferUnderWay,
       BeingReceived, Saved, Dead, Post, Good, InSlot, SenderOf, OneOffer, SavedWhole
  <1> QED
    BY <1>1, <1>2, <1>3, <1>4 DEF Next

LEMMA TransfersInvariance == Spec => []DInv
  BY TransfersInit, TransfersStep, PTL DEF Spec

\* Types of the session's transfers, for every number and size of files and
\* every window, with whatever fails.
THEOREM TypeCorrect == Spec => []TypeOK
  <1>1. DInv => TypeOK
    BY DEF DInv
  <1> QED
    BY <1>1, TransfersInvariance, PTL

\* FileReceiver::handle renames nothing into the download directory that is not
\* the file's own bytes, whole and in order, though files cross and follow each
\* other in a slot and chunks are garbled under way.
THEOREM OnlyWholeFilesAreSaved == Spec => []SavedWhole
  <1>1. DInv => SavedWhole
    BY DEF DInv
  <1> QED
    BY <1>1, TransfersInvariance, PTL

LEMMA DeliveredIsSaved ==
    ASSUME NEW f, SavedWhole
    PROVE  /\ Delivered(f) <=> Saved(f)
           /\ Delivered(f) \in BOOLEAN
  <1> DEFINE T == {t \in saved : t.name = f}
             D == {s.data = Bytes(f, s.size) : s \in T}
  <1>1. \A s \in T : s.data = Bytes(f, s.size)
    BY DEF SavedWhole
  <1>2. \A b \in D : b = TRUE
    BY <1>1
  <1>3. CASE Saved(f)
    <2>1. \E s \in T : TRUE
      BY <1>3 DEF Saved
    <2>2. D = {TRUE}
      <3>1. PICK s \in T : TRUE
        BY <2>1
      <3>2. (s.data = Bytes(f, s.size)) \in D
        OBVIOUS
      <3>3. TRUE \in D
        BY <1>1, <3>1, <3>2
      <3> QED
        BY <1>2, <3>3
    <2> QED
      BY <1>3, <2>2 DEF Delivered
  <1>4. CASE ~ Saved(f)
    <2>1. T = {}
      BY <1>4 DEF Saved
    <2>2. D = {}
      BY <2>1
    <2> QED
      BY <1>4, <2>2 DEF Delivered
  <1> QED
    BY <1>3, <1>4

LEMMA DeliveredIsSavedNext ==
    ASSUME NEW f, SavedWhole'
    PROVE  /\ Delivered(f)' <=> Saved(f)'
           /\ Delivered(f)' \in BOOLEAN
  <1> DEFINE T == {t \in saved' : t.name = f}
             D == {s.data = Bytes(f, s.size) : s \in T}
  <1>1. \A s \in T : s.data = Bytes(f, s.size)
    BY DEF SavedWhole
  <1>2. \A b \in D : b = TRUE
    BY <1>1
  <1>3. CASE Saved(f)'
    <2>1. \E s \in T : TRUE
      BY <1>3 DEF Saved
    <2>2. D = {TRUE}
      <3>1. PICK s \in T : TRUE
        BY <2>1
      <3>2. (s.data = Bytes(f, s.size)) \in D
        OBVIOUS
      <3>3. TRUE \in D
        BY <1>1, <3>1, <3>2
      <3> QED
        BY <1>2, <3>3
    <2> QED
      BY <1>3, <2>2 DEF Delivered
  <1>4. CASE ~ Saved(f)'
    <2>1. T = {}
      BY <1>4 DEF Saved
    <2>2. D = {}
      BY <2>1
    <2> QED
      BY <1>4, <2>2 DEF Delivered
  <1> QED
    BY <1>3, <1>4

\* What one step of the session does to the promise of each file.
LEMMA DeliveryStep ==
    ASSUME DInv, DInv', [Next]_vars
    PROVE  \A f \in File : [Delivery(f)!Next]_(Delivery(f)!vars)
  <1>0. /\ \A f \in File : (Delivered(f) <=> Saved(f)) /\ Delivered(f) \in BOOLEAN
        /\ \A f \in File : (Delivered(f)' <=> Saved(f)') /\ Delivered(f)' \in BOOLEAN
    BY DeliveredIsSaved, DeliveredIsSavedNext DEF DInv
  <1>1. ASSUME saved' = saved, verdict' = verdict
        PROVE  \A f \in File : [Delivery(f)!Next]_(Delivery(f)!vars)
    <2>1. \A f \in File : Saved(f)' <=> Saved(f)
      BY <1>1 DEF Saved
    <2>2. \A f \in File : Delivered(f)' = Delivered(f) /\ verdict[f]' = verdict[f]
      BY <1>0, <1>1, <2>1
    <2> QED
      BY <2>2 DEF Delivery!vars
  <1>2. ASSUME NEW g \in File, NEW how \in {"confirmed", "failed"},
               saved' = saved, verdict[g] = "none", verdict' = [verdict EXCEPT ![g] = how],
               how = "confirmed" => Saved(g),
               how = "failed" => ~ Saved(g)
        PROVE  \A f \in File : [Delivery(f)!Next]_(Delivery(f)!vars)
    <2>1. \A f \in File : Saved(f)' <=> Saved(f)
      BY <1>2 DEF Saved
    <2>2. \A f \in File : Delivered(f)' = Delivered(f)
      BY <1>0, <2>1
    <2>3. \A f \in File : f # g => verdict'[f] = verdict[f]
      BY <1>2 DEF DInv, TypeOK
    <2>4. verdict'[g] = how
      BY <1>2 DEF DInv, TypeOK
    <2>5. \A f \in File : f # g => [Delivery(f)!Next]_(Delivery(f)!vars)
      BY <2>2, <2>3 DEF Delivery!vars
    <2>6. Delivery(g)!Next
      BY <1>0, <1>2, <2>2, <2>4 DEF Delivery!Next, Delivery!Confirm, Delivery!Fail
    <2> QED
      BY <2>5, <2>6
  <1>3. CASE SendFile
    BY <1>1, <1>3 DEF SendFile
  <1>4. ASSUME NEW p \in Peer, Garble(p) PROVE saved' = saved /\ verdict' = verdict
    BY <1>4 DEF Garble
  <1>5. ASSUME NEW p \in Peer, TakeAccept(p) \/ TakeOffer(p) \/ TakeChunk(p) \/ Ignore(p)
        PROVE  saved' = saved /\ verdict' = verdict
    BY <1>5 DEF TakeAccept, TakeOffer, TakeChunk, Ignore
  <1>6. ASSUME NEW p \in Peer, TakeAck(p) PROVE saved' = saved /\ verdict' = verdict
    BY <1>6, TakeAckStep
  <1>7. ASSUME NEW p \in Peer, TakeEcho(p) \/ TakeCancel(p)
        PROVE  \A f \in File : [Delivery(f)!Next]_(Delivery(f)!vars)
    <2>1. PICK how \in {"confirmed", "failed"} :
            /\ Settle(p, how) /\ outgoing[p].name \in File /\ saved' = saved
            /\ how = "confirmed" => Saved(outgoing[p].name)
            /\ how = "failed" => Dead(outgoing[p].name)
      BY <1>7, TakeEchoStep, TakeCancelStep
    <2>2. outgoing[p] # None
      BY <1>7 DEF TakeEcho, TakeCancel, Claims
    <2>3. PICK g \in File : g = outgoing[p].name
      BY <2>1
    <2>4. verdict[g] = "none" /\ verdict' = [verdict EXCEPT ![g] = how]
      BY <2>1, <2>2, <2>3 DEF DInv, Sending, Settle
    <2>5. how = "failed" => ~ Saved(g)
      BY <2>1, <2>3 DEF Dead
    <2> QED
      BY <1>2, <2>1, <2>3, <2>4, <2>5
  <1>8. ASSUME NEW p \in Peer, TakeComplete(p)
        PROVE  \A f \in File : [Delivery(f)!Next]_(Delivery(f)!vars)
    <2>1. /\ incoming[p] # None /\ ~ incoming[p].failed
          /\ \A s \in saved' : s \in saved \/ s.name = incoming[p].name
          /\ saved \subseteq saved' /\ verdict' = verdict
      BY <1>8, TakeCompleteStep
    <2>2. PICK g \in File : g = incoming[p].name
      BY <2>1, ReceivedIsKnown
    <2>3. BeingReceived(g) /\ ~ Saved(g) /\ Other(g.from) = p
      BY <2>1, <2>2, ReceivedIsKnown
    <2>4. verdict[g] # "failed"
      BY <2>1, <2>3 DEF DInv, Files, Dead
    <2>5. \A f \in File : f # g => (Saved(f)' <=> Saved(f))
      BY <2>1, <2>2 DEF Saved
    <2>6. \A f \in File : f # g => [Delivery(f)!Next]_(Delivery(f)!vars)
      <3>1. \A f \in File : f # g => Delivered(f)' = Delivered(f) /\ verdict[f]' = verdict[f]
        BY <1>0, <2>1, <2>5
      <3> QED
        BY <3>1 DEF Delivery!vars
    <2>7. [Delivery(g)!Next]_(Delivery(g)!vars)
      <3>1. CASE Saved(g)'
        <4>1. ~ Delivered(g) /\ Delivered(g)' = TRUE /\ verdict'[g] = verdict[g]
          BY <1>0, <2>1, <2>3, <3>1
        <4> QED
          BY <2>4, <4>1 DEF Delivery!Next, Delivery!Deliver
      <3>2. CASE ~ Saved(g)'
        <4>1. Delivered(g)' = Delivered(g) /\ verdict[g]' = verdict[g]
          BY <1>0, <2>1, <2>3, <3>2
        <4> QED
          BY <4>1 DEF Delivery!vars
      <3> QED
        BY <3>1, <3>2
    <2> QED
      BY <2>6, <2>7
  <1>9. CASE UNCHANGED vars
    BY <1>1, <1>9 DEF vars
  <1> QED
    BY <1>1, <1>3, <1>4, <1>5, <1>6, <1>7, <1>8, <1>9 DEF Next, Take

\* Transfers implements FileDelivery once for every file of the session: it is
\* saved whole before its sender is told that it arrived, a file whose sender
\* is told that it failed is not there and never will be, and no file gets two
\* verdicts; for any number of files in both directions, whatever fails.
THEOREM EveryFileIsDelivered == Spec => EveryDelivery
  <1>1. Init => \A f \in File : Delivery(f)!Init
    <2>1. ASSUME Init, NEW f \in File PROVE Delivery(f)!Init
      <3>1. ~ Saved(f) /\ verdict[f] = "none"
        BY <2>1 DEF Init, Saved
      <3>2. Delivered(f) = FALSE
        BY <2>1, <3>1, TransfersInit, DeliveredIsSaved DEF DInv
      <3> QED
        BY <3>1, <3>2 DEF Delivery!Init
    <2> QED
      BY <2>1
  <1>2. DInv /\ DInv' /\ [Next]_vars
          => [\A f \in File : [Delivery(f)!Next]_(Delivery(f)!vars)]_vars
    BY DeliveryStep
  <1> QED
    BY <1>1, <1>2, TransfersInvariance, PTL DEF Spec, EveryDelivery

-----------------------------------------------------------------------------
(* Without a fault: what is under way *)

LEMMA BytesGrow ==
    ASSUME NEW f \in File
    PROVE  /\ Bytes(f, 0) = <<>>
           /\ \A n \in Nat : Append(Bytes(f, n), <<f, n + 1>>) = Bytes(f, n + 1)
  <1>1. Bytes(f, 0) = <<>>
    <2>1. Bytes(f, 0) \in Seq(Datum) /\ Len(Bytes(f, 0)) = 0
      BY BytesType
    <2> QED
      BY <2>1, EmptySeq
  <1>2. ASSUME NEW n \in Nat PROVE Append(Bytes(f, n), <<f, n + 1>>) = Bytes(f, n + 1)
    <2> DEFINE a == Append(Bytes(f, n), <<f, n + 1>>)
               b == Bytes(f, n + 1)
    <2>1. /\ Bytes(f, n) \in Seq(Datum) /\ Len(Bytes(f, n)) = n
          /\ b \in Seq(Datum) /\ Len(b) = n + 1
      BY BytesType
    <2>2. <<f, n + 1>> \in Datum
      BY DEF Datum
    <2>3. /\ a \in Seq(Datum) /\ Len(a) = n + 1 /\ a[n + 1] = <<f, n + 1>>
          /\ \A i \in 1..n : a[i] = Bytes(f, n)[i]
      BY <2>1, <2>2, AppendProperties
    <2>4. \A i \in 1..n : Bytes(f, n)[i] = <<f, i>>
      BY DEF Bytes
    <2>5. \A i \in 1..(n + 1) : b[i] = <<f, i>>
      BY DEF Bytes
    <2>6. ASSUME NEW i \in 1..(n + 1) PROVE a[i] = b[i]
      <3>1. i \in 1..n \/ i = n + 1
        OBVIOUS
      <3>2. b[i] = <<f, i>>
        BY <2>5
      <3> HIDE DEF a, b
      <3> QED
        BY <2>3, <2>4, <3>1, <3>2
    <2> QED
      BY <2>1, <2>3, <2>6, SeqEqual
  <1> QED
    BY <1>1, <1>2

LEMMA AboutOne ==
    ASSUME NEW m, NEW f \in File, m.id = IdOf(f), NEW p \in Peer
    PROVE  About(p, m) <=> f.from = p
  BY DEF About, IdOf, NextId, File, Peer

\* Every message is about one of the two channels.
LEMMA InAChannel ==
    ASSUME DInv, NEW p \in Peer, NEW m \in Elems(wire[p])
    PROVE  /\ m \in Message
           /\ \/ m \in Back(p) /\ ~ About(Other(p), m)
                 /\ m.type \in {"accept", "ack", "cancel", "complete"}
              \/ m \in Forth(Other(p)) /\ ~ About(p, m)
                 /\ m.type \in {"offer", "chunk", "complete"}
  <1>1. PICK f \in File : Good(p, f, m)
    BY DEF DInv, Post
  <1>2. m \in Message
    BY ElemsTyped DEF DInv, TypeOK
  <1>3. m.id = IdOf(f) /\ f.from \in Peer /\ Other(p) \in Peer /\ Other(Other(p)) = p
    BY <1>1, Ends, IdsApart DEF Good
  <1>4. m.type \in {"accept", "ack", "cancel", "complete", "offer", "chunk"}
    BY <1>2 DEF Message
  <1>5. (About(p, m) <=> f.from = p) /\ (About(Other(p), m) <=> f.from = Other(p))
    BY <1>3, AboutOne
  <1>6. CASE f.from = p
    BY <1>1, <1>2, <1>3, <1>4, <1>5, <1>6, Ends DEF Good, Back
  <1>7. CASE f.from = Other(p)
    BY <1>1, <1>2, <1>3, <1>4, <1>5, <1>7, Ends DEF Good, Forth
  <1> QED
    BY <1>3, <1>6, <1>7, Ends

\* The message that is taken is the first of its transfer and the only one of
\* its kind.
LEMMA HeadLeaves ==
    ASSUME TypeOK, NEW p \in Peer, wire[p] # <<>>, NEW msgs \in Seq(Message), Send(p, msgs),
           Ordered(wire[p])
    PROVE  /\ Ordered(wire'[p])
           /\ Elems(wire'[p]) = Elems(wire[p]) \ {Head(wire[p])}
           /\ \A k \in Elems(wire'[p]) : k.id = Head(wire[p]).id => Before(Head(wire[p]), k)
  <1>1. /\ wire[p] \in Seq(Message) /\ wire'[p] = Tail(wire[p])
        /\ Head(wire[p]) \in Message
        /\ Elems(wire[p]) = {Head(wire[p])} \cup Elems(wire'[p])
    BY SendSteps DEF TypeOK
  <1>2. /\ Ordered(wire'[p])
        /\ \A k \in Elems(wire'[p]) : k.id = Head(wire[p]).id => Before(Head(wire[p]), k)
    BY <1>1, OrderedTail
  <1>3. ~ Before(Head(wire[p]), Head(wire[p]))
    <2>1. \A m \in Message : m.type \in {"chunk", "ack"} => m.offset \in Nat
      BY OfferFields
    <2>2. Head(wire[p]).type \in {"chunk", "ack"} => Head(wire[p]).offset \in Nat
      BY <1>1, <2>1
    <2> QED
      BY <2>2 DEF Before
  <1> QED
    BY <1>1, <1>2, <1>3

LEMMA AnswersFollow ==
    ASSUME TypeOK, NEW p \in Peer, wire[p] # <<>>, NEW msgs \in Seq(Message), Send(p, msgs),
           Ordered(wire[Other(p)]), Ordered(msgs),
           \A a \in Elems(wire[Other(p)]), b \in Elems(msgs) : a.id = b.id => Before(a, b)
    PROVE  Ordered(wire'[Other(p)])
  <1>1. wire[Other(p)] \in Seq(Message) /\ wire'[Other(p)] = wire[Other(p)] \o msgs
    BY SendSteps, Ends DEF TypeOK
  <1> QED
    BY <1>1, OrderedConcat

\* A step on channel z leaves the other channel as it is.
LEMMA OtherChannel ==
    ASSUME DInv, NEW p \in Peer, wire[p] # <<>>, NEW msgs \in Seq(Message), Send(p, msgs),
           NEW y \in Peer, ~ About(y, Head(wire[p])), \A m \in Elems(msgs) : ~ About(y, m)
    PROVE  Forth(y)' = Forth(y) /\ Back(y)' = Back(y)
  <1>1. /\ Elems(wire[p]) = {Head(wire[p])} \cup Elems(wire'[p])
        /\ Elems(wire'[Other(p)]) = Elems(wire[Other(p)]) \cup Elems(msgs)
    BY SendSteps DEF DInv
  <1>2. PICK h : h = Head(wire[p])
    OBVIOUS
  <1>3. \A x \in Peer : \A k : About(y, k) => (k \in Elems(wire'[x]) <=> k \in Elems(wire[x]))
    <2>1. \A x \in Peer : x = p \/ x = Other(p)
      BY Ends
    <2> QED
      BY <1>1, <1>2, <2>1
  <1>4. Other(y) \in Peer
    BY Ends
  <1>5. Forth(y)' = {m \in Elems(wire'[Other(y)]) : About(y, m)} /\ Back(y)' = {m \in Elems(wire'[y]) : About(y, m)}
    BY DEF Forth, Back
  <1> QED
    BY <1>3, <1>4, <1>5 DEF Forth, Back

LEMMA OtherChannelIsCalm ==
    ASSUME NEW y \in Peer, ChannelIsCalm(y), Forth(y)' = Forth(y), Back(y)' = Back(y),
           outgoing'[y] = outgoing[y], incoming'[Other(y)] = incoming[Other(y)]
    PROVE  ChannelIsCalm(y)'
  BY DEF ChannelIsCalm, Idle, Stages, Offered, Accepted, Streaming, Completing, Echoed

\* An answer to p's sender is taken by p.
LEMMA AnswerTaken ==
    ASSUME DInv, Calm, NEW p \in Peer, wire[p] # <<>>, NEW msgs \in Seq(Message), Send(p, msgs),
           About(p, Head(wire[p])), Ordered(msgs), \A m \in Elems(msgs) : About(p, m),
           \A a \in Forth(p), b \in Elems(msgs) : a.id = b.id => Before(a, b)
    PROVE  /\ Forth(p)' = Forth(p) \cup Elems(msgs)
           /\ Back(p)' = Back(p) \ {Head(wire[p])}
           /\ Forth(Other(p))' = Forth(Other(p))
           /\ Back(Other(p))' = Back(Other(p))
           /\ \A x \in Peer : Ordered(wire'[x])
  <1>1. TypeOK /\ Ordered(wire[p]) /\ Ordered(wire[Other(p)]) /\ Other(p) \in Peer
    BY Ends DEF DInv, Calm
  <1>2. Ordered(wire'[p]) /\ Elems(wire'[p]) = Elems(wire[p]) \ {Head(wire[p])}
    BY <1>1, HeadLeaves
  <1>3. Elems(wire'[Other(p)]) = Elems(wire[Other(p)]) \cup Elems(msgs)
    BY <1>1, SendSteps
  <1>4. ASSUME NEW a \in Elems(wire[Other(p)]), NEW b \in Elems(msgs), a.id = b.id
        PROVE  Before(a, b)
    <2>1. a \in Forth(p)
      BY <1>4 DEF About, Forth
    <2> QED
      BY <1>4, <2>1
  <1>5. Ordered(wire'[Other(p)])
    BY <1>1, <1>4, AnswersFollow
  <1>6. Forth(p)' = Forth(p) \cup Elems(msgs) /\ Back(p)' = Back(p) \ {Head(wire[p])}
    <2>1. PICK h : h = Head(wire[p])
      OBVIOUS
    <2>2. /\ Forth(p)' = {m \in Elems(wire'[Other(p)]) : About(p, m)}
          /\ Back(p)' = {m \in Elems(wire'[p]) : About(p, m)}
      BY DEF Forth, Back
    <2> QED
      BY <1>2, <1>3, <2>1, <2>2 DEF Forth, Back
  <1>7. Forth(Other(p))' = Forth(Other(p)) /\ Back(Other(p))' = Back(Other(p))
    <2>1. \A m : About(p, m) => ~ About(Other(p), m)
      BY DEF About, NextId, Other, Peer
    <2>2. PICK y \in Peer : y = Other(p)
      BY <1>1
    <2>3. ~ About(y, Head(wire[p])) /\ \A m \in Elems(msgs) : ~ About(y, m)
      BY <2>1, <2>2
    <2>4. Forth(y)' = Forth(y) /\ Back(y)' = Back(y)
      BY <2>3, OtherChannel
    <2> QED
      BY <2>2, <2>4
  <1> QED
    BY <1>2, <1>5, <1>6, <1>7, Ends

\* A message from the other end's sender is taken by p.
LEMMA PartTaken ==
    ASSUME DInv, Calm, NEW p \in Peer, NEW z \in Peer, p = Other(z), wire[p] # <<>>,
           NEW msgs \in Seq(Message), Send(p, msgs),
           About(z, Head(wire[p])), Ordered(msgs), \A m \in Elems(msgs) : About(z, m),
           \A a \in Back(z), b \in Elems(msgs) : a.id = b.id => Before(a, b)
    PROVE  /\ Forth(z)' = Forth(z) \ {Head(wire[p])}
           /\ Back(z)' = Back(z) \cup Elems(msgs)
           /\ Forth(p)' = Forth(p)
           /\ Back(p)' = Back(p)
           /\ \A x \in Peer : Ordered(wire'[x])
  <1>1. TypeOK /\ Ordered(wire[p]) /\ Ordered(wire[z]) /\ z = Other(p)
    BY Ends DEF DInv, Calm
  <1>2. Ordered(wire'[p]) /\ Elems(wire'[p]) = Elems(wire[p]) \ {Head(wire[p])}
    BY <1>1, HeadLeaves
  <1>3. Elems(wire'[z]) = Elems(wire[z]) \cup Elems(msgs)
    BY <1>1, SendSteps
  <1>4. ASSUME NEW a \in Elems(wire[z]), NEW b \in Elems(msgs), a.id = b.id
        PROVE  Before(a, b)
    <2>1. a \in Back(z)
      BY <1>4 DEF About, Back
    <2> QED
      BY <1>4, <2>1
  <1>5. Ordered(wire'[z])
    BY <1>1, <1>4, AnswersFollow
  <1>6. Forth(z)' = Forth(z) \ {Head(wire[p])} /\ Back(z)' = Back(z) \cup Elems(msgs)
    <2>1. PICK h : h = Head(wire[p])
      OBVIOUS
    <2>2. /\ Forth(z)' = {m \in Elems(wire'[p]) : About(z, m)}
          /\ Back(z)' = {m \in Elems(wire'[z]) : About(z, m)}
      BY DEF Forth, Back
    <2> QED
      BY <1>2, <1>3, <2>1, <2>2 DEF Forth, Back
  <1>7. Forth(p)' = Forth(p) /\ Back(p)' = Back(p)
    <2>1. \A m : About(z, m) => ~ About(p, m)
      BY DEF About, NextId, Other, Peer
    <2>2. ~ About(p, Head(wire[p])) /\ \A m \in Elems(msgs) : ~ About(p, m)
      BY <2>1
    <2> QED
      BY <2>2, OtherChannel
  <1>8. \A x \in Peer : Ordered(wire'[x])
    BY <1>1, <1>2, <1>5, Ends
  <1> QED
    BY <1>6, <1>7, <1>8

\* A step that keeps one channel calm and leaves the other alone.
LEMMA CalmFromChannels ==
    ASSUME Calm, NEW y \in Peer, NEW z \in Peer, z = Other(y), ChannelIsCalm(z)',
           \A x \in Peer : Ordered(wire'[x]), Forth(y)' = Forth(y), Back(y)' = Back(y),
           outgoing'[y] = outgoing[y], incoming'[z] = incoming[z]
    PROVE  Calm'
  <1>1. ChannelIsCalm(y)'
    BY OtherChannelIsCalm DEF Calm
  <1> QED
    BY <1>1, Ends DEF Calm

-----------------------------------------------------------------------------
(* Without a fault: the sender's steps *)

\* A sender whose answer has arrived polls.
LEMMA PollStaysCalm ==
    ASSUME DInv, Calm, NEW p \in Peer, wire[p] # <<>>, outgoing[p] # None,
           NEW o \in FileSender, GoOn(p, o), UNCHANGED incoming,
           o.id = outgoing[p].id, o.name = outgoing[p].name,
           o.acked <= o.next, o.next <= o.size, o.next <= o.acked + Window,
           o.accepted, ~ o.complete,
           Matches(incoming[Other(p)], o),
           NEW n \in Nat, n = Len(incoming[Other(p)].written), o.acked <= n, n <= o.next,
           About(p, Head(wire[p])),
           Forth(p) = {Chunk(o.name, o.id, k) : k \in (n + 1)..o.next},
           Back(p) \ {Head(wire[p])} \subseteq {Ack(o.id, k) : k \in (o.acked + 1)..n}
    PROVE  Calm'
  <1>1. /\ outgoing' = [outgoing EXCEPT ![p] = AfterPoll(o)]
        /\ Send(p, PollMessages(o))
    BY DEF GoOn
  <1>2. /\ o.acked \in Nat /\ o.next \in Nat /\ o.size \in Nat /\ o.id \in Nat
        /\ o.name \in File /\ PollEnd(o) \in Nat /\ o.next <= PollEnd(o) /\ PollEnd(o) <= o.size
    BY PollSteps DEF FileSender
  <1>3. Polls(o)
    BY DEF Polls
  <1>4. PICK msgs \in Seq(Message) : msgs = PollMessages(o)
    BY PollSends
  <1>5. /\ Ordered(msgs)
        /\ Elems(msgs) = IF o.acked = o.size
                           THEN Polled(o) \cup {Complete(o.id, Bytes(o.name, o.size))}
                           ELSE Polled(o)
    BY <1>3, <1>4, PollSends
  <1>6. \A m \in Elems(msgs) : m.id = o.id
    BY <1>5 DEF Polled, Chunk, Complete
  <1>7. \A m \in Elems(msgs) : About(p, m)
    <2>1. outgoing[p].name = [from |-> p, n |-> asked[p]] /\ o.id = IdOf(o.name)
      BY DEF DInv, Sending
    <2>2. o.name.from = p
      BY <2>1
    <2> QED
      BY <1>2, <1>6, <2>1, <2>2, AboutOne
  <1>8. ASSUME NEW a \in Forth(p), NEW b \in Elems(msgs) PROVE Before(a, b)
    <2>1. PICK k \in (n + 1)..o.next : a = Chunk(o.name, o.id, k)
      OBVIOUS
    <2>2. a.type = "chunk" /\ a.offset = k - 1
      BY <2>1 DEF Chunk
    <2>3. \/ b.type = "complete"
          \/ \E l \in (o.next + 1)..PollEnd(o) : b.type = "chunk" /\ b.offset = l - 1
      BY <1>5 DEF Polled, Chunk, Complete
    <2>4. ASSUME NEW l \in (o.next + 1)..PollEnd(o), b.type = "chunk", b.offset = l - 1
          PROVE  a.offset < b.offset
      <3>1. k <= o.next /\ o.next < l /\ k \in Int /\ l \in Int
        BY <1>2
      <3> QED
        BY <1>2, <2>2, <2>4, <3>1
    <2> QED
      BY <2>2, <2>3, <2>4 DEF Before
  <1>9. /\ Forth(p)' = Forth(p) \cup Elems(msgs)
        /\ Back(p)' = Back(p) \ {Head(wire[p])}
        /\ Forth(Other(p))' = Forth(Other(p))
        /\ Back(Other(p))' = Back(Other(p))
        /\ \A x \in Peer : Ordered(wire'[x])
    BY <1>1, <1>4, <1>5, <1>7, <1>8, AnswerTaken
  <1>10. PICK x \in FileSender : x = AfterPoll(o)
    BY PollSteps
  <1>11. /\ x.id = o.id /\ x.name = o.name /\ x.size = o.size /\ x.acked = o.acked
         /\ x.accepted /\ x.next = PollEnd(o) /\ (x.complete <=> o.acked = o.size)
    BY <1>3, <1>10, PollSteps
  <1>12. outgoing'[p] = x /\ x # None
    BY <1>1, <1>10 DEF DInv, TypeOK
  <1>13. PICK r : r = incoming[Other(p)]
    OBVIOUS
  <1>14. incoming'[Other(p)] = r /\ Matches(r, x) /\ n = Len(r.written)
    BY <1>11, <1>13 DEF Matches
  <1>15. ASSUME o.acked = o.size PROVE Stages(p, x)'
    <2>1. n = o.size /\ o.next = o.size /\ PollEnd(o) = o.size
      BY <1>2, <1>15
    <2>2. (n + 1)..o.next = {} /\ (o.next + 1)..PollEnd(o) = {} /\ (o.acked + 1)..n = {}
      BY <1>2, <1>15, <2>1
    <2>3. Forth(p) = {} /\ Polled(o) = {} /\ Back(p)' = {}
      BY <1>9, <2>2 DEF Polled
    <2>4. Forth(p)' = {Complete(x.id, Bytes(x.name, x.size))}
      BY <1>5, <1>9, <1>11, <1>15, <2>3
    <2>5. Completing(p, x)'
      BY <1>11, <1>14, <1>15, <2>1, <2>3, <2>4 DEF Completing
    <2> QED
      BY <2>5 DEF Stages
  <1>16. ASSUME o.acked # o.size PROVE Stages(p, x)'
    <2>1. Forth(p)' = {Chunk(x.name, x.id, k) : k \in (n + 1)..x.next}
      <3>1. (n + 1)..x.next = ((n + 1)..o.next) \cup ((o.next + 1)..PollEnd(o))
        BY <1>2, <1>11
      <3> QED
        BY <1>5, <1>9, <1>11, <1>16, <3>1 DEF Polled
    <2>2. Back(p)' \subseteq {Ack(x.id, k) : k \in (x.acked + 1)..n}
      BY <1>9, <1>11
    <2>3. x.acked <= n /\ n <= x.next /\ x.acked < x.size
      BY <1>2, <1>11, <1>16
    <2>4. Streaming(p, x)'
      BY <1>11, <1>14, <1>16, <2>1, <2>2, <2>3 DEF Streaming
    <2> QED
      BY <2>4 DEF Stages
  <1>17. Stages(p, x)'
    BY <1>15, <1>16
  <1>18. ChannelIsCalm(p)'
    BY <1>12, <1>17 DEF ChannelIsCalm
  <1>19. \A y \in Peer : y # p => outgoing'[y] = outgoing[y]
    BY <1>1 DEF DInv, TypeOK
  <1> QED
    BY <1>9, <1>18, <1>19, Ends, CalmFromChannels

\* The stage of a channel tells what may be under way.
LEMMA ClaimedInStage ==
    ASSUME DInv, Calm, NEW p \in Peer, wire[p] # <<>>, Claims(p)
    PROVE  /\ outgoing[p] # None /\ outgoing[p] \in FileSender
           /\ Stages(p, outgoing[p])
           /\ About(p, Head(wire[p]))
           /\ Head(wire[p]) \in Back(p)
           /\ outgoing[p].acked <= outgoing[p].next
           /\ outgoing[p].next <= outgoing[p].size
           /\ outgoing[p].next <= outgoing[p].acked + Window
  <1>1. outgoing[p] # None
    BY DEF Claims
  <1>2. /\ outgoing[p] \in FileSender /\ outgoing[p].name \in File
        /\ outgoing[p].name.from = p
        /\ Good(p, outgoing[p].name, Head(wire[p]))
    BY ClaimedIsGood
  <1>3. Head(wire[p]).id = IdOf(outgoing[p].name)
    BY <1>2 DEF Good
  <1>4. About(p, Head(wire[p]))
    BY <1>2, <1>3, AboutOne
  <1>5. Head(wire[p]) \in Elems(wire[p])
    BY ElemsOfTail DEF DInv, TypeOK
  <1> QED
    BY <1>1, <1>2, <1>4, <1>5 DEF Back, Calm, ChannelIsCalm, DInv, Sending

LEMMA AcceptStaysCalm ==
    ASSUME DInv, Calm, NEW p \in Peer, TakeAccept(p), faults' = 0
    PROVE  Calm'
  <1> DEFINE o == [outgoing[p] EXCEPT !.accepted = TRUE]
  <1>1. wire[p] # <<>> /\ Claims(p) /\ Head(wire[p]).type = "accept" /\ incoming' = incoming
        /\ (GoOn(p, o) \/ ReadFails(p, o))
    BY DEF TakeAccept, At
  <1>2. /\ outgoing[p] # None /\ outgoing[p] \in FileSender
        /\ Stages(p, outgoing[p])
        /\ About(p, Head(wire[p])) /\ Head(wire[p]) \in Back(p)
        /\ outgoing[p].acked <= outgoing[p].next
        /\ outgoing[p].next <= outgoing[p].size
        /\ outgoing[p].next <= outgoing[p].acked + Window
    BY <1>1, ClaimedInStage
  <1>3. GoOn(p, o)
    <2>1. faults' # faults + 1
      BY DEF DInv, TypeOK
    <2>2. ~ ReadFails(p, o)
      BY <2>1, Zenon DEF ReadFails
    <2> QED
      BY <1>1, <2>2
  <1>4. Accepted(p, outgoing[p])
    BY <1>1, <1>2 DEF Stages, Offered, Streaming, Completing, Echoed, Ack, Complete
  <1>5. /\ o \in FileSender
        /\ o.id = outgoing[p].id /\ o.name = outgoing[p].name /\ o.size = outgoing[p].size
        /\ o.next = outgoing[p].next /\ o.acked = outgoing[p].acked
        /\ o.accepted /\ o.complete = outgoing[p].complete
    BY <1>2 DEF FileSender
  <1> HIDE DEF o
  <1>6. o.next = 0 /\ o.acked = 0 /\ ~ o.complete
    BY <1>4, <1>5 DEF Accepted
  <1>7. Matches(incoming[Other(p)], o) /\ Len(incoming[Other(p)].written) = 0
    BY <1>4, <1>5 DEF Accepted, Matches
  <1>8. Forth(p) = {Chunk(o.name, o.id, k) : k \in (0 + 1)..o.next}
    BY <1>4, <1>6 DEF Accepted
  <1>9. Back(p) \ {Head(wire[p])} = {}
    BY <1>2, <1>4 DEF Accepted
  <1>10. PICK n \in Nat : n = 0
    OBVIOUS
  <1>11. /\ n = Len(incoming[Other(p)].written) /\ o.acked <= n /\ n <= o.next
         /\ Forth(p) = {Chunk(o.name, o.id, k) : k \in (n + 1)..o.next}
         /\ Back(p) \ {Head(wire[p])} \subseteq {Ack(o.id, k) : k \in (o.acked + 1)..n}
    BY <1>6, <1>7, <1>8, <1>9, <1>10
  <1>12. o.acked <= o.next /\ o.next <= o.size /\ o.next <= o.acked + Window
    BY <1>2, <1>5
  <1> QED
    BY <1>1, <1>2, <1>3, <1>5, <1>6, <1>7, <1>11, <1>12, PollStaysCalm

LEMMA AckStaysCalm ==
    ASSUME DInv, Calm, NEW p \in Peer, TakeAck(p), faults' = 0
    PROVE  Calm'
  <1> DEFINE q == outgoing[p]
             o == [outgoing[p] EXCEPT !.acked = IF Head(wire[p]).offset < @
                                                  THEN @ ELSE Head(wire[p]).offset]
  <1>1. wire[p] # <<>> /\ Claims(p) /\ Head(wire[p]).type = "ack" /\ incoming' = incoming
    BY DEF TakeAck, At
  <1>2. /\ q # None /\ q \in FileSender
        /\ Stages(p, q)
        /\ About(p, Head(wire[p])) /\ Head(wire[p]) \in Back(p)
        /\ q.acked <= q.next /\ q.next <= q.size /\ q.next <= q.acked + Window
    BY <1>1, ClaimedInStage
  <1>3. Streaming(p, q)
    BY <1>1, <1>2 DEF Stages, Offered, Accepted, Completing, Echoed, Accept, Complete
  <1>4. PICK r : r = incoming[Other(p)]
    OBVIOUS
  <1>5. Matches(r, q) /\ r \in FileReceiver
    BY <1>3, <1>4, Ends DEF Streaming, Matches, DInv, TypeOK
  <1>6. PICK n \in Nat : n = Len(r.written)
    BY <1>5, LenProperties DEF FileReceiver
  <1>7. /\ q.accepted /\ ~ q.complete /\ q.acked <= n /\ n <= q.next
        /\ Forth(p) = {Chunk(q.name, q.id, k) : k \in (n + 1)..q.next}
        /\ Back(p) \subseteq {Ack(q.id, k) : k \in (q.acked + 1)..n}
    BY <1>3, <1>4, <1>6 DEF Streaming
  <1>8. PICK k \in (q.acked + 1)..n : Head(wire[p]) = Ack(q.id, k)
    BY <1>2, <1>7
  <1>9. /\ q.acked \in Nat /\ q.next \in Nat /\ q.size \in Nat
        /\ k \in Nat /\ q.acked < k /\ k <= n /\ k <= q.next /\ k <= q.size
    BY <1>2, <1>7, <1>8 DEF FileSender
  <1>10. Head(wire[p]).offset = k
    BY <1>8 DEF Ack
  <1>11. o = [q EXCEPT !.acked = k]
    BY <1>9, <1>10
  <1>12. GoOn(p, o)
    <2>1. faults' # faults + 1
      BY DEF DInv, TypeOK
    <2>2. ~ ReadFails(p, o)
      BY <2>1, Zenon DEF ReadFails
    <2>3. GoOn(p, o) \/ ReadFails(p, o)
      BY <1>9, <1>10 DEF TakeAck
    <2> QED
      BY <2>2, <2>3
  <1> HIDE DEF o
  <1>13. /\ o \in FileSender
         /\ o.id = q.id /\ o.name = q.name /\ o.size = q.size
         /\ o.next = q.next /\ o.acked = k /\ o.accepted /\ ~ o.complete
    BY <1>2, <1>7, <1>9, <1>11 DEF FileSender
  <1>14. Matches(r, o)
    BY <1>5, <1>13 DEF Matches
  <1>15. ASSUME NEW m \in Back(p) \ {Head(wire[p])}
         PROVE  m \in {Ack(o.id, l) : l \in (o.acked + 1)..n}
    <2>1. PICK l \in (q.acked + 1)..n : m = Ack(q.id, l)
      BY <1>7, <1>15
    <2>2. m \in Elems(wire[p]) \ {Head(wire[p])} /\ m.id = Head(wire[p]).id
      BY <1>8, <1>15, <2>1 DEF Back, Ack
    <2>3. m \in Elems(Tail(wire[p])) /\ Ordered(wire[p]) /\ wire[p] \in Seq(Message)
      BY <1>1, <2>2, ElemsOfTail DEF DInv, TypeOK, Calm
    <2>4. Before(Head(wire[p]), m)
      BY <1>1, <2>2, <2>3, OrderedTail
    <2>5. k < l
      BY <1>8, <2>1, <2>4 DEF Before, Ack
    <2> QED
      BY <1>9, <1>13, <2>1, <2>5
  <1>16. o.acked <= o.next /\ o.next <= o.size /\ o.next <= o.acked + Window
    BY <1>2, <1>9, <1>13
  <1>17. /\ o.acked <= n /\ n <= o.next
         /\ Forth(p) = {Chunk(o.name, o.id, l) : l \in (n + 1)..o.next}
         /\ Back(p) \ {Head(wire[p])} \subseteq {Ack(o.id, l) : l \in (o.acked + 1)..n}
    BY <1>7, <1>9, <1>13, <1>15
  <1> QED
    BY <1>1, <1>2, <1>4, <1>6, <1>12, <1>13, <1>14, <1>16, <1>17, PollStaysCalm

LEMMA EchoStaysCalm ==
    ASSUME DInv, Calm, NEW p \in Peer, TakeEcho(p)
    PROVE  Calm'
  <1>1. wire[p] # <<>> /\ Claims(p) /\ Head(wire[p]).type = "complete" /\ incoming' = incoming
    BY DEF TakeEcho, At
  <1>2. /\ outgoing[p] # None /\ outgoing[p] \in FileSender
        /\ Stages(p, outgoing[p])
        /\ About(p, Head(wire[p])) /\ Head(wire[p]) \in Back(p)
    BY <1>1, ClaimedInStage
  <1>3. Echoed(p, outgoing[p])
    BY <1>1, <1>2 DEF Stages, Offered, Accepted, Streaming, Completing, Accept, Ack
  <1>4. Send(p, <<>>) /\ outgoing' = [outgoing EXCEPT ![p] = None]
    BY TakeEchoStep DEF Settle
  <1>5. PICK msgs \in Seq(Message) : msgs = <<>>
    <2>1. <<>> \in Seq(Message)
      OBVIOUS
    <2> QED
      BY <2>1
  <1>6. /\ Send(p, msgs) /\ Ordered(msgs)
        /\ \A m \in Elems(msgs) : About(p, m)
        /\ \A a \in Forth(p), m \in Elems(msgs) : a.id = m.id => Before(a, m)
        /\ Elems(msgs) = {}
    BY <1>4, <1>5, ElemsOfNone
  <1>7. /\ Forth(p)' = Forth(p) /\ Back(p)' = Back(p) \ {Head(wire[p])}
        /\ Forth(Other(p))' = Forth(Other(p)) /\ Back(Other(p))' = Back(Other(p))
        /\ \A x \in Peer : Ordered(wire'[x])
    <2>1. Forth(p)' = Forth(p) \cup Elems(msgs)
      BY <1>1, <1>2, <1>6, AnswerTaken
    <2> QED
      BY <1>1, <1>2, <1>6, <2>1, AnswerTaken
  <1>8. Forth(p)' = {} /\ Back(p)' = {} /\ incoming'[Other(p)] = None
    BY <1>1, <1>2, <1>3, <1>7 DEF Echoed
  <1>9. outgoing'[p] = None /\ \A y \in Peer : y # p => outgoing'[y] = outgoing[y]
    BY <1>4 DEF DInv, TypeOK
  <1>10. ChannelIsCalm(p)'
    BY <1>8, <1>9 DEF ChannelIsCalm, Idle
  <1> QED
    BY <1>1, <1>7, <1>9, <1>10, Ends, CalmFromChannels

\* Nobody cancels.
LEMMA CancelNeverTaken ==
    ASSUME DInv, Calm, NEW p \in Peer
    PROVE  ~ TakeCancel(p)
  <1> SUFFICES ASSUME TakeCancel(p) PROVE FALSE
    OBVIOUS
  <1>1. wire[p] # <<>> /\ Claims(p) /\ Head(wire[p]).type = "cancel"
    BY DEF TakeCancel, At
  <1>2. Stages(p, outgoing[p]) /\ Head(wire[p]) \in Back(p)
    BY <1>1, ClaimedInStage
  <1> QED
    BY <1>1, <1>2 DEF Stages, Offered, Accepted, Streaming, Completing, Echoed,
                      Accept, Ack, Complete

-----------------------------------------------------------------------------
(* Without a fault: the receiver's steps *)

\* A part of a file, taken from the other end's sender.
LEMMA PartInStage ==
    ASSUME DInv, Calm, NEW p \in Peer, NEW z \in Peer, z = Other(p), wire[p] # <<>>,
           ~ About(p, Head(wire[p]))
    PROVE  /\ p = Other(z)
           /\ About(z, Head(wire[p])) /\ Head(wire[p]) \in Forth(z)
           /\ outgoing[z] # None /\ outgoing[z] \in FileSender
           /\ Stages(z, outgoing[z])
           /\ Head(wire[p]).type \in {"offer", "chunk", "complete"}
           /\ Head(wire[p]).id = outgoing[z].id
  <1>1. p = Other(z)
    BY Ends
  <1>2. PICK h \in Elems(wire[p]) : h = Head(wire[p])
    BY ElemsOfTail DEF DInv, TypeOK
  <1>3. h \in Forth(z) /\ h.type \in {"offer", "chunk", "complete"}
    BY <1>2, InAChannel DEF Back
  <1>4. About(z, h)
    BY <1>3 DEF Forth
  <1>5. outgoing[z] # None /\ Stages(z, outgoing[z])
    BY <1>3 DEF Calm, ChannelIsCalm, Idle
  <1>6. h.id = outgoing[z].id
    BY <1>3, <1>5 DEF Stages, Offered, Accepted, Streaming, Completing, Echoed,
                      OfferOf, Offer, Chunk, Complete
  <1> QED
    BY <1>1, <1>2, <1>3, <1>4, <1>5, <1>6 DEF DInv, TypeOK

LEMMA OfferStaysCalm ==
    ASSUME DInv, Calm, NEW p \in Peer, TakeOffer(p), faults' = 0
    PROVE  Calm'
  <1>1. /\ wire[p] # <<>> /\ Head(wire[p]).type = "offer"
        /\ UNCHANGED <<outgoing, asked, saved, verdict>>
    BY DEF TakeOffer, At
  <1>2. PICK z \in Peer : z = Other(p)
    BY Ends
  <1>3. ~ About(p, Head(wire[p]))
    <2>1. Head(wire[p]) \in Elems(wire[p])
      BY <1>1, ElemsOfTail DEF DInv, TypeOK
    <2> QED
      BY <1>1, <2>1, InAChannel
  <1>4. PICK o : o = outgoing[z]
    OBVIOUS
  <1>5. /\ p = Other(z)
        /\ About(z, Head(wire[p])) /\ Head(wire[p]) \in Forth(z)
        /\ o # None /\ o \in FileSender /\ Stages(z, o)
    BY <1>1, <1>2, <1>3, <1>4, PartInStage
  <1>6. Offered(z, o)
    BY <1>1, <1>5 DEF Stages, Accepted, Streaming, Completing, Echoed, Chunk, Complete
  <1>7. Head(wire[p]) = OfferOf(o) /\ incoming[p] = None
    BY <1>5, <1>6 DEF Offered
  <1>8. PICK r : r = [id |-> Head(wire[p]).id, name |-> Head(wire[p]).name,
                      size |-> Head(wire[p]).size, written |-> <<>>, failed |-> FALSE]
    OBVIOUS
  <1>9. incoming' = [incoming EXCEPT ![p] = r] /\ Send(p, <<Accept(Head(wire[p]).id)>>)
    <2>1. faults' # faults + 1
      BY DEF DInv, TypeOK
    <2> QED
      BY <1>7, <1>8, <2>1, Zenon DEF TakeOffer
  <1>10. PICK msgs \in Seq(Message) : msgs = <<Accept(o.id)>>
    <2>1. Accept(o.id) \in Message
      BY <1>5, MessageTypes DEF FileSender
    <2>2. <<Accept(o.id)>> \in Seq(Message)
      BY <2>1
    <2> QED
      BY <2>2
  <1>11. Head(wire[p]).id = o.id /\ Head(wire[p]).name = o.name /\ Head(wire[p]).size = o.size
    BY <1>7 DEF OfferOf, Offer
  <1>12. Elems(msgs) = {Accept(o.id)} /\ Ordered(msgs) /\ Send(p, msgs)
    BY <1>9, <1>10, <1>11, ElemsOfOne
  <1>13. /\ \A m \in Elems(msgs) : About(z, m)
         /\ \A a \in Back(z), m \in Elems(msgs) : a.id = m.id => Before(a, m)
    <2>1. Accept(o.id).id = Head(wire[p]).id
      BY <1>11 DEF Accept
    <2> QED
      BY <1>5, <1>6, <1>12, <2>1 DEF Offered, About
  <1>14. /\ Forth(z)' = Forth(z) \ {Head(wire[p])}
         /\ Back(z)' = Back(z) \cup Elems(msgs)
         /\ Forth(p)' = Forth(p) /\ Back(p)' = Back(p)
         /\ \A x \in Peer : Ordered(wire'[x])
    BY <1>1, <1>5, <1>12, <1>13, PartTaken
  <1>15. r # None
    <2>1. /\ r.id = o.id /\ r.name = o.name /\ r.size = o.size
          /\ r = [id |-> o.id, name |-> o.name, size |-> o.size, written |-> <<>>, failed |-> FALSE]
      BY <1>8, <1>11
    <2>2. r \in FileReceiver
      BY <1>5, <2>1 DEF FileReceiver, FileSender
    <2> QED
      BY <2>2
  <1>16. Matches(r, o)
    <2>1. /\ r.id = o.id /\ r.name = o.name /\ r.size = o.size /\ r.written = <<>> /\ ~ r.failed
      BY <1>8, <1>11
    <2>2. o.name \in File /\ Bytes(o.name, 0) = <<>> /\ Len(<<>>) = 0
      BY <1>5, BytesGrow DEF FileSender
    <2> QED
      BY <1>15, <2>1, <2>2 DEF Matches
  <1>17. incoming'[Other(z)] = r /\ incoming'[z] = incoming[z] /\ Len(r.written) = 0
    BY <1>2, <1>5, <1>8, <1>9, Ends DEF DInv, TypeOK
  <1>18. Forth(z)' = {} /\ Back(z)' = {Accept(o.id)}
    BY <1>6, <1>7, <1>12, <1>14 DEF Offered
  <1>19. Accepted(z, o)'
    BY <1>6, <1>16, <1>17, <1>18 DEF Accepted, Offered
  <1>20. ChannelIsCalm(z)'
    BY <1>1, <1>4, <1>5, <1>19 DEF ChannelIsCalm, Stages
  <1> QED
    BY <1>1, <1>2, <1>14, <1>17, <1>20, CalmFromChannels

\* What Receives says of a part: it is not about p's own file.
LEMMA ReceivedInStage ==
    ASSUME DInv, Calm, NEW p \in Peer, NEW z \in Peer, z = Other(p), wire[p] # <<>>, Receives(p)
    PROVE  /\ ~ About(p, Head(wire[p]))
           /\ incoming[p] # None /\ incoming[p] \in FileReceiver
  <1>1. /\ incoming[p] # None /\ incoming[p] \in FileReceiver
        /\ Head(wire[p]).id = incoming[p].id
    BY DEF Receives, DInv, TypeOK
  <1>2. /\ incoming[p].name \in File /\ incoming[p].name.from = Other(p)
        /\ incoming[p].id = IdOf(incoming[p].name)
    BY <1>1 DEF DInv, Receiving, FileReceiver
  <1>3. ~ About(p, Head(wire[p]))
    BY <1>1, <1>2, Ends, AboutOne
  <1> QED
    BY <1>1, <1>3

LEMMA ChunkStaysCalm ==
    ASSUME DInv, Calm, NEW p \in Peer, TakeChunk(p), faults' = 0
    PROVE  Calm'
  <1>1. /\ wire[p] # <<>> /\ Head(wire[p]).type = "chunk" /\ Receives(p)
        /\ UNCHANGED <<outgoing, asked, saved, verdict>>
    BY DEF TakeChunk, At
  <1>2. PICK z \in Peer : z = Other(p)
    BY Ends
  <1>3. ~ About(p, Head(wire[p])) /\ incoming[p] # None
    BY <1>1, <1>2, ReceivedInStage
  <1>4. PICK o : o = outgoing[z]
    OBVIOUS
  <1>5. /\ p = Other(z)
        /\ About(z, Head(wire[p])) /\ Head(wire[p]) \in Forth(z)
        /\ o # None /\ o \in FileSender /\ Stages(z, o)
    BY <1>1, <1>2, <1>3, <1>4, PartInStage
  <1>6. Streaming(z, o)
    BY <1>1, <1>5 DEF Stages, Offered, Accepted, Completing, Echoed, OfferOf, Offer, Complete
  <1>7. PICK r \in FileReceiver : r = incoming[p]
    BY <1>1, <1>2, ReceivedInStage
  <1>8. PICK n \in Nat : n = Len(r.written)
    BY LenProperties DEF FileReceiver
  <1>9. /\ Matches(r, o)
        /\ o.accepted /\ ~ o.complete
        /\ o.acked <= n /\ n <= o.next /\ o.acked < o.size
        /\ Forth(z) = {Chunk(o.name, o.id, k) : k \in (n + 1)..o.next}
        /\ Back(z) \subseteq {Ack(o.id, k) : k \in (o.acked + 1)..n}
    BY <1>5, <1>6, <1>7, <1>8 DEF Streaming
  <1>10. /\ o.acked \in Nat /\ o.next \in Nat /\ o.size \in Nat /\ o.id \in Nat /\ o.name \in File
         /\ o.next <= o.size
    BY <1>4, <1>5 DEF FileSender, DInv, Sending
  <1>11. PICK k \in (n + 1)..o.next : Head(wire[p]) = Chunk(o.name, o.id, k)
    BY <1>5, <1>9
  \* It is the next chunk: any other one would have overtaken that one.
  <1>12. k = n + 1
    <2> SUFFICES ASSUME k # n + 1 PROVE FALSE
      OBVIOUS
    <2>1. PICK c : c = Chunk(o.name, o.id, n + 1)
      OBVIOUS
    <2>2. n + 1 \in (n + 1)..o.next
      BY <1>10, <1>11
    <2>3. c \in Elems(wire[p])
      BY <1>5, <1>9, <2>1, <2>2 DEF Forth
    <2>4. c.offset = n /\ c.id = o.id /\ Head(wire[p]).offset = k - 1 /\ Head(wire[p]).id = o.id
      BY <1>11, <2>1 DEF Chunk
    <2>5. c # Head(wire[p])
      BY <1>11, <2>4
    <2>6. c \in Elems(Tail(wire[p])) /\ Ordered(wire[p]) /\ wire[p] \in Seq(Message)
      BY <1>1, <2>3, <2>5, ElemsOfTail DEF DInv, TypeOK, Calm
    <2>7. Before(Head(wire[p]), c)
      BY <1>1, <2>4, <2>6, OrderedTail
    <2>8. Head(wire[p]).type = "chunk" /\ c.type = "chunk"
      BY <1>11, <2>1 DEF Chunk
    <2>9. k - 1 < n
      BY <2>4, <2>7, <2>8 DEF Before
    <2> QED
      BY <1>11, <2>9
  <1>13. /\ Head(wire[p]).offset = n /\ Head(wire[p]).data = <<o.name, n + 1>>
         /\ n < o.size /\ r.size = o.size /\ r.id = o.id
    BY <1>9, <1>10, <1>11, <1>12 DEF Chunk, Matches
  <1>14. PICK w : w = Append(r.written, <<o.name, n + 1>>)
    OBVIOUS
  <1>15. /\ incoming' = [incoming EXCEPT ![p].written = w]
         /\ Send(p, <<Ack(o.id, n + 1)>>)
    <2>1. faults' # faults + 1
      BY DEF DInv, TypeOK
    <2>2. /\ Head(wire[p]).offset = Len(incoming[p].written)
          /\ ~ Head(wire[p]).offset >= incoming[p].size
      BY <1>7, <1>8, <1>10, <1>13
    <2>3. /\ incoming' = [incoming EXCEPT ![p].written = Append(@, Head(wire[p]).data)]
          /\ Send(p, <<Ack(incoming[p].id, Head(wire[p]).offset + 1)>>)
      BY <2>1, <2>2, Zenon DEF TakeChunk, Receiver
    <2> QED
      BY <1>7, <1>13, <1>14, <2>3
  <1>16. w = Bytes(o.name, n + 1) /\ Len(w) = n + 1
    <2>1. r.written = Bytes(o.name, n)
      BY <1>8, <1>9 DEF Matches
    <2>2. w = Bytes(o.name, n + 1)
      BY <1>10, <1>14, <2>1, BytesGrow
    <2>3. n + 1 \in Nat
      OBVIOUS
    <2>4. Len(Bytes(o.name, n + 1)) = n + 1
      BY <1>10, <2>3, BytesType
    <2> QED
      BY <2>2, <2>4
  <1>17. PICK msgs \in Seq(Message) : msgs = <<Ack(o.id, n + 1)>>
    <2>1. Ack(o.id, n + 1) \in Message
      BY <1>10, MessageTypes
    <2>2. <<Ack(o.id, n + 1)>> \in Seq(Message)
      BY <2>1
    <2> QED
      BY <2>2
  <1>18. Elems(msgs) = {Ack(o.id, n + 1)} /\ Ordered(msgs) /\ Send(p, msgs)
    BY <1>15, <1>17, ElemsOfOne
  <1>19. \A m \in Elems(msgs) : About(z, m)
    <2>1. Ack(o.id, n + 1).id = Head(wire[p]).id
      BY <1>11 DEF Ack, Chunk
    <2> QED
      BY <1>5, <1>18, <2>1 DEF About
  <1>20. \A a \in Back(z), m \in Elems(msgs) : a.id = m.id => Before(a, m)
    BY <1>9, <1>10, <1>18 DEF Ack, Before
  <1>21. /\ Forth(z)' = Forth(z) \ {Head(wire[p])}
         /\ Back(z)' = Back(z) \cup Elems(msgs)
         /\ Forth(p)' = Forth(p) /\ Back(p)' = Back(p)
         /\ \A x \in Peer : Ordered(wire'[x])
    BY <1>1, <1>5, <1>18, <1>19, <1>20, PartTaken
  <1>22. PICK q \in FileReceiver : q = [r EXCEPT !.written = w]
    <2>1. w \in Seq(Datum)
      BY <1>10, <1>16, BytesType
    <2>2. [r EXCEPT !.written = w] \in FileReceiver
      BY <2>1 DEF FileReceiver
    <2> QED
      BY <2>2
  <1>23. Matches(q, o) /\ Len(q.written) = n + 1
    <2>1. /\ q.id = r.id /\ q.name = r.name /\ q.size = r.size /\ q.failed = r.failed
          /\ q.written = w
      BY <1>22 DEF FileReceiver
    <2> QED
      BY <1>9, <1>16, <2>1 DEF Matches
  <1>24. incoming'[Other(z)] = q /\ incoming'[z] = incoming[z]
    <2>1. incoming'[p] = q
      BY <1>7, <1>15, <1>22 DEF DInv, TypeOK
    <2>2. incoming'[z] = incoming[z]
      BY <1>2, <1>15, Ends DEF DInv, TypeOK
    <2> QED
      BY <1>5, <2>1, <2>2
  <1>25. Forth(z)' = {Chunk(o.name, o.id, l) : l \in (n + 2)..o.next}
    <2>1. \A l \in (n + 1)..o.next : Chunk(o.name, o.id, l) = Chunk(o.name, o.id, k) <=> l = k
      BY <1>11 DEF Chunk
    <2>2. (n + 1)..o.next = {n + 1} \cup ((n + 2)..o.next) /\ n + 1 \notin (n + 2)..o.next
      BY <1>10, <1>11, <1>12
    <2> QED
      BY <1>9, <1>11, <1>12, <1>21, <2>1, <2>2
  <1>26. Back(z)' \subseteq {Ack(o.id, l) : l \in (o.acked + 1)..(n + 1)}
    <2>1. n + 1 \in (o.acked + 1)..(n + 1) /\ (o.acked + 1)..n \subseteq (o.acked + 1)..(n + 1)
      BY <1>9, <1>10
    <2> QED
      BY <1>9, <1>18, <1>21, <2>1
  <1>27. o.acked <= n + 1 /\ n + 1 <= o.next
    BY <1>9, <1>10, <1>11
  <1>28. PICK j \in Nat : j = n + 1 /\ j + 1 = n + 2
    OBVIOUS
  <1>29. /\ Len(q.written) = j /\ o.acked <= j /\ j <= o.next
         /\ Forth(z)' = {Chunk(o.name, o.id, l) : l \in (j + 1)..o.next}
         /\ Back(z)' \subseteq {Ack(o.id, l) : l \in (o.acked + 1)..j}
    BY <1>23, <1>25, <1>26, <1>27, <1>28
  <1>30. Streaming(z, o)'
    BY <1>9, <1>23, <1>24, <1>29 DEF Streaming
  <1>31. ChannelIsCalm(z)'
    BY <1>1, <1>4, <1>5, <1>30 DEF ChannelIsCalm, Stages
  <1> QED
    BY <1>1, <1>2, <1>21, <1>24, <1>31, CalmFromChannels

LEMMA CompleteStaysCalm ==
    ASSUME DInv, Calm, NEW p \in Peer, TakeComplete(p), faults' = 0
    PROVE  Calm'
  <1>1. /\ wire[p] # <<>> /\ Head(wire[p]).type = "complete" /\ Receives(p)
        /\ UNCHANGED <<outgoing, asked, verdict>>
    BY DEF TakeComplete, At
  <1>2. PICK z \in Peer : z = Other(p)
    BY Ends
  <1>3. ~ About(p, Head(wire[p])) /\ incoming[p] # None
    BY <1>1, <1>2, ReceivedInStage
  <1>4. PICK o : o = outgoing[z]
    OBVIOUS
  <1>5. /\ p = Other(z)
        /\ About(z, Head(wire[p])) /\ Head(wire[p]) \in Forth(z)
        /\ o # None /\ o \in FileSender /\ Stages(z, o)
    BY <1>1, <1>2, <1>3, <1>4, PartInStage
  <1>6. Completing(z, o)
    BY <1>1, <1>5 DEF Stages, Offered, Accepted, Streaming, Echoed, OfferOf, Offer, Chunk
  <1>7. PICK r \in FileReceiver : r = incoming[p]
    BY <1>1, <1>2, ReceivedInStage
  <1>8. PICK c \in Message : c = Head(wire[p])
    BY <1>1, HeadIsGood
  <1>9. /\ Matches(r, o) /\ Len(r.written) = o.size
        /\ c = Complete(o.id, Bytes(o.name, o.size))
        /\ Forth(z) = {c} /\ Back(z) = {}
    BY <1>5, <1>6, <1>7, <1>8 DEF Completing
  <1>10. Len(r.written) = r.size /\ HashMatches(r, c)
    BY <1>9 DEF Matches, HashMatches, Complete
  <1>11. incoming' = [incoming EXCEPT ![p] = None] /\ Send(p, <<c>>)
    <2>1. faults' # faults + 1
      BY DEF DInv, TypeOK
    <2>2. Len(incoming[p].written) = incoming[p].size /\ HashMatches(incoming[p], Head(wire[p]))
      BY <1>7, <1>8, <1>10
    <2>3. /\ incoming' = [incoming EXCEPT ![p] = Finished(p)]
          /\ Send(p, <<Head(wire[p])>>)
      BY <2>1, <2>2, Zenon DEF TakeComplete, Receiver
    <2> QED
      BY <1>8, <2>3 DEF Finished
  <1>12. PICK msgs \in Seq(Message) : msgs = <<c>>
    <2>1. <<c>> \in Seq(Message)
      OBVIOUS
    <2> QED
      BY <2>1
  <1>13. Elems(msgs) = {c} /\ Ordered(msgs) /\ Send(p, msgs)
    BY <1>11, <1>12, ElemsOfOne
  <1>14. /\ \A m \in Elems(msgs) : About(z, m)
         /\ \A a \in Back(z), m \in Elems(msgs) : a.id = m.id => Before(a, m)
    BY <1>5, <1>8, <1>9, <1>13
  <1>15. /\ Forth(z)' = Forth(z) \ {Head(wire[p])}
         /\ Back(z)' = Back(z) \cup Elems(msgs)
         /\ Forth(p)' = Forth(p) /\ Back(p)' = Back(p)
         /\ \A x \in Peer : Ordered(wire'[x])
    BY <1>1, <1>5, <1>13, <1>14, PartTaken
  <1>16. Forth(z)' = {} /\ Back(z)' = {Complete(o.id, Bytes(o.name, o.size))}
    BY <1>8, <1>9, <1>13, <1>15
  <1>17. incoming'[Other(z)] = None /\ incoming'[z] = incoming[z]
    <2>1. incoming'[p] = None
      BY <1>11 DEF DInv, TypeOK
    <2>2. incoming'[z] = incoming[z]
      BY <1>2, <1>11, Ends DEF DInv, TypeOK
    <2> QED
      BY <1>5, <2>1, <2>2
  <1>18. Echoed(z, o)'
    BY <1>6, <1>16, <1>17 DEF Completing, Echoed
  <1>19. ChannelIsCalm(z)'
    BY <1>1, <1>4, <1>5, <1>18 DEF ChannelIsCalm, Stages
  <1> QED
    BY <1>1, <1>2, <1>15, <1>17, <1>19, CalmFromChannels

\* Every message finds its transfer.
LEMMA NothingIgnored ==
    ASSUME DInv, Calm, NEW p \in Peer
    PROVE  ~ Ignore(p)
  <1> SUFFICES ASSUME Ignore(p) PROVE FALSE
    OBVIOUS
  <1>1. /\ wire[p] # <<>> /\ Head(wire[p]).type # "offer" /\ ~ Claims(p)
        /\ Head(wire[p]).type \in {"chunk", "complete"} => ~ Receives(p)
    BY DEF Ignore
  <1>2. PICK h \in Elems(wire[p]) : h = Head(wire[p])
    BY <1>1, ElemsOfTail DEF DInv, TypeOK
  <1>3. CASE About(p, h)
    <2>1. h \in Back(p) /\ h.type \in {"accept", "ack", "cancel", "complete"}
      BY <1>3, InAChannel, Ends DEF Forth, Back
    <2>2. outgoing[p] # None /\ Stages(p, outgoing[p])
      BY <2>1 DEF Calm, ChannelIsCalm, Idle
    <2>3. h.id = outgoing[p].id
      BY <2>1, <2>2 DEF Stages, Offered, Accepted, Streaming, Completing, Echoed,
                        Accept, Ack, Complete
    <2> QED
      BY <1>1, <1>2, <2>1, <2>2, <2>3 DEF Claims
  <1>4. CASE ~ About(p, h)
    <2>1. PICK z \in Peer : z = Other(p)
      BY Ends
    <2>2. /\ p = Other(z) /\ h \in Forth(z)
          /\ outgoing[z] # None /\ Stages(z, outgoing[z])
          /\ h.type \in {"offer", "chunk", "complete"} /\ h.id = outgoing[z].id
      BY <1>1, <1>2, <1>4, <2>1, PartInStage
    <2>3. Matches(incoming[p], outgoing[z])
      BY <1>1, <1>2, <2>2 DEF Stages, Offered, Accepted, Streaming, Completing, Echoed,
                              OfferOf, Offer
    <2> QED
      BY <1>1, <1>2, <2>2, <2>3 DEF Matches, Receives
  <1> QED
    BY <1>3, <1>4

-----------------------------------------------------------------------------
(* Without a fault: a new offer, the start, and the whole *)

LEMMA SendFileStaysCalm ==
    ASSUME DInv, Calm, SendFile
    PROVE  Calm'
  <1> DEFINE n0 == asked["client"] + 1
  <1>0. /\ "client" \in Peer /\ "host" \in Peer /\ "client" # "host"
        /\ Other("host") = "client" /\ Other("client") = "host"
        /\ \A y \in Peer : y = "client" \/ y = "host"
    BY DEF Peer, Other
  <1>1. /\ asked["client"] \in Nat /\ asked["client"] < MaxFiles
        /\ outgoing["client"] = None /\ incoming' = incoming
    BY <1>0 DEF SendFile, DInv, TypeOK
  <1>2. PICK f \in File : f = [from |-> "client", n |-> n0]
    <2>1. n0 \in 1..MaxFiles
      BY <1>1
    <2> QED
      BY <1>0, <2>1, IdsApart
  <1>3. asked'["client"] = n0
    BY <1>0 DEF SendFile, DInv, TypeOK
  <1>4. PICK size \in Sizes :
          /\ outgoing' = [outgoing EXCEPT !["client"] = Opened(f, size)]
          /\ wire' = [wire EXCEPT !["host"] = Append(@, OfferOf(Opened(f, size)))]
    BY <1>2, <1>3 DEF SendFile
  <1>5. PICK o : o = Opened(f, size)
    OBVIOUS
  <1>6. /\ o \in FileSender /\ o.name = f /\ o.id = IdOf(f)
        /\ ~ o.accepted /\ ~ o.complete /\ o.next = 0 /\ o.acked = 0
    <2>1. size \in Nat /\ IdOf(f) \in Nat
      BY IdsApart
    <2> QED
      BY <1>5, <2>1 DEF Opened, IdOf, FileSender
  <1>7. PICK m \in Message : m = OfferOf(o)
    BY <1>6, MessageTypes DEF OfferOf, FileSender
  <1>8. m.id = IdOf(f) /\ About("client", m) /\ ~ About("host", m)
    <2>1. m.id = IdOf(f) /\ f.from = "client"
      BY <1>2, <1>6, <1>7 DEF OfferOf, Offer
    <2> QED
      BY <1>0, <2>1, AboutOne
  <1>9. /\ outgoing'["client"] = o /\ o # None /\ outgoing'["host"] = outgoing["host"]
        /\ wire'["host"] = Append(wire["host"], m) /\ wire'["client"] = wire["client"]
        /\ wire["host"] \in Seq(Message)
    BY <1>0, <1>4, <1>5, <1>6, <1>7 DEF DInv, TypeOK
  <1>10. Elems(wire'["host"]) = Elems(wire["host"]) \cup {m}
    BY <1>9, ElemsOfAppend
  <1>11. Idle("client")
    BY <1>0, <1>1 DEF Calm, ChannelIsCalm
  <1>12. ~ Known(f)
    BY <1>1, <1>2 DEF Known
  <1>13. Ordered(wire'["host"])
    <2>1. /\ DOMAIN wire["host"] = 1..Len(wire["host"]) /\ Len(wire["host"]) \in Nat
          /\ DOMAIN wire'["host"] = 1..(Len(wire["host"]) + 1)
          /\ \A i \in 1..Len(wire["host"]) : wire'["host"][i] = wire["host"][i]
          /\ wire'["host"][Len(wire["host"]) + 1] = m
      BY <1>9, LenProperties, AppendProperties
    <2>2. \A i \in DOMAIN wire["host"] : wire["host"][i].id # m.id
      BY <1>0, <1>8, <1>12, NewFileIsNew DEF Elems
    <2>3. ASSUME NEW i \in DOMAIN wire'["host"], NEW j \in DOMAIN wire'["host"], i < j,
                 wire'["host"][i].id = wire'["host"][j].id
          PROVE  Before(wire'["host"][i], wire'["host"][j])
      <3>1. i \in DOMAIN wire["host"] /\ wire'["host"][i] = wire["host"][i]
        BY <2>1, <2>3
      <3>2. j # Len(wire["host"]) + 1
        BY <2>1, <2>2, <2>3, <3>1
      <3>3. j \in DOMAIN wire["host"] /\ wire'["host"][j] = wire["host"][j]
        BY <2>1, <3>2
      <3>4. Ordered(wire["host"])
        BY <1>0 DEF Calm
      <3> QED
        BY <2>3, <3>1, <3>3, <3>4 DEF Ordered
    <2> QED
      BY <2>3 DEF Ordered
  <1>14. \A x \in Peer : Ordered(wire'[x])
    <2>1. Ordered(wire["client"])
      BY <1>0 DEF Calm
    <2> QED
      BY <1>0, <1>9, <1>13, <2>1
  <1>15. Forth("client")' = {m} /\ Back("client")' = {}
    <2>1. /\ Forth("client")' = {k \in Elems(wire'["host"]) : About("client", k)}
          /\ Back("client")' = {k \in Elems(wire'["client"]) : About("client", k)}
      BY <1>0 DEF Forth, Back
    <2>2. /\ Forth("client") = {k \in Elems(wire["host"]) : About("client", k)}
          /\ Back("client") = {k \in Elems(wire["client"]) : About("client", k)}
      BY <1>0 DEF Forth, Back
    <2>3. Forth("client") = {} /\ Back("client") = {}
      BY <1>11 DEF Idle
    <2> QED
      BY <1>8, <1>9, <1>10, <2>1, <2>2, <2>3
  <1>16. Forth("host")' = Forth("host") /\ Back("host")' = Back("host")
    <2>1. /\ Forth("host")' = {k \in Elems(wire'["client"]) : About("host", k)}
          /\ Back("host")' = {k \in Elems(wire'["host"]) : About("host", k)}
      BY <1>0 DEF Forth, Back
    <2>2. /\ Forth("host") = {k \in Elems(wire["client"]) : About("host", k)}
          /\ Back("host") = {k \in Elems(wire["host"]) : About("host", k)}
      BY <1>0 DEF Forth, Back
    <2> QED
      BY <1>8, <1>9, <1>10, <2>1, <2>2
  <1>17. Offered("client", o)'
    BY <1>0, <1>1, <1>6, <1>7, <1>11, <1>15 DEF Offered, Idle
  <1>18. ChannelIsCalm("client")'
    BY <1>9, <1>17 DEF ChannelIsCalm, Stages
  <1>19. PICK y \in Peer : y = "host"
    BY <1>0
  <1>20. PICK z \in Peer : z = "client" /\ z = Other(y)
    BY <1>0, <1>19
  <1>21. /\ ChannelIsCalm(z)' /\ Forth(y)' = Forth(y) /\ Back(y)' = Back(y)
         /\ outgoing'[y] = outgoing[y] /\ incoming'[z] = incoming[z]
    BY <1>1, <1>9, <1>16, <1>18, <1>19, <1>20
  <1> QED
    BY <1>14, <1>20, <1>21, CalmFromChannels

LEMMA CalmInit == ASSUME Init PROVE Calm
  <1>0. /\ "client" \in Peer /\ "host" \in Peer /\ "client" # "host"
        /\ Other("host") = "client" /\ Other("client") = "host"
        /\ \A y \in Peer : y = "client" \/ y = "host"
    BY DEF Peer, Other
  <1>1. \A p \in Peer : incoming[p] = None
    BY DEF Init
  <1>2. CASE /\ asked = [p \in Peer |-> 0]
             /\ outgoing = [p \in Peer |-> None]
             /\ wire = [p \in Peer |-> <<>>]
    <2>1. \A p \in Peer : outgoing[p] = None /\ Elems(wire[p]) = {} /\ Ordered(wire[p])
      BY <1>2, ElemsOfNone
    <2> QED
      BY <1>1, <2>1, Ends DEF Calm, ChannelIsCalm, Idle, Forth, Back
  <1>3. CASE /\ asked = [p \in Peer |-> IF p = "host" THEN 1 ELSE 0]
             /\ \E n \in Sizes :
                  LET o == Opened([from |-> "host", n |-> 1], n) IN
                    /\ outgoing = [p \in Peer |-> IF p = "host" THEN o ELSE None]
                    /\ wire = [p \in Peer |-> IF p = "client" THEN <<OfferOf(o)>> ELSE <<>>]
    <2>a. PICK n \in Sizes :
            LET o == Opened([from |-> "host", n |-> 1], n) IN
              /\ outgoing = [p \in Peer |-> IF p = "host" THEN o ELSE None]
              /\ wire = [p \in Peer |-> IF p = "client" THEN <<OfferOf(o)>> ELSE <<>>]
      BY <1>3
    <2>b. PICK o : o = Opened([from |-> "host", n |-> 1], n)
      OBVIOUS
    <2>1. /\ o = Opened([from |-> "host", n |-> 1], n)
          /\ outgoing = [p \in Peer |-> IF p = "host" THEN o ELSE None]
          /\ wire = [p \in Peer |-> IF p = "client" THEN <<OfferOf(o)>> ELSE <<>>]
      BY <2>a, <2>b
    <2>2. 1 \in 1..MaxFiles
      OBVIOUS
    <2>3. PICK f \in File : f = [from |-> "host", n |-> 1]
      BY <1>0, <2>2, IdsApart
    <2>4. /\ o \in FileSender /\ o.name = f /\ o.id = IdOf(f)
          /\ ~ o.accepted /\ ~ o.complete /\ o.next = 0 /\ o.acked = 0
      <3>1. n \in Nat /\ IdOf(f) \in Nat
        BY IdsApart
      <3> QED
        BY <2>1, <2>3, <3>1 DEF Opened, IdOf, FileSender
    <2>5. PICK m \in Message : m = OfferOf(o)
      BY <2>4, MessageTypes DEF OfferOf, FileSender
    <2>6. About("host", m) /\ ~ About("client", m)
      <3>1. m.id = IdOf(f) /\ f.from = "host"
        BY <2>3, <2>4, <2>5 DEF OfferOf, Offer
      <3> QED
        BY <1>0, <3>1, AboutOne
    <2>7. /\ Elems(wire["client"]) = {m} /\ Elems(wire["host"]) = {}
          /\ Ordered(wire["client"]) /\ Ordered(wire["host"])
          /\ outgoing["host"] = o /\ outgoing["client"] = None /\ o # None
      <3>1. wire["client"] = <<m>> /\ wire["host"] = <<>>
        BY <1>0, <2>1, <2>5
      <3> QED
        BY <1>0, <2>1, <2>4, <3>1, ElemsOfOne, ElemsOfNone
    <2>8. ChannelIsCalm("client")
      BY <1>0, <1>1, <2>6, <2>7 DEF ChannelIsCalm, Idle, Forth, Back
    <2>9. Offered("host", o)
      BY <1>0, <1>1, <2>4, <2>5, <2>6, <2>7 DEF Offered, Forth, Back
    <2>10. ChannelIsCalm("host")
      BY <2>7, <2>9 DEF ChannelIsCalm, Stages
    <2> QED
      BY <1>0, <2>7, <2>8, <2>10 DEF Calm
  <1> QED
    BY <1>2, <1>3 DEF Init

\* Faults are counted, never forgotten.
LEMMA FaultsAreCounted == ASSUME [Next]_vars PROVE faults' = faults \/ faults' = faults + 1
  <1>1. ASSUME NEW p \in Peer, NEW o, GoOn(p, o) \/ ReadFails(p, o)
        PROVE  faults' = faults \/ faults' = faults + 1
    BY <1>1 DEF GoOn, ReadFails
  <1>2. ASSUME NEW p \in Peer, NEW how, Settle(p, how) PROVE faults' = faults
    BY <1>2 DEF Settle
  <1>3. ASSUME NEW p \in Peer, Take(p) PROVE faults' = faults \/ faults' = faults + 1
    <2>1. CASE TakeAccept(p)
      BY <1>1, <2>1 DEF TakeAccept
    <2>2. CASE TakeAck(p)
      BY <1>1, <1>2, <2>2 DEF TakeAck
    <2>3. CASE TakeEcho(p) \/ TakeCancel(p)
      BY <1>2, <2>3 DEF TakeEcho, TakeCancel
    <2>4. CASE TakeOffer(p) \/ TakeChunk(p) \/ TakeComplete(p) \/ Ignore(p)
      BY <2>4, Zenon DEF TakeOffer, TakeChunk, TakeComplete, Ignore
    <2> QED
      BY <1>3, <2>1, <2>2, <2>3, <2>4 DEF Take
  <1> QED
    BY <1>3 DEF Next, SendFile, Garble, vars

LEMMA CalmStep == ASSUME DInv, CalmUnlessFaults, [Next]_vars PROVE CalmUnlessFaults'
  <1> SUFFICES ASSUME faults' = 0 PROVE Calm'
    BY DEF CalmUnlessFaults
  <1>1. faults = 0 /\ Calm
    BY FaultsAreCounted DEF CalmUnlessFaults, DInv, TypeOK
  <1>2. CASE SendFile
    BY <1>1, <1>2, SendFileStaysCalm
  <1>3. ASSUME NEW p \in Peer, Take(p) PROVE Calm'
    BY <1>1, <1>3, AcceptStaysCalm, AckStaysCalm, EchoStaysCalm, CancelNeverTaken,
       OfferStaysCalm, ChunkStaysCalm, CompleteStaysCalm, NothingIgnored DEF Take
  <1>4. ASSUME NEW p \in Peer, Garble(p) PROVE Calm'
    BY <1>1, <1>4 DEF Garble
  <1>5. CASE UNCHANGED vars
    BY <1>1, <1>5 DEF vars, Calm, ChannelIsCalm, Ordered, Idle, Stages, Offered, Accepted,
       Streaming, Completing, Echoed, Forth, Back
  <1> QED
    BY <1>2, <1>3, <1>4, <1>5 DEF Next

LEMMA CalmAgrees == ASSUME DInv, CalmUnlessFaults PROVE SlotsAgree
  <1> SUFFICES ASSUME faults = 0, NEW p \in Peer
               PROVE  /\ incoming[Other(p)] # None =>
                           /\ outgoing[p] # None
                           /\ outgoing[p].id = incoming[Other(p)].id
                      /\ \A i \in DOMAIN wire[p] : wire[p][i].type # "cancel"
    BY DEF SlotsAgree
  <1>1. Calm
    BY DEF CalmUnlessFaults
  <1>2. incoming[Other(p)] # None => outgoing[p] # None /\ outgoing[p].id = incoming[Other(p)].id
    BY <1>1 DEF Calm, ChannelIsCalm, Idle, Stages, Offered, Accepted, Streaming, Completing,
                Echoed, Matches
  <1>3. ASSUME NEW m \in Elems(wire[p]), m.type = "cancel" PROVE FALSE
    <2>1. m \in Back(p)
      BY <1>3, InAChannel
    <2>2. outgoing[p] # None /\ Stages(p, outgoing[p])
      BY <1>1, <2>1 DEF Calm, ChannelIsCalm, Idle
    <2> QED
      BY <1>3, <2>1, <2>2 DEF Stages, Offered, Accepted, Streaming, Completing, Echoed,
                              Accept, Ack, Complete
  <1>4. \A i \in DOMAIN wire[p] : wire[p][i] \in Elems(wire[p])
    BY DEF Elems
  <1> QED
    BY <1>2, <1>3, <1>4

\* Without a fault no slot of take_file_replies and take_file is ever left
\* behind: whatever a receiver holds is what the other end is sending, a new
\* offer finds its slot free, every message finds its transfer, and nobody
\* cancels, however many files follow each other in both directions.
THEOREM SlotsNeverDisagree == Spec => []SlotsAgree
  <1>1. Init => CalmUnlessFaults
    BY CalmInit DEF CalmUnlessFaults
  <1>2. DInv /\ CalmUnlessFaults /\ [Next]_vars => CalmUnlessFaults'
    BY CalmStep
  <1>3. DInv /\ CalmUnlessFaults => SlotsAgree
    BY CalmAgrees
  <1> QED
    BY <1>1, <1>2, <1>3, TransfersInvariance, PTL DEF Spec

\* Without a fault no transfer fails: an acknowledgement is never of more than
\* was sent, an echo never of other bytes, and nobody cancels.
THEOREM NothingFailsByItself ==
    Spec => [](faults = 0 => \A f \in File : verdict[f] # "failed")
  <1> DEFINE Fine == faults = 0 => \A f \in File : verdict[f] # "failed"
  <1>1. Init => Fine /\ CalmUnlessFaults
    BY CalmInit DEF CalmUnlessFaults, Init
  <1>2. DInv /\ CalmUnlessFaults /\ Fine /\ [Next]_vars => Fine' /\ CalmUnlessFaults'
    <2> SUFFICES ASSUME DInv, CalmUnlessFaults, Fine, [Next]_vars PROVE Fine'
      BY CalmStep
    <2> SUFFICES ASSUME faults' = 0, NEW f \in File PROVE verdict'[f] # "failed"
      OBVIOUS
    <2>1. Calm /\ verdict[f] # "failed" /\ verdict \in [File -> {"none", "confirmed", "failed"}]
      BY FaultsAreCounted DEF CalmUnlessFaults, DInv, TypeOK
    <2>2. CASE SendFile
      BY <2>1, <2>2 DEF SendFile
    <2>3. ASSUME NEW p \in Peer, Take(p) PROVE verdict'[f] # "failed"
      <3>1. CASE TakeAccept(p)
        BY <2>1, <3>1 DEF TakeAccept
      <3>2. CASE TakeAck(p)
        BY <2>1, <3>2, TakeAckStep
      <3>3. CASE TakeEcho(p)
        <4>1. verdict' = [verdict EXCEPT ![outgoing[p].name] = "confirmed"]
          BY <3>3, TakeEchoStep DEF Settle
        <4> QED
          BY <2>1, <4>1
      <3>4. CASE TakeCancel(p)
        BY <2>1, <3>4, CancelNeverTaken
      <3>5. CASE TakeOffer(p) \/ TakeChunk(p) \/ TakeComplete(p) \/ Ignore(p)
        <4>1. verdict' = verdict
          BY <3>5, Zenon DEF TakeOffer, TakeChunk, TakeComplete, Ignore
        <4> QED
          BY <2>1, <4>1
      <3> QED
        BY <2>3, <3>1, <3>2, <3>3, <3>4, <3>5 DEF Take
    <2>4. ASSUME NEW p \in Peer, Garble(p) PROVE verdict'[f] # "failed"
      BY <2>1, <2>4 DEF Garble
    <2>5. CASE UNCHANGED vars
      BY <2>1, <2>5 DEF vars
    <2> QED
      BY <2>2, <2>3, <2>4, <2>5 DEF Next
  <1> QED
    BY <1>1, <1>2, TransfersInvariance, PTL DEF Spec

=============================================================================
