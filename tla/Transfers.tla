----------------------------- MODULE Transfers ------------------------------
(***************************************************************************)
(* All file transfers of one session: the two slots each end has, Transfers *)
(* of crates/host/src/session.rs and Live of crates/client/src/net.rs, and *)
(* how take_file_replies and take_file give a message to one of them.  The *)
(* host offers at most one file, before it reads anything; the client      *)
(* offers one whenever the user asks and its slot is free.                 *)
(*                                                                         *)
(* FileTransfer has one transfer in every detail.  Here the transfers meet: *)
(* they cross on the wire, follow each other in a slot, and only their ids *)
(* keep them apart.  A file is named by who sends it and a number; sizes,  *)
(* offsets and the window count chunks.                                    *)
(***************************************************************************)
EXTENDS Integers, Sequences

CONSTANTS
    MaxFiles,   \* bound: the files the client's user sends
    Sizes,      \* the sizes of files
    Window,     \* FILE_WINDOW_BYTES in chunks
    HostBit,    \* the bit that next_id sets, above all the numbers it counts
    None,       \* an empty slot
    MaxFaults   \* bound: reads, writes and chunks that go wrong

ASSUME FilesAssumption == MaxFiles \in Nat \ {0} /\ HostBit \in Nat /\ MaxFiles < HostBit
ASSUME SizesAssumption == Sizes \subseteq Nat
ASSUME WindowAssumption == Window \in Nat \ {0}

VARIABLES
    outgoing,   \* the FileSender of each end, or None
    incoming,   \* the FileReceiver of each end, or None
    wire,       \* messages under way to each end, in order
    asked,      \* the files each end has offered
    saved,      \* the files in the download directories, with their bytes
    verdict,    \* what became of each file at its sender
    faults      \* faults so far

vars == <<outgoing, incoming, wire, asked, saved, verdict, faults>>

Peer == {"host", "client"}
Other(p) == IF p = "host" THEN "client" ELSE "host"

File == [from : Peer, n : 1..MaxFiles]

Garbled == -1
Datum == (File \X Nat) \cup {<<Garbled>>}

\* The fields that matter of the two structs.
FileSender ==
    [id : Nat, name : File, size : Nat, next : Nat, acked : Nat,
     accepted : BOOLEAN, complete : BOOLEAN]
FileReceiver == [id : Nat, name : File, size : Nat, written : Seq(Datum), failed : BOOLEAN]

ASSUME NoneAssumption == None \notin FileSender \cup FileReceiver

-----------------------------------------------------------------------------
(* Ids and messages *)

\* Mutant of NextId: the host does not set its bit.
SameId(p, n) == n

\* next_id of the host sets the top bit, next_client_id clears it.
NextId(p, n) == IF p = "host" THEN HostBit + n ELSE n

Accept(i)       == [type |-> "accept", id |-> i]
Cancel(i)       == [type |-> "cancel", id |-> i]
Ack(i, k)       == [type |-> "ack", id |-> i, offset |-> k]
Chunk(f, i, k)  == [type |-> "chunk", id |-> i, offset |-> k - 1, data |-> <<f, k>>]
Offer(f, i, n)  == [type |-> "offer", id |-> i, name |-> f, size |-> n]
Complete(i, h)  == [type |-> "complete", id |-> i, hash |-> h]

\* The bytes of the first n chunks, and the hash over them.
Bytes(f, n) == [k \in 1..n |-> <<f, k>>]

Opened(f, n) ==
    [id |-> NextId(f.from, f.n), name |-> f, size |-> n, next |-> 0, acked |-> 0,
     accepted |-> FALSE, complete |-> FALSE]

OfferOf(o) == Offer(o.name, o.id, o.size)

-----------------------------------------------------------------------------
(* FileSender::poll *)

PollEnd(o) == IF o.size < o.acked + Window THEN o.size ELSE o.acked + Window

\* Mutant of Polls: an empty file is nothing to poll for.
PollsNonEmpty(o) == o.accepted /\ ~ o.complete /\ o.next < o.size

Polls(o) == o.accepted /\ ~ o.complete

AfterPoll(o) ==
    IF Polls(o)
      THEN [o EXCEPT !.next = PollEnd(o), !.complete = (o.acked = o.size)]
      ELSE o

PollMessages(o) ==
    IF Polls(o)
      THEN [i \in 1..(PollEnd(o) - o.next) |-> Chunk(o.name, o.id, o.next + i)]
              \o IF o.acked = o.size
                   THEN <<Complete(o.id, Bytes(o.name, o.size))>>
                   ELSE <<>>
      ELSE <<>>

-----------------------------------------------------------------------------
(* Taking a message: the outgoing transfer is asked first, then an offer is *)
(* answered, then the incoming transfer is asked.                          *)

Send(p, msgs) ==
    wire' = [wire EXCEPT ![p] = Tail(@), ![Other(p)] = @ \o msgs]

At(p, type) == wire[p] # <<>> /\ Head(wire[p]).type = type

\* on_peer claims the four messages a receiver sends, by their id.
Claims(p) ==
    /\ outgoing[p] # None
    /\ Head(wire[p]).type \in {"accept", "ack", "complete", "cancel"}
    /\ Head(wire[p]).id = outgoing[p].id

\* The sender goes on as o, and polls.
GoOn(p, o) ==
    /\ outgoing' = [outgoing EXCEPT ![p] = AfterPoll(o)]
    /\ Send(p, PollMessages(o))
    /\ UNCHANGED faults

\* poll fails at chunk k: what it read before is dropped, the slot is kept.
ReadFails(p, o) ==
    /\ faults < MaxFaults
    /\ Polls(o)
    /\ \E k \in o.next..(PollEnd(o) - 1) :
         outgoing' = [outgoing EXCEPT ![p] = [o EXCEPT !.next = k]]
    /\ Send(p, <<>>)
    /\ faults' = faults + 1

\* The transfer leaves its slot.
Settle(p, how) ==
    /\ outgoing' = [outgoing EXCEPT ![p] = None]
    /\ verdict' = [verdict EXCEPT ![outgoing[p].name] = how]
    /\ Send(p, <<>>)
    /\ UNCHANGED faults

TakeAccept(p) ==
    /\ At(p, "accept")
    /\ Claims(p)
    /\ LET o == [outgoing[p] EXCEPT !.accepted = TRUE] IN
         GoOn(p, o) \/ ReadFails(p, o)
    /\ UNCHANGED <<incoming, asked, saved, verdict>>

TakeAck(p) ==
    /\ At(p, "ack")
    /\ Claims(p)
    /\ LET k == Head(wire[p]).offset
           o == [outgoing[p] EXCEPT !.acked = IF k < @ THEN @ ELSE k]
       IN  \/ /\ k > o.next \/ k > o.size
              /\ Settle(p, "failed")
           \/ /\ k <= o.next /\ k <= o.size
              /\ GoOn(p, o) \/ ReadFails(p, o)
              /\ UNCHANGED verdict
    /\ UNCHANGED <<incoming, asked, saved>>

\* The echo of the hash, which is there to compare with once it was sent.
TakeEcho(p) ==
    /\ At(p, "complete")
    /\ Claims(p)
    /\ LET o == outgoing[p] IN
         Settle(p, IF o.complete /\ Head(wire[p]).hash # Bytes(o.name, o.size)
                     THEN "failed" ELSE "confirmed")
    /\ UNCHANGED <<incoming, asked, saved>>

TakeCancel(p) ==
    /\ At(p, "cancel")
    /\ Claims(p)
    /\ Settle(p, "failed")
    /\ UNCHANGED <<incoming, asked, saved>>

\* Creating the partial file may fail, without an answer.
TakeOffer(p) ==
    /\ At(p, "offer")
    /\ LET m == Head(wire[p]) IN
         \/ /\ incoming[p] # None
            /\ Send(p, <<Cancel(m.id)>>)
            /\ UNCHANGED <<incoming, faults>>
         \/ /\ incoming[p] = None
            /\ incoming' = [incoming EXCEPT ![p] =
                   [id |-> m.id, name |-> m.name, size |-> m.size, written |-> <<>>,
                    failed |-> FALSE]]
            /\ Send(p, <<Accept(m.id)>>)
            /\ UNCHANGED faults
         \/ /\ incoming[p] = None
            /\ faults < MaxFaults
            /\ faults' = faults + 1
            /\ Send(p, <<>>)
            /\ UNCHANGED incoming
    /\ UNCHANGED <<outgoing, asked, saved, verdict>>

\* handle takes what its own sender sends.
Receives(p) ==
    /\ ~ Claims(p)
    /\ incoming[p] # None
    /\ ~ incoming[p].failed
    /\ Head(wire[p]).id = incoming[p].id

Receiver(p) == incoming[p]

\* FileReceiver::cancel; the receiver keeps its slot.
CancelReceiver(p) ==
    /\ incoming' = [incoming EXCEPT ![p].failed = TRUE]
    /\ Send(p, <<Cancel(Receiver(p).id)>>)

\* handle returns an error: the slot is emptied, nothing is sent.
DropReceiver(p) ==
    /\ incoming' = [incoming EXCEPT ![p] = None]
    /\ Send(p, <<>>)

TakeChunk(p) ==
    /\ At(p, "chunk")
    /\ Receives(p)
    /\ LET r == Receiver(p)
           m == Head(wire[p])
       IN  \/ /\ m.offset # Len(r.written) \/ m.offset >= r.size
              /\ CancelReceiver(p)
              /\ UNCHANGED faults
           \/ /\ m.offset = Len(r.written) /\ m.offset < r.size
              /\ incoming' = [incoming EXCEPT ![p].written = Append(@, m.data)]
              /\ Send(p, <<Ack(r.id, m.offset + 1)>>)
              /\ UNCHANGED faults
           \/ /\ m.offset = Len(r.written) /\ m.offset < r.size
              /\ faults < MaxFaults
              /\ faults' = faults + 1
              /\ DropReceiver(p)
    /\ UNCHANGED <<outgoing, asked, saved, verdict>>

HashMatches(r, m) == m.hash = r.written

\* Mutant of Finished: a saved file keeps its receiver in the slot.
FinishedKeeps(p) == incoming[p]

\* The slot of a receiver that is done.
Finished(p) == None

TakeComplete(p) ==
    /\ At(p, "complete")
    /\ Receives(p)
    /\ LET r == Receiver(p)
           m == Head(wire[p])
       IN  \/ /\ Len(r.written) # r.size
              /\ CancelReceiver(p)
              /\ UNCHANGED <<saved, faults>>
           \/ /\ Len(r.written) = r.size /\ ~ HashMatches(r, m)
              /\ DropReceiver(p)
              /\ UNCHANGED <<saved, faults>>
           \/ /\ Len(r.written) = r.size /\ HashMatches(r, m)
              /\ saved' = saved \cup {[name |-> r.name, size |-> r.size, data |-> r.written]}
              /\ incoming' = [incoming EXCEPT ![p] = Finished(p)]
              /\ Send(p, <<m>>)
              /\ UNCHANGED faults
           \/ /\ Len(r.written) = r.size /\ HashMatches(r, m)
              /\ faults < MaxFaults
              /\ faults' = faults + 1
              /\ DropReceiver(p)
              /\ UNCHANGED saved
    /\ UNCHANGED <<outgoing, asked, verdict>>

\* Nobody claims the message.
Ignore(p) ==
    /\ wire[p] # <<>>
    /\ Head(wire[p]).type # "offer"
    /\ ~ Claims(p)
    /\ Head(wire[p]).type \in {"chunk", "complete"} => ~ Receives(p)
    /\ Send(p, <<>>)
    /\ UNCHANGED <<outgoing, incoming, asked, saved, verdict, faults>>

Take(p) ==
    \/ TakeAccept(p) \/ TakeAck(p) \/ TakeEcho(p) \/ TakeCancel(p)
    \/ TakeOffer(p) \/ TakeChunk(p) \/ TakeComplete(p) \/ Ignore(p)

-----------------------------------------------------------------------------

\* queue_send, when the user asks for it.
SendFile ==
    /\ asked["client"] < MaxFiles
    /\ outgoing["client"] = None
    /\ asked' = [asked EXCEPT !["client"] = @ + 1]
    /\ \E n \in Sizes :
         LET o == Opened([from |-> "client", n |-> asked'["client"]], n) IN
           /\ outgoing' = [outgoing EXCEPT !["client"] = o]
           /\ wire' = [wire EXCEPT !["host"] = Append(@, OfferOf(o))]
    /\ UNCHANGED <<incoming, saved, verdict, faults>>

Garble(p) ==
    /\ faults < MaxFaults
    /\ faults' = faults + 1
    /\ \E i \in DOMAIN wire[p] :
         /\ wire[p][i].type = "chunk"
         /\ wire' = [wire EXCEPT ![p][i].data = <<Garbled>>]
    /\ UNCHANGED <<outgoing, incoming, asked, saved, verdict>>

\* --offer-file: the offer is sent before the host's reader starts.
Init ==
    /\ \/ /\ asked = [p \in Peer |-> 0]
          /\ outgoing = [p \in Peer |-> None]
          /\ wire = [p \in Peer |-> <<>>]
       \/ /\ asked = [p \in Peer |-> IF p = "host" THEN 1 ELSE 0]
          /\ \E n \in Sizes :
               LET o == Opened([from |-> "host", n |-> 1], n) IN
                 /\ outgoing = [p \in Peer |-> IF p = "host" THEN o ELSE None]
                 /\ wire = [p \in Peer |-> IF p = "client" THEN <<OfferOf(o)>> ELSE <<>>]
    /\ incoming = [p \in Peer |-> None]
    /\ saved = {}
    /\ verdict = [f \in File |-> "none"]
    /\ faults = 0

Next ==
    \/ SendFile
    \/ \E p \in Peer : Take(p)
    \/ \E p \in Peer : Garble(p)

Spec == Init /\ [][Next]_vars

\* Both ends keep reading; nobody has to send a file.
FairSpec == Spec /\ \A p \in Peer : WF_vars(Take(p))

-----------------------------------------------------------------------------
(* Properties *)

\* Without a fault the two ends agree on whose turn a slot is: a receiver is
\* never left behind by a sender that is through, so no offer is ever refused
\* and nothing is cancelled.
SlotsAgree ==
    faults = 0 =>
        \A p \in Peer :
            /\ incoming[Other(p)] # None =>
                 /\ outgoing[p] # None
                 /\ outgoing[p].id = incoming[Other(p)].id
            /\ \A i \in DOMAIN wire[p] : wire[p][i].type # "cancel"

\* A file is delivered when it is saved with its own bytes, all of them and in
\* order, and in no other way.
Delivered(f) == {s.data = Bytes(f, s.size) : s \in {t \in saved : t.name = f}} = {TRUE}

Delivery(f) == INSTANCE FileDelivery WITH
    delivered <- Delivered(f),
    verdict <- verdict[f]

\* Every transfer of the session keeps the promise of FileDelivery, the ones
\* after a failed one and beside one in the other direction too: a file is
\* saved whole before it is confirmed, and stays so.
EveryDelivery ==
    /\ \A f \in File : Delivery(f)!Init
    /\ [][\A f \in File : [Delivery(f)!Next]_(Delivery(f)!vars)]_vars

\* Unless something fails, every file offered is confirmed, in both directions
\* at once: neither end waits for the other for good.
EveryFileConfirmed ==
    \A p \in Peer : \A n \in 1..MaxFiles :
        asked[p] >= n ~> verdict[[from |-> p, n |-> n]] = "confirmed" \/ faults > 0

=============================================================================
