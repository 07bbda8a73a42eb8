------------------------------ MODULE NalSplit ------------------------------
(***************************************************************************)
(* The access-unit splitter of crates/host/src/nal.rs: push_bytes appends  *)
(* what arrived to its buffer, finds the Annex-B start codes, groups the   *)
(* complete NALs into access units, returns all groups but the last and    *)
(* keeps the rest.  Bytes are numbers, a buffer a sequence of them.        *)
(*                                                                         *)
(* The code scans from left to right; here a start code, a boundary and a  *)
(* cut are places with a property.  ScanStarts is the scan as it is        *)
(* written, to compare with.                                               *)
(***************************************************************************)
EXTENDS Integers, Sequences, FiniteSets, SequencesExt

\* The members of A up to n, in their order.
Ascending(n, A) ==
    LET upTo[i \in 0..n] ==
            IF i = 0 THEN <<>> ELSE IF i \in A THEN Append(upTo[i - 1], i) ELSE upTo[i - 1]
    IN  upTo[n]

Long(buf, i) == i + 3 <= Len(buf) /\ SubSeq(buf, i, i + 3) = <<0, 0, 0, 1>>
Short(buf, i) == i + 2 <= Len(buf) /\ SubSeq(buf, i, i + 2) = <<0, 0, 1>>

\* start_codes as a scan: what is found from place i on.
ScanStarts(buf) ==
    LET found[i \in 1..(Len(buf) + 4)] ==
            IF i + 2 > Len(buf) THEN <<>>
            ELSE IF Short(buf, i) THEN <<i>> \o found[i + 3]
            ELSE IF Long(buf, i) THEN <<i>> \o found[i + 4]
            ELSE found[i + 1]
    IN  found[1]

\* start_codes: the long form counts from its first zero.
IsStart(buf, i) == Long(buf, i) \/ (Short(buf, i) /\ ~ (i > 1 /\ Long(buf, i - 1)))

StartCodes(buf) == Ascending(Len(buf), {i \in 1..Len(buf) : IsStart(buf, i)})

\* Where the header of the NAL that starts at i is.
Header(buf, i) == IF Short(buf, i) THEN i + 3 ELSE i + 4

\* nal_type of the NAL that starts at i; 0 if its header has not arrived.
NalType(buf, i) == IF Header(buf, i) <= Len(buf) THEN buf[Header(buf, i)] % 32 ELSE 0

IsVcl(kind) == kind \in 1..5
Opens(kind) == kind \in {7, 9}

\* Mutant of Boundary: every slice opens a unit, also the first after its
\* parameter sets.
BoundaryVcl(kind, i) == Opens(kind[i]) \/ IsVcl(kind[i])

\* Of the NALs that start at DOMAIN kind, that at i opens a new unit: it is a
\* delimiter or parameter set, or a slice after a slice of the unit under way.
Boundary(kind, i) ==
    \/ Opens(kind[i])
    \/ /\ IsVcl(kind[i])
       /\ \E k \in DOMAIN kind :
            /\ k < i /\ IsVcl(kind[k])
            /\ \A l \in DOMAIN kind : k < l /\ l < i => ~ Opens(kind[l])

\* Where the units begin.  The last start code only ends the NAL before it.
Cuts(buf, starts) ==
    LET kind == [i \in {starts[j] : j \in 1..(Len(starts) - 1)} |-> NalType(buf, i)]
    IN  Ascending(Len(buf), {i \in DOMAIN kind : i = starts[1] \/ Boundary(kind, i)})

\* A unit is a keyframe if one of its NALs is an IDR slice or a parameter set.
Unit(data) ==
    [data |-> data,
     keyframe |-> \E i \in Range(StartCodes(data)) : NalType(data, i) \in {5, 7}]

\* Mutant of PushBytes: what arrives is scanned on its own.
PushBytesFresh(buf, incoming) ==
    LET all == buf \o incoming
        fresh == StartCodes(incoming)
        starts == StartCodes(buf) \o [i \in DOMAIN fresh |-> Len(buf) + fresh[i]]
        cuts == Cuts(all, starts)
        n == Len(cuts)
    IN  IF Len(starts) < 2
          THEN [units |-> <<>>, buf |-> all]
          ELSE [units |-> [i \in 1..(n - 1) |-> Unit(SubSeq(all, cuts[i], cuts[i + 1] - 1))],
                buf |-> SubSeq(all, cuts[n], Len(all))]

\* push_bytes: the units it returns, and the buffer it leaves.
PushBytes(buf, incoming) ==
    LET all == buf \o incoming
        starts == StartCodes(all)
        cuts == Cuts(all, starts)
        n == Len(cuts)
    IN  IF Len(starts) < 2
          THEN [units |-> <<>>, buf |-> all]
          ELSE [units |-> [i \in 1..(n - 1) |-> Unit(SubSeq(all, cuts[i], cuts[i + 1] - 1))],
                buf |-> SubSeq(all, cuts[n], Len(all))]

=============================================================================
