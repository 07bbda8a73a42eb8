----------------------------- MODULE Host_proofs ----------------------------
(***************************************************************************)
(* Proofs about the host's tasks and its settings file, which share no     *)
(* variable.  SessionTasks: which session's reader injects, and that the   *)
(* reader never waits for the control channel, whatever is in it.          *)
(* SettingsStore and the Panel over it: what a command that meets no other *)
(* one does to the settings file, whichever way it ends, and that the      *)
(* panel changes the file in no other way.                                 *)
(***************************************************************************)
EXTENDS SessionTasks, Panel, SequenceTheorems, FunctionTheorems, FiniteSetTheorems, TLAPS

USE MaxSessionsAssumption, CtrlCapAssumption, FileWindowAssumption,
    OwnWindowAssumption, MaxResizesAssumption, TaskFaultsAssumption

-----------------------------------------------------------------------------
(* How often a message is in a channel *)

LEMMA OccurrencesType ==
    ASSUME NEW S, NEW q \in Seq(S), NEW kind
    PROVE  /\ IsFiniteSet({i \in DOMAIN q : q[i] = kind})
           /\ Occurrences(q, kind) \in Nat
           /\ Occurrences(q, kind) <= Len(q)
  <1>1. DOMAIN q = 1..Len(q) /\ Len(q) \in Nat
    BY LenProperties
  <1>2. IsFiniteSet(1..Len(q)) /\ Cardinality(1..Len(q)) = Len(q)
    BY <1>1, FS_Interval
  <1>3. {i \in DOMAIN q : q[i] = kind} \in SUBSET (1..Len(q))
    BY <1>1
  <1>4. /\ IsFiniteSet({i \in DOMAIN q : q[i] = kind})
        /\ Cardinality({i \in DOMAIN q : q[i] = kind}) <= Len(q)
    BY <1>2, <1>3, FS_Subset
  <1> QED
    BY <1>4, FS_CardinalityType DEF Occurrences

LEMMA OccurrencesEmpty == ASSUME NEW kind PROVE Occurrences(<<>>, kind) = 0
  <1>1. {i \in DOMAIN <<>> : <<>>[i] = kind} = {}
    OBVIOUS
  <1> QED
    BY <1>1, FS_EmptySet DEF Occurrences

LEMMA OccurrencesAppend ==
    ASSUME NEW S, NEW q \in Seq(S), NEW e \in S, NEW kind
    PROVE  Occurrences(Append(q, e), kind) =
               Occurrences(q, kind) + (IF e = kind THEN 1 ELSE 0)
  <1> DEFINE At(r) == {i \in DOMAIN r : r[i] = kind}
             n == Len(q) + 1
  <1>1. /\ DOMAIN q = 1..Len(q) /\ Len(q) \in Nat
        /\ DOMAIN Append(q, e) = 1..n
        /\ \A i \in 1..Len(q) : Append(q, e)[i] = q[i]
        /\ Append(q, e)[n] = e
    BY LenProperties, AppendProperties
  <1>2. IsFiniteSet(At(q)) /\ n \notin At(q)
    <2>1. IsFiniteSet(At(q))
      BY OccurrencesType
    <2>2. n \notin At(q)
      BY <1>1
    <2> QED
      BY <2>1, <2>2
  <1>5. \A r : Occurrences(r, kind) = Cardinality(At(r))
    BY DEF Occurrences
  <1>3. CASE e = kind
    <2>1. At(Append(q, e)) = At(q) \cup {n}
      BY <1>1, <1>3
    <2>2. Cardinality(At(q) \cup {n}) = Cardinality(At(q)) + 1
      BY <1>2, FS_AddElement
    <2> HIDE DEF At, n
    <2> QED
      BY <1>3, <1>5, <2>1, <2>2
  <1>4. CASE e # kind
    <2>1. At(Append(q, e)) = At(q)
      BY <1>1, <1>4
    <2>2. Occurrences(q, kind) \in Nat
      BY OccurrencesType
    <2> HIDE DEF At, n
    <2> QED
      BY <1>4, <1>5, <2>1, <2>2
  <1> QED
    BY <1>3, <1>4

LEMMA OccurrencesTail ==
    ASSUME NEW S, NEW q \in Seq(S), q # <<>>, NEW kind
    PROVE  Occurrences(Tail(q), kind) =
               Occurrences(q, kind) - (IF Head(q) = kind THEN 1 ELSE 0)
  <1> DEFINE At(r) == {i \in DOMAIN r : r[i] = kind}
             f == [i \in At(Tail(q)) |-> i + 1]
  <1>1. /\ DOMAIN q = 1..Len(q) /\ Len(q) \in Nat \ {0}
        /\ Tail(q) \in Seq(S) /\ DOMAIN Tail(q) = 1..(Len(q) - 1)
        /\ \A i \in 1..(Len(q) - 1) : Tail(q)[i] = q[i + 1]
        /\ Head(q) = q[1]
    BY LenProperties, EmptySeq, HeadTailProperties
  <1>2. IsFiniteSet(At(q)) /\ IsFiniteSet(At(Tail(q)))
    BY <1>1, OccurrencesType
  <1>3. f \in [At(Tail(q)) -> At(q) \ {1}]
    BY <1>1
  <1>4. \A i, j \in At(Tail(q)) : f[i] = f[j] => i = j
    BY <1>1
  <1>5. ASSUME NEW j \in At(q) \ {1} PROVE \E i \in At(Tail(q)) : f[i] = j
    <2>1. j - 1 \in At(Tail(q)) /\ f[j - 1] = j
      BY <1>1
    <2> QED
      BY <2>1
  <1>6. f \in Bijection(At(Tail(q)), At(q) \ {1})
    BY <1>3, <1>4, <1>5, Fun_IsBij
  <1>7. Cardinality(At(q) \ {1}) = Cardinality(At(Tail(q)))
    <2>1. PICK A, B : A = At(Tail(q)) /\ B = At(q) \ {1}
      OBVIOUS
    <2>2. ExistsBijection(A, B)
      BY <1>6, <2>1, Fun_ExistsBij
    <2>3. IsFiniteSet(A)
      BY <1>2, <2>1
    <2>4. Cardinality(B) = Cardinality(A)
      BY <2>2, <2>3, FS_Bijection
    <2> QED
      BY <2>1, <2>4
  <1>8. Cardinality(At(q) \ {1}) = IF 1 \in At(q) THEN Cardinality(At(q)) - 1 ELSE Cardinality(At(q))
    BY <1>2, FS_RemoveElement
  <1>9. 1 \in At(q) <=> Head(q) = kind
    BY <1>1
  <1>10. Cardinality(At(q)) \in Nat
    BY <1>2, FS_CardinalityType
  <1>11. \A r : Occurrences(r, kind) = Cardinality(At(r))
    BY DEF Occurrences
  <1> HIDE DEF At, f
  <1> QED
    BY <1>7, <1>8, <1>9, <1>10, <1>11

-----------------------------------------------------------------------------
(* Types *)

\* What becomes of a channel in one step.
LEMMA ChannelSteps ==
    ASSUME NEW S, NEW q \in Seq(S)
    PROVE  /\ \A e \in S : Append(q, e) \in Seq(S) /\ Len(Append(q, e)) = Len(q) + 1
           /\ q # <<>> => /\ Tail(q) \in Seq(S) /\ Len(Tail(q)) = Len(q) - 1
                          /\ Len(q) > 0 /\ Head(q) \in S
           /\ Len(q) \in Nat
  BY AppendProperties, HeadTailProperties, LenProperties, EmptySeq

LEMMA OccurrencesNone ==
    ASSUME NEW S, NEW q \in Seq(S), NEW kind, \A i \in 1..Len(q) : q[i] # kind
    PROVE  Occurrences(q, kind) = 0
  <1>1. DOMAIN q = 1..Len(q)
    BY LenProperties
  <1>2. {i \in DOMAIN q : q[i] = kind} = {}
    BY <1>1
  <1> QED
    BY <1>2, FS_EmptySet DEF Occurrences

\* What is announced when the capture is open.
LEMMA OpeningMessages ==
    ASSUME NEW offer \in {<<>>, <<"own">>}
    PROVE  /\ <<"displays">> \o offer \in Seq(CtrlKind)
           /\ Len(<<"displays">> \o offer) \in 1..2
           /\ Occurrences(<<"displays">> \o offer, "reply") = 0
           /\ Occurrences(<<"displays">> \o offer, "own") = Len(<<"displays">> \o offer) - 1
  <1> DEFINE first == <<"displays">>
             all == first \o offer
  <1>1. first \in Seq(CtrlKind) /\ Len(first) = 1 /\ first[1] = "displays"
    BY DEF CtrlKind
  <1>2. /\ offer \in Seq(CtrlKind) /\ Len(offer) \in 0..1
        /\ \A i \in 1..Len(offer) : offer[i] = "own"
    <2>1. CASE offer = <<>>
      BY <2>1, EmptySeq
    <2>2. CASE offer = <<"own">>
      BY <2>2 DEF CtrlKind
    <2> QED
      BY <2>1, <2>2
  <1> HIDE DEF first
  <1>3. /\ all \in Seq(CtrlKind) /\ Len(all) = Len(first) + Len(offer)
        /\ \A i \in 1..Len(first) + Len(offer) :
               all[i] = IF i <= Len(first) THEN first[i] ELSE offer[i - Len(first)]
    BY <1>1, <1>2, ConcatProperties
  <1> HIDE DEF all
  <1>4. Len(all) \in 1..2
    BY <1>1, <1>2, <1>3
  <1>5. \A i \in 1..Len(all) : all[i] # "reply"
    BY <1>1, <1>2, <1>3
  <1>6. Occurrences(all, "reply") = 0
    BY <1>3, <1>5, OccurrencesNone
  <1>7. Occurrences(all, "own") = Len(all) - 1
    <2>1. CASE offer = <<>>
      <3>1. Len(all) = 1 /\ \A k \in 1..Len(all) : all[k] # "own"
        BY <1>1, <1>3, <2>1
      <3>2. Occurrences(all, "own") = 0
        BY <1>3, <3>1, OccurrencesNone
      <3> QED
        BY <3>1, <3>2
    <2>2. CASE offer = <<"own">>
      <3>1. all = Append(first, "own")
        <4>1. first = <<"displays">>
          BY DEF first
        <4>2. <<"displays">> \o <<"own">> = Append(<<"displays">>, "own")
          OBVIOUS
        <4> QED
          BY <2>2, <4>1, <4>2 DEF all
      <3>2. Occurrences(first, "own") = 0
        BY <1>1, OccurrencesNone
      <3>3. Occurrences(all, "own") = 1
        BY <1>1, <3>1, <3>2, OccurrencesAppend DEF CtrlKind
      <3>4. Len(all) = 2
        BY <1>1, <1>3, <2>2
      <3> QED
        BY <3>3, <3>4
    <2> QED
      BY <2>1, <2>2
  <1> QED
    BY <1>3, <1>4, <1>6, <1>7 DEF all, first

Serving == {"opening", "running", "announce", "sendFrame"}

\* The slot is that of the one session whose handle_client runs, and a reader
\* lives only in it, unless its tasks were dropped.
SlotHeld ==
    \A s \in Sessions :
        /\ slot = s <=> main[s] \in Serving
        /\ main[s] \in {"absent", "opening", "over"} => ~ Alive(reader[s])

LEMMA TypeInductive == TypeOK /\ SlotHeld /\ [Next]_vars => TypeOK'
  <1> SUFFICES ASSUME TypeOK, SlotHeld, [Next]_vars PROVE TypeOK'
    OBVIOUS
  <1> USE DEF TypeOK, taskVars
  <1>1. CASE UNCHANGED vars
    BY <1>1 DEF vars
  <1>2. CASE Disconnect
    BY <1>2 DEF Disconnect
  <1>3. ASSUME NEW s \in Sessions, StartSession(s) PROVE TypeOK'
    <2>1. /\ slot' = s /\ main' = [main EXCEPT ![s] = "opening"]
          /\ writer' = [writer EXCEPT ![s] = "choosing"] /\ client' = [client EXCEPT ![s] = "reading"]
          /\ UNCHANGED <<reader, ctrl, video, cancelled, resizes, left, inbound, owed>>
      BY <1>3 DEF StartSession
    <2>2. slot' \in 0..MaxSessions
      BY <2>1 DEF Sessions
    <2> QED
      BY <2>1, <2>2
  <1>4. ASSUME NEW s \in Sessions, MainNext(s) PROVE TypeOK'
    <2>1. CASE OpenCancelled(s)
      BY <2>1 DEF OpenCancelled, Leave, LeaveAs
    <2>2. CASE OpenFails(s)
      BY <2>2 DEF OpenFails, Leave, LeaveAs
    <2>5. CASE Stop(s)
      BY <2>5 DEF Stop, Leave, LeaveAs
    <2>6. CASE EncodeFails(s)
      BY <2>6 DEF EncodeFails, LeaveAs
    <2>7. CASE TakeFrame(s)
      <3>1. main' \in [Sessions -> {"absent", "opening", "running", "announce", "sendFrame", "over", "dropped"}]
        <4>1. main' = [main EXCEPT ![s] = "sendFrame"] \/ main' = [main EXCEPT ![s] = "announce"]
          BY <2>7 DEF TakeFrame
        <4>2. main \in [Sessions -> {"absent", "opening", "running", "announce", "sendFrame", "over", "dropped"}]
          OBVIOUS
        <4> HIDE DEF TypeOK
        <4> QED
          BY <4>1, <4>2
      <3>2. resizes' \in [Sessions -> 0..MaxResizes]
        <4>1. CASE UNCHANGED resizes
          BY <4>1
        <4>2. CASE resizes[s] < MaxResizes /\ resizes' = [resizes EXCEPT ![s] = resizes[s] + 1]
          BY <4>2
        <4> QED
          BY <2>7, <4>1, <4>2 DEF TakeFrame
      <3>3. UNCHANGED <<slot, reader, writer, ctrl, video, cancelled, left, client, inbound, owed>>
        BY <2>7 DEF TakeFrame
      <3> QED
        BY <3>1, <3>2, <3>3
    <2>8. CASE SendFrame(s)
      <3>1. main' = [main EXCEPT ![s] = "running"]
        BY <2>8 DEF SendFrame
      <3>3. UNCHANGED video \/ video' = [video EXCEPT ![s] = 1]
        BY <2>8 DEF SendFrame
      <3>2. UNCHANGED <<slot, reader, writer, ctrl, cancelled, resizes, left, client, inbound, owed>>
        BY <2>8 DEF SendFrame
      <3>4. video' \in [Sessions -> 0..1]
        <4>1. video \in [Sessions -> 0..1] /\ 1 \in 0..1
          OBVIOUS
        <4> HIDE DEF TypeOK
        <4> QED
          BY <3>3, <4>1
      <3> QED
        BY <3>1, <3>2, <3>4
    <2>3. CASE Opened(s)
      <3>1. \A offer \in {<<>>, <<"own">>} :
                /\ <<"displays">> \o offer \in Seq(CtrlKind)
                /\ Len(<<"displays">> \o offer) \in 1..2
        BY OpeningMessages
      <3>2. CASE WriterGone(s)
        <4>1. /\ main' = [main EXCEPT ![s] = "over"] /\ slot' = 0
              /\ UNCHANGED <<reader, writer, ctrl, video, cancelled, resizes, left, client, inbound, owed>>
          BY <2>3, <3>2 DEF Opened, Leave, LeaveAs
        <4> QED
          BY <4>1
      <3>4. left[s] = 0
        <4>1. reader[s] # "feeding"
          <5>1. main[s] = "opening"
            BY <2>3 DEF Opened
          <5> HIDE DEF TypeOK
          <5> QED
            BY <5>1, Zenon DEF SlotHeld, Alive
        <4>2. left[s] \in 0..OwnWindow /\ (left[s] > 0 <=> reader[s] = "feeding")
          OBVIOUS
        <4> QED
          BY <4>1, <4>2, OwnWindowAssumption
      <3>3. CASE ~ WriterGone(s)
        <4>1. PICK offer \in {<<>>, <<"own">>} : ctrl' = [ctrl EXCEPT ![s] = <<"displays">> \o offer]
          BY <2>3, <3>3 DEF Opened
        <4>2. /\ main' = [main EXCEPT ![s] = "running"] /\ reader' = [reader EXCEPT ![s] = "reading"]
              /\ UNCHANGED <<slot, writer, video, cancelled, resizes, left, client, inbound, owed>>
          BY <2>3, <3>3 DEF Opened
        <4> QED
          <5>1. ctrl' \in [Sessions -> Seq(CtrlKind)] /\ ctrl' = [ctrl EXCEPT ![s] = <<"displays">> \o offer]
            BY <3>1, <4>1
          <5>2. \A r \in Sessions : Len(ctrl'[r]) <= CtrlCap
            <6> SUFFICES ASSUME NEW r \in Sessions PROVE Len(ctrl'[r]) <= CtrlCap
              OBVIOUS
            <6>1. Len(<<"displays">> \o offer) \in 1..2
              BY <3>1, Zenon
            <6> QED
              BY <5>1, <6>1
          <5> QED
            BY <3>4, <4>2, <5>1, <5>2
      <3> QED
        BY <3>2, <3>3
    <2>4. CASE Announce(s)
      <3>1. "displays" \in CtrlKind
        BY DEF CtrlKind
      <3>2. /\ Append(ctrl[s], "displays") \in Seq(CtrlKind)
            /\ Len(Append(ctrl[s], "displays")) = Len(ctrl[s]) + 1
            /\ Len(ctrl[s]) \in Nat
        BY <3>1, ChannelSteps
      <3> QED
        <4>1. /\ main' = [main EXCEPT ![s] = "sendFrame"]
              /\ UNCHANGED <<slot, reader, writer, video, cancelled, resizes, left, client, inbound, owed>>
          BY <2>4 DEF Announce
        <4>2. ctrl' \in [Sessions -> Seq(CtrlKind)] /\ \A r \in Sessions : Len(ctrl'[r]) <= CtrlCap
          <5>1. CASE UNCHANGED ctrl
            BY <5>1
          <5>2. CASE Len(ctrl[s]) < CtrlCap /\ ctrl' = [ctrl EXCEPT ![s] = Append(ctrl[s], "displays")]
            BY <3>2, <5>2
          <5> QED
            BY <2>4, <5>1, <5>2 DEF Announce, CtrlHasRoom
        <4> QED
          BY <4>1, <4>2
    <2> QED
      BY <1>4, <2>1, <2>2, <2>3, <2>4, <2>5, <2>6, <2>7, <2>8 DEF MainNext
  <1>5. ASSUME NEW s \in Sessions, ReaderNext(s) PROVE TypeOK'
    <2>1. CASE Read(s)
      <3>1. Tail(inbound[s]) \in Seq(ClientKind)
        BY <2>1, ChannelSteps DEF Read
      <3>2. /\ reader[s] = "reading" /\ left[s] = 0
            /\ inbound' = [inbound EXCEPT ![s] = Tail(inbound[s])]
            /\ UNCHANGED <<slot, main, writer, ctrl, video, cancelled, resizes, client, owed>>
        BY <2>1 DEF Read
      <3>3. CASE UNCHANGED <<reader, left>>
        BY <3>1, <3>2, <3>3
      <3>4. CASE /\ \E next \in {"reading", "replying"} : reader' = [reader EXCEPT ![s] = next]
                 /\ UNCHANGED left
        BY <3>1, <3>2, <3>4
      <3>5. ASSUME NEW more \in 0..OwnWindow,
                   left' = [left EXCEPT ![s] = more],
                   reader' = [reader EXCEPT ![s] = IF more = 0 THEN reader[s] ELSE "feeding"]
            PROVE  TypeOK'
        <4>1. /\ left' \in [Sessions -> 0..OwnWindow]
              /\ reader' \in [Sessions -> {"absent", "reading", "replying", "feeding", "gone", "cut"}]
          BY <3>5
        <4>2. \A q \in Sessions : left'[q] > 0 <=> reader'[q] = "feeding"
          BY <3>2, <3>5
        <4> QED
          BY <3>1, <3>2, <4>1, <4>2
      <3> QED
        BY <2>1, <3>3, <3>4, <3>5 DEF Read
    <2>2. ASSUME Cut(s), UNCHANGED <<slot, main, writer, video, cancelled, resizes, client, inbound, owed>>
          PROVE  TypeOK'
      BY <2>2 DEF Cut
    <2>4. ASSUME NEW e \in {"reply", "own"}, CtrlHasRoom(s),
                 ctrl' = [ctrl EXCEPT ![s] = Append(ctrl[s], e)]
          PROVE  ctrl' \in [Sessions -> Seq(CtrlKind)] /\ \A q \in Sessions : Len(ctrl'[q]) <= CtrlCap
      <3>1. e \in CtrlKind
        BY DEF CtrlKind
      <3>2. /\ Append(ctrl[s], e) \in Seq(CtrlKind)
            /\ Len(Append(ctrl[s], e)) = Len(ctrl[s]) + 1
            /\ Len(ctrl[s]) \in Nat
        BY <3>1, ChannelSteps
      <3> QED
        BY <2>4, <3>2 DEF CtrlHasRoom
    <2>5. CASE Reply(s)
      <3>1. CASE ~ Cut(s)
        <4>1. /\ reader[s] = "replying" /\ reader' = [reader EXCEPT ![s] = "reading"]
              /\ UNCHANGED <<slot, main, writer, video, cancelled, resizes, left, client, inbound, owed>>
          BY <2>5, <3>1 DEF Reply
        <4>2. ctrl' \in [Sessions -> Seq(CtrlKind)] /\ \A q \in Sessions : Len(ctrl'[q]) <= CtrlCap
          BY <2>4, <2>5, <3>1 DEF Reply
        <4> QED
          BY <4>1, <4>2
      <3> QED
        BY <2>2, <2>5, <3>1 DEF Reply
    <2>6. CASE Feed(s)
      <3>1. CASE ~ Cut(s)
        <4>1. /\ reader[s] = "feeding" /\ left' = [left EXCEPT ![s] = left[s] - 1]
              /\ reader' = [reader EXCEPT ![s] = IF left[s] = 1 THEN "reading" ELSE "feeding"]
              /\ UNCHANGED <<slot, main, writer, video, cancelled, resizes, client, inbound, owed>>
          BY <2>6, <3>1 DEF Feed
        <4>2. ctrl' \in [Sessions -> Seq(CtrlKind)] /\ \A q \in Sessions : Len(ctrl'[q]) <= CtrlCap
          BY <2>4, <2>6, <3>1 DEF Feed
        <4>3. left[s] \in 1..OwnWindow
          BY <4>1
        <4>4. /\ left' \in [Sessions -> 0..OwnWindow]
              /\ \A q \in Sessions : left'[q] > 0 <=> reader'[q] = "feeding"
          BY <4>1, <4>3
        <4> QED
          BY <4>1, <4>2, <4>4
      <3> QED
        BY <2>2, <2>6, <3>1 DEF Feed
    <2>3. CASE ReaderEnds(s)
      BY <2>3 DEF ReaderEnds
    <2> QED
      BY <1>5, <2>1, <2>3, <2>5, <2>6 DEF ReaderNext
  <1>6. ASSUME NEW s \in Sessions, WriterNext(s) PROVE TypeOK'
    <2>1. CASE TakeCtrl(s)
      <3>1. Tail(ctrl[s]) \in Seq(CtrlKind) /\ Len(Tail(ctrl[s])) <= Len(ctrl[s])
        BY <2>1, ChannelSteps DEF TakeCtrl
      <3>2. Len(Tail(ctrl[s])) \in Nat /\ Len(ctrl[s]) \in Nat
        BY <3>1, ChannelSteps
      <3>3. owed' \in [Sessions -> Nat]
        BY <2>1 DEF TakeCtrl
      <3> QED
        BY <2>1, <3>1, <3>2, <3>3 DEF TakeCtrl
    <2>2. CASE WriterStops(s)
      BY <2>2 DEF WriterStops
    <2>3. CASE TakeVideo(s)
      BY <2>3 DEF TakeVideo
    <2>4. CASE WriteEnds(s)
      BY <2>4 DEF WriteEnds
    <2>5. CASE ShutdownEnds(s)
      BY <2>5 DEF ShutdownEnds
    <2> QED
      BY <1>6, <2>1, <2>2, <2>3, <2>4, <2>5 DEF WriterNext
  <1>7. ASSUME NEW s \in Sessions, ClientNext(s) PROVE TypeOK'
    <2>1. CASE ClientSends(s)
      <3>1. \A e \in ClientKind : Append(inbound[s], e) \in Seq(ClientKind)
        BY ChannelSteps
      <3>2. PICK e \in ClientKind : inbound' = [inbound EXCEPT ![s] = Append(inbound[s], e)]
        BY <2>1 DEF ClientSends, ClientKind
      <3>3. owed' \in [Sessions -> Nat]
        <4>1. owed' = owed \/ (owed[s] > 0 /\ owed' = [owed EXCEPT ![s] = owed[s] - 1])
          BY <2>1 DEF ClientSends
        <4>2. owed \in [Sessions -> Nat]
          OBVIOUS
        <4> HIDE DEF TypeOK
        <4> QED
          BY <4>1, <4>2
      <3>4. UNCHANGED <<taskVars, client>>
        BY <2>1 DEF ClientSends
      <3> QED
        BY <3>1, <3>2, <3>3, <3>4
    <2>2. CASE ClientStalls(s) \/ ClientResumes(s) \/ ClientCloses(s)
      BY <1>7, <2>2 DEF ClientStalls, ClientResumes, ClientCloses
    <2> QED
      BY <1>7, <2>1, <2>2 DEF ClientNext
  <1> QED
    BY <1>1, <1>2, <1>3, <1>4, <1>5, <1>6, <1>7 DEF Next

-----------------------------------------------------------------------------
(* Whose reader injects *)

LEMMA SlotInductive == TypeOK /\ SlotHeld /\ [Next]_vars => SlotHeld'
  <1> SUFFICES ASSUME TypeOK, SlotHeld, [Next]_vars PROVE SlotHeld'
    OBVIOUS
  <1> USE DEF Serving, Alive
  <1>1. /\ slot \in 0..MaxSessions /\ DOMAIN main = Sessions /\ DOMAIN reader = Sessions
        /\ 0 \notin Sessions
        /\ \A s \in Sessions : main[s] \in Serving \cup {"absent", "over", "dropped"}
    BY DEF TypeOK, Sessions
  <1>2. CASE UNCHANGED <<slot, main, reader>>
    BY <1>2 DEF SlotHeld
  <1>3. ASSUME NEW s \in Sessions, StartSession(s) PROVE SlotHeld'
    BY <1>1, <1>3 DEF StartSession, SlotHeld
  <1>4. ASSUME NEW s \in Sessions, LeaveAs(s, "over"), main[s] \in Serving,
               \/ UNCHANGED reader /\ main[s] = "opening"
               \/ reader' = [reader EXCEPT ![s] = "gone"]
        PROVE  SlotHeld'
    BY <1>1, <1>4 DEF LeaveAs, SlotHeld
  <1>5. ASSUME NEW s \in Sessions, MainNext(s) PROVE SlotHeld'
    <2>1. CASE OpenCancelled(s) \/ OpenFails(s)
      BY <1>4, <2>1 DEF OpenCancelled, OpenFails, Leave
    <2>2. CASE Opened(s)
      <3>1. CASE WriterGone(s)
        BY <1>4, <2>2, <3>1 DEF Opened, Leave
      <3>2. CASE ~ WriterGone(s)
        BY <1>1, <2>2, <3>2 DEF Opened, SlotHeld
      <3> QED
        BY <3>1, <3>2
    <2>3. CASE Stop(s)
      BY <1>4, <2>3 DEF Stop, Leave
    <2>4. CASE TakeFrame(s) \/ Announce(s) \/ SendFrame(s)
      <3>1. /\ main[s] \in {"running", "announce", "sendFrame"} /\ UNCHANGED <<slot, reader>>
            /\ \E next \in {"running", "announce", "sendFrame"} : main' = [main EXCEPT ![s] = next]
        BY <2>4 DEF TakeFrame, Announce, SendFrame
      <3> QED
        BY <1>1, <3>1 DEF SlotHeld
    <2>5. CASE EncodeFails(s)
      BY <1>1, <2>5 DEF EncodeFails, LeaveAs, SlotHeld
    <2> QED
      BY <1>5, <2>1, <2>2, <2>3, <2>4, <2>5 DEF MainNext
  <1>6. ASSUME NEW s \in Sessions, ReaderNext(s) PROVE SlotHeld'
    <2>1. /\ Alive(reader[s]) /\ UNCHANGED <<slot, main>>
          /\ \E next : reader' = [reader EXCEPT ![s] = next]
      <3>1. CASE Read(s)
        BY <3>1 DEF Read, TypeOK
      <3>2. CASE Reply(s) \/ Feed(s) \/ ReaderEnds(s)
        BY <3>2 DEF Reply, Feed, Cut, ReaderEnds
      <3> QED
        BY <1>6, <3>1, <3>2 DEF ReaderNext
    <2> QED
      BY <1>1, <2>1 DEF SlotHeld
  <1>7. ASSUME NEW s \in Sessions, WriterNext(s) \/ ClientNext(s) PROVE SlotHeld'
    BY <1>2, <1>7 DEF WriterNext, WriterStops, TakeVideo, TakeCtrl, WriteEnds, ShutdownEnds,
       ClientNext, ClientSends, ClientStalls, ClientResumes, ClientCloses, taskVars
  <1>8. CASE Disconnect \/ UNCHANGED vars
    BY <1>2, <1>8 DEF Disconnect, vars, taskVars
  <1> QED
    BY <1>3, <1>5, <1>6, <1>7, <1>8 DEF Next

LEMMA InitHolds == Init => TypeOK /\ SlotHeld
  <1>1. Init => TypeOK
    <2>1. <<>> \in Seq(CtrlKind) /\ <<>> \in Seq(ClientKind) /\ Len(<<>>) = 0
      BY EmptySeq
    <2> QED
      BY <2>1 DEF Init, TypeOK
  <1>2. Init => SlotHeld
    BY DEF Init, SlotHeld, Serving, Alive, Sessions
  <1> QED
    BY <1>1, <1>2

LEMMA SlotAlways == Spec => [](TypeOK /\ SlotHeld)
  BY InitHolds, TypeInductive, SlotInductive, PTL DEF Spec

\* Every task, channel and client stays in one of its states, and the control
\* channel within its capacity: nobody sends to it without room.
THEOREM TypeCorrect == Spec => []TypeOK
  BY SlotAlways, PTL

\* A reader outlives its session only if the encoder failed in it.
DroppedByEncoder == \A s \in Sessions : main[s] = "dropped" => "encode" \in Faults

LEMMA DroppedAlways == Spec => []DroppedByEncoder
  <1>1. Init => DroppedByEncoder
    BY DEF Init, DroppedByEncoder
  <1>2. ASSUME TypeOK, DroppedByEncoder, [Next]_vars PROVE DroppedByEncoder'
    <2>1. DOMAIN main = Sessions
      BY <1>2 DEF TypeOK
    <2>2. CASE UNCHANGED main
      BY <1>2, <2>2 DEF DroppedByEncoder
    <2>3. ASSUME NEW s \in Sessions,
                 NEW next, main' = [main EXCEPT ![s] = next],
                 next = "dropped" => "encode" \in Faults
          PROVE  DroppedByEncoder'
      BY <1>2, <2>1, <2>3 DEF DroppedByEncoder
    <2>4. ASSUME NEW s \in Sessions, StartSession(s) \/ MainNext(s) PROVE DroppedByEncoder'
      <3>1. CASE StartSession(s)
        BY <2>3, <3>1 DEF StartSession
      <3>2. CASE OpenCancelled(s) \/ OpenFails(s) \/ Stop(s)
        BY <2>3, <3>2 DEF OpenCancelled, OpenFails, Stop, Leave, LeaveAs
      <3>3. CASE Opened(s)
        BY <2>3, <3>3 DEF Opened, Leave, LeaveAs
      <3>4. CASE TakeFrame(s) \/ Announce(s) \/ SendFrame(s)
        BY <2>3, <3>4 DEF TakeFrame, Announce, SendFrame
      <3>5. CASE EncodeFails(s)
        BY <2>3, <3>5 DEF EncodeFails, LeaveAs
      <3> QED
        BY <2>4, <3>1, <3>2, <3>3, <3>4, <3>5 DEF MainNext
    <2>5. ASSUME NEW s \in Sessions, ReaderNext(s) \/ WriterNext(s) \/ ClientNext(s)
          PROVE  DroppedByEncoder'
      BY <2>2, <2>5 DEF ReaderNext, Read, Reply, Feed, ReaderEnds, WriterNext, WriterStops,
         TakeVideo, TakeCtrl, WriteEnds, ShutdownEnds, ClientNext, ClientSends, ClientStalls,
         ClientResumes, ClientCloses, taskVars
    <2>6. CASE Disconnect \/ UNCHANGED vars
      BY <2>2, <2>6 DEF Disconnect, vars, taskVars
    <2> QED
      BY <1>2, <2>4, <2>5, <2>6 DEF Next
  <1> QED
    BY <1>1, <1>2, TypeCorrect, PTL DEF Spec

\* A reader, which owns its session's injector, lives while its client holds
\* the slot; past that only if the session ended by `?` out of send_frame, which
\* drops the tasks without aborting them (session.rs:565-571).  Such a reader
\* goes on injecting, beside the next client's too, until its client leaves.
THEOREM OneClientInjects == Spec => []OnlyTheSlotInjects
  <1>1. TypeOK /\ SlotHeld => OnlyTheSlotInjects
    BY DEF TypeOK, SlotHeld, OnlyTheSlotInjects, Serving
  <1> QED
    BY <1>1, SlotAlways, PTL

\* With an encoder that does not fail there is no exception: whatever order
\* sessions, disconnects and captures end in, at most one client moves the
\* pointer and presses keys, the one that holds the slot.
THEOREM OneClientInjectsWhileEncoding ==
    ASSUME "encode" \notin Faults
    PROVE  Spec => [](\A s \in Sessions : Alive(reader[s]) => slot = s)
  <1>1. OnlyTheSlotInjects /\ DroppedByEncoder => \A s \in Sessions : Alive(reader[s]) => slot = s
    BY DEF OnlyTheSlotInjects, DroppedByEncoder
  <1> QED
    BY <1>1, OneClientInjects, DroppedAlways, PTL

-----------------------------------------------------------------------------
(* The reader never waits *)

\* The client keeps to its window; and what is in the control channel beside
\* the replies and the host's own file is what the opening and the changes of
\* mode put there.
Windowed(s) == Unanswered(s) <= FileWindow

Announced(s) == Len(ctrl[s]) - Occurrences(ctrl[s], "reply") - Occurrences(ctrl[s], "own")

Announcements(s) ==
    /\ main[s] \in {"absent", "opening"} => ctrl[s] = <<>>
    /\ Announced(s) + (IF main[s] = "announce" THEN 1 ELSE 0) <= 1 + resizes[s]

Room == \A s \in Sessions : Windowed(s) /\ Announcements(s)

\* A session whose channels and reader stay as they are.
LEMMA RoomBeside ==
    ASSUME Room, NEW s \in Sessions,
           ctrl'[s] = ctrl[s], inbound'[s] = inbound[s],
           reader'[s] = "replying" => reader[s] = "replying",
           resizes[s] \in Nat, resizes'[s] \in Nat, TypeOK,
           resizes'[s] >= resizes[s],
           main'[s] = "announce" => main[s] = "announce" \/ resizes'[s] = resizes[s] + 1,
           main'[s] \in {"absent", "opening"} => main[s] \in {"absent", "opening"}
    PROVE  (Windowed(s) /\ Announcements(s))'
  <1>1. /\ Occurrences(ctrl[s], "reply") \in Nat /\ Occurrences(inbound[s], "file") \in Nat
        /\ Len(ctrl[s]) \in Nat /\ Occurrences(ctrl[s], "own") \in Nat
    BY OccurrencesType, LenProperties DEF TypeOK
  <1>2. Windowed(s) /\ Announcements(s)
    BY DEF Room
  <1>3. /\ Occurrences(ctrl'[s], "reply") = Occurrences(ctrl[s], "reply")
        /\ Occurrences(inbound'[s], "file") = Occurrences(inbound[s], "file")
        /\ Len(ctrl'[s]) = Len(ctrl[s])
    OBVIOUS
  <1>4. Windowed(s)'
    BY <1>1, <1>2, <1>3, FileWindowAssumption DEF Windowed, Unanswered
  <1>5. Announcements(s)'
    <2> DEFINE extra == Announced(s)
    <2>1. extra \in Int /\ extra + (IF main[s] = "announce" THEN 1 ELSE 0) <= 1 + resizes[s]
      BY <1>1, <1>2 DEF Announcements, Announced
    <2>2. Announced(s)' = extra
      BY <1>3 DEF Announced
    <2>3. main'[s] \in {"absent", "opening"} => ctrl'[s] = <<>>
      BY <1>2 DEF Announcements
    <2> HIDE DEF extra
    <2>4. extra + (IF main'[s] = "announce" THEN 1 ELSE 0) <= 1 + resizes'[s]
      BY <2>1
    <2> QED
      BY <2>2, <2>3, <2>4 DEF Announcements
  <1> QED
    BY <1>4, <1>5


\* A step of one session leaves the channels of the others as they are.
Elsewhere(s) ==
    \A r \in Sessions \ {s} :
        /\ ctrl'[r] = ctrl[r] /\ inbound'[r] = inbound[r] /\ reader'[r] = reader[r]
        /\ main'[r] = main[r] /\ resizes'[r] = resizes[r]
        /\ left'[r] = left[r] /\ owed'[r] = owed[r]

LEMMA StepsElsewhere ==
    ASSUME TypeOK, NEW s \in Sessions,
           StartSession(s) \/ MainNext(s) \/ ReaderNext(s) \/ WriterNext(s) \/ ClientNext(s)
    PROVE  Elsewhere(s)
  <1>1. /\ DOMAIN ctrl = Sessions /\ DOMAIN inbound = Sessions /\ DOMAIN reader = Sessions
        /\ DOMAIN main = Sessions /\ DOMAIN resizes = Sessions /\ DOMAIN left = Sessions
        /\ DOMAIN owed = Sessions
    BY DEF TypeOK
  <1> USE DEF Elsewhere
  <1>2. CASE StartSession(s)
    BY <1>1, <1>2 DEF StartSession
  <1>3. CASE MainNext(s)
    <2>1. CASE OpenCancelled(s) \/ OpenFails(s) \/ Opened(s)
      BY <1>1, <2>1 DEF OpenCancelled, OpenFails, Opened, Leave, LeaveAs
    <2>2. CASE Stop(s) \/ EncodeFails(s)
      BY <1>1, <2>2 DEF Stop, EncodeFails, Leave, LeaveAs
    <2>3. CASE TakeFrame(s) \/ Announce(s) \/ SendFrame(s)
      BY <1>1, <2>3 DEF TakeFrame, Announce, SendFrame
    <2> QED
      BY <1>3, <2>1, <2>2, <2>3 DEF MainNext
  <1>4. CASE ReaderNext(s)
    <2>1. CASE Read(s)
      BY <1>1, <2>1 DEF Read
    <2>2. CASE Reply(s) \/ Feed(s) \/ ReaderEnds(s)
      BY <1>1, <2>2 DEF Reply, Feed, Cut, ReaderEnds
    <2> QED
      BY <1>4, <2>1, <2>2 DEF ReaderNext
  <1>5. CASE WriterNext(s)
    BY <1>1, <1>5 DEF WriterNext, WriterStops, TakeVideo, TakeCtrl, WriteEnds, ShutdownEnds
  <1>6. CASE ClientNext(s)
    BY <1>1, <1>6 DEF ClientNext, ClientSends, ClientStalls, ClientResumes, ClientCloses, taskVars
  <1> QED
    BY <1>2, <1>3, <1>4, <1>5, <1>6

LEMMA RoomAt ==
    ASSUME Room, TypeOK, TypeOK', NEW s \in Sessions,
           Elsewhere(s), (Windowed(s) /\ Announcements(s))'
    PROVE  Room'
  <1> SUFFICES ASSUME NEW r \in Sessions \ {s} PROVE (Windowed(r) /\ Announcements(r))'
    BY DEF Room
  <1>1. resizes[r] \in Nat
    BY DEF TypeOK
  <1> QED
    BY <1>1, RoomBeside DEF Elsewhere

\* What is counted is counted in numbers.
LEMMA Counts ==
    ASSUME TypeOK, NEW s \in Sessions
    PROVE  /\ Len(ctrl[s]) \in Nat /\ resizes[s] \in Nat
           /\ ctrl[s] \in Seq(CtrlKind) /\ inbound[s] \in Seq(ClientKind)
           /\ Occurrences(ctrl[s], "reply") \in Nat /\ Occurrences(inbound[s], "file") \in Nat
           /\ Occurrences(ctrl[s], "own") \in Nat /\ Occurrences(inbound[s], "answer") \in Nat
           /\ left[s] \in Nat /\ owed[s] \in Nat
  <1>1. ctrl[s] \in Seq(CtrlKind) /\ inbound[s] \in Seq(ClientKind) /\ resizes[s] \in Nat
    BY DEF TypeOK
  <1>2. Len(ctrl[s]) \in Nat
    BY <1>1, LenProperties
  <1>3. \A kind : Occurrences(ctrl[s], kind) \in Nat /\ Occurrences(inbound[s], kind) \in Nat
    BY <1>1, OccurrencesType
  <1>4. left[s] \in Nat /\ owed[s] \in Nat
    BY DEF TypeOK
  <1> QED
    BY <1>1, <1>2, <1>3, <1>4

LEMMA AnnouncedType == ASSUME TypeOK, NEW s \in Sessions PROVE Announced(s) \in Int
  BY Counts DEF Announced

Counted(s, replies, owns, announced) ==
    /\ Occurrences(ctrl[s], "reply")' = Occurrences(ctrl[s], "reply") + replies
    /\ Occurrences(ctrl[s], "own")' = Occurrences(ctrl[s], "own") + owns
    /\ Announced(s)' = Announced(s) + announced

LEMMA AppendCounts ==
    ASSUME TypeOK, NEW s \in Sessions, NEW e \in CtrlKind, ctrl'[s] = Append(ctrl[s], e)
    PROVE  /\ e = "displays" => Counted(s, 0, 0, 1)
           /\ e = "own" => Counted(s, 0, 1, 0)
           /\ e = "reply" => Counted(s, 1, 0, 0)
  <1>1. \A kind : Occurrences(ctrl[s], kind)' =
                      Occurrences(ctrl[s], kind) + (IF e = kind THEN 1 ELSE 0)
    BY Counts, OccurrencesAppend
  <1>2. Len(ctrl[s])' = Len(ctrl[s]) + 1
    BY Counts, ChannelSteps
  <1>3. ASSUME NEW replies \in 0..1, NEW owns \in 0..1,
               Occurrences(ctrl[s], "reply")' = Occurrences(ctrl[s], "reply") + replies,
               Occurrences(ctrl[s], "own")' = Occurrences(ctrl[s], "own") + owns
        PROVE  Counted(s, replies, owns, 1 - replies - owns)
    <2>1. PICK l, q, o, l1, q1, o1 :
              /\ l = Len(ctrl[s]) /\ q = Occurrences(ctrl[s], "reply") /\ o = Occurrences(ctrl[s], "own")
              /\ l1 = Len(ctrl[s])' /\ q1 = Occurrences(ctrl[s], "reply")'
              /\ o1 = Occurrences(ctrl[s], "own")'
      OBVIOUS
    <2>2. Announced(s) = l - q - o /\ Announced(s)' = l1 - q1 - o1
      BY <2>1 DEF Announced
    <2>3. l \in Nat /\ q \in Nat /\ o \in Nat /\ l1 = l + 1 /\ q1 = q + replies /\ o1 = o + owns
      BY <1>2, <1>3, <2>1, Counts
    <2>4. l1 - q1 - o1 = (l - q - o) + (1 - replies - owns)
      BY <2>3
    <2> QED
      BY <1>3, <2>2, <2>4 DEF Counted
  <1>4. CASE e = "displays"
    <2>1. /\ Occurrences(ctrl[s], "reply")' = Occurrences(ctrl[s], "reply") + 0
          /\ Occurrences(ctrl[s], "own")' = Occurrences(ctrl[s], "own") + 0
      BY <1>1, <1>4
    <2>2. Counted(s, 0, 0, 1 - 0 - 0)
      BY <1>3, <2>1
    <2> QED
      BY <1>4, <2>2
  <1>5. CASE e = "own"
    <2>1. /\ Occurrences(ctrl[s], "reply")' = Occurrences(ctrl[s], "reply") + 0
          /\ Occurrences(ctrl[s], "own")' = Occurrences(ctrl[s], "own") + 1
      BY <1>1, <1>5
    <2>2. Counted(s, 0, 1, 1 - 0 - 1)
      BY <1>3, <2>1
    <2> QED
      BY <1>5, <2>2
  <1>6. CASE e = "reply"
    <2>1. /\ Occurrences(ctrl[s], "reply")' = Occurrences(ctrl[s], "reply") + 1
          /\ Occurrences(ctrl[s], "own")' = Occurrences(ctrl[s], "own") + 0
      BY <1>1, <1>6
    <2>2. Counted(s, 1, 0, 1 - 1 - 0)
      BY <1>3, <2>1
    <2> QED
      BY <1>6, <2>2
  <1> QED
    BY <1>4, <1>5, <1>6

LEMMA TailCounts ==
    ASSUME TypeOK, NEW s \in Sessions, ctrl[s] # <<>>, ctrl'[s] = Tail(ctrl[s])
    PROVE  /\ Occurrences(ctrl[s], "reply")' =
                  Occurrences(ctrl[s], "reply") - (IF Head(ctrl[s]) = "reply" THEN 1 ELSE 0)
           /\ Occurrences(ctrl[s], "own")' =
                  Occurrences(ctrl[s], "own") - (IF Head(ctrl[s]) = "own" THEN 1 ELSE 0)
           /\ Announced(s)' \in Int /\ Announced(s)' <= Announced(s)
  <1>1. \A kind : Occurrences(ctrl[s], kind)' =
                      Occurrences(ctrl[s], kind) - (IF Head(ctrl[s]) = kind THEN 1 ELSE 0)
    BY Counts, OccurrencesTail
  <1>2. Len(ctrl'[s]) = Len(ctrl[s]) - 1
    BY Counts, ChannelSteps
  <1> QED
    BY <1>1, <1>2, Counts DEF Announced

LEMMA OpenedKeepsRoom ==
    ASSUME TypeOK, TypeOK', Room, NEW s \in Sessions, Opened(s)
    PROVE  (Windowed(s) /\ Announcements(s))'
  <1>1. main[s] = "opening" /\ UNCHANGED <<resizes, inbound>>
    BY DEF Opened
  <1>2. CASE WriterGone(s)
    <2>1. UNCHANGED <<ctrl, reader>> /\ main'[s] = "over"
      BY <1>2 DEF Opened, Leave, LeaveAs, TypeOK
    <2> QED
      BY <1>1, <2>1, Counts, RoomBeside
  <1>3. CASE ~ WriterGone(s)
    <2>1. PICK offer \in {<<>>, <<"own">>} : ctrl' = [ctrl EXCEPT ![s] = <<"displays">> \o offer]
      BY <1>3 DEF Opened
    <2>2. ctrl'[s] = <<"displays">> \o offer /\ main'[s] = "running" /\ reader'[s] = "reading"
      BY <1>3, <2>1 DEF Opened, TypeOK
    <2>3. /\ Occurrences(ctrl'[s], "reply") = 0 /\ Len(ctrl'[s]) \in 1..2
          /\ Occurrences(ctrl'[s], "own") = Len(ctrl'[s]) - 1
      BY <2>2, OpeningMessages
    <2>4. ctrl[s] = <<>> /\ Unanswered(s) <= FileWindow
      BY <1>1 DEF Room, Announcements, Windowed
    <2>5. Occurrences(ctrl[s], "reply") = 0
      BY <2>4, OccurrencesEmpty
    <2>6. inbound'[s] = inbound[s] /\ resizes'[s] = resizes[s]
      BY <1>1
    <2>7. Windowed(s)'
      BY <2>2, <2>3, <2>4, <2>5, <2>6, Counts, FileWindowAssumption DEF Windowed, Unanswered
    <2>8. Announcements(s)'
      BY <2>2, <2>3, <2>6, Counts DEF Announcements, Announced
    <2> QED
      BY <2>7, <2>8
  <1> QED
    BY <1>2, <1>3

LEMMA AnnounceKeepsRoom ==
    ASSUME TypeOK, TypeOK', Room, NEW s \in Sessions, Announce(s)
    PROVE  (Windowed(s) /\ Announcements(s))'
  <1>1. /\ main[s] = "announce" /\ main'[s] = "sendFrame"
        /\ inbound'[s] = inbound[s] /\ resizes'[s] = resizes[s] /\ reader'[s] = reader[s]
    BY DEF Announce, TypeOK
  <1>2. CASE UNCHANGED ctrl
    BY <1>1, <1>2, Counts, RoomBeside
  <1>3. CASE ctrl' = [ctrl EXCEPT ![s] = Append(ctrl[s], "displays")]
    <2>1. "displays" \in CtrlKind /\ "displays" # "reply" /\ "displays" # "own"
      BY DEF CtrlKind
    <2>2. ctrl'[s] = Append(ctrl[s], "displays")
      BY <1>3 DEF TypeOK
    <2>3. /\ Occurrences(ctrl'[s], "reply") = Occurrences(ctrl[s], "reply")
          /\ Announced(s)' = Announced(s) + 1
      <3>1. Counted(s, 0, 0, 1)
        BY <2>1, <2>2, AppendCounts
      <3> QED
        BY <3>1, Counts DEF Counted
    <2>4. Windowed(s) /\ Announcements(s)
      BY DEF Room
    <2>5. Windowed(s)'
      BY <1>1, <2>3, <2>4 DEF Windowed, Unanswered
    <2>6. Announcements(s)'
      BY <1>1, <2>3, <2>4, Counts, AnnouncedType DEF Announcements
    <2> QED
      BY <2>5, <2>6
  <1> QED
    BY <1>2, <1>3 DEF Announce

LEMMA ReaderKeepsRoom ==
    ASSUME TypeOK, TypeOK', SlotHeld, Room, NEW s \in Sessions, ReaderNext(s)
    PROVE  (Windowed(s) /\ Announcements(s))'
  <1>1. main'[s] = main[s] /\ resizes'[s] = resizes[s] /\ main[s] \notin {"absent", "opening"}
    BY DEF ReaderNext, Read, Reply, Feed, ReaderEnds, SlotHeld, Alive
  <1>2. Windowed(s) /\ Announcements(s)
    BY DEF Room
  <1>3. CASE Read(s)
    <2>1. /\ ctrl'[s] = ctrl[s] /\ inbound[s] # <<>> /\ inbound'[s] = Tail(inbound[s])
          /\ reader[s] = "reading"
          /\ reader'[s] = "replying" => Head(inbound[s]) = "file"
      BY <1>3 DEF Read, TypeOK
    <2>2. Occurrences(inbound'[s], "file") =
              Occurrences(inbound[s], "file") - (IF Head(inbound[s]) = "file" THEN 1 ELSE 0)
      BY <2>1, Counts, OccurrencesTail
    <2>3. Windowed(s)'
      BY <1>2, <2>1, <2>2, Counts, FileWindowAssumption DEF Windowed, Unanswered
    <2>4. Announcements(s)'
      BY <1>1, <1>2, <2>1, Counts DEF Announcements, Announced
    <2> QED
      BY <2>3, <2>4
  <1>4. CASE Reply(s)
    <2>1. inbound'[s] = inbound[s] /\ reader[s] = "replying" /\ reader'[s] # "replying"
      BY <1>4 DEF Reply, Cut, TypeOK
    <2>2. CASE UNCHANGED ctrl
      BY <1>1, <2>1, <2>2, Counts, RoomBeside
    <2>3. CASE ctrl' = [ctrl EXCEPT ![s] = Append(ctrl[s], "reply")]
      <3>1. "reply" \in CtrlKind
        BY DEF CtrlKind
      <3>2. ctrl'[s] = Append(ctrl[s], "reply")
        BY <2>3 DEF TypeOK
      <3>3. /\ Occurrences(ctrl'[s], "reply") = Occurrences(ctrl[s], "reply") + 1
            /\ Announced(s)' = Announced(s)
        <4>1. Counted(s, 1, 0, 0)
          BY <3>1, <3>2, AppendCounts
        <4> QED
          BY <4>1, Counts, AnnouncedType DEF Counted
      <3>4. Windowed(s)'
        BY <1>2, <2>1, <3>3, Counts, FileWindowAssumption DEF Windowed, Unanswered
      <3>5. Announcements(s)'
        BY <1>1, <1>2, <3>3, Counts DEF Announcements
      <3> QED
        BY <3>4, <3>5
    <2> QED
      BY <1>4, <2>2, <2>3 DEF Reply, Cut
  <1>6. CASE Feed(s)
    <2>1. inbound'[s] = inbound[s] /\ reader[s] = "feeding" /\ reader'[s] # "replying"
      BY <1>6 DEF Feed, Cut, TypeOK
    <2>2. CASE UNCHANGED ctrl
      BY <1>1, <2>1, <2>2, Counts, RoomBeside
    <2>3. CASE ctrl' = [ctrl EXCEPT ![s] = Append(ctrl[s], "own")]
      <3>1. "own" \in CtrlKind
        BY DEF CtrlKind
      <3>2. ctrl'[s] = Append(ctrl[s], "own")
        BY <2>3 DEF TypeOK
      <3>3. /\ Occurrences(ctrl'[s], "reply") = Occurrences(ctrl[s], "reply")
            /\ Announced(s)' = Announced(s)
        <4>1. Counted(s, 0, 1, 0)
          BY <3>1, <3>2, AppendCounts
        <4> QED
          BY <4>1, Counts, AnnouncedType DEF Counted
      <3>4. Windowed(s)'
        BY <1>2, <2>1, <3>3, Counts, FileWindowAssumption DEF Windowed, Unanswered
      <3>5. Announcements(s)'
        BY <1>1, <1>2, <3>3, Counts DEF Announcements
      <3> QED
        BY <3>4, <3>5
    <2> QED
      BY <1>6, <2>2, <2>3 DEF Feed, Cut
  <1>5. CASE ReaderEnds(s)
    <2>1. ctrl'[s] = ctrl[s] /\ inbound'[s] = inbound[s] /\ reader'[s] = "gone"
      BY <1>5 DEF ReaderEnds, TypeOK
    <2> QED
      BY <1>1, <2>1, Counts, RoomBeside
  <1> QED
    BY <1>3, <1>4, <1>5, <1>6 DEF ReaderNext

LEMMA TakeCtrlKeepsRoom ==
    ASSUME TypeOK, TypeOK', Room, NEW s \in Sessions, TakeCtrl(s)
    PROVE  (Windowed(s) /\ Announcements(s))'
  <1>1. /\ main'[s] = main[s] /\ resizes'[s] = resizes[s] /\ inbound'[s] = inbound[s]
        /\ reader'[s] = reader[s] /\ ctrl[s] # <<>> /\ ctrl'[s] = Tail(ctrl[s])
    BY DEF TakeCtrl, TypeOK
  <1>2. Windowed(s) /\ Announcements(s)
    BY DEF Room
  <1>3. /\ Occurrences(ctrl'[s], "reply") <= Occurrences(ctrl[s], "reply")
        /\ Occurrences(ctrl'[s], "reply") \in Nat
        /\ Announced(s)' \in Int /\ Announced(s)' <= Announced(s)
    <2>1. Occurrences(ctrl'[s], "reply") \in Nat
      BY <1>1, Counts, ChannelSteps, OccurrencesType
    <2> QED
      BY <1>1, <2>1, Counts, TailCounts
  <1>4. Windowed(s)'
    BY <1>1, <1>2, <1>3, Counts, FileWindowAssumption DEF Windowed, Unanswered
  <1>5. Announcements(s)'
    <2>1. main[s] \notin {"absent", "opening"}
      BY <1>1, <1>2 DEF Announcements
    <2>2. Announced(s)' + (IF main[s] = "announce" THEN 1 ELSE 0) <= 1 + resizes[s]
      BY <1>2, <1>3, Counts, AnnouncedType DEF Announcements
    <2> QED
      BY <1>1, <2>1, <2>2 DEF Announcements
  <1> QED
    BY <1>4, <1>5

LEMMA ClientKeepsRoom ==
    ASSUME TypeOK, TypeOK', Room, NEW s \in Sessions, ClientSends(s)
    PROVE  (Windowed(s) /\ Announcements(s))'
  <1>1. /\ main'[s] = main[s] /\ resizes'[s] = resizes[s] /\ ctrl'[s] = ctrl[s]
        /\ reader'[s] = reader[s]
    BY DEF ClientSends, taskVars
  <1>2. Windowed(s) /\ Announcements(s)
    BY DEF Room
  <1>3. PICK e \in ClientKind : /\ inbound' = [inbound EXCEPT ![s] = Append(inbound[s], e)]
                                /\ e = "file" => Unanswered(s) < FileWindow
    BY DEF ClientSends, ClientKind
  <1>4. inbound'[s] = Append(inbound[s], e)
    BY <1>3 DEF TypeOK
  <1>5. Occurrences(inbound'[s], "file") =
            Occurrences(inbound[s], "file") + (IF e = "file" THEN 1 ELSE 0)
    BY <1>4, Counts, OccurrencesAppend
  <1>6. Windowed(s)'
    BY <1>1, <1>2, <1>3, <1>5, Counts, FileWindowAssumption DEF Windowed, Unanswered
  <1>7. Announcements(s)'
    BY <1>1, <1>2, Counts DEF Announcements, Announced
  <1> QED
    BY <1>6, <1>7


LEMMA RoomInductive ==
    ASSUME TypeOK, TypeOK', SlotHeld, Room, [Next]_vars
    PROVE  Room'
  <1>1. \A s \in Sessions : resizes[s] \in Nat
    BY DEF TypeOK
  <1>2. CASE UNCHANGED <<main, reader, ctrl, inbound, resizes>>
    BY <1>1, <1>2, RoomBeside DEF Room
  <1>3. ASSUME NEW s \in Sessions, Elsewhere(s), UNCHANGED <<reader, ctrl, inbound>>,
               \/ UNCHANGED resizes
               \/ resizes' = [resizes EXCEPT ![s] = resizes[s] + 1],
               \E next : /\ main' = [main EXCEPT ![s] = next]
                         /\ next = "announce" => resizes'[s] = resizes[s] + 1
                         /\ next = "opening" => main[s] = "absent"
                         /\ next # "absent"
        PROVE  Room'
    <2>2. /\ main'[s] = "announce" => resizes'[s] = resizes[s] + 1
          /\ main'[s] \in {"absent", "opening"} => main[s] \in {"absent", "opening"}
      BY <1>3 DEF TypeOK
    <2>3. resizes'[s] \in Nat /\ resizes'[s] >= resizes[s]
      BY <1>3 DEF TypeOK
    <2>4. (Windowed(s) /\ Announcements(s))'
      BY <1>1, <1>3, <2>2, <2>3, RoomBeside
    <2> QED
      BY <1>3, <2>4, RoomAt
  <1>4. ASSUME NEW s \in Sessions, StartSession(s) PROVE Room'
    BY <1>3, <1>4, StepsElsewhere DEF StartSession
  <1>5. ASSUME NEW s \in Sessions, MainNext(s) PROVE Room'
    <2> Elsewhere(s)
      BY <1>5, StepsElsewhere
    <2>1. CASE OpenCancelled(s) \/ OpenFails(s) \/ EncodeFails(s)
      BY <1>3, <2>1 DEF OpenCancelled, OpenFails, EncodeFails, Leave, LeaveAs
    <2>2. CASE TakeFrame(s)
      <3>1. CASE main' = [main EXCEPT ![s] = "sendFrame"] /\ UNCHANGED resizes
        BY <1>3, <2>2, <3>1 DEF TakeFrame
      <3>2. CASE /\ resizes' = [resizes EXCEPT ![s] = resizes[s] + 1]
                 /\ main' = [main EXCEPT ![s] = "announce"]
        <4>1. resizes'[s] = resizes[s] + 1
          BY <3>2 DEF TypeOK
        <4> QED
          BY <1>3, <2>2, <3>2, <4>1 DEF TakeFrame
      <3>3. CASE main' = [main EXCEPT ![s] = "running"] /\ UNCHANGED resizes
        BY <1>3, <2>2, <3>3 DEF TakeFrame
      <3> QED
        BY <2>2, <3>1, <3>2, <3>3 DEF TakeFrame
    <2>3. CASE SendFrame(s)
      BY <1>3, <2>3 DEF SendFrame
    <2>4. CASE Stop(s)
      <3>1. /\ UNCHANGED <<ctrl, inbound, resizes>> /\ reader' = [reader EXCEPT ![s] = "gone"]
            /\ main' = [main EXCEPT ![s] = "over"]
        BY <2>4 DEF Stop, Leave, LeaveAs
      <3>2. reader'[s] = "gone" /\ main'[s] = "over"
        BY <3>1 DEF TypeOK
      <3>3. (Windowed(s) /\ Announcements(s))'
        BY <1>1, <3>1, <3>2, RoomBeside
      <3> QED
        BY <3>3, RoomAt
    <2>5. CASE Opened(s)
      <3>1. Elsewhere(s)
        BY <1>5, StepsElsewhere
      <3> QED
        BY <2>5, <3>1, OpenedKeepsRoom, RoomAt
    <2>6. CASE Announce(s)
      <3>1. Elsewhere(s)
        BY <1>5, StepsElsewhere
      <3> QED
        BY <2>6, <3>1, AnnounceKeepsRoom, RoomAt
    <2> QED
      BY <1>5, <2>1, <2>2, <2>3, <2>4, <2>5, <2>6 DEF MainNext
  <1>6. ASSUME NEW s \in Sessions, ReaderNext(s) PROVE Room'
    <2>1. Elsewhere(s)
      BY <1>6, StepsElsewhere
    <2> QED
      BY <1>6, <2>1, ReaderKeepsRoom, RoomAt
  <1>7. ASSUME NEW s \in Sessions, WriterNext(s) PROVE Room'
    <2>1. CASE TakeCtrl(s)
      <3>1. Elsewhere(s)
        BY <1>7, StepsElsewhere
      <3> QED
        BY <2>1, <3>1, TakeCtrlKeepsRoom, RoomAt
    <2>2. CASE WriterStops(s) \/ TakeVideo(s) \/ WriteEnds(s) \/ ShutdownEnds(s)
      BY <1>2, <2>2 DEF WriterStops, TakeVideo, WriteEnds, ShutdownEnds
    <2> QED
      BY <1>7, <2>1, <2>2 DEF WriterNext
  <1>8. ASSUME NEW s \in Sessions, ClientNext(s) PROVE Room'
    <2>1. CASE ClientSends(s)
      <3>1. Elsewhere(s)
        BY <1>8, StepsElsewhere
      <3> QED
        BY <2>1, <3>1, ClientKeepsRoom, RoomAt
    <2>2. CASE ClientStalls(s) \/ ClientResumes(s) \/ ClientCloses(s)
      BY <1>2, <2>2 DEF ClientStalls, ClientResumes, ClientCloses, taskVars
    <2> QED
      BY <1>8, <2>1, <2>2 DEF ClientNext
  <1>9. CASE Disconnect \/ UNCHANGED vars
    BY <1>2, <1>9 DEF Disconnect, vars, taskVars
  <1> QED
    BY <1>4, <1>5, <1>6, <1>7, <1>8, <1>9 DEF Next

LEMMA RoomAlways == Spec => []Room
  <1>1. Init => Room
    <2> SUFFICES ASSUME Init, NEW s \in Sessions PROVE Windowed(s) /\ Announcements(s)
      BY DEF Room
    <2>1. /\ ctrl[s] = <<>> /\ inbound[s] = <<>> /\ reader[s] = "absent"
          /\ main[s] = "absent" /\ resizes[s] = 0 /\ Len(<<>>) = 0
      BY DEF Init
    <2> QED
      BY <2>1, OccurrencesEmpty, FileWindowAssumption DEF Windowed, Unanswered, Announcements, Announced
  <1>2. Init => SlotHeld
    BY DEF Init, SlotHeld, Serving, Alive, Sessions
  <1>3. TypeOK /\ TypeOK' /\ SlotHeld /\ Room /\ [Next]_vars => Room'
    BY RoomInductive
  <1> QED
    BY <1>1, <1>2, <1>3, SlotInductive, TypeCorrect, PTL DEF Spec

-----------------------------------------------------------------------------
(* The window of the file the host offers *)

\* A session's own file keeps to its window, and has not begun before the
\* capture is open.
Fed(s) ==
    /\ Flight(s) <= OwnWindow
    /\ main[s] \in {"absent", "opening"} => Flight(s) = 0

FedAll == \A s \in Sessions : Fed(s)

LEMMA FlightBeside ==
    ASSUME TypeOK, NEW s \in Sessions, Fed(s),
           Occurrences(ctrl[s], "own")' = Occurrences(ctrl[s], "own"),
           Occurrences(inbound[s], "answer")' = Occurrences(inbound[s], "answer"),
           owed'[s] = owed[s], left'[s] \in {0, left[s]},
           main'[s] \in {"absent", "opening"} => main[s] \in {"absent", "opening"}
    PROVE  Fed(s)'
  <1>1. PICK a, b, c, d : /\ a = Occurrences(ctrl[s], "own") /\ b = owed[s]
                          /\ c = Occurrences(inbound[s], "answer") /\ d = left[s]
    OBVIOUS
  <1>2. a \in Nat /\ b \in Nat /\ c \in Nat /\ d \in Nat
    BY <1>1, Counts
  <1>3. Flight(s) = a + b + c + d /\ Flight(s)' = a + b + c + left'[s] /\ left'[s] \in {0, d}
    BY <1>1 DEF Flight
  <1>4. Flight(s)' <= Flight(s) /\ Flight(s)' \in Nat /\ Flight(s) \in Nat
    BY <1>2, <1>3
  <1> HIDE DEF Flight
  <1> QED
    BY <1>4, OwnWindowAssumption DEF Fed

\* A message of the own file goes from one place to another.
LEMMA FlightMoves ==
    ASSUME TypeOK, NEW s \in Sessions, Fed(s), Flight(s)' = Flight(s),
           main'[s] \in {"absent", "opening"} => main[s] \in {"absent", "opening"}
    PROVE  Fed(s)'
  BY DEF Fed

LEMMA FedAt ==
    ASSUME TypeOK, FedAll, NEW s \in Sessions, Elsewhere(s), Fed(s)'
    PROVE  FedAll'
  <1> SUFFICES ASSUME NEW r \in Sessions \ {s} PROVE Fed(r)'
    BY DEF FedAll
  <1> QED
    BY FlightBeside DEF FedAll, Elsewhere

LEMMA OpenedKeepsFed ==
    ASSUME TypeOK, NEW s \in Sessions, Fed(s), Opened(s)
    PROVE  Fed(s)'
  <1>1. main[s] = "opening" /\ UNCHANGED <<inbound, left, owed>>
    BY DEF Opened
  <1>2. CASE WriterGone(s)
    <2>1. UNCHANGED ctrl
      BY <1>2 DEF Opened
    <2> QED
      BY <1>1, <2>1, FlightBeside
  <1>3. CASE ~ WriterGone(s)
    <2>1. PICK offer \in {<<>>, <<"own">>} : ctrl' = [ctrl EXCEPT ![s] = <<"displays">> \o offer]
      BY <1>3 DEF Opened
    <2>2. ctrl'[s] = <<"displays">> \o offer /\ main'[s] = "running"
      BY <1>3, <2>1 DEF Opened, TypeOK
    <2>3. /\ Len(<<"displays">> \o offer) \in 1..2
          /\ Occurrences(<<"displays">> \o offer, "own") = Len(<<"displays">> \o offer) - 1
      BY OpeningMessages
    <2>4. PICK o1 : o1 = Occurrences(ctrl[s], "own")' /\ o1 \in 0..1
      BY <2>2, <2>3
    <2>5. Flight(s) = 0
      BY <1>1 DEF Fed
    <2>6. owed[s] = 0 /\ Occurrences(inbound[s], "answer") = 0 /\ left[s] = 0
      BY <2>5, Counts DEF Flight
    <2>7. Flight(s)' = o1
      BY <1>1, <2>4, <2>6 DEF Flight
    <2> QED
      BY <2>2, <2>4, <2>7, OwnWindowAssumption DEF Fed
  <1> QED
    BY <1>2, <1>3

LEMMA ReaderKeepsFed ==
    ASSUME TypeOK, SlotHeld, NEW s \in Sessions, Fed(s), ReaderNext(s)
    PROVE  Fed(s)'
  <1>1. main'[s] = main[s] /\ owed'[s] = owed[s] /\ main[s] \notin {"absent", "opening"}
    BY DEF ReaderNext, Read, Reply, Feed, ReaderEnds, SlotHeld, Alive
  <1>2. CASE Read(s)
    <2>1. /\ ctrl'[s] = ctrl[s] /\ inbound[s] # <<>> /\ inbound'[s] = Tail(inbound[s])
          /\ Head(inbound[s]) = "answer" \/ left'[s] = left[s]
          /\ Head(inbound[s]) = "answer" => Flight(s)' <= OwnWindow
      BY <1>2 DEF Read, TypeOK
    <2>2. CASE Head(inbound[s]) = "answer"
      BY <1>1, <2>1, <2>2 DEF Fed
    <2>3. CASE Head(inbound[s]) # "answer"
      <3>1. Occurrences(inbound[s], "answer")' = Occurrences(inbound[s], "answer")
        BY <2>1, <2>3, Counts, OccurrencesTail
      <3> QED
        BY <1>1, <2>1, <2>3, <3>1, FlightBeside
    <2> QED
      BY <2>2, <2>3
  <1>3. CASE ReaderEnds(s)
    BY <1>1, <1>3, FlightBeside DEF ReaderEnds
  <1>4. CASE Cut(s) /\ UNCHANGED inbound
    <2>1. left'[s] = 0 /\ ctrl'[s] = ctrl[s] /\ inbound'[s] = inbound[s]
      BY <1>4 DEF Cut, TypeOK
    <2> QED
      BY <1>1, <2>1, FlightBeside
  <1>5. CASE Reply(s) /\ ~ Cut(s)
    <2>1. inbound'[s] = inbound[s] /\ left'[s] = left[s] /\ ctrl'[s] = Append(ctrl[s], "reply")
      BY <1>5 DEF Reply, TypeOK
    <2>2. Counted(s, 1, 0, 0)
      BY <2>1, AppendCounts DEF CtrlKind
    <2>3. Occurrences(ctrl[s], "own")' = Occurrences(ctrl[s], "own")
      BY <2>2, Counts DEF Counted
    <2> QED
      BY <1>1, <2>1, <2>3, FlightBeside
  <1>6. CASE Feed(s) /\ ~ Cut(s)
    <2>1. inbound'[s] = inbound[s] /\ left'[s] = left[s] - 1 /\ ctrl'[s] = Append(ctrl[s], "own")
      BY <1>6 DEF Feed, TypeOK
    <2>2. Counted(s, 0, 1, 0)
      BY <2>1, AppendCounts DEF CtrlKind
    <2>3. Occurrences(ctrl[s], "own")' = Occurrences(ctrl[s], "own") + 1
      BY <2>2 DEF Counted
    <2>4. PICK own \in Nat, away \in Nat, back \in Nat, rest \in Nat :
            /\ own = Occurrences(ctrl[s], "own") /\ away = owed[s]
            /\ back = Occurrences(inbound[s], "answer") /\ rest = left[s]
      BY Counts
    <2>5. Flight(s) = own + away + back + rest
      BY <2>4 DEF Flight
    <2>6. Flight(s)' = (own + 1) + away + back + (rest - 1)
      BY <1>1, <2>1, <2>3, <2>4 DEF Flight
    <2>7. Flight(s)' = Flight(s)
      BY <2>5, <2>6
    <2> QED
      BY <1>1, <2>7, FlightMoves
  <1> QED
    BY <1>2, <1>3, <1>4, <1>5, <1>6 DEF ReaderNext, Reply, Feed

LEMMA TakeCtrlKeepsFed ==
    ASSUME TypeOK, NEW s \in Sessions, Fed(s), TakeCtrl(s)
    PROVE  Fed(s)'
  <1>1. /\ main'[s] = main[s] /\ inbound'[s] = inbound[s] /\ left'[s] = left[s]
        /\ ctrl[s] # <<>> /\ ctrl'[s] = Tail(ctrl[s])
        /\ owed'[s] = owed[s] + (IF Head(ctrl[s]) = "own" THEN 1 ELSE 0)
    <2>1. owed' = [owed EXCEPT ![s] = IF Head(ctrl[s]) = "own" THEN owed[s] + 1 ELSE owed[s]]
      BY DEF TakeCtrl
    <2>2. owed'[s] = IF Head(ctrl[s]) = "own" THEN owed[s] + 1 ELSE owed[s]
      BY <2>1 DEF TypeOK
    <2>3. owed'[s] = owed[s] + (IF Head(ctrl[s]) = "own" THEN 1 ELSE 0)
      BY <2>2, Counts
    <2> QED
      BY <2>3 DEF TakeCtrl, TypeOK
  <1>2. Occurrences(ctrl[s], "own")' =
            Occurrences(ctrl[s], "own") - (IF Head(ctrl[s]) = "own" THEN 1 ELSE 0)
    BY <1>1, TailCounts
  <1>3. Flight(s)' = Flight(s)
    <2>1. PICK n \in 0..1 : n = IF Head(ctrl[s]) = "own" THEN 1 ELSE 0
      OBVIOUS
    <2>2. Occurrences(ctrl[s], "own")' = Occurrences(ctrl[s], "own") - n /\ owed'[s] = owed[s] + n
      BY <1>1, <1>2, <2>1
    <2> QED
      BY <1>1, <2>2, Counts DEF Flight
  <1> QED
    BY <1>1, <1>3, FlightMoves

LEMMA ClientKeepsFed ==
    ASSUME TypeOK, NEW s \in Sessions, Fed(s), ClientSends(s)
    PROVE  Fed(s)'
  <1>1. main'[s] = main[s] /\ left'[s] = left[s] /\ ctrl'[s] = ctrl[s]
    BY DEF ClientSends, taskVars
  <1>2. ASSUME NEW e \in {"file", "input"}, UNCHANGED owed,
               inbound' = [inbound EXCEPT ![s] = Append(inbound[s], e)]
        PROVE  Fed(s)'
    <2>1. inbound'[s] = Append(inbound[s], e) /\ e \in ClientKind /\ e # "answer"
      BY <1>2 DEF TypeOK, ClientKind
    <2>2. Occurrences(inbound[s], "answer")' = Occurrences(inbound[s], "answer")
      BY <2>1, Counts, OccurrencesAppend
    <2> QED
      BY <1>1, <1>2, <2>2, FlightBeside
  <1>3. ASSUME owed[s] > 0, owed' = [owed EXCEPT ![s] = owed[s] - 1],
               inbound' = [inbound EXCEPT ![s] = Append(inbound[s], "answer")]
        PROVE  Fed(s)'
    <2>1. /\ inbound'[s] = Append(inbound[s], "answer") /\ "answer" \in ClientKind
          /\ owed'[s] = owed[s] - 1
      BY <1>3 DEF TypeOK, ClientKind
    <2>2. Occurrences(inbound[s], "answer")' = Occurrences(inbound[s], "answer") + 1
      BY <2>1, Counts, OccurrencesAppend
    <2>3. Flight(s)' = Flight(s)
      BY <1>1, <2>1, <2>2, Counts DEF Flight
    <2> QED
      BY <1>1, <2>3, FlightMoves
  <1> QED
    BY <1>2, <1>3 DEF ClientSends

LEMMA FedInductive ==
    ASSUME TypeOK, SlotHeld, FedAll, [Next]_vars
    PROVE  FedAll'
  <1>1. CASE UNCHANGED <<main, ctrl, inbound, left, owed>>
    BY <1>1, FlightBeside DEF FedAll
  <1>2. ASSUME NEW s \in Sessions, UNCHANGED <<ctrl, inbound, owed>>,
               left'[s] \in {0, left[s]}, Elsewhere(s),
               main'[s] \in {"absent", "opening"} => main[s] \in {"absent", "opening"}
        PROVE  FedAll'
    <2>1. Fed(s)'
      BY <1>2, FlightBeside DEF FedAll
    <2> QED
      BY <1>2, <2>1, FedAt
  <1>3. ASSUME NEW s \in Sessions, StartSession(s) PROVE FedAll'
    <2>1. main[s] = "absent" /\ UNCHANGED <<ctrl, inbound, owed, left>>
      BY <1>3 DEF StartSession
    <2> QED
      BY <1>2, <1>3, <2>1, StepsElsewhere
  <1>4. ASSUME NEW s \in Sessions, MainNext(s) PROVE FedAll'
    <2>1. Elsewhere(s) /\ Fed(s)
      BY <1>4, StepsElsewhere DEF FedAll
    <2>2. CASE OpenCancelled(s) \/ OpenFails(s) \/ EncodeFails(s) \/ Stop(s)
      <3>1. /\ UNCHANGED <<ctrl, inbound, owed>> /\ left'[s] \in {0, left[s]}
            /\ main'[s] \in {"over", "dropped"}
        BY <2>2 DEF OpenCancelled, OpenFails, EncodeFails, Stop, Leave, LeaveAs, TypeOK
      <3> QED
        BY <1>2, <2>1, <3>1
    <2>3. CASE TakeFrame(s) \/ SendFrame(s)
      <3>1. /\ UNCHANGED <<ctrl, inbound, owed, left>>
            /\ main'[s] \in {"sendFrame", "announce", "running"}
        BY <2>3 DEF TakeFrame, SendFrame, TypeOK
      <3> QED
        BY <1>2, <2>1, <3>1
    <2>4. CASE Opened(s)
      BY <2>1, <2>4, OpenedKeepsFed, FedAt
    <2>5. CASE Announce(s)
      <3>1. UNCHANGED <<inbound, owed, left>> /\ main'[s] = "sendFrame"
        BY <2>5 DEF Announce, TypeOK
      <3>2. CASE UNCHANGED ctrl
        BY <1>2, <2>1, <3>1, <3>2
      <3>3. CASE ctrl' = [ctrl EXCEPT ![s] = Append(ctrl[s], "displays")]
        <4>1. ctrl'[s] = Append(ctrl[s], "displays") /\ "displays" \in CtrlKind
          BY <3>3 DEF TypeOK, CtrlKind
        <4>2. Counted(s, 0, 0, 1)
          BY <4>1, AppendCounts
        <4>3. Occurrences(ctrl[s], "own")' = Occurrences(ctrl[s], "own")
          BY <4>2, Counts DEF Counted
        <4>4. Fed(s)'
          BY <2>1, <3>1, <4>3, FlightBeside
        <4> QED
          BY <2>1, <4>4, FedAt
      <3> QED
        BY <2>5, <3>2, <3>3 DEF Announce
    <2> QED
      BY <1>4, <2>2, <2>3, <2>4, <2>5 DEF MainNext
  <1>5. ASSUME NEW s \in Sessions, ReaderNext(s) PROVE FedAll'
    <2>1. Elsewhere(s) /\ Fed(s)
      BY <1>5, StepsElsewhere DEF FedAll
    <2> QED
      BY <1>5, <2>1, ReaderKeepsFed, FedAt
  <1>6. ASSUME NEW s \in Sessions, TakeCtrl(s) \/ ClientSends(s) PROVE FedAll'
    <2>1. Elsewhere(s) /\ Fed(s)
      BY <1>6, StepsElsewhere DEF FedAll, WriterNext, ClientNext
    <2> QED
      BY <1>6, <2>1, TakeCtrlKeepsFed, ClientKeepsFed, FedAt
  <1>7. ASSUME NEW s \in Sessions, WriterNext(s) \/ ClientNext(s) PROVE FedAll'
    <2>1. CASE WriterStops(s) \/ TakeVideo(s) \/ WriteEnds(s) \/ ShutdownEnds(s)
      BY <1>1, <2>1 DEF WriterStops, TakeVideo, WriteEnds, ShutdownEnds
    <2>2. CASE ClientStalls(s) \/ ClientResumes(s) \/ ClientCloses(s)
      BY <1>1, <2>2 DEF ClientStalls, ClientResumes, ClientCloses, taskVars
    <2> QED
      BY <1>6, <1>7, <2>1, <2>2 DEF WriterNext, ClientNext
  <1>8. CASE Disconnect \/ UNCHANGED vars
    BY <1>1, <1>8 DEF Disconnect, vars, taskVars
  <1> QED
    BY <1>3, <1>4, <1>5, <1>7, <1>8 DEF Next

LEMMA FedAlways == Spec => []FedAll
  <1>1. Init => FedAll
    <2> SUFFICES ASSUME Init, NEW s \in Sessions PROVE Fed(s)
      BY DEF FedAll
    <2>1. ctrl[s] = <<>> /\ inbound[s] = <<>> /\ left[s] = 0 /\ owed[s] = 0
      BY DEF Init
    <2>2. Flight(s) = 0
      BY <2>1, OccurrencesEmpty DEF Flight
    <2> QED
      BY <2>2, OwnWindowAssumption DEF Fed
  <1>2. TypeOK /\ SlotHeld /\ FedAll /\ [Next]_vars => FedAll'
    BY FedInductive
  <1> QED
    BY <1>1, <1>2, SlotAlways, PTL DEF Spec

\* A channel with room for a window of replies to the client's file and a
\* window of the host's own, beside everything the session may announce, never
\* makes the reader wait for it, so input is never held up behind video that
\* the client takes slowly (the control channel of 32 places in handle_client,
\* the reader's loop over its replies, and the window of 4 chunks of a file
\* sender, of which an accept may release all at once).
THEOREM InputIsNotHeldUp ==
    ASSUME CtrlCap >= FileWindow + OwnWindow + MaxResizes + 1
    PROVE  Spec => []ReaderNeverWaits
  <1>1. ASSUME TypeOK, Room, FedAll PROVE ReaderNeverWaits
    <2> SUFFICES ASSUME NEW s \in Sessions, reader[s] \in {"replying", "feeding"} PROVE CtrlHasRoom(s)
      BY DEF ReaderNeverWaits
    <2>1. PICK q, o, l : /\ q = Occurrences(ctrl[s], "reply") /\ o = Occurrences(ctrl[s], "own")
                         /\ l = Len(ctrl[s]) /\ q \in Nat /\ o \in Nat /\ l \in Nat
      BY <1>1, Counts
    <2>2. Unanswered(s) <= FileWindow /\ Flight(s) <= OwnWindow /\ Announcements(s)
      BY <1>1 DEF Room, Windowed, Fed, FedAll
    <2>3. q + (IF reader[s] = "replying" THEN 1 ELSE 0) <= FileWindow
      BY <1>1, <2>1, <2>2, Counts, FileWindowAssumption DEF Unanswered
    <2>4. o + left[s] <= OwnWindow
      BY <1>1, <2>1, <2>2, Counts, OwnWindowAssumption DEF Flight
    <2>5. left[s] \in Nat /\ (reader[s] = "feeding" => left[s] >= 1)
      BY <1>1 DEF TypeOK
    <2>6. l - q - o <= 1 + resizes[s]
      BY <1>1, <2>1, <2>2, Counts DEF Announcements, Announced
    <2>7. resizes[s] \in Nat /\ resizes[s] <= MaxResizes
      BY <1>1 DEF TypeOK
    <2>8. q + o < FileWindow + OwnWindow
      BY <2>1, <2>3, <2>4, <2>5, FileWindowAssumption, OwnWindowAssumption
    <2>9. PICK z \in Nat : z = resizes[s]
      BY <2>7
    <2>10. l - q - o <= 1 + z /\ z <= MaxResizes
      BY <2>6, <2>7, <2>9
    <2>11. PICK m \in Nat : m = q + o
      BY <2>1
    <2>12. l <= m + 1 + MaxResizes
      <3>1. l - q - o <= 1 + z /\ z <= MaxResizes /\ m = q + o
        BY <2>10, <2>11
      <3>2. PICK r \in Nat : r = MaxResizes
        BY MaxResizesAssumption
      <3>3. l \in Nat /\ q \in Nat /\ o \in Nat /\ l - q - o <= 1 + z /\ z <= r /\ m = q + o
        BY <2>1, <3>1, <3>2
      <3> QED
        BY <3>2, <3>3
    <2>13. m < FileWindow + OwnWindow
      BY <2>8, <2>11
    <2>14. l < CtrlCap
      BY <2>1, <2>12, <2>13, FileWindowAssumption, OwnWindowAssumption,
         MaxResizesAssumption, CtrlCapAssumption
    <2> QED
      BY <2>1, <2>14 DEF CtrlHasRoom
  <1> QED
    BY <1>1, RoomAlways, FedAlways, TypeCorrect, PTL

-----------------------------------------------------------------------------
(* The settings file                                                         *)

USE CommandsAssumption, ValuesAssumption

-----------------------------------------------------------------------------
(* Types *)

Names == {"set", "clear", "on", "off", "video"}
Steps == {"start", "loaded", "opened", "written", "done", "failed"}
Texts == [state : {"whole", "empty", "torn"}, value : Value]

StoreTypes ==
    /\ settings \in Files \cup {Missing}
    /\ tmp \in Files \cup {Missing}
    /\ text \in [Files -> Texts]
    /\ step \in [Commands -> Steps]
    /\ name \in [Commands -> Names \cup {"none"}]
    /\ value \in [Commands -> Value]
    /\ open \in [Commands -> Files \cup {Missing}]
    /\ overlapped \in BOOLEAN
    /\ forgotten \in BOOLEAN

\* A command that is to create a file has not created one, and a file has one
\* name at most.
FilesApart ==
    /\ \A c \in Commands : step[c] \in {"start", "loaded"} => c # settings /\ c # tmp
    /\ tmp # Missing => tmp # settings

LEMMA DefaultIsValue == Default \in Value
  BY DEF Default, Value

LEMMA TextsOfValues ==
    /\ \A v \in Value : Whole(v) \in Texts /\ Whole(v).value = v
    /\ Empty \in Texts
    /\ Torn \in Texts
  BY DefaultIsValue DEF Texts, Whole, Empty, Torn

LEMMA OutcomesAreValues ==
    ASSUME NEW n \in Names, NEW v \in Value
    PROVE  /\ Outcomes(n, v) \subseteq Value
           /\ \A w \in Outcomes(n, v) :
                /\ n = "clear" => w.pin = NoPin
                /\ n # "set" /\ v.pin = NoPin => w.pin = NoPin
  <1> SUFFICES ASSUME NEW w \in Outcomes(n, v)
               PROVE  /\ w \in Value
                      /\ n = "clear" => w.pin = NoPin
                      /\ n # "set" /\ v.pin = NoPin => w.pin = NoPin
    OBVIOUS
  <1>1. CASE n = "set"
    <2>0. Outcomes(n, v) = {WithPin(v, p) : p \in Pins}
      BY <1>1 DEF Outcomes
    <2>1. PICK p \in Pins : w = WithPin(v, p)
      BY <2>0
    <2> QED
      BY <1>1, <2>1 DEF Value, WithPin
  <1>2. CASE n = "clear"
    <2>1. w = [v EXCEPT !.pin = NoPin, !.unattended = FALSE]
      BY <1>2 DEF Outcomes
    <2> QED
      BY <1>2, <2>1 DEF Value
  <1>3. CASE n = "on"
    <2>1. w = [v EXCEPT !.unattended = TRUE]
      BY <1>3 DEF Outcomes
    <2> QED
      BY <1>3, <2>1 DEF Value
  <1>4. CASE n = "off"
    <2>1. w = [v EXCEPT !.unattended = FALSE]
      BY <1>4 DEF Outcomes
    <2> QED
      BY <1>4, <2>1 DEF Value
  <1>5. CASE n = "video"
    <2>0. Outcomes(n, v) = {WithVideo(v, r, b) : r \in Rates, b \in Bitrates}
      BY <1>5 DEF Outcomes
    <2>1. PICK r \in Rates, b \in Bitrates : w = WithVideo(v, r, b)
      BY <2>0
    <2> QED
      BY <1>5, <2>1 DEF Value, WithVideo
  <1> QED
    BY <1>1, <1>2, <1>3, <1>4, <1>5 DEF Names

LEMMA LoadedIsValue == ASSUME StoreTypes PROVE Loaded \in Value
  <1>1. CASE settings = Missing
    BY <1>1, DefaultIsValue DEF Loaded
  <1>2. CASE settings # Missing
    <2>1. text[settings] \in Texts
      BY <1>2 DEF StoreTypes
    <2> QED
      BY <1>2, <2>1 DEF Loaded, Texts
  <1> QED
    BY <1>1, <1>2

LEMMA ExitTypes ==
    ASSUME StoreTypes, NEW c \in Commands, NEW how \in {"done", "failed"}, Exit(c, how)
    PROVE  /\ step' \in [Commands -> Steps]
           /\ name' \in [Commands -> Names \cup {"none"}]
           /\ value' \in [Commands -> Value]
           /\ open' \in [Commands -> Files \cup {Missing}]
  BY DefaultIsValue DEF StoreTypes, Exit, Steps

LEMMA InitTypes == ASSUME StoreInit PROVE StoreTypes /\ FilesApart
  <1>1. PICK v \in Value : text = [f \in Files |-> IF f = 0 THEN Whole(v) ELSE Empty]
    BY DEF StoreInit
  <1>2. text \in [Files -> Texts]
    BY <1>1, TextsOfValues
  <1>3. StoreTypes
    BY <1>2, DefaultIsValue DEF StoreInit, StoreTypes, Files, Names, Steps
  <1>4. FilesApart
    BY DEF StoreInit, FilesApart, Commands, Missing
  <1> QED
    BY <1>3, <1>4

LEMMA LoadTypes ==
    ASSUME StoreTypes, FilesApart, NEW c \in Commands, Load(c)
    PROVE  StoreTypes' /\ FilesApart'
  <1>1. PICK n \in Names : LoadAs(c, n)
    BY DEF Load, Names
  <1>2. UNCHANGED <<settings, tmp, text, forgotten>> /\ overlapped' \in BOOLEAN
    BY <1>1 DEF LoadAs, StoreTypes
  <1>3. /\ step' \in [Commands -> Steps]
        /\ name' \in [Commands -> Names \cup {"none"}]
        /\ value' \in [Commands -> Value]
        /\ open' \in [Commands -> Files \cup {Missing}]
    <2>1. CASE Loadable /\ Outcomes(n, Loaded) # {}
      <3>1. PICK v \in Outcomes(n, Loaded) :
              /\ name' = [name EXCEPT ![c] = n]
              /\ value' = [value EXCEPT ![c] = v]
              /\ step' = [step EXCEPT ![c] = "loaded"]
              /\ UNCHANGED open
        BY <1>1, <2>1 DEF LoadAs
      <3>2. v \in Value
        BY LoadedIsValue, OutcomesAreValues
      <3> QED
        BY <3>1, <3>2 DEF StoreTypes, Steps
    <2>2. CASE ~ (Loadable /\ Outcomes(n, Loaded) # {})
      <3>1. Exit(c, "failed")
        BY <1>1, <2>2 DEF LoadAs
      <3> QED
        BY <3>1, ExitTypes
    <2> QED
      BY <2>1, <2>2
  <1>4. \A d \in Commands : step'[d] \in {"start", "loaded"} => step[d] \in {"start", "loaded"}
    BY <1>1 DEF LoadAs, Exit, StoreTypes
  <1> QED
    BY <1>2, <1>3, <1>4 DEF StoreTypes, FilesApart

LEMMA OpenTypes ==
    ASSUME StoreTypes, FilesApart, NEW c \in Commands, Open(c)
    PROVE  StoreTypes' /\ FilesApart'
  <1>1. /\ tmp' = IF tmp = Missing THEN c ELSE tmp
        /\ text' = [text EXCEPT ![tmp'] = Empty]
        /\ open' = [open EXCEPT ![c] = tmp']
        /\ step' = [step EXCEPT ![c] = "opened"]
        /\ step[c] = "loaded"
        /\ UNCHANGED <<settings, name, value, overlapped, forgotten>>
    BY DEF Open
  <1>2. tmp' \in Files
    BY <1>1 DEF StoreTypes, Files
  <1>3. text' \in [Files -> Texts]
    BY <1>1, TextsOfValues DEF StoreTypes
  <1>4. StoreTypes'
    BY <1>1, <1>2, <1>3 DEF StoreTypes, Steps
  <1>5. FilesApart'
    BY <1>1, <1>2 DEF StoreTypes, FilesApart, Files, Missing, Commands
  <1> QED
    BY <1>4, <1>5

LEMMA WriteTypes ==
    ASSUME StoreTypes, FilesApart, NEW c \in Commands, Write(c)
    PROVE  StoreTypes' /\ FilesApart'
  <1>1. /\ step' = [step EXCEPT ![c] = "written"]
        /\ UNCHANGED <<settings, tmp, name, value, open, overlapped, forgotten>>
        /\ \E t \in {Whole(value[c]), Torn} : text' = [text EXCEPT ![open[c]] = t]
    BY DEF Write
  <1>2. text' \in [Files -> Texts]
    <2>1. Whole(value[c]) \in Texts /\ Torn \in Texts
      BY TextsOfValues DEF StoreTypes
    <2> QED
      BY <1>1, <2>1 DEF StoreTypes
  <1> QED
    BY <1>1, <1>2 DEF StoreTypes, FilesApart, Steps

LEMMA RenameTypes ==
    ASSUME StoreTypes, FilesApart, NEW c \in Commands, Rename(c)
    PROVE  StoreTypes' /\ FilesApart'
  <1>1. /\ step' \in [Commands -> Steps]
        /\ name' \in [Commands -> Names \cup {"none"}]
        /\ value' \in [Commands -> Value]
        /\ open' \in [Commands -> Files \cup {Missing}]
    BY ExitTypes DEF Rename
  <1>2. /\ UNCHANGED <<text, overlapped>>
        /\ forgotten' \in BOOLEAN
        /\ settings' \in {settings, tmp}
        /\ tmp' \in {tmp, Missing}
        /\ tmp' # Missing => settings' = settings /\ tmp' = tmp
    BY DEF Rename, StoreTypes
  <1>3. \A d \in Commands : step'[d] \in {"start", "loaded"} => step[d] \in {"start", "loaded"}
    BY DEF Rename, Exit, StoreTypes
  <1>4. \A d \in Commands : d # Missing
    BY DEF Commands, Missing
  <1> QED
    BY <1>1, <1>2, <1>3, <1>4 DEF StoreTypes, FilesApart

LEMMA DieTypes ==
    ASSUME StoreTypes, FilesApart, NEW c \in Commands, Die(c)
    PROVE  StoreTypes' /\ FilesApart'
  <1>1. /\ step' \in [Commands -> Steps]
        /\ name' \in [Commands -> Names \cup {"none"}]
        /\ value' \in [Commands -> Value]
        /\ open' \in [Commands -> Files \cup {Missing}]
    BY ExitTypes DEF Die
  <1>2. UNCHANGED <<settings, tmp, text, overlapped, forgotten>>
    BY DEF Die
  <1>3. \A d \in Commands : step'[d] \in {"start", "loaded"} => step[d] \in {"start", "loaded"}
    BY DEF Die, Exit, StoreTypes
  <1> QED
    BY <1>1, <1>2, <1>3 DEF StoreTypes, FilesApart

-----------------------------------------------------------------------------
(* Commands that do not overlap *)

\* While no two commands have met, the one that runs has the temporary file to
\* itself, and the file's text is what its last step made of it.
Alone ==
    ~ overlapped =>
        \A c \in Commands :
            /\ Running(c) => \A d \in Commands : Running(d) => d = c
            /\ step[c] = "opened" => tmp # Missing /\ open[c] = tmp /\ text[tmp] = Empty
            /\ step[c] = "written" => tmp # Missing /\ text[tmp] = Whole(value[c])

\* A PIN that was removed is in no value that is yet to be saved, but for one
\* that sets a PIN.
Forgets ==
    ~ overlapped =>
        /\ forgotten => Loaded.pin = NoPin
        /\ \A c \in Commands : Running(c) =>
               /\ name[c] \in Names
               /\ name[c] = "clear" \/ (forgotten /\ name[c] # "set") => value[c].pin = NoPin

SInv == StoreTypes /\ FilesApart /\ Alone /\ Forgets

\* What a step of the store does, as SavesAreAtomic says it.
AtomicStep ==
    ~ overlapped' =>
        /\ \A c \in Commands : step[c] # "done" /\ step'[c] = "done" => Loaded' = value[c]
        /\ Loaded' # Loaded => \E c \in Commands : step[c] # "done" /\ step'[c] = "done"

LEMMA ExitSteps ==
    ASSUME StoreTypes, NEW c \in Commands, NEW how \in {"done", "failed"}, Exit(c, how)
    PROVE  /\ step'[c] = how
           /\ ~ Running(c)'
           /\ \A d \in Commands \ {c} :
                step'[d] = step[d] /\ name'[d] = name[d] /\ value'[d] = value[d] /\ open'[d] = open[d]
  BY DEF StoreTypes, Exit, Running

LEMMA LoadStep ==
    ASSUME SInv, NEW c \in Commands, Load(c)
    PROVE  Alone' /\ Forgets' /\ AtomicStep
  <1>1. PICK n \in Names : LoadAs(c, n)
    BY DEF Load, Names
  <1>2. /\ UNCHANGED <<settings, tmp, text, forgotten>>
        /\ step[c] = "start"
        /\ ~ overlapped' => ~ overlapped /\ \A d \in Commands : ~ Running(d)
    BY <1>1 DEF LoadAs
  <1>3. Loaded' = Loaded
    BY <1>2 DEF Loaded
  <1>4. \A d \in Commands \ {c} :
          step'[d] = step[d] /\ name'[d] = name[d] /\ value'[d] = value[d] /\ open'[d] = open[d]
    BY <1>1 DEF SInv, StoreTypes, LoadAs, Exit
  <1>5. \/ step'[c] = "failed"
        \/ step'[c] = "loaded" /\ name'[c] = n /\ value'[c] \in Outcomes(n, Loaded)
    BY <1>1 DEF SInv, StoreTypes, LoadAs, Exit
  <1>6. AtomicStep
    BY <1>3, <1>4, <1>5 DEF AtomicStep
  <1>7. ASSUME ~ overlapped' PROVE \A d \in Commands \ {c} : ~ Running(d)'
    BY <1>2, <1>4, <1>7 DEF Running
  <1>8. Alone'
    BY <1>5, <1>7 DEF Alone, Running
  <1>9. Forgets'
    <2>1. CASE step'[c] = "failed"
      BY <1>2, <1>3, <1>7, <2>1 DEF SInv, Forgets, Running
    <2>2. CASE step'[c] = "loaded" /\ name'[c] = n /\ value'[c] \in Outcomes(n, Loaded)
      <3>1. /\ n = "clear" => value'[c].pin = NoPin
            /\ n # "set" /\ Loaded.pin = NoPin => value'[c].pin = NoPin
        BY <2>2, LoadedIsValue, OutcomesAreValues DEF SInv
      <3> QED
        BY <1>2, <1>3, <1>7, <2>2, <3>1 DEF SInv, Forgets, Running
    <2> QED
      BY <1>5, <2>1, <2>2
  <1> QED
    BY <1>6, <1>8, <1>9

LEMMA OpenStep ==
    ASSUME SInv, NEW c \in Commands, Open(c)
    PROVE  Alone' /\ Forgets' /\ AtomicStep
  <1>1. /\ tmp' = IF tmp = Missing THEN c ELSE tmp
        /\ text' = [text EXCEPT ![tmp'] = Empty]
        /\ open' = [open EXCEPT ![c] = tmp']
        /\ step' = [step EXCEPT ![c] = "opened"]
        /\ step[c] = "loaded"
        /\ UNCHANGED <<settings, name, value, overlapped, forgotten>>
    BY DEF Open
  <1>2. tmp' \in Files /\ tmp' # settings /\ tmp' # Missing
    BY <1>1 DEF SInv, StoreTypes, FilesApart, Files, Commands, Missing
  <1>3. text'[tmp'] = Empty /\ (settings # Missing => text'[settings] = text[settings])
    BY <1>1, <1>2 DEF SInv, StoreTypes
  <1>4. Loaded' = Loaded
    BY <1>1, <1>3 DEF Loaded
  <1>5. /\ step'[c] = "opened" /\ open'[c] = tmp'
        /\ \A d \in Commands \ {c} : step'[d] = step[d] /\ open'[d] = open[d]
    BY <1>1 DEF SInv, StoreTypes
  <1>6. \A d \in Commands : Running(d)' <=> Running(d)
    BY <1>1, <1>5 DEF Running
  <1>7. AtomicStep
    BY <1>4, <1>5 DEF AtomicStep
  <1>8. Alone'
    <2> SUFFICES ASSUME ~ overlapped' PROVE Alone'
      BY DEF Alone
    <2>1. \A d \in Commands : Running(d) => d = c
      BY <1>1 DEF SInv, Alone, Running
    <2>2. \A d \in Commands \ {c} : ~ Running(d)'
      BY <1>6, <2>1
    <2> QED
      BY <1>2, <1>3, <1>5, <2>2 DEF Alone, Running
  <1>9. Forgets'
    BY <1>1, <1>4, <1>6 DEF SInv, Forgets
  <1> QED
    BY <1>7, <1>8, <1>9

LEMMA WriteStep ==
    ASSUME SInv, NEW c \in Commands, Write(c)
    PROVE  Alone' /\ Forgets' /\ AtomicStep
  <1>1. /\ step' = [step EXCEPT ![c] = "written"]
        /\ step[c] = "opened"
        /\ UNCHANGED <<settings, tmp, name, value, open, overlapped, forgotten>>
        /\ \E t \in IF text[open[c]] \in {Empty, Whole(value[c])}
                    THEN {Whole(value[c])} ELSE {Whole(value[c]), Torn} :
               text' = [text EXCEPT ![open[c]] = t]
    BY DEF Write
  <1>2. /\ step'[c] = "written"
        /\ \A d \in Commands \ {c} : step'[d] = step[d]
    BY <1>1 DEF SInv, StoreTypes
  <1>3. \A d \in Commands : Running(d)' <=> Running(d)
    BY <1>1, <1>2 DEF Running
  <1>4. ASSUME ~ overlapped
        PROVE  /\ tmp # Missing /\ tmp # settings
               /\ text'[tmp] = Whole(value[c])
               /\ settings # Missing => text'[settings] = text[settings]
    <2>1. tmp # Missing /\ open[c] = tmp /\ text[tmp] = Empty
      BY <1>1, <1>4 DEF SInv, Alone
    <2>2. text' = [text EXCEPT ![tmp] = Whole(value[c])]
      BY <1>1, <2>1
    <2> QED
      BY <2>1, <2>2 DEF SInv, StoreTypes, FilesApart
  <1>5. ~ overlapped => Loaded' = Loaded
    BY <1>1, <1>4 DEF Loaded
  <1>6. AtomicStep
    BY <1>1, <1>2, <1>5 DEF AtomicStep
  <1>7. Alone'
    <2> SUFFICES ASSUME ~ overlapped' PROVE Alone'
      BY DEF Alone
    <2>1. \A d \in Commands : Running(d) => d = c
      BY <1>1 DEF SInv, Alone, Running
    <2>2. \A d \in Commands \ {c} : ~ Running(d)'
      BY <1>3, <2>1
    <2> QED
      BY <1>1, <1>2, <1>4, <2>2 DEF Alone, Running
  <1>8. Forgets'
    BY <1>1, <1>3, <1>5 DEF SInv, Forgets
  <1> QED
    BY <1>6, <1>7, <1>8

LEMMA RenameStep ==
    ASSUME SInv, NEW c \in Commands, Rename(c)
    PROVE  Alone' /\ Forgets' /\ AtomicStep
  <1> SUFFICES ASSUME ~ overlapped' PROVE Alone' /\ Forgets' /\ AtomicStep
    BY DEF Alone, Forgets, AtomicStep
  <1>1. step[c] = "written" /\ UNCHANGED <<text, overlapped>> /\ ~ overlapped
    BY DEF Rename
  <1>2. tmp # Missing /\ text[tmp] = Whole(value[c])
    BY <1>1 DEF SInv, Alone
  <1>3. /\ Exit(c, "done")
        /\ settings' = tmp
        /\ forgotten' = CASE name[c] = "clear" -> TRUE
                          [] name[c] = "set"   -> FALSE
                          [] OTHER             -> forgotten
    BY <1>2 DEF Rename
  <1>4. Loaded' = value[c]
    BY <1>1, <1>2, <1>3, TextsOfValues DEF SInv, StoreTypes, Loaded
  <1>5. \A d \in Commands : ~ Running(d)'
    <2>1. ~ Running(c)'
      BY <1>3, ExitSteps DEF SInv
    <2>2. \A d \in Commands \ {c} : step'[d] = step[d]
      BY <1>3, ExitSteps DEF SInv
    <2>3. \A d \in Commands : Running(d) => d = c
      BY <1>1 DEF SInv, Alone, Running
    <2> QED
      BY <2>1, <2>2, <2>3 DEF Running
  <1>6. step[c] # "done" /\ step'[c] = "done"
    BY <1>1, <1>3, ExitSteps DEF SInv
  <1>7. AtomicStep
    <2>1. \A d \in Commands \ {c} : step'[d] = step[d]
      BY <1>3, ExitSteps DEF SInv
    <2> QED
      BY <1>4, <1>6, <2>1 DEF AtomicStep
  <1>8. forgotten' => Loaded'.pin = NoPin
    <2>1. Running(c)
      BY <1>1 DEF Running
    <2>2. /\ name[c] \in Names
          /\ name[c] = "clear" \/ (forgotten /\ name[c] # "set") => value[c].pin = NoPin
      BY <1>1, <2>1 DEF SInv, Forgets
    <2> QED
      BY <1>3, <1>4, <2>2
  <1> QED
    BY <1>5, <1>7, <1>8 DEF Alone, Forgets, Running

LEMMA DieStep ==
    ASSUME SInv, NEW c \in Commands, Die(c)
    PROVE  Alone' /\ Forgets' /\ AtomicStep
  <1>1. Exit(c, "failed") /\ UNCHANGED <<settings, tmp, text, overlapped, forgotten>>
    BY DEF Die
  <1>2. /\ step'[c] = "failed"
        /\ ~ Running(c)'
        /\ \A d \in Commands \ {c} :
             step'[d] = step[d] /\ name'[d] = name[d] /\ value'[d] = value[d] /\ open'[d] = open[d]
    BY <1>1, ExitSteps DEF SInv
  <1>3. Loaded' = Loaded
    BY <1>1 DEF Loaded
  <1>4. AtomicStep
    BY <1>2, <1>3 DEF AtomicStep
  <1>5. \A d \in Commands : Running(d)' => Running(d) /\ d # c
    BY <1>2 DEF Running
  <1>6. Alone'
    BY <1>1, <1>2, <1>5 DEF SInv, Alone, Running
  <1>7. Forgets'
    BY <1>1, <1>2, <1>3, <1>5 DEF SInv, Forgets
  <1> QED
    BY <1>4, <1>6, <1>7

LEMMA StoreBegins == ASSUME StoreInit PROVE SInv
  <1>1. StoreTypes /\ FilesApart
    BY InitTypes
  <1>2. \A c \in Commands : ~ Running(c) /\ step[c] = "start"
    BY DEF StoreInit, Running
  <1> QED
    BY <1>1, <1>2 DEF StoreInit, SInv, Alone, Forgets

LEMMA StoreStep == ASSUME SInv, [StoreNext]_storeVars PROVE SInv' /\ (AtomicStep \/ UNCHANGED storeVars)
  <1>1. CASE UNCHANGED storeVars
    <2>1. StoreTypes' /\ FilesApart'
      BY <1>1 DEF SInv, StoreTypes, FilesApart, storeVars
    <2>2. Loaded' = Loaded /\ \A c \in Commands : Running(c)' <=> Running(c)
      BY <1>1 DEF Loaded, Running, storeVars
    <2>3. Alone'
      BY <1>1, <2>2 DEF SInv, Alone, storeVars
    <2>4. Forgets'
      BY <1>1, <2>2 DEF SInv, Forgets, storeVars
    <2> QED
      BY <1>1, <2>1, <2>3, <2>4 DEF SInv
  <1>2. CASE StoreNext
    <2>1. PICK c \in Commands : Load(c) \/ Open(c) \/ Write(c) \/ Rename(c) \/ Die(c)
      BY <1>2 DEF StoreNext
    <2>2. StoreTypes' /\ FilesApart'
      BY <2>1, LoadTypes, OpenTypes, WriteTypes, RenameTypes, DieTypes DEF SInv
    <2>3. Alone' /\ Forgets' /\ AtomicStep
      BY <2>1, LoadStep, OpenStep, WriteStep, RenameStep, DieStep
    <2> QED
      BY <2>2, <2>3 DEF SInv
  <1> QED
    BY <1>1, <1>2

-----------------------------------------------------------------------------
(* The theorems *)

LEMMA StoreInvariance == StoreSpec => []SInv
  <1>1. StoreInit => SInv
    BY StoreBegins
  <1>2. SInv /\ [StoreNext]_storeVars => SInv'
    BY StoreStep
  <1> QED
    BY <1>1, <1>2, PTL DEF StoreSpec

\* Settings::save, for every number of commands and every set of values: as
\* long as no two commands overlap, what readers make of settings.json changes
\* only in the step that completes a command, and to that command's value,
\* however many commands die or fail with the temporary file behind them.
THEOREM SavesAtomically == StoreSpec => SavesAreAtomic
  <1>1. SInv /\ [StoreNext]_storeVars => [AtomicStep]_storeVars
    BY StoreStep
  <1> QED
    BY <1>1, StoreInvariance, PTL DEF StoreSpec, SavesAreAtomic, AtomicStep

\* The overlap is all there is to the finding: `pin clear` forgets the PIN, and
\* no later command but one that sets a PIN brings it back, while no two
\* commands run at once.
THEOREM RemovedPinStaysWithoutOverlap ==
    StoreSpec => [](~ overlapped => PinForgotten /\ RemovedPinStaysRemoved)
  <1>1. SInv => (~ overlapped => PinForgotten /\ RemovedPinStaysRemoved)
    BY DEF SInv, Forgets, PinForgotten, RemovedPinStaysRemoved
  <1> QED
    BY <1>1, StoreInvariance, PTL

\* Panel.qml touches the settings through the commands alone: with the bar, the
\* host and a terminal around it the file behaves as the store says.
THEOREM PanelUsesTheCommands == PanelSpec => StoreSpec
  <1>1. PanelInit => StoreInit
    BY DEF PanelInit
  <1>2. ASSUME [PanelNext]_systemVars PROVE [StoreNext]_storeVars
    <2>1. CASE UNCHANGED systemVars
      BY <2>1 DEF systemVars
    <2>2. CASE Look \/ StatusReads \/ StatusEnds \/ StatusFails
      BY <2>2, Zenon DEF Look, StatusReads, StatusEnds, StatusFails
    <2>3. CASE ActionEnds \/ StartHost \/ StartEnds \/ HostStops
      BY <2>3 DEF ActionEnds, StartHost, StartEnds, HostStops
    <2>4. ASSUME NEW n \in Names, NEW values, Run(n, values) PROVE StoreNext
      BY <2>4 DEF Run, StoreNext, Load, Names
    <2>5. CASE ChooseVideo
      BY <2>4, <2>5 DEF ChooseVideo, Names
    <2>6. CASE ChooseAccess
      BY <2>4, <2>6 DEF ChooseAccess, Names
    <2>7. CASE Terminal
      BY <2>7 DEF Terminal, StoreNext
    <2>8. CASE Proceeds
      BY <2>8 DEF Proceeds, StoreNext
    <2>9. CASE Dies
      BY <2>9 DEF Dies, StoreNext
    <2> QED
      BY <1>2, <2>1, <2>2, <2>3, <2>5, <2>6, <2>7, <2>8, <2>9, Zenon DEF PanelNext
  <1> QED
    BY <1>1, <1>2, PTL DEF PanelSpec, StoreSpec

\* The same under the panel: a click is saved whole or not at all.
THEOREM ClicksAreAtomic == PanelSpec => SavesAreAtomic
  BY PanelUsesTheCommands, SavesAtomically

=============================================================================
