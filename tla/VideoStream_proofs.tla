------------------------- MODULE VideoStream_proofs -------------------------
(***************************************************************************)
(* Proofs about the stream of VideoStream and NalSplit in ByteStreams:     *)
(* what the client decodes is what the encoder coded, however the bytes    *)
(* are cut into reads.  The lemmas on iteration and on FlattenSeq are      *)
(* those of ByteStreams_proofs.                                            *)
(***************************************************************************)
EXTENDS ByteStreams_proofs

-----------------------------------------------------------------------------
(* Sets of places, listed in order                                           *)

\* q lists the members of B in ascending order, each once.
Lists(q, B) ==
    /\ q \in Seq(Nat)
    /\ \A j \in 1..Len(q) : q[j] \in B
    /\ \A i, j \in 1..Len(q) : i < j => q[i] < q[j]
    /\ \A x \in B : \E j \in 1..Len(q) : q[j] = x

LEMMA NoPlaces == <<>> \in Seq(Nat) /\ Len(<<>>) = 0
  <1>1. PICK N : N = Nat
    OBVIOUS
  <1>2. <<>> \in Seq(N) /\ Len(<<>>) = 0
    OBVIOUS
  <1> QED
    BY <1>1, <1>2

LEMMA AscendingLists ==
  ASSUME NEW n \in Nat, NEW A
  PROVE  Lists(Video!Ascending(n, A), A \cap (1..n))
  <1>1. PICK step \in [1..n -> [Seq(Nat) -> Seq(Nat)]] :
          \A i \in 1..n, p \in Seq(Nat) : step[i][p] = IF i \in A THEN Append(p, i) ELSE p
    <2> DEFINE next == [i \in 1..n |-> [p \in Seq(Nat) |-> IF i \in A THEN Append(p, i) ELSE p]]
    <2>1. \A i \in 1..n, p \in Seq(Nat) : (IF i \in A THEN Append(p, i) ELSE p) \in Seq(Nat)
      OBVIOUS
    <2>2. next \in [1..n -> [Seq(Nat) -> Seq(Nat)]]
      BY <2>1
    <2>3. \A i \in 1..n, p \in Seq(Nat) : next[i][p] = IF i \in A THEN Append(p, i) ELSE p
      OBVIOUS
    <2> HIDE DEF next
    <2> QED
      BY <2>2, <2>3
  <1>2. PICK D : D = Seq(Nat)
    OBVIOUS
  <1>3. PICK base \in D : base = <<>>
    BY <1>2, NoPlaces
  <1>4. PICK f : Iterates(f, n, D, base, step, n)
    BY <1>1, <1>2, Iteration
  <1>5. /\ f \in [0..n -> D] /\ f[0] = base
        /\ \A i \in 1..n : f[i] = step[i][f[i - 1]] /\ f[i - 1] \in D
    BY <1>4 DEF Iterates
  <1>6. \A i \in 1..n : f[i] = IF i \in A THEN Append(f[i - 1], i) ELSE f[i - 1]
    BY <1>1, <1>2, <1>5
  <1> DEFINE G(h, i) == IF i = 0 THEN <<>> ELSE IF i \in A THEN Append(h[i - 1], i) ELSE h[i - 1]
  <1>7. f = [i \in 0..n |-> G(f, i)]
    <2>1. \A i \in 0..n : f[i] = G(f, i)
      <3> TAKE i \in 0..n
      <3>1. CASE i = 0
        BY <1>3, <1>5, <3>1
      <3>2. CASE i # 0
        <4>1. i \in 1..n
          BY <3>2
        <4> QED
          BY <1>6, <3>2, <4>1, Zenon
      <3> QED
        BY <3>1, <3>2
    <2> HIDE DEF G
    <2>2. f = [i \in 0..n |-> f[i]]
      BY <1>5, SMTT(30)
    <2> QED
      BY <2>1, <2>2
  <1> DEFINE c == CHOOSE h : h = [i \in 0..n |-> G(h, i)]
  <1>8. c = [i \in 0..n |-> G(c, i)]
    BY <1>7, ZenonT(60)
  <1>9. Video!Ascending(n, A) = c[n]
    BY DEF Video!Ascending
  <1> HIDE DEF c
  <1>10. PICK g : g = c
    OBVIOUS
  <1>11. \A i \in 0..n : g[i] = G(g, i)
    <2> HIDE DEF G
    <2> QED
      BY <1>8, <1>10
  <1>12. g[0] = <<>> /\ \A i \in 1..n : g[i] = IF i \in A THEN Append(g[i - 1], i) ELSE g[i - 1]
    <2>1. g[0] = <<>>
      BY <1>11
    <2>2. ASSUME NEW i \in 1..n PROVE g[i] = IF i \in A THEN Append(g[i - 1], i) ELSE g[i - 1]
      <3>1. i \in 0..n /\ i # 0
        OBVIOUS
      <3> QED
        BY <1>11, <3>1, Zenon
    <2> QED
      BY <2>1, <2>2
  <1> DEFINE S == {i \in 0..n : Lists(g[i], A \cap (1..i))}
  <1>13. 0 \in S
    <2>1. A \cap (1..0) = {}
      OBVIOUS
    <2>2. PICK e \in Seq(Nat) : e = <<>> /\ Len(e) = 0
      BY NoPlaces
    <2>3. Lists(e, {})
      BY <2>2 DEF Lists
    <2>4. Lists(g[0], A \cap (1..0))
      BY <1>12, <2>1, <2>2, <2>3
    <2>5. 0 \in 0..n
      OBVIOUS
    <2> QED
      BY <2>4, <2>5
  <1>14. ASSUME NEW i \in 1..n, i - 1 \in S PROVE i \in S
    <2>1. PICK p : p = g[i - 1]
      OBVIOUS
    <2>2. Lists(p, A \cap (1..(i - 1)))
      BY <1>14, <2>1
    <2>0. i \in 0..n
      OBVIOUS
    <2>3. CASE i \notin A
      <3>1. g[i] = p
        BY <1>12, <2>1, <2>3
      <3>2. A \cap (1..i) = A \cap (1..(i - 1))
        BY <2>3
      <3>3. Lists(g[i], A \cap (1..i))
        BY <2>2, <3>1, <3>2
      <3> QED
        BY <2>0, <3>3
    <2>4. CASE i \in A
      <3>1. PICK r : r = Append(p, i)
        OBVIOUS
      <3>2. g[i] = r
        BY <1>12, <2>1, <2>4, <3>1
      <3>3. p \in Seq(Nat) /\ \A j \in 1..Len(p) : p[j] \in A /\ p[j] \in 1..(i - 1)
        BY <2>2 DEF Lists
      <3>4. PICK l \in Nat : l = Len(p)
        BY <3>3
      <3>5. r \in Seq(Nat) /\ Len(r) = l + 1 /\ r[l + 1] = i /\ \A j \in 1..l : r[j] = p[j]
        BY <3>1, <3>3, <3>4
      <3>6. ASSUME NEW j \in 1..Len(r) PROVE r[j] \in A \cap (1..i)
        <4>1. CASE j = l + 1
          BY <2>4, <3>5, <4>1
        <4>2. CASE j # l + 1
          <5>1. j \in 1..l
            BY <3>4, <3>5, <4>2
          <5>2. r[j] \in A /\ r[j] \in 1..(i - 1)
            BY <3>3, <3>4, <3>5, <5>1
          <5> QED
            BY <5>2
        <4> QED
          BY <4>1, <4>2
      <3>7. ASSUME NEW j \in 1..Len(r), NEW k \in 1..Len(r), j < k PROVE r[j] < r[k]
        <4>1. j \in 1..l /\ r[j] = p[j] /\ p[j] \in 1..(i - 1)
          BY <3>3, <3>4, <3>5, <3>7, SMTT(30)
        <4>2. CASE k = l + 1
          BY <3>5, <4>1, <4>2
        <4>3. CASE k # l + 1
          <5>1. k \in 1..l /\ r[k] = p[k]
            BY <3>4, <3>5, <4>3
          <5> QED
            BY <2>2, <3>4, <3>7, <4>1, <5>1 DEF Lists
        <4> QED
          BY <4>2, <4>3
      <3>8. ASSUME NEW x \in A \cap (1..i) PROVE \E j \in 1..Len(r) : r[j] = x
        <4>1. CASE x = i
          BY <3>5, <4>1
        <4>2. CASE x # i
          <5>1. x \in A \cap (1..(i - 1))
            BY <4>2
          <5>2. PICK j \in 1..l : p[j] = x
            BY <2>2, <3>4, <5>1 DEF Lists
          <5> QED
            BY <3>5, <5>2
        <4> QED
          BY <4>1, <4>2
      <3>9. Lists(r, A \cap (1..i))
        BY <3>5, <3>6, <3>7, <3>8 DEF Lists
      <3> QED
        BY <2>0, <3>2, <3>9
    <2> QED
      BY <2>3, <2>4
  <1> HIDE DEF S
  <1>15. 0..n \subseteq S
    BY <1>13, <1>14, Ascent
  <1>16. n \in S
    BY <1>15
  <1> QED
    BY <1>9, <1>10, <1>16 DEF S

\* There is one such list.
LEMMA OneList ==
  ASSUME NEW B, NEW q, Lists(q, B), NEW r, Lists(r, B)
  PROVE  q = r
  <1>1. q \in Seq(Nat) /\ r \in Seq(Nat)
    BY DEF Lists
  <1>2. PICK m \in Nat : m = Len(q)
    BY <1>1
  <1>3. PICK n \in Nat : n = Len(r)
    BY <1>1
  <1>4. /\ \A j \in 1..m : q[j] \in B /\ q[j] \in Nat
        /\ \A j \in 1..n : r[j] \in B /\ r[j] \in Nat
        /\ \A i, j \in 1..m : i < j => q[i] < q[j]
        /\ \A i, j \in 1..n : i < j => r[i] < r[j]
        /\ \A x \in B : \E j \in 1..m : q[j] = x
        /\ \A x \in B : \E j \in 1..n : r[j] = x
    BY <1>1, <1>2, <1>3 DEF Lists
  <1> DEFINE Same(i) == i \in 1..m /\ i \in 1..n /\ q[i] = r[i]
             T == {i \in 1..m : ~ Same(i)}
             U == {i \in 1..n : ~ Same(i)}
  <1>5. T = {} /\ U = {}
    <2>1. SUFFICES ASSUME T \cup U # {} PROVE FALSE
      OBVIOUS
    <2>0. PICK D : D = T \cup U
      OBVIOUS
    <2>2. D \subseteq Nat /\ D # {}
      BY <2>0, <2>1
    <2>3. PICK i \in D : \A y \in D : i <= y
      BY <2>2, LeastMember
    <2>8. i \in Nat /\ (i \in 1..m \/ i \in 1..n) /\ ~ Same(i)
      BY <2>0, <2>3
    <2>4. ASSUME NEW y \in 1..(i - 1) PROVE y \in 1..m /\ y \in 1..n /\ q[y] = r[y]
      <3>1. y \notin D
        BY <2>3, <2>8
      <3>2. y \in 1..m \/ y \in 1..n
        BY <2>8
      <3> QED
        BY <2>0, <3>1, <3>2
    <2>5. CASE i \in 1..m /\ (i \in 1..n => q[i] < r[i])
      <3>1. PICK k \in 1..n : r[k] = q[i]
        BY <1>4, <2>5
      <3>2. k < i
        BY <1>4, <2>5, <3>1
      <3>4. k \in 1..(i - 1)
        <4>1. k \in 1..n /\ i \in Nat
          BY <2>8, <3>1
        <4> QED
          BY <3>2, <4>1
      <3>3. r[k] = q[k] /\ k \in 1..m /\ k \in 1..n
        BY <2>4, <3>1, <3>4
      <3>5. q[k] < q[i]
        BY <1>4, <2>5, <3>2, <3>3
      <3>6. q[i] \in Nat
        BY <1>4, <2>5
      <3> QED
        BY <3>1, <3>3, <3>5, <3>6
    <2>6. CASE i \in 1..n /\ (i \in 1..m => r[i] < q[i])
      <3>1. PICK k \in 1..m : q[k] = r[i]
        BY <1>4, <2>6
      <3>2. k < i
        BY <1>4, <2>6, <3>1
      <3>4. k \in 1..(i - 1)
        <4>1. k \in 1..m /\ i \in Nat
          BY <2>8, <3>1
        <4> QED
          BY <3>2, <4>1
      <3>3. r[k] = q[k] /\ k \in 1..n /\ k \in 1..m
        BY <2>4, <3>1, <3>4
      <3> QED
        BY <1>4, <2>6, <3>1, <3>2, <3>3
    <2> QED
      BY <1>4, <2>8, <2>5, <2>6
  <1>6. m = n
    <2>1. \A i \in 1..m : i \in 1..n
      BY <1>5
    <2>2. \A i \in 1..n : i \in 1..m
      BY <1>5
    <2>3. m <= n
      BY <2>1
    <2>4. n <= m
      BY <2>2
    <2> QED
      BY <2>3, <2>4
  <1>7. \A i \in 1..m : q[i] = r[i]
    BY <1>5
  <1> QED
    BY <1>1, <1>2, <1>3, <1>6, <1>7, SeqEqual

-----------------------------------------------------------------------------
(* Start codes, by the bytes at their places                                 *)

\* p is what s holds from i to j.
IsPart(p, s, i, j) ==
    /\ p \in Seq(Nat)
    /\ Len(p) = j - i + 1
    /\ \A k \in 1..(j - i + 1) : p[k] = s[i + k - 1]

LEMMA PartOf ==
  ASSUME NEW s \in Seq(Nat), NEW i \in Nat \ {0}, NEW j \in Nat, i <= j + 1, j <= Len(s),
         NEW p, p = SubSeq(s, i, j)
  PROVE  IsPart(p, s, i, j)
  <1>1. PICK l \in Nat : l = Len(s)
    OBVIOUS
  <1>2. i \in 1..(l + 1) /\ j \in (i - 1)..l
    BY <1>1
  <1> QED
    BY <1>1, <1>2, SubSeqProperties DEF IsPart

\* r is p and q behind it.
IsJoin(A, r, p, q) ==
    /\ r \in Seq(A)
    /\ Len(r) = Len(p) + Len(q)
    /\ \A k \in 1..Len(p) : r[k] = p[k]
    /\ \A k \in 1..Len(q) : r[Len(p) + k] = q[k]

LEMMA JoinOf ==
  ASSUME NEW A, NEW p \in Seq(A), NEW q \in Seq(A), NEW r, r = p \o q
  PROVE  IsJoin(A, r, p, q)
  BY DEF IsJoin

\* What t holds from c on.
TailAt(t, c) == SubSeq(t, c, Len(t))

LEMMA LongAt ==
  ASSUME NEW s \in Seq(Nat), NEW i \in Nat \ {0}
  PROVE  Video!Long(s, i) <=> /\ i + 3 <= Len(s)
                        /\ s[i] = 0 /\ s[i + 1] = 0 /\ s[i + 2] = 0 /\ s[i + 3] = 1
  <1>1. CASE ~ (i + 3 <= Len(s))
    BY <1>1 DEF Video!Long
  <1>2. CASE i + 3 <= Len(s)
    <2>1. PICK p : p = SubSeq(s, i, i + 3)
      OBVIOUS
    <2>2. PICK j \in Nat : j = i + 3
      OBVIOUS
    <2>3. p \in Seq(Nat) /\ Len(p) = j - i + 1 /\ \A k \in 1..(j - i + 1) : p[k] = s[i + k - 1]
      <3>0. i <= j + 1 /\ j <= Len(s) /\ p = SubSeq(s, i, j)
        BY <1>2, <2>1, <2>2
      <3>1. IsPart(p, s, i, j)
        BY <3>0, PartOf
      <3> QED
        BY <3>1 DEF IsPart
    <2>4. /\ p \in Seq(Nat) /\ Len(p) = 4
          /\ p[1] = s[i] /\ p[2] = s[i + 1] /\ p[3] = s[i + 2] /\ p[4] = s[i + 3]
      BY <2>2, <2>3
    <2>5. PICK w : w = <<0, 0, 0, 1>>
      OBVIOUS
    <2>6. w \in Seq(Nat) /\ Len(w) = 4 /\ w[1] = 0 /\ w[2] = 0 /\ w[3] = 0 /\ w[4] = 1
      BY <2>5
    <2>7. p = w <=> p[1] = 0 /\ p[2] = 0 /\ p[3] = 0 /\ p[4] = 1
      <3>1. ASSUME p[1] = 0 /\ p[2] = 0 /\ p[3] = 0 /\ p[4] = 1 PROVE p = w
        <4>1. \A k \in 1..4 : p[k] = w[k]
          BY <2>6, <3>1
        <4> QED
          BY <2>4, <2>6, <4>1, SeqEqual, ZenonT(60)
      <3>2. ASSUME p = w PROVE p[1] = 0 /\ p[2] = 0 /\ p[3] = 0 /\ p[4] = 1
        BY <2>6, <3>2
      <3> QED
        BY <3>1, <3>2
    <2> QED
      BY <1>2, <2>1, <2>4, <2>5, <2>7 DEF Video!Long
  <1> QED
    BY <1>1, <1>2

LEMMA ShortAt ==
  ASSUME NEW s \in Seq(Nat), NEW i \in Nat \ {0}
  PROVE  Video!Short(s, i) <=> i + 2 <= Len(s) /\ s[i] = 0 /\ s[i + 1] = 0 /\ s[i + 2] = 1
  <1>1. CASE ~ (i + 2 <= Len(s))
    BY <1>1 DEF Video!Short
  <1>2. CASE i + 2 <= Len(s)
    <2>1. PICK p : p = SubSeq(s, i, i + 2)
      OBVIOUS
    <2>2. PICK j \in Nat : j = i + 2
      OBVIOUS
    <2>3. p \in Seq(Nat) /\ Len(p) = j - i + 1 /\ \A k \in 1..(j - i + 1) : p[k] = s[i + k - 1]
      <3>0. i <= j + 1 /\ j <= Len(s) /\ p = SubSeq(s, i, j)
        BY <1>2, <2>1, <2>2
      <3>1. IsPart(p, s, i, j)
        BY <3>0, PartOf
      <3> QED
        BY <3>1 DEF IsPart
    <2>4. /\ p \in Seq(Nat) /\ Len(p) = 3
          /\ p[1] = s[i] /\ p[2] = s[i + 1] /\ p[3] = s[i + 2]
      BY <2>2, <2>3
    <2>5. PICK w : w = <<0, 0, 1>>
      OBVIOUS
    <2>6. w \in Seq(Nat) /\ Len(w) = 3 /\ w[1] = 0 /\ w[2] = 0 /\ w[3] = 1
      BY <2>5
    <2>7. p = w <=> p[1] = 0 /\ p[2] = 0 /\ p[3] = 1
      <3>1. ASSUME p[1] = 0 /\ p[2] = 0 /\ p[3] = 1 PROVE p = w
        <4>1. \A k \in 1..3 : p[k] = w[k]
          BY <2>6, <3>1
        <4> QED
          BY <2>4, <2>6, <4>1, SeqEqual
      <3>2. ASSUME p = w PROVE p[1] = 0 /\ p[2] = 0 /\ p[3] = 1
        BY <2>6, <3>2
      <3> QED
        BY <3>1, <3>2
    <2> QED
      BY <1>2, <2>1, <2>4, <2>5, <2>7 DEF Video!Short
  <1> QED
    BY <1>1, <1>2

\* Where start codes are, and where NALs that another one follows.
Starts(s) == {i \in 1..Len(s) : Video!IsStart(s, i)}

Nals(s) == {i \in Starts(s) : \E j \in Starts(s) : i < j}

\* How long a start code is.
CodeLength(s, i) == IF Video!Short(s, i) THEN 3 ELSE 4

\* A start code, by its bytes.
LEMMA StartAt ==
  ASSUME NEW s \in Seq(Nat), NEW i \in Nat \ {0}
  PROVE  /\ i \in Starts(s) <=>
              \/ Video!Long(s, i)
              \/ Video!Short(s, i) /\ ~ (i > 1 /\ s[i - 1] = 0)
         /\ i \in Starts(s) => s[i] = 0 /\ s[i + 1] = 0 /\ i + CodeLength(s, i) - 1 \in 1..Len(s)
         /\ i \in Starts(s) => s[(i + CodeLength(s, i)) - 1] = 1 /\ CodeLength(s, i) \in {3, 4}
         /\ i \in Starts(s) => ((CodeLength(s, i) = 4) <=> Video!Long(s, i))
  <1>1. PICK l \in Nat : l = Len(s)
    OBVIOUS
  <1>2. i > 1 => i - 1 \in Nat \ {0}
    OBVIOUS
  <1>3. ~ (Video!Long(s, i) /\ Video!Short(s, i))
    <2>1. Video!Long(s, i) => s[i + 2] = 0
      BY LongAt
    <2>2. Video!Short(s, i) => s[i + 2] = 1
      BY ShortAt
    <2>3. 0 # 1
      OBVIOUS
    <2> QED
      BY <2>1, <2>2, <2>3
  <1>4. Video!Long(s, i) \/ Video!Short(s, i) => i \in 1..l
    BY <1>1, LongAt, ShortAt
  <1>5. ASSUME Video!Short(s, i), i > 1 PROVE Video!Long(s, i - 1) <=> s[i - 1] = 0
    <2>1. i + 2 <= l /\ s[i] = 0 /\ s[i + 1] = 0 /\ s[i + 2] = 1
      BY <1>1, <1>5, ShortAt
    <2>2. PICK h \in Nat \ {0} : h = i - 1
      BY <1>2, <1>5
    <2>3. Video!Long(s, h) <=> h + 3 <= l /\ s[h] = 0 /\ s[h + 1] = 0 /\ s[h + 2] = 0 /\ s[h + 3] = 1
      BY <1>1, LongAt
    <2>4. h + 1 = i /\ h + 2 = i + 1 /\ h + 3 = i + 2
      BY <2>2
    <2> QED
      BY <2>1, <2>2, <2>3, <2>4
  <1>6. i \in Starts(s) <=> \/ Video!Long(s, i)
                            \/ Video!Short(s, i) /\ ~ (i > 1 /\ s[i - 1] = 0)
    BY <1>1, <1>4, <1>5 DEF Starts, Video!IsStart
  <1>7. ASSUME Video!Long(s, i)
        PROVE  CodeLength(s, i) = 4 /\ s[i] = 0 /\ s[i + 1] = 0 /\ i + 3 \in 1..Len(s) /\ s[i + 3] = 1
    <2>1. CodeLength(s, i) = 4
      BY <1>3, <1>7 DEF CodeLength
    <2> QED
      BY <1>1, <1>7, <2>1, LongAt, SMTT(30)
  <1>8. ASSUME Video!Short(s, i)
        PROVE  CodeLength(s, i) = 3 /\ s[i] = 0 /\ s[i + 1] = 0 /\ i + 2 \in 1..Len(s) /\ s[i + 2] = 1
    <2>1. CodeLength(s, i) = 3
      BY <1>8 DEF CodeLength
    <2> QED
      BY <1>1, <1>8, <2>1, ShortAt
  <1>9. (i + 4) - 1 = i + 3 /\ (i + 3) - 1 = i + 2 /\ 3 # 4
    OBVIOUS
  <1>10. CASE Video!Long(s, i)
    BY <1>6, <1>7, <1>9, <1>10
  <1>11. CASE ~ Video!Long(s, i)
    <2>1. i \in Starts(s) => Video!Short(s, i)
      BY <1>6, <1>11
    <2> QED
      BY <1>6, <1>8, <1>9, <1>11, <2>1, SMTT(30)
  <1> QED
    BY <1>10, <1>11

LEMMA Spacing ==
  ASSUME NEW s \in Seq(Nat), NEW i \in Starts(s), NEW p \in Starts(s), i < p
  PROVE  i + CodeLength(s, i) <= p
  <1>1. PICK l \in Nat : l = Len(s)
    OBVIOUS
  <1>2. i \in Nat \ {0} /\ p \in Nat \ {0}
    BY <1>1 DEF Starts
  <1>3. PICK c \in {3, 4} : c = CodeLength(s, i)
    BY <1>2, StartAt
  <1>4. s[i] = 0 /\ s[i + 1] = 0 /\ s[(i + c) - 1] = 1 /\ (c = 4 <=> Video!Long(s, i))
    BY <1>2, <1>3, StartAt
  <1>5. s[p] = 0 /\ s[p + 1] = 0
    BY <1>2, StartAt
  <1>6. SUFFICES ASSUME p < i + c PROVE FALSE
    BY <1>2, <1>3
  <1>7. p # (i + c) - 1
    BY <1>4, <1>5
  <1>8. p + 1 # (i + c) - 1
    BY <1>4, <1>5
  <1>9. p = i + 1 /\ c = 4
    BY <1>2, <1>6, <1>7, <1>8
  <1>10. Video!Long(s, i)
    BY <1>4, <1>9
  <1>11. s[i + 3] = 1
    BY <1>2, <1>10, LongAt
  <1>12. ~ Video!Long(s, p)
    <2>1. Video!Long(s, p) => s[p + 2] = 0
      BY <1>2, LongAt
    <2>2. p + 2 = i + 3
      BY <1>2, <1>9
    <2>3. 0 # 1
      OBVIOUS
    <2> QED
      BY <1>11, <2>1, <2>2, <2>3
  <1>13. p > 1 /\ s[p - 1] = 0
    BY <1>2, <1>4, <1>9
  <1> QED
    BY <1>2, <1>12, <1>13, StartAt

\* b begins with a.
Extends(b, a) ==
    /\ a \in Seq(Nat) /\ b \in Seq(Nat)
    /\ Len(a) <= Len(b)
    /\ \A k \in 1..Len(a) : b[k] = a[k]

\* A start code is found as soon as its last byte is there, and the kind of its
\* NAL as soon as the next byte is.
LEMMA FoundInTime ==
  ASSUME NEW a, NEW b, Extends(b, a), NEW i \in Nat \ {0}
  PROVE  /\ i \in Starts(a) <=> i \in Starts(b) /\ i + CodeLength(b, i) - 1 <= Len(a)
         /\ i \in Starts(a) => CodeLength(a, i) = CodeLength(b, i)
         /\ i \in Starts(a) =>
              Video!NalType(a, i) = IF i + CodeLength(b, i) <= Len(a) THEN Video!NalType(b, i) ELSE 0
  <1>1. /\ a \in Seq(Nat) /\ b \in Seq(Nat)
        /\ \A k \in 1..Len(a) : b[k] = a[k]
    BY DEF Extends
  <1>2. PICK m \in Nat : m = Len(a)
    BY <1>1
  <1>3. PICK n \in Nat : n = Len(b)
    BY <1>1
  <1>4. m <= n /\ \A k \in 1..m : b[k] = a[k]
    BY <1>1, <1>2, <1>3 DEF Extends
  <1>5. Video!Long(a, i) <=> i + 3 <= m /\ a[i] = 0 /\ a[i + 1] = 0 /\ a[i + 2] = 0 /\ a[i + 3] = 1
    BY <1>1, <1>2, LongAt
  <1>6. Video!Long(b, i) <=> i + 3 <= n /\ b[i] = 0 /\ b[i + 1] = 0 /\ b[i + 2] = 0 /\ b[i + 3] = 1
    BY <1>1, <1>3, LongAt
  <1>7. Video!Short(a, i) <=> i + 2 <= m /\ a[i] = 0 /\ a[i + 1] = 0 /\ a[i + 2] = 1
    BY <1>1, <1>2, ShortAt
  <1>8. Video!Short(b, i) <=> i + 2 <= n /\ b[i] = 0 /\ b[i + 1] = 0 /\ b[i + 2] = 1
    BY <1>1, <1>3, ShortAt
  <1>9. ASSUME i + 3 <= m PROVE Video!Long(a, i) <=> Video!Long(b, i)
    <2>1. i \in 1..m /\ i + 1 \in 1..m /\ i + 2 \in 1..m /\ i + 3 \in 1..m /\ i + 3 <= n
      BY <1>4, <1>9
    <2>2. b[i] = a[i] /\ b[i + 1] = a[i + 1] /\ b[i + 2] = a[i + 2] /\ b[i + 3] = a[i + 3]
      BY <1>4, <2>1
    <2> QED
      BY <1>5, <1>6, <1>9, <2>1, <2>2
  <1>10. ASSUME i + 2 <= m PROVE Video!Short(a, i) <=> Video!Short(b, i)
    <2>1. i \in 1..m /\ i + 1 \in 1..m /\ i + 2 \in 1..m /\ i + 2 <= n
      BY <1>4, <1>10
    <2>2. b[i] = a[i] /\ b[i + 1] = a[i + 1] /\ b[i + 2] = a[i + 2]
      BY <1>4, <2>1
    <2> QED
      BY <1>7, <1>8, <1>10, <2>1, <2>2
  <1>11. ASSUME i <= m PROVE (i > 1 /\ a[i - 1] = 0) <=> (i > 1 /\ b[i - 1] = 0)
    <2>1. i > 1 => i - 1 \in 1..m
      BY <1>11
    <2> QED
      BY <1>4, <2>1
  <1>12. i \in Starts(a) <=> Video!Long(a, i) \/ (Video!Short(a, i) /\ ~ (i > 1 /\ a[i - 1] = 0))
    BY <1>1, StartAt
  <1>13. i \in Starts(b) <=> Video!Long(b, i) \/ (Video!Short(b, i) /\ ~ (i > 1 /\ b[i - 1] = 0))
    BY <1>1, StartAt
  <1>14. (Video!Long(a, i) => i + 3 <= m) /\ (Video!Short(a, i) => i + 2 <= m)
    BY <1>5, <1>7
  <1>15. ~ (Video!Long(b, i) /\ Video!Short(b, i)) /\ ~ (Video!Long(a, i) /\ Video!Short(a, i))
    <2>1. (Video!Long(b, i) => b[i + 2] = 0) /\ (Video!Long(a, i) => a[i + 2] = 0)
      BY <1>5, <1>6
    <2>2. (Video!Short(b, i) => b[i + 2] = 1) /\ (Video!Short(a, i) => a[i + 2] = 1)
      BY <1>7, <1>8
    <2>3. 0 # 1
      OBVIOUS
    <2> QED
      BY <2>1, <2>2, <2>3
  <1>16. (Video!Long(b, i) => CodeLength(b, i) = 4) /\ (Video!Short(b, i) => CodeLength(b, i) = 3)
    BY <1>15 DEF CodeLength
  <1>17. (Video!Long(a, i) => CodeLength(a, i) = 4) /\ (Video!Short(a, i) => CodeLength(a, i) = 3)
    BY <1>15 DEF CodeLength
  <1>18. i + 4 - 1 = i + 3 /\ i + 3 - 1 = i + 2
    OBVIOUS
  <1>19. ASSUME Video!Long(b, i) PROVE i + CodeLength(b, i) - 1 <= m <=> i + 3 <= m
    BY <1>16, <1>18, <1>19
  <1>20. ASSUME Video!Short(b, i) PROVE i + CodeLength(b, i) - 1 <= m <=> i + 2 <= m
    BY <1>16, <1>18, <1>20
  <1>21. i \in Starts(a) <=> i \in Starts(b) /\ i + CodeLength(b, i) - 1 <= m
    <2>1. ASSUME i \in Starts(a) PROVE i \in Starts(b) /\ i + CodeLength(b, i) - 1 <= m
      <3>1. CASE Video!Long(a, i)
        BY <1>9, <1>13, <1>14, <1>19, <3>1
      <3>2. CASE Video!Short(a, i) /\ ~ (i > 1 /\ a[i - 1] = 0)
        <4>1. i <= m /\ i + 2 <= m
          BY <1>14, <3>2
        <4> QED
          BY <1>10, <1>11, <1>13, <1>20, <3>2, <4>1
      <3> QED
        BY <1>12, <2>1, <3>1, <3>2
    <2>2. ASSUME i \in Starts(b), i + CodeLength(b, i) - 1 <= m PROVE i \in Starts(a)
      <3>1. CASE Video!Long(b, i)
        BY <1>9, <1>12, <1>19, <2>2, <3>1
      <3>2. CASE Video!Short(b, i) /\ ~ (i > 1 /\ b[i - 1] = 0)
        <4>1. i <= m /\ i + 2 <= m
          BY <1>20, <2>2, <3>2
        <4> QED
          BY <1>10, <1>11, <1>12, <3>2, <4>1
      <3> QED
        BY <1>13, <2>2, <3>1, <3>2
    <2> QED
      BY <2>1, <2>2
  <1>22. ASSUME i \in Starts(a)
         PROVE  /\ CodeLength(a, i) = CodeLength(b, i) /\ (Video!Short(a, i) <=> Video!Short(b, i))
                /\ CodeLength(b, i) \in {3, 4}
    <2>1. CASE Video!Long(a, i)
      <3>1. Video!Long(b, i)
        BY <1>9, <1>14, <2>1
      <3> QED
        BY <1>15, <1>16, <1>17, <2>1, <3>1
    <2>2. CASE Video!Short(a, i)
      <3>1. Video!Short(b, i)
        BY <1>10, <1>14, <2>2
      <3> QED
        BY <1>16, <1>17, <2>2, <3>1
    <2> QED
      BY <1>12, <1>22, <2>1, <2>2
  <1>23. ASSUME i \in Starts(a)
         PROVE  Video!NalType(a, i) = IF i + CodeLength(b, i) <= m THEN Video!NalType(b, i) ELSE 0
    <2>1. PICK h \in Nat : h = i + CodeLength(b, i)
      BY <1>22, <1>23
    <2>2. /\ Video!NalType(a, i) = IF h <= m THEN a[h] % 32 ELSE 0
          /\ Video!NalType(b, i) = IF h <= n THEN b[h] % 32 ELSE 0
      BY <1>2, <1>3, <1>22, <1>23, <2>1 DEF Video!NalType, Video!Header, CodeLength
    <2>3. CASE h <= m
      <3>1. h \in 1..m /\ h <= n
        BY <1>4, <1>22, <1>23, <2>1, <2>3
      <3>2. b[h] = a[h]
        BY <1>4, <3>1
      <3> QED
        BY <2>1, <2>2, <2>3, <3>1, <3>2
    <2>4. CASE ~ (h <= m)
      BY <2>1, <2>2, <2>4
    <2> QED
      BY <2>3, <2>4
  <1> QED
    BY <1>2, <1>21, <1>22, <1>23


-----------------------------------------------------------------------------
(* Where a buffer is cut                                                     *)

LEMMA StartCodesList ==
  ASSUME NEW s \in Seq(Nat)
  PROVE  Lists(Video!StartCodes(s), Starts(s))
  <1>1. PICK n \in Nat : n = Len(s)
    OBVIOUS
  <1>2. Lists(Video!Ascending(n, Starts(s)), Starts(s) \cap (1..n))
    BY <1>1, AscendingLists
  <1>3. Starts(s) \cap (1..n) = Starts(s)
    BY <1>1 DEF Starts
  <1> QED
    BY <1>1, <1>2, <1>3 DEF Video!StartCodes, Starts

NalKinds(s) == [i \in Nals(s) |-> Video!NalType(s, i)]

\* Where the units of s begin, also the one that may go on.
Opening(s) == {i \in Nals(s) : (\A j \in Nals(s) : i <= j) \/ Video!Boundary(NalKinds(s), i)}

\* A NAL between two others of which the first is a slice.
SliceBefore(s, i) ==
    \E k \in Nals(s) : /\ k < i /\ Video!IsVcl(Video!NalType(s, k))
                       /\ \A l \in Nals(s) : k < l /\ l < i => ~ Video!Opens(Video!NalType(s, l))

LEMMA OpeningAt ==
  ASSUME NEW s, NEW i
  PROVE  i \in Opening(s) <=>
           /\ i \in Nals(s)
           /\ \/ \A j \in Nals(s) : i <= j
              \/ Video!Opens(Video!NalType(s, i))
              \/ Video!IsVcl(Video!NalType(s, i)) /\ SliceBefore(s, i)
  <1>1. DOMAIN NalKinds(s) = Nals(s) /\ \A k \in Nals(s) : NalKinds(s)[k] = Video!NalType(s, k)
    BY DEF NalKinds
  <1>2. ASSUME i \in Nals(s)
        PROVE  Video!Boundary(NalKinds(s), i) <=>
                 \/ Video!Opens(Video!NalType(s, i))
                 \/ Video!IsVcl(Video!NalType(s, i)) /\ SliceBefore(s, i)
    BY <1>1, <1>2 DEF Video!Boundary, SliceBefore
  <1> QED
    BY <1>2 DEF Opening

\* All of q but its last are the NALs of s, the first of them first.
AllButLast(s, q) ==
    /\ Len(q) \in Nat
    /\ Nals(s) = {q[j] : j \in 1..(Len(q) - 1)}
    /\ Len(q) < 2 <=> Nals(s) = {}
    /\ Len(q) >= 2 => \A i \in Nals(s) : (i = q[1]) <=> \A j \in Nals(s) : i <= j

LEMMA NalsListed ==
  ASSUME NEW s \in Seq(Nat), NEW q, q = Video!StartCodes(s)
  PROVE  AllButLast(s, q)
  <1>1. Lists(q, Starts(s))
    BY StartCodesList
  <1>2. PICK n \in Nat : n = Len(q)
    BY <1>1 DEF Lists
  <1>3. /\ \A j \in 1..n : q[j] \in Starts(s) /\ q[j] \in Nat
        /\ \A i, j \in 1..n : i < j => q[i] < q[j]
        /\ \A x \in Starts(s) : \E j \in 1..n : q[j] = x
    BY <1>1, <1>2 DEF Lists
  <1>4. ASSUME NEW x \in Nals(s) PROVE \E j \in 1..(n - 1) : q[j] = x
    <2>1. PICK y \in Starts(s) : x \in Starts(s) /\ x < y
      BY DEF Nals
    <2>2. PICK j \in 1..n : q[j] = x
      BY <1>3, <2>1
    <2>3. PICK k \in 1..n : q[k] = y
      BY <1>3, <2>1
    <2>4. j # n
      <3> SUFFICES ASSUME j = n PROVE FALSE
        OBVIOUS
      <3>1. k = n \/ k < n
        BY <2>3
      <3>2. k = n => FALSE
        BY <1>3, <2>1, <2>2, <2>3
      <3>3. k < n => q[k] < q[n]
        BY <1>3
      <3> QED
        BY <1>3, <2>1, <2>2, <2>3, <3>1, <3>2, <3>3
    <2>5. j \in 1..(n - 1)
      BY <2>2, <2>4
    <2> QED
      BY <2>2, <2>5
  <1>5. ASSUME NEW j \in 1..(n - 1) PROVE q[j] \in Nals(s)
    <2>1. j \in 1..n /\ n \in 1..n /\ j < n
      OBVIOUS
    <2>2. q[j] < q[n] /\ q[j] \in Starts(s) /\ q[n] \in Starts(s)
      BY <1>3, <2>1
    <2> QED
      BY <2>2 DEF Nals
  <1>6. Nals(s) = {q[j] : j \in 1..(n - 1)}
    BY <1>4, <1>5
  <1>7. n < 2 <=> Nals(s) = {}
    <2>1. n >= 2 => 1 \in 1..(n - 1)
      OBVIOUS
    <2>2. n < 2 => 1..(n - 1) = {}
      OBVIOUS
    <2> QED
      BY <1>4, <1>5, <2>1, <2>2
  <1>8. ASSUME n >= 2, NEW i \in Nals(s) PROVE (i = q[1]) <=> \A j \in Nals(s) : i <= j
    <2>1. 1 \in 1..(n - 1) /\ 1 \in 1..n
      BY <1>8
    <2>2. \A j \in Nals(s) : q[1] <= j
      <3> TAKE j \in Nals(s)
      <3>1. PICK k \in 1..(n - 1) : q[k] = j
        BY <1>4
      <3>2. k \in 1..n /\ (k = 1 \/ 1 < k)
        OBVIOUS
      <3> QED
        BY <1>3, <2>1, <3>1, <3>2
    <2>3. q[1] \in Nals(s) /\ q[1] \in Nat
      BY <1>3, <1>5, <2>1
    <2>4. i \in Nat
      BY <1>4, <1>3
    <2> QED
      BY <2>2, <2>3, <2>4
  <1> QED
    BY <1>2, <1>6, <1>7, <1>8 DEF AllButLast

LEMMA CutsList ==
  ASSUME NEW s \in Seq(Nat), Nals(s) # {}
  PROVE  Lists(Video!Cuts(s, Video!StartCodes(s)), Opening(s))
  <1>1. PICK q : q = Video!StartCodes(s)
    OBVIOUS
  <1>2. /\ Len(q) \in Nat /\ Len(q) >= 2
        /\ Nals(s) = {q[j] : j \in 1..(Len(q) - 1)}
        /\ \A i \in Nals(s) : (i = q[1]) <=> \A j \in Nals(s) : i <= j
    <2>1. AllButLast(s, q)
      BY <1>1, NalsListed
    <2>2. Len(q) \in Nat /\ Nals(s) = {q[j] : j \in 1..(Len(q) - 1)}
      BY <2>1 DEF AllButLast
    <2>3. ~ (Len(q) < 2)
      BY <2>1 DEF AllButLast
    <2>4. Len(q) >= 2
      BY <2>2, <2>3
    <2>5. \A i \in Nals(s) : (i = q[1]) <=> \A j \in Nals(s) : i <= j
      BY <2>1, <2>4 DEF AllButLast
    <2> QED
      BY <2>2, <2>4, <2>5
  <1>3. PICK n \in Nat : n = Len(s)
    OBVIOUS
  <1>4. NalKinds(s) = [i \in {q[j] : j \in 1..(Len(q) - 1)} |-> Video!NalType(s, i)]
    BY <1>2 DEF NalKinds
  <1>5. Opening(s) = {i \in DOMAIN NalKinds(s) : i = q[1] \/ Video!Boundary(NalKinds(s), i)}
    <2>1. DOMAIN NalKinds(s) = Nals(s)
      BY DEF NalKinds
    <2> QED
      BY <1>2, <2>1 DEF Opening
  <1>6. Video!Cuts(s, q) = Video!Ascending(n, Opening(s))
    BY <1>3, <1>4, <1>5 DEF Video!Cuts
  <1>7. Opening(s) \cap (1..n) = Opening(s)
    BY <1>3 DEF Opening, Nals, Starts
  <1> QED
    BY <1>1, <1>6, <1>7, AscendingLists

\* The units between the cuts c of s.
UnitsAt(s, c) == [i \in 1..(Len(c) - 1) |-> Video!Unit(SubSeq(s, c[i], c[i + 1] - 1))]

Pushed(s) == Video!PushBytes(<<>>, s)

\* p is s split at the cuts c.
SplitAt(p, s, c) ==
    /\ p.units = UnitsAt(s, c)
    /\ p.buf = TailAt(s, c[Len(c)])

LEMMA PushedIs ==
  ASSUME NEW s \in Seq(Nat)
  PROVE  /\ Nals(s) = {} => Pushed(s).units = <<>> /\ Pushed(s).buf = s
         /\ \A c : Nals(s) # {} /\ Lists(c, Opening(s)) =>
              SplitAt(Pushed(s), s, c)
         /\ \A b, x \in Seq(Nat) : s = b \o x => Video!PushBytes(b, x) = Pushed(s)
  <1>1. <<>> \o s = s
    <2>1. PICK e \in Seq(Nat) : e = <<>> /\ Len(e) = 0
      BY NoPlaces
    <2> QED
      BY <2>1
  <1>2. PICK q : q = Video!StartCodes(s)
    OBVIOUS
  <1>3. Len(q) < 2 <=> Nals(s) = {}
    BY <1>2, NalsListed DEF AllButLast
  <1>4. PICK d : d = Video!Cuts(s, q)
    OBVIOUS
  <1>5. /\ Len(q) < 2 => Pushed(s).units = <<>> /\ Pushed(s).buf = s
        /\ ~ (Len(q) < 2) => SplitAt(Pushed(s), s, d)
    BY <1>1, <1>2, <1>4 DEF Pushed, Video!PushBytes, UnitsAt, TailAt, SplitAt
  <1>6. ASSUME NEW c, Nals(s) # {}, Lists(c, Opening(s)) PROVE c = d
    BY <1>2, <1>4, <1>6, CutsList, OneList
  <1>7. \A b, x \in Seq(Nat) : s = b \o x => Video!PushBytes(b, x) = Pushed(s)
    BY <1>1 DEF Pushed, Video!PushBytes
  <1> QED
    BY <1>3, <1>5, <1>6, <1>7

LEMMA TailIs ==
  ASSUME NEW t \in Seq(Nat), NEW c \in Nat \ {0}, c <= Len(t), NEW u, u = TailAt(t, c),
         NEW n, n = Len(t)
  PROVE  IsPart(u, t, c, n)
  <1>1. c <= n + 1 /\ n <= Len(t) /\ n \in Nat
    OBVIOUS
  <1>2. u = SubSeq(t, c, n)
    BY DEF TailAt
  <1> QED
    BY <1>1, <1>2, PartOf

\* Where the place k of what begins at c is.
Place(c, k) == c + k - 1

\* u has the start code at k that t has at p.
SameStart(u, k, t, p) ==
    /\ k \in Starts(u) <=> p \in Starts(t)
    /\ k \in Starts(u) => /\ CodeLength(u, k) = CodeLength(t, p)
                          /\ Video!NalType(u, k) = Video!NalType(t, p)

\* What follows a start code, looked at on its own, has the same start codes.
LEMMA TailStarts ==
  ASSUME NEW s \in Seq(Nat), NEW c \in Starts(s), NEW u, u = TailAt(s, c),
         NEW k \in Nat \ {0}, NEW p, p = Place(c, k)
  PROVE  SameStart(u, k, s, p)
  <1>1. PICK n \in Nat : n = Len(s)
    OBVIOUS
  <1>2. c \in 1..n
    BY <1>1 DEF Starts
  <1>3. /\ u \in Seq(Nat) /\ Len(u) = n - c + 1
        /\ \A j \in 1..(n - c + 1) : u[j] = s[c + j - 1]
    <2>1. c \in Nat \ {0} /\ c <= Len(s)
      BY <1>1, <1>2
    <2>2. IsPart(u, s, c, n)
      BY <1>1, <2>1, TailIs
    <2> QED
      BY <2>2 DEF IsPart
  <1>4. PICK m \in Nat : m = n - c + 1
    BY <1>2
  <1>5. u \in Seq(Nat) /\ Len(u) = m
    BY <1>3, <1>4
  <1>6. p = c + k - 1
    BY DEF Place
  <1>7. p \in Nat \ {0}
    BY <1>2, <1>6
  <1>8. ASSUME NEW i \in 0..4, k + i <= m PROVE u[k + i] = s[p + i]
    <2>1. PICK j \in 1..m : j = k + i
      BY <1>8
    <2>2. u[j] = s[c + j - 1]
      BY <1>3, <1>4
    <2>3. c + j - 1 = p + i
      BY <1>2, <1>6, <2>1
    <2> QED
      BY <2>1, <2>2, <2>3
  <1>9. \A i \in 0..4 : (k + i <= m) <=> (p + i <= n)
    BY <1>2, <1>4, <1>6
  <1>10. /\ k + 0 = k /\ p + 0 = p /\ \A i \in 0..4 : k + i <= m => u[k + i] = s[p + i]
        /\ 0 \in 0..4 /\ 1 \in 0..4 /\ 2 \in 0..4 /\ 3 \in 0..4 /\ 4 \in 0..4
    <2>1. k + 0 = k /\ p + 0 = p
      BY <1>7
    <2>2. \A i \in 0..4 : k + i <= m => u[k + i] = s[p + i]
      BY <1>8
    <2>3. 0 \in 0..4 /\ 1 \in 0..4 /\ 2 \in 0..4 /\ 3 \in 0..4 /\ 4 \in 0..4
      OBVIOUS
    <2> QED
      BY <2>1, <2>2, <2>3, Zenon
  <1>11. Video!Long(u, k) <=> Video!Long(s, p)
    <2>1. Video!Long(u, k) <=> k + 3 <= m /\ u[k] = 0 /\ u[k + 1] = 0 /\ u[k + 2] = 0 /\ u[k + 3] = 1
      BY <1>5, LongAt
    <2>2. Video!Long(s, p) <=> p + 3 <= n /\ s[p] = 0 /\ s[p + 1] = 0 /\ s[p + 2] = 0 /\ s[p + 3] = 1
      BY <1>1, <1>7, LongAt
    <2>3. k + 3 <= m => k <= m /\ k + 1 <= m /\ k + 2 <= m
      BY <1>4
    <2>4. k + 3 <= m => u[k] = s[p] /\ u[k + 1] = s[p + 1] /\ u[k + 2] = s[p + 2] /\ u[k + 3] = s[p + 3]
      BY <1>10, <2>3
    <2>5. k + 3 <= m <=> p + 3 <= n
      BY <1>9
    <2> QED
      BY <2>1, <2>2, <2>4, <2>5
  <1>12. Video!Short(u, k) <=> Video!Short(s, p)
    <2>1. Video!Short(u, k) <=> k + 2 <= m /\ u[k] = 0 /\ u[k + 1] = 0 /\ u[k + 2] = 1
      BY <1>5, ShortAt
    <2>2. Video!Short(s, p) <=> p + 2 <= n /\ s[p] = 0 /\ s[p + 1] = 0 /\ s[p + 2] = 1
      BY <1>1, <1>7, ShortAt
    <2>3. k + 2 <= m => k <= m /\ k + 1 <= m
      BY <1>4
    <2>4. k + 2 <= m => u[k] = s[p] /\ u[k + 1] = s[p + 1] /\ u[k + 2] = s[p + 2]
      BY <1>10, <2>3
    <2>5. k + 2 <= m <=> p + 2 <= n
      BY <1>9
    <2> QED
      BY <2>1, <2>2, <2>4, <2>5
  <1>13. k \in Starts(u) <=> p \in Starts(s)
    <2>1. k \in Starts(u) <=> \/ Video!Long(u, k)
                              \/ Video!Short(u, k) /\ ~ (k > 1 /\ u[k - 1] = 0)
      BY <1>3, StartAt
    <2>2. p \in Starts(s) <=> \/ Video!Long(s, p)
                              \/ Video!Short(s, p) /\ ~ (p > 1 /\ s[p - 1] = 0)
      BY <1>7, StartAt
    <2>3. CASE k = 1
      <3>1. p = c
        BY <1>2, <1>6, <2>3
      <3>2. Video!Long(s, p) \/ Video!Short(s, p)
        BY <2>2, <3>1
      <3> QED
        BY <1>11, <1>12, <2>1, <2>3, <3>1, <3>2
    <2>4. CASE k # 1
      <3>2. CASE k <= m
        <4>1. PICK j \in 1..m : j = k - 1
          BY <2>4, <3>2
        <4>2. u[j] = s[c + j - 1]
          BY <1>3, <1>4
        <4>3. c + j - 1 = p - 1 /\ k > 1 /\ p > 1
          BY <1>2, <1>6, <2>4, <4>1
        <4>4. u[k - 1] = s[p - 1]
          BY <4>1, <4>2, <4>3
        <4> QED
          BY <1>11, <1>12, <2>1, <2>2, <4>3, <4>4
      <3>3. CASE ~ (k <= m)
        <4>1. ~ Video!Long(u, k) /\ ~ Video!Short(u, k)
          <5>1. ~ (k + 3 <= m) /\ ~ (k + 2 <= m)
            BY <1>4, <3>3
          <5>2. Video!Long(u, k) => k + 3 <= m
            BY <1>5, LongAt
          <5>3. Video!Short(u, k) => k + 2 <= m
            BY <1>5, ShortAt
          <5> QED
            BY <5>1, <5>2, <5>3
        <4> QED
          BY <1>11, <1>12, <2>1, <2>2, <4>1
      <3> QED
        BY <3>2, <3>3
    <2> QED
      BY <2>3, <2>4
  <1>14. CodeLength(u, k) = CodeLength(s, p)
    BY <1>12 DEF CodeLength
  <1>15. Video!NalType(u, k) = Video!NalType(s, p)
    <2>1. PICK i \in {3, 4} : i = CodeLength(s, p)
      BY DEF CodeLength
    <2>2. Video!Header(u, k) = k + i /\ Video!Header(s, p) = p + i
      BY <1>12, <2>1 DEF Video!Header, CodeLength
    <2>3. i \in 0..4
      BY <2>1
    <2>4. (k + i <= m <=> p + i <= n) /\ (k + i <= m => u[k + i] = s[p + i])
      BY <1>9, <1>10, <2>3
    <2>5. Len(u) = m
      BY <1>3, <1>4
    <2> QED
      BY <1>1, <2>2, <2>4, <2>5 DEF Video!NalType
  <1> QED
    BY <1>13, <1>14, <1>15 DEF SameStart

\* A part of the end of t is a part of t.
\* u holds from i to j what t holds from v to w.
SamePart(u, i, j, t, v, w) == SubSeq(u, i, j) = SubSeq(t, v, w)

LEMMA PartOfTail ==
  ASSUME NEW t \in Seq(Nat), NEW c \in Nat \ {0}, c <= Len(t), NEW u, u = TailAt(t, c),
         NEW i \in Nat \ {0}, NEW j \in Nat, i <= j + 1, j <= Len(u),
         NEW v, v = Place(c, i), NEW w, w = Place(c, j)
  PROVE  SamePart(u, i, j, t, v, w)
  <1>1. PICK n \in Nat : n = Len(t) /\ c \in 1..n
    <2>1. PICK n \in Nat : n = Len(t)
      OBVIOUS
    <2> QED
      BY <2>1
  <1>2. /\ u \in Seq(Nat) /\ Len(u) = n - c + 1
        /\ \A k \in 1..(n - c + 1) : u[k] = t[c + k - 1]
    <2>1. IsPart(u, t, c, n)
      BY <1>1, TailIs
    <2> QED
      BY <2>1 DEF IsPart
  <1>3. c \in 1..n
    BY <1>1
  <1>4. v = c + i - 1 /\ w = c + j - 1
    BY DEF Place
  <1>5. PICK m \in Nat : m = n - c + 1
    BY <1>3
  <1>6. u \in Seq(Nat) /\ Len(u) = m /\ j <= m
    BY <1>2, <1>5
  <1>7. PICK p : p = SubSeq(u, i, j)
    OBVIOUS
  <1>8. /\ p \in Seq(Nat) /\ Len(p) = j - i + 1
        /\ \A k \in 1..(j - i + 1) : p[k] = u[i + k - 1]
    <2>1. IsPart(p, u, i, j)
      BY <1>6, <1>7, PartOf
    <2> QED
      BY <2>1 DEF IsPart
  <1>9. PICK q : q = SubSeq(t, v, w)
    OBVIOUS
  <1>10. v \in Nat \ {0} /\ w \in Nat /\ v <= w + 1 /\ w <= n
    BY <1>3, <1>4, <1>5, <1>6
  <1>11. /\ q \in Seq(Nat) /\ Len(q) = w - v + 1
         /\ \A k \in 1..(w - v + 1) : q[k] = t[v + k - 1]
    <2>1. IsPart(q, t, v, w)
      BY <1>1, <1>9, <1>10, PartOf
    <2> QED
      BY <2>1 DEF IsPart
  <1>12. PICK l \in Nat : l = j - i + 1
    OBVIOUS
  <1>13. w - v + 1 = l
    BY <1>3, <1>4, <1>12
  <1>14. ASSUME NEW k \in 1..l PROVE p[k] = q[k]
    <2>1. PICK h \in 1..m : h = i + k - 1
      BY <1>6, <1>12
    <2>2. u[h] = t[c + h - 1]
      BY <1>2, <1>5
    <2>3. c + h - 1 = v + k - 1
      BY <1>3, <1>4, <2>1
    <2>4. p[k] = u[h]
      BY <1>8, <1>12, <2>1
    <2>5. q[k] = t[v + k - 1]
      BY <1>11, <1>13
    <2> QED
      BY <2>2, <2>3, <2>4, <2>5
  <1>15. p = q
    BY <1>8, <1>11, <1>12, <1>13, <1>14, SeqEqual
  <1> QED
    BY <1>7, <1>9, <1>15 DEF SamePart

\* A part of what t begins with is a part of t.
LEMMA PartOfHead ==
  ASSUME NEW t, NEW s, Extends(t, s), NEW i \in Nat \ {0}, NEW j \in Nat, i <= j + 1, j <= Len(s)
  PROVE  SubSeq(t, i, j) = SubSeq(s, i, j)
  <1>1. s \in Seq(Nat) /\ t \in Seq(Nat)
    BY DEF Extends
  <1>2. PICK m \in Nat : m = Len(s)
    BY <1>1
  <1>3. PICK n \in Nat : n = Len(t)
    BY <1>1
  <1>4. m <= n /\ \A k \in 1..m : t[k] = s[k]
    BY <1>2, <1>3 DEF Extends
  <1>5. PICK p : p = SubSeq(s, i, j)
    OBVIOUS
  <1>6. PICK q : q = SubSeq(t, i, j)
    OBVIOUS
  <1>7. /\ p \in Seq(Nat) /\ Len(p) = j - i + 1
        /\ \A k \in 1..(j - i + 1) : p[k] = s[i + k - 1]
    <2>1. IsPart(p, s, i, j)
      BY <1>1, <1>5, PartOf
    <2> QED
      BY <2>1 DEF IsPart
  <1>8. /\ q \in Seq(Nat) /\ Len(q) = j - i + 1
        /\ \A k \in 1..(j - i + 1) : q[k] = t[i + k - 1]
    <2>1. j <= Len(t)
      BY <1>2, <1>3, <1>4
    <2>2. IsPart(q, t, i, j)
      BY <1>1, <1>6, <2>1, PartOf
    <2> QED
      BY <2>2 DEF IsPart
  <1>9. PICK l \in Nat : l = j - i + 1
    OBVIOUS
  <1>10. ASSUME NEW k \in 1..l PROVE p[k] = q[k]
    <2>1. PICK h \in 1..m : h = i + k - 1
      BY <1>2, <1>9
    <2> QED
      BY <1>4, <1>7, <1>8, <1>9, <2>1
  <1>11. p = q
    BY <1>7, <1>8, <1>9, <1>10, SeqEqual
  <1> QED
    BY <1>5, <1>6, <1>11

\* t is s with x behind it, and so is what they hold from c on.
GrowsTo(t, s, x, c, b) ==
    /\ TailAt(t, c) = b \o x
    /\ TailAt(t, c) \in Seq(Nat)
    /\ Extends(t, s)
    /\ b \in Seq(Nat)

LEMMA TailGrows ==
  ASSUME NEW s \in Seq(Nat), NEW x \in Seq(Nat), NEW t, t = s \o x,
         NEW c \in Nat \ {0}, c <= Len(s), NEW b, b = TailAt(s, c)
  PROVE  GrowsTo(t, s, x, c, b)
  <1>1. PICK m \in Nat : m = Len(s)
    OBVIOUS
  <1>2. PICK l \in Nat : l = Len(x)
    OBVIOUS
  <1>3. c \in 1..m
    BY <1>1
  <1>4. /\ t \in Seq(Nat) /\ Len(t) = m + l
        /\ \A k \in 1..m : t[k] = s[k]
        /\ \A k \in 1..l : t[m + k] = x[k]
    BY <1>1, <1>2
  <1>5. PICK n \in Nat : n = m + l
    OBVIOUS
  <1>6. PICK p : p = SubSeq(s, c, m)
    OBVIOUS
  <1>7. /\ p \in Seq(Nat) /\ Len(p) = m - c + 1
        /\ \A k \in 1..(m - c + 1) : p[k] = s[c + k - 1]
    <2>1. c \in Nat \ {0} /\ c <= m + 1 /\ m <= m
      BY <1>3
    <2>2. IsPart(p, s, c, m)
      BY <1>1, <1>6, <2>1, PartOf
    <2> QED
      BY <2>2 DEF IsPart
  <1>8. PICK q : q = SubSeq(t, c, n)
    OBVIOUS
  <1>9. /\ q \in Seq(Nat) /\ Len(q) = n - c + 1
        /\ \A k \in 1..(n - c + 1) : q[k] = t[c + k - 1]
    <2>1. c \in Nat \ {0} /\ c <= n + 1 /\ n <= n
      BY <1>3, <1>5
    <2>2. t \in Seq(Nat) /\ Len(t) = n
      BY <1>4, <1>5
    <2>3. IsPart(q, t, c, n)
      BY <1>8, <2>1, <2>2, PartOf
    <2> QED
      BY <2>3 DEF IsPart
  <1>10. PICK d \in Nat : d = m - c + 1
    BY <1>3
  <1>11. PICK r : r = p \o x
    OBVIOUS
  <1>12. /\ r \in Seq(Nat) /\ Len(r) = d + l
         /\ \A k \in 1..d : r[k] = p[k]
         /\ \A k \in 1..l : r[d + k] = x[k]
    <2>1. p \in Seq(Nat) /\ Len(p) = d
      BY <1>7, <1>10
    <2>2. x \in Seq(Nat) /\ Len(x) = l
      BY <1>2
    <2>3. IsJoin(Nat, r, p, x)
      BY <1>11, <2>1, <2>2, JoinOf
    <2> QED
      BY <2>1, <2>2, <2>3 DEF IsJoin
  <1>13. n - c + 1 = d + l
    BY <1>1, <1>5, <1>10
  <1>14. ASSUME NEW k \in 1..(d + l) PROVE r[k] = q[k]
    <2>1. q[k] = t[c + k - 1]
      BY <1>9, <1>13
    <2>2. CASE k <= d
      <3>1. PICK h \in 1..m : h = c + k - 1
        BY <1>1, <1>10, <2>2
      <3>2. p[k] = s[h] /\ r[k] = p[k]
        BY <1>7, <1>10, <1>12, <2>2, <3>1
      <3> QED
        BY <1>4, <2>1, <3>1, <3>2
    <2>3. CASE ~ (k <= d)
      <3>1. PICK h \in 1..l : h = k - d
        BY <2>3
      <3>2. d + h = k /\ m + h = c + k - 1
        BY <1>1, <1>10, <3>1
      <3>3. r[d + h] = x[h] /\ t[m + h] = x[h]
        BY <1>4, <1>12
      <3> QED
        BY <2>1, <3>2, <3>3
    <2> QED
      BY <2>2, <2>3
  <1>15. r = q
    <2>1. q \in Seq(Nat) /\ Len(q) = d + l
      BY <1>9, <1>13
    <2> QED
      BY <1>12, <1>14, <2>1, SeqEqual
  <1>16. Extends(t, s)
    BY <1>1, <1>4, <1>2 DEF Extends
  <1> QED
    BY <1>1, <1>4, <1>5, <1>6, <1>7, <1>8, <1>9, <1>11, <1>15, <1>16 DEF TailAt, GrowsTo

-----------------------------------------------------------------------------
(* What arrives later changes no NAL that is complete, and a unit that began *)
(* is cut again where it was                                                 *)

LEMMA NalsExtend ==
  ASSUME NEW t, NEW s, Extends(t, s), NEW i \in Nals(s)
  PROVE  /\ i \in Nals(t) /\ i \in Nat \ {0}
         /\ Video!NalType(s, i) = Video!NalType(t, i)
         /\ CodeLength(s, i) = CodeLength(t, i)
         /\ i + CodeLength(t, i) <= Len(s)
         /\ \A j \in Nals(t) : j <= i => j \in Nals(s)
  <1>1. s \in Seq(Nat) /\ t \in Seq(Nat)
    BY DEF Extends
  <1>2. PICK m \in Nat : m = Len(s)
    BY <1>1
  <1>3. PICK j \in Starts(s) : i \in Starts(s) /\ i < j
    BY DEF Nals
  <1>4. i \in Nat \ {0} /\ j \in Nat \ {0} /\ j <= m
    BY <1>2, <1>3 DEF Starts
  <1>5. i \in Starts(t) /\ j \in Starts(t)
    BY <1>3, <1>4, FoundInTime
  <1>6. PICK l \in {3, 4} : l = CodeLength(t, i)
    BY DEF CodeLength
  <1>7. i + l <= j
    BY <1>1, <1>3, <1>5, <1>6, Spacing
  <1>8. i + l <= m
    BY <1>4, <1>6, <1>7
  <1>9. /\ Video!NalType(s, i) = Video!NalType(t, i)
        /\ CodeLength(s, i) = CodeLength(t, i)
    <2>1. /\ CodeLength(s, i) = CodeLength(t, i)
          /\ Video!NalType(s, i) = IF i + CodeLength(t, i) <= Len(s) THEN Video!NalType(t, i) ELSE 0
      BY <1>3, <1>4, FoundInTime
    <2> QED
      BY <1>2, <1>6, <1>8, <2>1
  <1>10. i \in Nals(t)
    BY <1>3, <1>5 DEF Nals
  <1>11. ASSUME NEW k \in Nals(t), k <= i PROVE k \in Nals(s)
    <2>1. k \in Starts(t) /\ k \in Nat \ {0}
      BY DEF Nals, Starts
    <2>2. CASE k = i
      BY <2>2
    <2>3. CASE k # i
      <3>1. k < i
        BY <1>4, <1>11, <2>1, <2>3
      <3>2. PICK h \in {3, 4} : h = CodeLength(t, k)
        BY DEF CodeLength
      <3>3. k + h <= i
        BY <1>1, <1>5, <2>1, <3>1, <3>2, Spacing
      <3>4. (k + h) - 1 <= m /\ k + CodeLength(t, k) - 1 <= m
        BY <1>4, <1>6, <1>8, <2>1, <3>2, <3>3
      <3>5. k \in Starts(s)
        BY <1>2, <2>1, <3>4, FoundInTime
      <3> QED
        BY <1>3, <3>1, <3>5 DEF Nals
    <2> QED
      BY <2>2, <2>3
  <1> QED
    BY <1>2, <1>4, <1>6, <1>8, <1>9, <1>10, <1>11

LEMMA OpeningExtend ==
  ASSUME NEW t, NEW s, Extends(t, s), NEW i \in Nals(s)
  PROVE  i \in Opening(s) <=> i \in Opening(t)
  <1>1. /\ \A k \in Nals(s) : /\ k \in Nals(t) /\ k \in Nat
                              /\ Video!NalType(s, k) = Video!NalType(t, k)
        /\ \A k \in Nals(t) : k <= i => k \in Nals(s)
    BY NalsExtend
  <1>2. \A k \in Nals(t) : k \in Nat
    BY DEF Nals, Starts
  <1>3. (\A j \in Nals(s) : i <= j) <=> \A j \in Nals(t) : i <= j
    <2>1. ASSUME \A j \in Nals(s) : i <= j, NEW j \in Nals(t) PROVE i <= j
      <3> SUFFICES ASSUME ~ (i <= j) PROVE FALSE
        OBVIOUS
      <3>1. j <= i
        BY <1>1, <1>2
      <3> QED
        BY <1>1, <2>1, <3>1
    <2> QED
      BY <1>1, <2>1
  <1>4. SliceBefore(s, i) <=> SliceBefore(t, i)
    <2>1. \A k \in Nals(t) : k < i => k \in Nals(s)
      BY <1>1, <1>2
    <2> QED
      BY <1>1, <1>2, <2>1 DEF SliceBefore
  <1>5. i \in Nals(t) /\ Video!NalType(s, i) = Video!NalType(t, i)
    BY <1>1
  <1> QED
    BY <1>3, <1>4, <1>5, OpeningAt

\* u has the NAL at k that t has at p.
SameNal(u, k, t, p) ==
    /\ k \in Nals(u) <=> p \in Nals(t)
    /\ k \in Nals(u) => Video!NalType(u, k) = Video!NalType(t, p)

LEMMA NalsTail ==
  ASSUME NEW t \in Seq(Nat), NEW c \in Starts(t), NEW u, u = TailAt(t, c),
         NEW k \in Nat \ {0}, NEW p, p = Place(c, k)
  PROVE  SameNal(u, k, t, p)
  <1>1. c \in Nat \ {0}
    BY DEF Starts
  <1>2. SameStart(u, k, t, p)
    BY TailStarts
  <1>3. ASSUME NEW j \in Starts(u), k < j PROVE \E q \in Starts(t) : p < q
    <2>1. j \in Nat \ {0}
      BY DEF Starts
    <2>2. PICK q \in Nat : q = Place(c, j)
      BY <1>1, <2>1 DEF Place
    <2>3. SameStart(u, j, t, q)
      BY <2>1, <2>2, TailStarts
    <2>4. q \in Starts(t)
      BY <2>3 DEF SameStart
    <2> QED
      BY <1>1, <1>3, <2>1, <2>2, <2>4 DEF Place
  <1>4. ASSUME NEW q \in Starts(t), p < q PROVE \E j \in Starts(u) : k < j
    <2>1. q \in Nat \ {0}
      BY DEF Starts
    <2>2. PICK j \in Nat \ {0} : q = Place(c, j) /\ k < j
      <3>1. q - c + 1 \in Nat \ {0} /\ k < q - c + 1
        BY <1>1, <1>4, <2>1 DEF Place
      <3> QED
        BY <1>1, <2>1, <3>1 DEF Place
    <2>3. SameStart(u, j, t, q)
      BY <2>2, TailStarts
    <2> QED
      BY <2>2, <2>3 DEF SameStart
  <1> QED
    BY <1>2, <1>3, <1>4 DEF Nals, SameStart, SameNal

\* From the beginning of a unit on, the units begin where they begin in t.
LEMMA OpeningTail ==
  ASSUME NEW t \in Seq(Nat), NEW c \in Opening(t), NEW u, u = TailAt(t, c),
         NEW k \in Nat \ {0}, NEW p, p = Place(c, k)
  PROVE  k \in Opening(u) <=> p \in Opening(t)
  <1>1. c \in Nals(t) /\ c \in Starts(t) /\ c \in Nat \ {0}
    BY OpeningAt DEF Nals, Starts
  <1>2. \A j \in Nat \ {0} : SameNal(u, j, t, Place(c, j))
    BY <1>1, NalsTail
  <1>3. /\ \A j \in Nals(u) : j \in Nat \ {0}
        /\ \A q \in Nals(t) : q \in Nat \ {0}
    BY DEF Nals, Starts
  <1>4. ASSUME NEW q \in Nals(t), c <= q PROVE \E j \in Nals(u) : q = Place(c, j)
    <2>1. PICK j \in Nat \ {0} : q = Place(c, j)
      <3>1. q - c + 1 \in Nat \ {0} /\ q = c + (q - c + 1) - 1
        BY <1>1, <1>3, <1>4
      <3> QED
        BY <3>1 DEF Place
    <2> QED
      BY <1>2, <2>1 DEF SameNal
  <1>5. 1 \in Nals(u) /\ Place(c, 1) = c
    <2>1. Place(c, 1) = c /\ 1 \in Nat \ {0}
      BY <1>1 DEF Place
    <2> QED
      BY <1>1, <1>2, <2>1 DEF SameNal
  <1>6. CASE k = 1
    <2>1. \A j \in Nals(u) : k <= j
      BY <1>3, <1>6
    <2>2. k \in Opening(u)
      BY <1>5, <1>6, <2>1, OpeningAt
    <2> QED
      BY <1>5, <1>6, <2>2
  <1>7. CASE k # 1
    <2>1. p > c /\ p \in Nat \ {0} /\ k > 1
      BY <1>1, <1>7 DEF Place
    <2>2. ~ (\A j \in Nals(u) : k <= j) /\ ~ (\A j \in Nals(t) : p <= j)
      BY <1>1, <1>5, <2>1
    <2>3. /\ k \in Nals(u) <=> p \in Nals(t)
          /\ k \in Nals(u) => Video!NalType(u, k) = Video!NalType(t, p)
      BY <1>2 DEF SameNal
    <2>4. \A i, j \in Nat \ {0} : i < j <=> Place(c, i) < Place(c, j)
      BY <1>1 DEF Place
    <2>5. \A j \in Nat \ {0} : Place(c, j) \in Nat \ {0} /\ c <= Place(c, j)
      BY <1>1 DEF Place
    <2>6. ASSUME SliceBefore(u, k) PROVE SliceBefore(t, p)
      <3>1. PICK j \in Nals(u) : /\ j < k /\ Video!IsVcl(Video!NalType(u, j))
                                 /\ \A l \in Nals(u) : j < l /\ l < k => ~ Video!Opens(Video!NalType(u, l))
        BY <2>6 DEF SliceBefore
      <3>2. PICK q : q = Place(c, j)
        OBVIOUS
      <3>3. /\ q \in Nals(t) /\ q < p /\ Video!IsVcl(Video!NalType(t, q)) /\ c <= q
            /\ q \in Nat \ {0}
        BY <1>2, <1>3, <2>4, <2>5, <3>1, <3>2 DEF SameNal
      <3>4. ASSUME NEW l \in Nals(t), q < l, l < p PROVE ~ Video!Opens(Video!NalType(t, l))
        <4>1. c <= l
          BY <1>1, <1>3, <3>3, <3>4
        <4>2. PICK h \in Nals(u) : l = Place(c, h)
          BY <1>4, <4>1
        <4>3. j < h /\ h < k
          BY <1>3, <2>4, <3>1, <3>2, <3>4, <4>2
        <4>4. ~ Video!Opens(Video!NalType(u, h))
          BY <3>1, <4>3
        <4> QED
          BY <1>2, <1>3, <4>2, <4>4 DEF SameNal
      <3> QED
        BY <3>3, <3>4 DEF SliceBefore
    <2>7. ASSUME SliceBefore(t, p) PROVE SliceBefore(u, k)
      <3>1. PICK q \in Nals(t) : /\ q < p /\ Video!IsVcl(Video!NalType(t, q))
                                 /\ \A l \in Nals(t) : q < l /\ l < p => ~ Video!Opens(Video!NalType(t, l))
        BY <2>7 DEF SliceBefore
      <3>2. PICK r \in Nals(t) : q <= r /\ c <= r /\ r < p /\ Video!IsVcl(Video!NalType(t, r))
        <4>1. CASE c <= q
          BY <1>3, <3>1, <4>1
        <4>2. CASE ~ (c <= q)
          <5>1. q < c
            BY <1>1, <1>3, <4>2
          <5>2. ~ (\A j \in Nals(t) : c <= j)
            BY <4>2
          <5>3. ~ Video!Opens(Video!NalType(t, c))
            BY <1>1, <2>1, <3>1, <5>1
          <5>4. Video!IsVcl(Video!NalType(t, c))
            BY <5>2, <5>3, OpeningAt
          <5> QED
            BY <1>1, <1>3, <2>1, <5>1, <5>4
        <4> QED
          BY <4>1, <4>2
      <3>3. PICK j \in Nals(u) : r = Place(c, j)
        BY <1>4, <3>2
      <3>4. j < k /\ Video!IsVcl(Video!NalType(u, j))
        <4>1. j \in Nat \ {0}
          BY <1>3
        <4>2. j < k
          BY <2>4, <3>2, <3>3, <4>1
        <4>3. Video!NalType(u, j) = Video!NalType(t, r)
          BY <1>2, <3>3, <4>1 DEF SameNal
        <4> QED
          BY <3>2, <4>2, <4>3
      <3>5. ASSUME NEW l \in Nals(u), j < l, l < k PROVE ~ Video!Opens(Video!NalType(u, l))
        <4>1. PICK h : h = Place(c, l)
          OBVIOUS
        <4>2. l \in Nat \ {0} /\ j \in Nat \ {0}
          BY <1>3
        <4>3. h \in Nals(t) /\ Video!NalType(u, l) = Video!NalType(t, h)
          BY <1>2, <4>1, <4>2 DEF SameNal
        <4>4. r < h /\ h < p
          BY <2>4, <3>3, <3>5, <4>1, <4>2
        <4>5. q < h
          BY <1>3, <3>2, <4>3, <4>4
        <4> QED
          BY <3>1, <4>3, <4>4, <4>5
      <3> QED
        BY <3>4, <3>5 DEF SliceBefore
    <2> QED
      BY <2>2, <2>3, <2>6, <2>7, OpeningAt
  <1> QED
    BY <1>6, <1>7

LEMMA SomeOpening ==
  ASSUME NEW s \in Seq(Nat), Nals(s) # {}
  PROVE  /\ \E a : Lists(a, Opening(s))
         /\ \E i \in Opening(s) : \A j \in Nals(s) : i <= j
         /\ Opening(s) \subseteq Nals(s) /\ Nals(s) \subseteq Nat \ {0}
  <1>1. Nals(s) \subseteq Nat \ {0}
    BY DEF Nals, Starts
  <1>2. PICK i \in Nals(s) : \A j \in Nals(s) : i <= j
    <2>1. Nals(s) \subseteq Nat
      BY <1>1
    <2> QED
      BY <2>1, LeastMember
  <1>3. i \in Opening(s)
    BY <1>2, OpeningAt
  <1> QED
    BY <1>1, <1>2, <1>3, CutsList DEF Opening

\* The last of a list is the greatest.
LEMMA EndOfList ==
  ASSUME NEW B, B # {}, NEW a, Lists(a, B), NEW n, n = Len(a)
  PROVE  /\ n \in Nat \ {0} /\ a[n] \in B /\ a[n] \in Nat
         /\ \A x \in B : x <= a[n]
         /\ \A i \in 1..n : a[i] \in B /\ a[i] \in Nat /\ a[i] <= a[n] /\ (i < n => a[i] < a[n])
  <1>1. PICK m \in Nat : m = Len(a) /\ m = n
    BY DEF Lists
  <1>2. /\ \A j \in 1..m : a[j] \in B /\ a[j] \in Nat
        /\ \A i, j \in 1..m : i < j => a[i] < a[j]
        /\ \A x \in B : \E j \in 1..m : a[j] = x
    BY <1>1 DEF Lists
  <1>3. m # 0
    <2> SUFFICES ASSUME m = 0 PROVE FALSE
      OBVIOUS
    <2>1. PICK x : x \in B
      OBVIOUS
    <2>2. PICK j \in 1..m : a[j] = x
      BY <1>2, <2>1
    <2> QED
      BY <2>2
  <1>4. m \in 1..m /\ \A i \in 1..m : i = m \/ i < m
    BY <1>3
  <1>5. \A i \in 1..m : a[i] <= a[m] /\ (i < m => a[i] < a[m])
    BY <1>2, <1>4
  <1>6. \A x \in B : x <= a[m]
    BY <1>2, <1>5
  <1> QED
    BY <1>1, <1>2, <1>3, <1>4, <1>5, <1>6

\* The list of the cuts of t: those of s, and those of what began at the last of them.
CutsAfter(a, d) ==
    [j \in 1..(Len(a) + Len(d) - 1) |->
        IF j < Len(a) THEN a[j] ELSE Place(a[Len(a)], d[j - Len(a) + 1])]

EndsIn(a, c) == c = a[Len(a)]

LEMMA CutsAgain ==
  ASSUME NEW t, NEW s, Extends(t, s), Nals(s) # {}, NEW a, Lists(a, Opening(s)),
         NEW c, EndsIn(a, c), NEW u, u = TailAt(t, c), NEW d, Lists(d, Opening(u))
  PROVE  /\ Lists(CutsAfter(a, d), Opening(t))
         /\ Nals(t) # {} /\ Nals(u) # {} /\ d[1] = 1
         /\ c \in Opening(t)
  <1>0. s \in Seq(Nat) /\ t \in Seq(Nat)
    BY DEF Extends
  <1>1. PICK n \in Nat \ {0} : n = Len(a)
    <2>1. Opening(s) # {}
      BY <1>0, SomeOpening
    <2> QED
      BY <2>1, EndOfList
  <1>2. /\ c \in Opening(s) /\ c \in Nat /\ c = a[n]
        /\ \A x \in Opening(s) : x <= c
        /\ \A i \in 1..n : a[i] \in Opening(s) /\ a[i] \in Nat /\ a[i] <= c /\ (i < n => a[i] < c)
    <2>1. Opening(s) # {}
      BY <1>0, SomeOpening
    <2> QED
      BY <1>1, <2>1, EndOfList DEF EndsIn
  <1>3. c \in Nals(s) /\ c \in Nals(t) /\ c \in Opening(t) /\ c \in Nat \ {0}
    BY <1>2, OpeningExtend, NalsExtend DEF Opening
  <1>4. \A k \in Nat \ {0} : k \in Opening(u) <=> Place(c, k) \in Opening(t)
    BY <1>0, <1>3, OpeningTail
  <1>5. 1 \in Opening(u)
    <2>1. Place(c, 1) = c /\ 1 \in Nat \ {0}
      BY <1>3 DEF Place
    <2> QED
      BY <1>3, <1>4, <2>1
  <1>6. Nals(u) # {} /\ Opening(u) # {} /\ Opening(u) \subseteq Nat \ {0}
    <2>1. Opening(u) \subseteq Nals(u)
      BY DEF Opening
    <2>2. Nals(u) # {}
      BY <1>5, <2>1
    <2>3. PICK l \in Nat : l = Len(t)
      BY <1>0
    <2>4. c <= Len(t)
      BY <1>3, <2>3 DEF Nals, Starts
    <2>5. IsPart(u, t, c, l)
      BY <1>0, <1>3, <2>3, <2>4, TailIs
    <2>6. u \in Seq(Nat)
      BY <2>5 DEF IsPart
    <2> QED
      BY <1>5, <2>1, <2>2, <2>6, SomeOpening
  <1>7. PICK m \in Nat \ {0} : m = Len(d)
    BY <1>6, EndOfList
  <1>8. /\ \A j \in 1..m : d[j] \in Opening(u) /\ d[j] \in Nat \ {0}
        /\ \A i, j \in 1..m : i < j => d[i] < d[j]
        /\ \A x \in Opening(u) : \E j \in 1..m : d[j] = x
    BY <1>6, <1>7 DEF Lists
  <1>9. d[1] = 1
    <2>1. PICK j \in 1..m : d[j] = 1
      BY <1>5, <1>8
    <2>2. j = 1
      <3> SUFFICES ASSUME j # 1 PROVE FALSE
        OBVIOUS
      <3>1. 1 \in 1..m /\ 1 < j
        BY <1>7
      <3>2. d[1] < d[j] /\ d[1] \in Nat \ {0}
        BY <1>8, <3>1
      <3> QED
        BY <2>1, <3>2
    <2> QED
      BY <2>1, <2>2
  <1>10. /\ \A j \in 1..n : a[j] \in Opening(s) /\ a[j] \in Nat
         /\ \A i, j \in 1..n : i < j => a[i] < a[j]
         /\ \A x \in Opening(s) : \E j \in 1..n : a[j] = x
    BY <1>1 DEF Lists
  <1>11. PICK l \in Nat : l = n + m - 1
    <2>1. n \in Nat \ {0} /\ m \in Nat \ {0}
      BY <1>1, <1>7
    <2>2. n + m - 1 \in Nat
      BY <2>1
    <2> QED
      BY <2>2
  <1>12. PICK e : e = CutsAfter(a, d)
    OBVIOUS
  <1>13. /\ e = [j \in 1..l |-> IF j < n THEN a[j] ELSE Place(c, d[j - n + 1])]
    BY <1>1, <1>2, <1>7, <1>11, <1>12 DEF CutsAfter, EndsIn
  <1>14. /\ \A j \in 1..l : j < n => e[j] = a[j]
         /\ \A j \in 1..l : ~ (j < n) => e[j] = Place(c, d[j - n + 1])
    BY <1>13
  <1>15. \A i \in Nat \ {0} : Place(c, i) \in Nat /\ c <= Place(c, i)
    BY <1>3 DEF Place
  <1>16. \A i, j \in Nat \ {0} : i < j => Place(c, i) < Place(c, j)
    BY <1>3 DEF Place
  <1>17. ASSUME NEW j \in 1..l PROVE e[j] \in Opening(t) /\ e[j] \in Nat
    <2>1. CASE j < n
      <3>1. j \in 1..n
        BY <2>1
      <3>2. a[j] \in Opening(s) /\ a[j] \in Nals(s)
        BY <1>2, <3>1 DEF Opening
      <3> QED
        BY <1>2, <1>14, <2>1, <3>1, <3>2, OpeningExtend
    <2>2. CASE ~ (j < n)
      <3>1. PICK h \in 1..m : h = j - n + 1
        BY <1>11, <2>2
      <3>2. d[h] \in Opening(u) /\ d[h] \in Nat \ {0} /\ e[j] = Place(c, d[h])
        BY <1>8, <1>14, <2>2, <3>1
      <3> QED
        BY <1>4, <1>15, <3>2
    <2> QED
      BY <2>1, <2>2
  <1>18. ASSUME NEW i \in 1..l, NEW j \in 1..l, i < j PROVE e[i] < e[j]
    <2>1. CASE j < n
      <3>1. i < n /\ i \in 1..n /\ j \in 1..n
        BY <1>18, <2>1
      <3> QED
        BY <1>10, <1>14, <1>18, <2>1, <3>1
    <2>2. CASE ~ (j < n)
      <3>1. PICK h \in 1..m : h = j - n + 1
        BY <1>11, <2>2
      <3>2. d[h] \in Nat \ {0} /\ e[j] = Place(c, d[h])
        BY <1>8, <1>14, <2>2, <3>1
      <3>3. CASE i < n
        <4>1. i \in 1..n
          BY <3>3
        <4>2. e[i] = a[i] /\ a[i] < c /\ a[i] \in Nat
          BY <1>2, <1>14, <3>3, <4>1
        <4>3. c <= e[j] /\ e[j] \in Nat
          BY <1>15, <3>2
        <4> QED
          BY <1>2, <4>2, <4>3
      <3>4. CASE ~ (i < n)
        <4>1. PICK g \in 1..m : g = i - n + 1
          BY <1>11, <3>4
        <4>2. d[g] \in Nat \ {0} /\ e[i] = Place(c, d[g])
          BY <1>8, <1>14, <3>4, <4>1
        <4>3. g < h
          BY <1>18, <3>1, <4>1
        <4>4. d[g] < d[h]
          BY <1>8, <4>3
        <4> QED
          BY <1>16, <3>2, <4>2, <4>4
      <3> QED
        BY <3>3, <3>4
    <2> QED
      BY <2>1, <2>2
  <1>19. ASSUME NEW x \in Opening(t) PROVE \E j \in 1..l : e[j] = x
    <2>1. x \in Nals(t) /\ x \in Nat \ {0}
      BY DEF Opening, Nals, Starts
    <2>2. CASE x < c
      <3>1. x \in Nals(s)
        <4>1. \A j \in Nals(t) : j <= c => j \in Nals(s)
          BY <1>3, NalsExtend
        <4> QED
          BY <1>3, <2>1, <2>2, <4>1
      <3>2. x \in Opening(s)
        BY <3>1, OpeningExtend
      <3>3. PICK j \in 1..n : a[j] = x
        BY <1>10, <3>2
      <3>4. j < n
        BY <1>2, <2>2, <3>3
      <3>5. j \in 1..l
        BY <1>11, <1>7, <3>4
      <3> QED
        BY <1>14, <3>3, <3>4, <3>5
    <2>3. CASE ~ (x < c)
      <3>1. PICK k \in Nat \ {0} : x = Place(c, k)
        <4>1. x - c + 1 \in Nat \ {0} /\ x = c + (x - c + 1) - 1
          BY <1>3, <2>1, <2>3
        <4> QED
          BY <4>1 DEF Place
      <3>2. k \in Opening(u)
        BY <1>4, <3>1
      <3>3. PICK h \in 1..m : d[h] = k
        BY <1>8, <3>2
      <3>4. PICK j \in 1..l : j = h + n - 1
        BY <1>11
      <3>5. ~ (j < n) /\ j - n + 1 = h
        BY <3>4
      <3> QED
        BY <1>14, <3>1, <3>3, <3>5
    <2> QED
      BY <2>2, <2>3
  <1>20. Lists(e, Opening(t))
    <2>1. e \in Seq(Nat) /\ Len(e) = l
      <3>1. PICK z \in [1..l -> Nat] : z = e
        BY <1>13, <1>17
      <3>2. z \in Seq(Nat) /\ Len(z) = l
        OBVIOUS
      <3> QED
        BY <3>1, <3>2
    <2> QED
      BY <1>17, <1>18, <1>19, <2>1 DEF Lists
  <1> QED
    BY <1>3, <1>6, <1>9, <1>12, <1>20

UnitSet == {Video!Unit(data) : data \in Seq(Nat)}

\* The unit i between the cuts a of s is p.
IsUnitAt(s, a, i, p) ==
    /\ a[i] \in Nat \ {0} /\ a[i + 1] \in Nat \ {0}
    /\ a[i] < a[i + 1] /\ a[i + 1] <= Len(s)
    /\ p = Video!Unit(SubSeq(s, a[i], a[i + 1] - 1))
    /\ p \in UnitSet

\* U are the units between the n cuts a of s.
AreUnits(U, s, a, n) ==
    /\ n \in Nat \ {0}
    /\ U \in Seq(UnitSet)
    /\ Len(U) = n - 1
    /\ \A i \in 1..(n - 1) : IsUnitAt(s, a, i, U[i])

LEMMA UnitsType ==
  ASSUME NEW s \in Seq(Nat), Nals(s) # {}, NEW a, Lists(a, Opening(s)), NEW n, n = Len(a),
         NEW U, U = UnitsAt(s, a)
  PROVE  AreUnits(U, s, a, n)
  <1>1. Opening(s) # {} /\ Opening(s) \subseteq Nals(s)
    BY SomeOpening
  <1>2. /\ n \in Nat \ {0}
        /\ \A i \in 1..n : a[i] \in Opening(s)
    BY <1>1, EndOfList
  <1>3. \A i, j \in 1..n : i < j => a[i] < a[j]
    BY DEF Lists
  <1>4. PICK l \in Nat : l = Len(s)
    OBVIOUS
  <1>5. \A i \in 1..n : a[i] \in 1..l
    BY <1>1, <1>2, <1>4 DEF Nals, Starts
  <1>6. U = [i \in 1..(n - 1) |-> Video!Unit(SubSeq(s, a[i], a[i + 1] - 1))]
    BY DEF UnitsAt
  <1>7. ASSUME NEW i \in 1..(n - 1) PROVE IsUnitAt(s, a, i, U[i])
    <2>1. i \in 1..n /\ i + 1 \in 1..n /\ i < i + 1
      BY <1>2
    <2>2. a[i] \in 1..l /\ a[i + 1] \in 1..l /\ a[i] < a[i + 1]
      BY <1>3, <1>5, <2>1
    <2>3. PICK v \in Nat \ {0} : v = a[i]
      BY <2>2
    <2>4. PICK w \in Nat : w = a[i + 1] - 1
      BY <2>2
    <2>5. v <= w + 1 /\ w <= Len(s)
      BY <1>4, <2>2, <2>3, <2>4
    <2>6. PICK p : p = SubSeq(s, v, w)
      OBVIOUS
    <2>7. IsPart(p, s, v, w)
      BY <2>5, <2>6, PartOf
    <2>8. U[i] = Video!Unit(p) /\ p \in Seq(Nat)
      BY <1>6, <2>3, <2>4, <2>6, <2>7 DEF IsPart
    <2>9. U[i] \in UnitSet
      BY <2>8 DEF UnitSet
    <2>10. U[i] = Video!Unit(SubSeq(s, a[i], a[i + 1] - 1))
      BY <1>6
    <2> QED
      BY <1>4, <2>2, <2>9, <2>10 DEF IsUnitAt
  <1>8. U \in Seq(UnitSet) /\ Len(U) = n - 1
    <2>1. PICK k \in Nat : k = n - 1
      BY <1>2
    <2>2. \A i \in 1..k : U[i] \in UnitSet
      BY <1>7, <2>1 DEF IsUnitAt
    <2>3. PICK D : D = UnitSet
      OBVIOUS
    <2>4. PICK z \in [1..k -> D] : z = U
      BY <1>6, <2>1, <2>2, <2>3
    <2>5. z \in Seq(D) /\ Len(z) = k
      OBVIOUS
    <2> QED
      BY <2>1, <2>3, <2>4, <2>5
  <1> QED
    BY <1>2, <1>7, <1>8 DEF AreUnits

LEMMA PushedType ==
  ASSUME NEW s \in Seq(Nat)
  PROVE  Pushed(s).units \in Seq(UnitSet) /\ Pushed(s).buf \in Seq(Nat)
  <1>1. CASE Nals(s) = {}
    <2>1. PICK D : D = UnitSet
      OBVIOUS
    <2>2. <<>> \in Seq(D)
      OBVIOUS
    <2> QED
      BY <1>1, <2>1, <2>2, PushedIs
  <1>2. CASE Nals(s) # {}
    <2>1. PICK a : Lists(a, Opening(s))
      BY <1>2, SomeOpening
    <2>2. PICK n : n = Len(a)
      OBVIOUS
    <2>3. Pushed(s).units = UnitsAt(s, a) /\ Pushed(s).buf = TailAt(s, a[n])
      BY <1>2, <2>1, <2>2, PushedIs DEF SplitAt
    <2>4. UnitsAt(s, a) \in Seq(UnitSet)
      BY <1>2, <2>1, <2>2, UnitsType DEF AreUnits
    <2>5. Opening(s) # {} /\ Opening(s) \subseteq Nals(s)
      BY <1>2, SomeOpening
    <2>6. a[n] \in Opening(s)
      BY <2>1, <2>2, <2>5, EndOfList
    <2>7. PICK l \in Nat : l = Len(s)
      OBVIOUS
    <2>8. PICK c \in Nat \ {0} : c = a[n] /\ c <= l
      BY <2>5, <2>6, <2>7 DEF Nals, Starts
    <2>9. c <= Len(s)
      BY <2>7, <2>8
    <2>10. PICK p : p = TailAt(s, c)
      OBVIOUS
    <2>11. IsPart(p, s, c, l)
      BY <2>7, <2>9, <2>10, TailIs
    <2> QED
      BY <2>3, <2>4, <2>7, <2>8, <2>10, <2>11 DEF IsPart
  <1> QED
    BY <1>1, <1>2

\* The cuts e make of t the units that a makes of s and d of u.
CutAgain(t, e, s, a, u, d) ==
    /\ UnitsAt(t, e) = UnitsAt(s, a) \o UnitsAt(u, d)
    /\ TailAt(t, e[Len(e)]) = TailAt(u, d[Len(d)])

LEMMA UnitsAgain ==
  ASSUME NEW t, NEW s, Extends(t, s), Nals(s) # {}, NEW a, Lists(a, Opening(s)),
         NEW c, EndsIn(a, c), NEW u, u = TailAt(t, c), NEW d, Lists(d, Opening(u)),
         NEW e, e = CutsAfter(a, d)
  PROVE  CutAgain(t, e, s, a, u, d)
  <1>0. s \in Seq(Nat) /\ t \in Seq(Nat)
    BY DEF Extends
  <1>1. /\ Lists(e, Opening(t)) /\ Nals(t) # {} /\ Nals(u) # {} /\ d[1] = 1 /\ c \in Opening(t)
    BY CutsAgain
  <1>2. PICK lt \in Nat : lt = Len(t)
    BY <1>0
  <1>3. c \in 1..lt /\ c \in Nat \ {0}
    BY <1>1, <1>2 DEF Opening, Nals, Starts
  <1>4. PICK lu \in Nat : lu = lt - c + 1
    BY <1>3
  <1>5. u \in Seq(Nat) /\ Len(u) = lu
    <2>1. c <= Len(t)
      BY <1>2, <1>3
    <2>2. IsPart(u, t, c, lt)
      BY <1>0, <1>2, <1>3, <2>1, TailIs
    <2> QED
      BY <1>4, <2>2 DEF IsPart
  <1>6. PICK U : U = UnitsAt(t, e)
    OBVIOUS
  <1>7. PICK V : V = UnitsAt(s, a)
    OBVIOUS
  <1>8. PICK W : W = UnitsAt(u, d)
    OBVIOUS
  <1>9. PICK n : n = Len(a)
    OBVIOUS
  <1>10. PICK m : m = Len(d)
    OBVIOUS
  <1>11. PICK l : l = Len(e)
    OBVIOUS
  <1>12. /\ n \in Nat \ {0} /\ V \in Seq(UnitSet) /\ Len(V) = n - 1
         /\ \A i \in 1..(n - 1) : IsUnitAt(s, a, i, V[i])
    <2>1. AreUnits(V, s, a, n)
      BY <1>0, <1>7, <1>9, UnitsType
    <2> QED
      BY <2>1 DEF AreUnits
  <1>13. /\ m \in Nat \ {0} /\ W \in Seq(UnitSet) /\ Len(W) = m - 1
         /\ \A i \in 1..(m - 1) : IsUnitAt(u, d, i, W[i])
    <2>1. AreUnits(W, u, d, m)
      BY <1>1, <1>5, <1>8, <1>10, UnitsType
    <2> QED
      BY <2>1 DEF AreUnits
  <1>14. /\ l \in Nat \ {0} /\ U \in Seq(UnitSet) /\ Len(U) = l - 1
         /\ \A i \in 1..(l - 1) : IsUnitAt(t, e, i, U[i])
    <2>1. AreUnits(U, t, e, l)
      BY <1>0, <1>1, <1>6, <1>11, UnitsType
    <2> QED
      BY <2>1 DEF AreUnits
  <1>15. e = [j \in 1..(n + m - 1) |-> IF j < n THEN a[j] ELSE Place(c, d[j - n + 1])]
    BY <1>9, <1>10 DEF CutsAfter, EndsIn
  <1>16. l = n + m - 1
    <2>1. PICK k \in Nat : k = n + m - 1
      BY <1>12, <1>13
    <2>2. DOMAIN e = 1..k
      BY <1>15, <2>1
    <2>3. e \in Seq(Nat)
      BY <1>1 DEF Lists
    <2>4. DOMAIN e = 1..l
      BY <1>11, <2>3
    <2>5. l = k
      <3>1. l \in Nat \ {0} /\ 1..l = 1..k
        BY <1>14, <2>2, <2>4
      <3>2. l \in 1..k
        BY <3>1
      <3>3. k \in 1..l
        BY <3>1, <3>2
      <3> QED
        BY <3>2, <3>3
    <2> QED
      BY <2>1, <2>5
  <1>17. \A j \in 1..l : j <= n => e[j] = a[j]
    <2> TAKE j \in 1..l
    <2> SUFFICES ASSUME j <= n PROVE e[j] = a[j]
      OBVIOUS
    <2>1. CASE j < n
      BY <1>15, <1>16, <2>1
    <2>2. CASE ~ (j < n)
      <3>1. j = n /\ j - n + 1 = 1
        BY <1>12, <2>2
      <3>2. e[j] = Place(c, d[1])
        BY <1>15, <1>16, <2>2, <3>1
      <3>3. Place(c, 1) = c
        BY <1>3 DEF Place
      <3> QED
        BY <1>1, <1>9, <3>1, <3>2, <3>3 DEF EndsIn
    <2> QED
      BY <2>1, <2>2
  <1>18. \A h \in 1..m, j \in 1..l : j = n - 1 + h => e[j] = Place(c, d[h])
    <2> TAKE h \in 1..m, j \in 1..l
    <2> SUFFICES ASSUME j = n - 1 + h PROVE e[j] = Place(c, d[h])
      OBVIOUS
    <2>1. ~ (j < n) /\ j - n + 1 = h
      BY <1>12, <1>13
    <2> QED
      BY <1>15, <1>16, <2>1
  <1>19. U = V \o W
    <2>1. PICK n1, m1 \in Nat : n1 = n - 1 /\ m1 = m - 1 /\ l - 1 = n1 + m1
      BY <1>12, <1>13, <1>16
    <2>2. PICK R : R = V \o W
      OBVIOUS
    <2>3. PICK D : D = UnitSet
      OBVIOUS
    <2>4. V \in Seq(D) /\ W \in Seq(D) /\ Len(V) = n1 /\ Len(W) = m1
      BY <1>12, <1>13, <2>1, <2>3
    <2>5. /\ R \in Seq(D) /\ Len(R) = n1 + m1
          /\ \A k \in 1..n1 : R[k] = V[k]
          /\ \A k \in 1..m1 : R[n1 + k] = W[k]
      <3>1. IsJoin(D, R, V, W)
        BY <2>2, <2>4, JoinOf
      <3> QED
        BY <2>4, <3>1 DEF IsJoin
    <2>6. ASSUME NEW i \in 1..(n1 + m1) PROVE U[i] = R[i]
      <3>1. IsUnitAt(t, e, i, U[i])
        BY <1>14, <2>1
      <3>2. i \in 1..l /\ i + 1 \in 1..l
        BY <1>14, <2>1
      <3>3. CASE i <= n1
        <4>1. i <= n /\ i + 1 <= n /\ i \in 1..n1 /\ i \in 1..(n - 1)
          BY <1>12, <2>1, <3>3
        <4>2. e[i] = a[i] /\ e[i + 1] = a[i + 1]
          BY <1>17, <3>2, <4>1
        <4>3. IsUnitAt(s, a, i, V[i])
          BY <1>12, <4>1
        <4>4. PICK v \in Nat \ {0} : v = a[i]
          BY <4>3 DEF IsUnitAt
        <4>5. PICK w \in Nat : w = a[i + 1] - 1 /\ v <= w + 1 /\ w <= Len(s)
          <5>1. PICK z \in Nat \ {0} : z = a[i + 1]
            BY <4>3 DEF IsUnitAt
          <5>2. PICK ls \in Nat : ls = Len(s)
            BY <1>0
          <5>3. v < z /\ z <= ls
            BY <4>3, <4>4, <5>1, <5>2 DEF IsUnitAt
          <5>4. z - 1 \in Nat /\ v <= (z - 1) + 1 /\ z - 1 <= ls
            BY <5>3
          <5> QED
            BY <5>1, <5>2, <5>4
        <4>6. SubSeq(t, v, w) = SubSeq(s, v, w)
          BY <4>5, PartOfHead, ZenonT(60)
        <4>7. V[i] = Video!Unit(SubSeq(s, v, w)) /\ U[i] = Video!Unit(SubSeq(t, v, w))
          BY <3>1, <4>2, <4>3, <4>4, <4>5 DEF IsUnitAt
        <4> QED
          BY <2>5, <4>1, <4>6, <4>7
      <3>4. CASE ~ (i <= n1)
        <4>1. PICK h \in 1..m1 : i = n1 + h
          <5>1. n1 \in Nat /\ m1 \in Nat
            BY <2>1
          <5>2. i - n1 \in 1..m1 /\ i = n1 + (i - n1)
            BY <3>4, <5>1
          <5> QED
            BY <5>2
        <4>2. h \in 1..m /\ h + 1 \in 1..m /\ i = n - 1 + h /\ i + 1 = n - 1 + (h + 1) /\ h \in 1..(m - 1)
          BY <1>12, <1>13, <2>1, <4>1
        <4>3. e[i] = Place(c, d[h]) /\ e[i + 1] = Place(c, d[h + 1])
          BY <1>18, <3>2, <4>2
        <4>4. IsUnitAt(u, d, h, W[h])
          BY <1>13, <4>2
        <4>5. PICK v \in Nat \ {0} : v = d[h]
          BY <4>4 DEF IsUnitAt
        <4>6. PICK z \in Nat \ {0} : z = d[h + 1]
          BY <4>4 DEF IsUnitAt
        <4>7. v < z /\ z <= lu
          BY <1>5, <4>4, <4>5, <4>6 DEF IsUnitAt
        <4>8. PICK w \in Nat : w = z - 1
          OBVIOUS
        <4>9. v <= w + 1 /\ w <= Len(u) /\ c \in Nat \ {0} /\ c <= Len(t)
          BY <1>2, <1>3, <1>5, <4>7, <4>8
        <4>10. SubSeq(u, v, w) = SubSeq(t, Place(c, v), Place(c, w))
          <5>1. PICK v1, w1 : v1 = Place(c, v) /\ w1 = Place(c, w)
            OBVIOUS
          <5>2. SamePart(u, v, w, t, v1, w1)
            BY <1>0, <4>9, <5>1, PartOfTail
          <5> QED
            BY <5>1, <5>2 DEF SamePart
        <4>11. e[i] = Place(c, v) /\ e[i + 1] - 1 = Place(c, w)
          <5>1. e[i + 1] = Place(c, z)
            BY <4>3, <4>6
          <5>2. Place(c, z) - 1 = Place(c, w)
            <6>1. PICK c1 \in Nat : c1 = c
              BY <1>3
            <6>2. PICK z1 \in Nat : z1 = z /\ w = z1 - 1
              BY <4>6, <4>8
            <6>3. PICK w1 \in Nat : w1 = w /\ w1 = z1 - 1
              BY <6>2
            <6>4. c1 + z1 - 1 - 1 = c1 + w1 - 1
              BY <6>3
            <6>5. Place(c1, z1) - 1 = Place(c1, w1)
              BY <6>4 DEF Place
            <6> QED
              BY <6>1, <6>2, <6>3, <6>5
          <5> QED
            BY <4>3, <4>5, <5>1, <5>2
        <4>12. W[h] = Video!Unit(SubSeq(u, v, w)) /\ U[i] = Video!Unit(SubSeq(t, Place(c, v), Place(c, w)))
          BY <3>1, <4>4, <4>5, <4>6, <4>8, <4>11 DEF IsUnitAt
        <4>13. R[i] = W[h]
          BY <2>5, <4>1
        <4> QED
          BY <4>10, <4>12, <4>13
      <3> QED
        BY <3>3, <3>4
    <2>7. U = R
      <3>1. U \in Seq(D) /\ Len(U) = n1 + m1
        BY <1>14, <2>1, <2>3
      <3> QED
        BY <2>5, <2>6, <3>1, SeqEqual
    <2> QED
      BY <2>2, <2>7
  <1>20. SubSeq(t, e[l], lt) = SubSeq(u, d[m], lu)
    <2>1. m \in 1..m /\ l \in 1..l /\ l = n - 1 + m
      <3>1. m \in Nat \ {0} /\ l \in Nat \ {0} /\ n \in Nat \ {0}
        BY <1>12, <1>13, <1>14
      <3> QED
        BY <1>16, <3>1
    <2>2. e[l] = Place(c, d[m])
      BY <1>18, <2>1
    <2>3. Opening(u) # {} /\ Opening(u) \subseteq Nals(u)
      BY <1>1, <1>5, SomeOpening
    <2>4. d[m] \in Opening(u)
      BY <1>10, <2>3, EndOfList
    <2>5. PICK v \in Nat \ {0} : v = d[m] /\ v <= lu
      BY <1>5, <2>3, <2>4 DEF Nals, Starts
    <2>6. v <= lu + 1 /\ lu <= Len(u) /\ c \in Nat \ {0} /\ c <= Len(t) /\ lu \in Nat
      BY <1>2, <1>3, <1>4, <1>5, <2>5
    <2>7. SubSeq(u, v, lu) = SubSeq(t, Place(c, v), Place(c, lu))
      <3>1. PICK v1, w1 : v1 = Place(c, v) /\ w1 = Place(c, lu)
        OBVIOUS
      <3>2. SamePart(u, v, lu, t, v1, w1)
        BY <1>0, <2>6, <3>1, PartOfTail
      <3> QED
        BY <3>1, <3>2 DEF SamePart
    <2>8. Place(c, lu) = lt
      <3>1. c \in Nat /\ lt \in Nat /\ lu = lt - c + 1
        BY <1>2, <1>3, <1>4
      <3>2. c + lu - 1 = lt
        BY <3>1
      <3> QED
        BY <3>2 DEF Place
    <2> QED
      BY <2>2, <2>5, <2>7, <2>8
  <1> QED
    BY <1>2, <1>5, <1>6, <1>7, <1>8, <1>10, <1>11, <1>19, <1>20 DEF CutAgain, TailAt

\* What t is split into: the units of s, then those of q, which keeps the rest.
Resumed(t, s, q) ==
    /\ Pushed(t).units = Pushed(s).units \o q.units
    /\ Pushed(t).buf = q.buf
    /\ q.units \in Seq(UnitSet)

\* Splitting what arrived, and then what arrives behind it, is splitting the whole.
LEMMA Resume ==
  ASSUME NEW s \in Seq(Nat), NEW x \in Seq(Nat), NEW t, t = s \o x,
         NEW q, q = Video!PushBytes(Pushed(s).buf, x)
  PROVE  Resumed(t, s, q)
  <1>0. t \in Seq(Nat)
    OBVIOUS
  <1>1. CASE Nals(s) = {}
    <2>1. Pushed(s).units = <<>> /\ Pushed(s).buf = s
      BY <1>1, PushedIs
    <2>2. q = Pushed(t)
      BY <1>0, <2>1, PushedIs
    <2>3. PICK D : D = UnitSet
      OBVIOUS
    <2>4. PICK w \in Seq(D) : w = q.units
      BY <1>0, <2>2, <2>3, PushedType
    <2>5. <<>> \o w = w
      OBVIOUS
    <2> QED
      BY <2>1, <2>2, <2>3, <2>4, <2>5 DEF Resumed
  <1>2. CASE Nals(s) # {}
    <2>1. PICK a : Lists(a, Opening(s))
      BY <1>2, SomeOpening
    <2>2. PICK c : EndsIn(a, c)
      BY DEF EndsIn
    <2>3. Opening(s) # {} /\ Opening(s) \subseteq Nals(s)
      BY <1>2, SomeOpening
    <2>4. c \in Opening(s)
      BY <2>1, <2>2, <2>3, EndOfList DEF EndsIn
    <2>5. c \in Nat \ {0} /\ c <= Len(s)
      BY <2>3, <2>4 DEF Nals, Starts
    <2>6. PICK b : b = TailAt(s, c)
      OBVIOUS
    <2>7. GrowsTo(t, s, x, c, b) /\ Extends(t, s)
      <3>1. GrowsTo(t, s, x, c, b)
        BY <2>5, <2>6, TailGrows
      <3> QED
        BY <3>1 DEF GrowsTo
    <2>8. PICK u : u = TailAt(t, c)
      OBVIOUS
    <2>9. u \in Seq(Nat) /\ u = b \o x /\ b \in Seq(Nat)
      BY <2>7, <2>8 DEF GrowsTo
    <2>10. Pushed(s).units = UnitsAt(s, a) /\ Pushed(s).buf = b
      BY <1>2, <2>1, <2>2, <2>6, PushedIs DEF SplitAt, EndsIn
    <2>11. q = Pushed(u)
      BY <2>9, <2>10, PushedIs
    <2>12. c \in Opening(t) /\ c \in Nals(t) /\ c \in Starts(t)
      <3>1. c \in Nals(s)
        BY <2>3, <2>4
      <3> QED
        BY <2>4, <2>7, <3>1, OpeningExtend, NalsExtend DEF Nals
    <2>13. Nals(u) # {}
      <3>1. PICK k \in Nat \ {0} : k = 1
        OBVIOUS
      <3>2. Place(c, k) = c
        BY <2>5, <3>1 DEF Place
      <3>3. SameNal(u, k, t, c)
        BY <1>0, <2>8, <2>12, <3>2, NalsTail
      <3> QED
        BY <2>12, <3>3 DEF SameNal
    <2>14. PICK d : Lists(d, Opening(u))
      BY <2>9, <2>13, SomeOpening
    <2>15. PICK e : e = CutsAfter(a, d)
      OBVIOUS
    <2>16. Lists(e, Opening(t)) /\ Nals(t) # {}
      BY <1>2, <2>1, <2>2, <2>7, <2>8, <2>14, <2>15, CutsAgain
    <2>17. CutAgain(t, e, s, a, u, d)
      BY <1>2, <2>1, <2>2, <2>7, <2>8, <2>14, <2>15, UnitsAgain
    <2>18. Pushed(t).units = UnitsAt(t, e) /\ Pushed(t).buf = TailAt(t, e[Len(e)])
      BY <1>0, <2>16, PushedIs DEF SplitAt
    <2>19. q.units = UnitsAt(u, d) /\ q.buf = TailAt(u, d[Len(d)])
      <3>1. SplitAt(Pushed(u), u, d)
        BY <2>9, <2>13, <2>14, PushedIs
      <3> QED
        BY <2>11, <3>1 DEF SplitAt
    <2>20. q.units \in Seq(UnitSet)
      BY <2>9, <2>11, PushedType
    <2> QED
      BY <2>10, <2>17, <2>18, <2>19, <2>20 DEF CutAgain, Resumed
  <1> QED
    BY <1>1, <1>2

-----------------------------------------------------------------------------
(* Every byte is in one unit or in what is kept                              *)

LEMMA FirstOfList ==
  ASSUME NEW B, NEW a, Lists(a, B), NEW x \in B, \A y \in B : x <= y, B \subseteq Nat
  PROVE  a[1] = x
  <1>1. PICK m \in Nat : m = Len(a)
    BY DEF Lists
  <1>2. /\ \A j \in 1..m : a[j] \in B /\ a[j] \in Nat
        /\ \A i, j \in 1..m : i < j => a[i] < a[j]
        /\ \A y \in B : \E j \in 1..m : a[j] = y
    BY <1>1 DEF Lists
  <1>3. PICK j \in 1..m : a[j] = x
    BY <1>2
  <1>4. CASE j = 1
    BY <1>3, <1>4
  <1>5. CASE j # 1
    <2>1. 1 \in 1..m /\ 1 < j
      BY <1>5
    <2>2. a[1] < x /\ a[1] \in B /\ a[1] \in Nat
      BY <1>2, <1>3, <2>1
    <2>3. x <= a[1]
      BY <2>2
    <2> QED
      BY <2>2, <2>3
  <1> QED
    BY <1>4, <1>5

\* What s holds before v.
HeadAt(s, v) == SubSeq(s, 1, v - 1)

LEMMA HeadIs ==
  ASSUME NEW s \in Seq(Nat), NEW v \in Nat \ {0}, v <= Len(s) + 1, NEW p, p = HeadAt(s, v)
  PROVE  /\ p \in Seq(Nat)
         /\ Len(p) = v - 1
         /\ \A k \in 1..(v - 1) : p[k] = s[k]
  <1>1. PICK l \in Nat : l = Len(s)
    OBVIOUS
  <1>2. PICK w \in Nat : w = v - 1
    OBVIOUS
  <1>3. 1 <= w + 1 /\ w <= Len(s) /\ p = SubSeq(s, 1, w) /\ 1 \in Nat \ {0}
    BY <1>1, <1>2 DEF HeadAt
  <1>4. IsPart(p, s, 1, w)
    BY <1>3, PartOf
  <1>5. p \in Seq(Nat) /\ Len(p) = w /\ \A k \in 1..w : p[k] = s[k]
    BY <1>4 DEF IsPart
  <1> QED
    BY <1>2, <1>5

\* Behind the head up to v comes what s holds from v on.
LEMMA HeadGrows ==
  ASSUME NEW s \in Seq(Nat), NEW v \in Nat \ {0}, NEW w \in Nat \ {0}, v <= w, w <= Len(s) + 1
  PROVE  HeadAt(s, v) \o SubSeq(s, v, w - 1) = HeadAt(s, w)
  <1>1. PICK l \in Nat : l = Len(s)
    OBVIOUS
  <1>2. PICK v1, w1 \in Nat : v1 = v - 1 /\ w1 = w - 1
    <2>1. PICK v1 \in Nat : v1 = v - 1
      OBVIOUS
    <2>2. PICK w1 \in Nat : w1 = w - 1
      OBVIOUS
    <2> QED
      BY <2>1, <2>2
  <1>3. PICK p : p = HeadAt(s, v)
    OBVIOUS
  <1>4. PICK q : q = SubSeq(s, v, w1)
    OBVIOUS
  <1>5. PICK r : r = HeadAt(s, w)
    OBVIOUS
  <1>6. p \in Seq(Nat) /\ Len(p) = v1 /\ \A k \in 1..v1 : p[k] = s[k]
    <2>1. v <= Len(s) + 1
      BY <1>1
    <2>2. p \in Seq(Nat) /\ Len(p) = v - 1 /\ \A k \in 1..(v - 1) : p[k] = s[k]
      BY <1>3, <2>1, HeadIs, ZenonT(60)
    <2> QED
      BY <1>2, <2>2
  <1>7. r \in Seq(Nat) /\ Len(r) = w1 /\ \A k \in 1..w1 : r[k] = s[k]
    <2>1. r \in Seq(Nat) /\ Len(r) = w - 1 /\ \A k \in 1..(w - 1) : r[k] = s[k]
      BY <1>5, HeadIs, SMTT(30)
    <2> QED
      BY <1>2, <2>1
  <1>8. PICK l1 \in Nat : l1 = w1 - v + 1
    BY <1>2
  <1>9. q \in Seq(Nat) /\ Len(q) = l1 /\ \A k \in 1..l1 : q[k] = s[v + k - 1]
    <2>1. v <= w1 + 1 /\ w1 <= Len(s)
      BY <1>1, <1>2
    <2>2. IsPart(q, s, v, w1)
      BY <1>2, <1>4, <2>1, PartOf
    <2> QED
      BY <1>8, <2>2 DEF IsPart
  <1>10. PICK e : e = p \o q
    OBVIOUS
  <1>11. /\ e \in Seq(Nat) /\ Len(e) = v1 + l1
         /\ \A k \in 1..v1 : e[k] = p[k]
         /\ \A k \in 1..l1 : e[v1 + k] = q[k]
    <2>1. IsJoin(Nat, e, p, q)
      BY <1>6, <1>9, <1>10, JoinOf
    <2> QED
      BY <1>6, <1>9, <2>1 DEF IsJoin
  <1>12. v1 + l1 = w1
    BY <1>2, <1>8
  <1>13. ASSUME NEW k \in 1..w1 PROVE e[k] = r[k]
    <2>1. CASE k <= v1
      <3>1. k \in 1..v1
        BY <2>1
      <3> QED
        BY <1>6, <1>7, <1>11, <3>1
    <2>2. CASE ~ (k <= v1)
      <3>1. k - v1 \in 1..l1 /\ v1 + (k - v1) = k
        BY <1>2, <1>12, <2>2
      <3>2. PICK h \in 1..l1 : v1 + h = k
        BY <3>1
      <3>3. v + h - 1 = k
        BY <1>2, <3>2
      <3>4. e[v1 + h] = q[h] /\ q[h] = s[v + h - 1]
        BY <1>9, <1>11
      <3> QED
        BY <1>7, <3>2, <3>3, <3>4
    <2> QED
      BY <2>1, <2>2
  <1>14. e = r
    <2>1. Len(e) = w1
      BY <1>11, <1>12
    <2> QED
      BY <1>7, <1>11, <1>13, <2>1, SeqEqual
  <1> QED
    BY <1>2, <1>3, <1>4, <1>5, <1>10, <1>14

\* The units, one after the other.
DataOf(us) == [i \in DOMAIN us |-> us[i].data]

LEMMA Conserved ==
  ASSUME NEW s \in Seq(Nat), Nals(s) # {} => 1 \in Nals(s)
  PROVE  FlattenSeq(DataOf(Pushed(s).units)) \o Pushed(s).buf = s
  <1>0. PICK D : D = Seq(Nat)
    OBVIOUS
  <1>1. CASE Nals(s) = {}
    <2>1. Pushed(s).units = <<>> /\ Pushed(s).buf = s
      BY <1>1, PushedIs
    <2>2. PICK e \in Seq(D) : e = <<>> /\ Len(e) = 0
      <3>1. <<>> \in Seq(D)
        OBVIOUS
      <3>2. PICK e \in Seq(D) : e = <<>>
        BY <3>1
      <3>3. Len(e) = 0
        BY <3>2
      <3> QED
        BY <3>2, <3>3
    <2>3. DataOf(e) = e
      BY <2>2 DEF DataOf
    <2>4. e \in Seq(Seq(Nat))
      BY <1>0, <2>2
    <2>5. FlattenSeq(e) = Joined(e)[0]
      BY <2>2, <2>4, FlattenIsJoined
    <2>6. Joined(e)[0] = <<>>
      BY <2>4, JoinedDef
    <2>7. <<>> \o s = s
      <3>1. PICK z \in Seq(Nat) : z = <<>> /\ Len(z) = 0
        BY NoPlaces
      <3> QED
        BY <3>1
    <2> QED
      BY <2>1, <2>2, <2>3, <2>5, <2>6, <2>7
  <1>2. CASE Nals(s) # {}
    <2>1. PICK a : Lists(a, Opening(s))
      BY <1>2, SomeOpening
    <2>2. PICK n : n = Len(a)
      OBVIOUS
    <2>3. PICK U : U = UnitsAt(s, a)
      OBVIOUS
    <2>4. /\ n \in Nat \ {0} /\ U \in Seq(UnitSet) /\ Len(U) = n - 1
          /\ \A i \in 1..(n - 1) : IsUnitAt(s, a, i, U[i])
      <3>1. AreUnits(U, s, a, n)
        BY <1>2, <2>1, <2>2, <2>3, UnitsType
      <3> QED
        BY <3>1 DEF AreUnits
    <2>5. PICK n1 \in Nat : n1 = n - 1
      BY <2>4
    <2>6. PICK l \in Nat : l = Len(s)
      OBVIOUS
    <2>7. \A i \in 1..n : a[i] \in Nat \ {0} /\ a[i] <= l
      <3>1. Opening(s) # {} /\ Opening(s) \subseteq Nals(s)
        BY <1>2, SomeOpening
      <3>2. \A i \in 1..n : a[i] \in Opening(s)
        BY <2>1, <2>2, <3>1, EndOfList
      <3> QED
        BY <2>6, <3>1, <3>2 DEF Nals, Starts
    <2>8. a[1] = 1
      <3>1. 1 \in Nals(s) /\ Nals(s) \subseteq Nat \ {0} /\ Opening(s) \subseteq Nals(s)
        BY <1>2, SomeOpening
      <3>2. \A j \in Nals(s) : 1 <= j
        BY <3>1
      <3>3. 1 \in Opening(s)
        BY <3>1, <3>2, OpeningAt
      <3> QED
        BY <2>1, <3>1, <3>2, <3>3, FirstOfList
    <2>9. PICK d : d = DataOf(U)
      OBVIOUS
    <2>10. /\ d \in Seq(D) /\ Len(d) = n1
           /\ \A i \in 1..n1 : /\ d[i] = SubSeq(s, a[i], a[i + 1] - 1)
                               /\ a[i] <= a[i + 1]
      <3>1. \A i \in 1..n1 : U[i] = Video!Unit(SubSeq(s, a[i], a[i + 1] - 1)) /\ U[i] \in UnitSet /\ a[i] <= a[i + 1]
        BY <2>4, <2>5 DEF IsUnitAt
      <3>2. \A u \in UnitSet : u.data \in D
        BY <1>0 DEF UnitSet, Video!Unit
      <3>3. \A x : Video!Unit(x).data = x
        BY DEF Video!Unit
      <3>4. DOMAIN U = 1..n1
        BY <2>4, <2>5
      <3>5. d = [i \in 1..n1 |-> U[i].data]
        BY <2>9, <3>4 DEF DataOf
      <3>6. \A i \in 1..n1 : U[i].data \in D
        BY <3>1, <3>2
      <3>7. PICK z \in [1..n1 -> D] : z = d
        BY <3>5, <3>6
      <3>8. z \in Seq(D) /\ Len(z) = n1
        OBVIOUS
      <3>9. \A i \in 1..n1 : d[i] = SubSeq(s, a[i], a[i + 1] - 1)
        BY <3>1, <3>3, <3>5
      <3> QED
        BY <3>1, <3>7, <3>8, <3>9
    <2>11. d \in Seq(Seq(Nat))
      BY <1>0, <2>10
    <2>12. PICK J : J = Joined(d)
      OBVIOUS
    <2>13. /\ J[0] = <<>>
           /\ \A i \in 1..n1 : J[i] = J[i - 1] \o d[i]
           /\ FlattenSeq(d) = J[n1]
      BY <2>10, <2>11, <2>12, JoinedDef, FlattenIsJoined
    <2> DEFINE S == {i \in 0..n1 : J[i] = HeadAt(s, a[i + 1])}
    <2>14. 0 \in S
      <3>1. HeadAt(s, 1) = <<>>
        <4>1. PICK p : p = HeadAt(s, 1)
          OBVIOUS
        <4>2. p \in Seq(Nat) /\ Len(p) = 0
          <5>1. 1 \in Nat \ {0} /\ 1 <= Len(s) + 1 /\ 1 - 1 = 0
            BY <2>6
          <5> QED
            BY <4>1, <5>1, HeadIs
        <4> QED
          BY <4>1, <4>2
      <3>2. 0 + 1 = 1 /\ 0 \in 0..n1
        OBVIOUS
      <3> QED
        BY <2>8, <2>13, <3>1, <3>2
    <2>15. ASSUME NEW i \in 1..n1, i - 1 \in S PROVE i \in S
      <3>1. J[i - 1] = HeadAt(s, a[i])
        <4>1. (i - 1) + 1 = i
          OBVIOUS
        <4> QED
          BY <2>15, <4>1
      <3>2. i \in 1..n /\ i + 1 \in 1..n /\ i \in 0..n1
        BY <2>4, <2>5
      <3>3. PICK v, w \in Nat \ {0} : v = a[i] /\ w = a[i + 1]
        BY <2>7, <3>2
      <3>4. v <= w /\ w <= Len(s) + 1
        BY <2>6, <2>7, <2>10, <3>2, <3>3
      <3>5. HeadAt(s, v) \o SubSeq(s, v, w - 1) = HeadAt(s, w)
        BY <3>4, HeadGrows
      <3>6. J[i] = HeadAt(s, a[i + 1])
        BY <2>10, <2>13, <3>1, <3>3, <3>5
      <3> QED
        BY <3>2, <3>6
    <2> HIDE DEF S
    <2>16. 0..n1 \subseteq S
      BY <2>14, <2>15, Ascent
    <2>17. J[n1] = HeadAt(s, a[n])
      <3>1. n1 \in 0..n1 /\ n1 + 1 = n
        BY <2>4, <2>5
      <3>2. n1 \in S
        BY <2>16, <3>1
      <3> QED
        BY <3>1, <3>2 DEF S
    <2>18. Pushed(s).units = U /\ Pushed(s).buf = TailAt(s, a[n])
      BY <1>2, <2>1, <2>2, <2>3, PushedIs DEF SplitAt
    <2>19. HeadAt(s, a[n]) \o TailAt(s, a[n]) = s
      <3>1. PICK v \in Nat \ {0} : v = a[n] /\ v <= l
        <4>1. n \in 1..n
          BY <2>4
        <4> QED
          BY <2>7, <4>1
      <3>2. PICK w \in Nat \ {0} : w = l + 1
        OBVIOUS
      <3>3. v <= w /\ w <= Len(s) + 1 /\ w - 1 = l
        BY <2>6, <3>1, <3>2
      <3>4. HeadAt(s, v) \o SubSeq(s, v, w - 1) = HeadAt(s, w)
        BY <3>3, HeadGrows
      <3>5. HeadAt(s, w) = s
        <4>1. PICK p : p = HeadAt(s, w)
          OBVIOUS
        <4>2. p \in Seq(Nat) /\ Len(p) = w - 1 /\ \A k \in 1..(w - 1) : p[k] = s[k]
          BY <3>3, <4>1, HeadIs, ZenonT(60)
        <4>3. Len(p) = l /\ \A k \in 1..l : p[k] = s[k]
          BY <3>3, <4>2
        <4>4. p = s
          BY <2>6, <4>2, <4>3, SeqEqual
        <4> QED
          BY <4>1, <4>4
      <3> QED
        BY <2>6, <3>1, <3>3, <3>4, <3>5 DEF TailAt
    <2> QED
      BY <2>9, <2>13, <2>17, <2>18, <2>19
  <1> QED
    BY <1>1, <1>2

-----------------------------------------------------------------------------
(* The scan from left to right finds the same start codes                    *)

\* What the scan finds from i on.  Inside a long code it would find the short one.
Left(s, i) == {k \in 1..Len(s) : \/ k >= i /\ k \in Starts(s)
                                 \/ k = i /\ k > 1 /\ Video!Long(s, k - 1)}

LEMMA Prepend ==
  ASSUME NEW B, NEW q, Lists(q, B), NEW i \in Nat, \A k \in B : i < k
  PROVE  Lists(<<i>> \o q, {i} \cup B)
  <1>1. PICK m \in Nat : m = Len(q)
    BY DEF Lists
  <1>2. /\ q \in Seq(Nat)
        /\ \A j \in 1..m : q[j] \in B
        /\ \A j, k \in 1..m : j < k => q[j] < q[k]
        /\ \A x \in B : \E j \in 1..m : q[j] = x
    BY <1>1 DEF Lists
  <1>3. PICK p : p = <<i>>
    OBVIOUS
  <1>4. p \in Seq(Nat) /\ Len(p) = 1 /\ p[1] = i
    BY <1>3
  <1>5. PICK r : r = p \o q
    OBVIOUS
  <1>6. /\ r \in Seq(Nat) /\ Len(r) = 1 + m
        /\ r[1] = i
        /\ \A k \in 1..m : r[1 + k] = q[k]
    <2>1. IsJoin(Nat, r, p, q)
      BY <1>2, <1>4, <1>5, JoinOf
    <2>2. /\ r \in Seq(Nat) /\ Len(r) = Len(p) + Len(q)
          /\ \A k \in 1..Len(p) : r[k] = p[k]
          /\ \A k \in 1..Len(q) : r[Len(p) + k] = q[k]
      BY <2>1 DEF IsJoin
    <2> QED
      BY <1>1, <1>4, <2>2
  <1>7. \A j \in 1..(1 + m) : j = 1 \/ \E k \in 1..m : j = 1 + k
    <2> TAKE j \in 1..(1 + m)
    <2>1. CASE j # 1
      <3>1. PICK k \in 1..m : k = j - 1
        BY <2>1
      <3>2. j = 1 + k
        BY <3>1
      <3> QED
        BY <3>2
    <2> QED
      BY <2>1
  <1>8. ASSUME NEW j \in 1..(1 + m) PROVE r[j] \in {i} \cup B
    <2>1. CASE j = 1
      BY <1>6, <2>1
    <2>2. CASE \E k \in 1..m : j = 1 + k
      <3>1. PICK k \in 1..m : j = 1 + k
        BY <2>2
      <3>2. r[j] = q[k] /\ q[k] \in B
        BY <1>2, <1>6, <3>1
      <3> QED
        BY <3>2
    <2> QED
      BY <1>7, <2>1, <2>2
  <1>9. ASSUME NEW j \in 1..(1 + m), NEW k \in 1..(1 + m), j < k PROVE r[j] < r[k]
    <2>1. k # 1
      BY <1>9
    <2>2. PICK h \in 1..m : k = 1 + h
      BY <1>7, <2>1
    <2>3. r[k] = q[h] /\ q[h] \in B
      BY <1>2, <1>6, <2>2
    <2>4. CASE j = 1
      BY <1>6, <2>3, <2>4
    <2>5. CASE j # 1
      <3>1. PICK g \in 1..m : j = 1 + g
        BY <1>7, <2>5
      <3>2. g < h
        BY <1>9, <2>2, <3>1
      <3> QED
        BY <1>2, <1>6, <2>3, <3>1, <3>2
    <2> QED
      BY <2>4, <2>5
  <1>10. ASSUME NEW x \in {i} \cup B PROVE \E j \in 1..(1 + m) : r[j] = x
    <2>1. CASE x = i
      <3>1. 1 \in 1..(1 + m)
        OBVIOUS
      <3> QED
        BY <1>6, <2>1, <3>1
    <2>2. CASE x \in B
      <3>1. PICK k \in 1..m : q[k] = x
        BY <1>2, <2>2
      <3>2. 1 + k \in 1..(1 + m) /\ r[1 + k] = x
        BY <1>6, <3>1
      <3> QED
        BY <3>2
    <2> QED
      BY <2>1, <2>2
  <1>11. Lists(r, {i} \cup B)
    BY <1>6, <1>8, <1>9, <1>10 DEF Lists
  <1> QED
    BY <1>3, <1>5, <1>11

LEMMA LeftAt ==
  ASSUME NEW s \in Seq(Nat), NEW i \in Nat \ {0}
  PROVE  /\ i + 2 > Len(s) => Left(s, i) = {}
         /\ Video!Short(s, i) =>
              Left(s, i) = {i} \cup Left(s, i + 3) /\ \A k \in Left(s, i + 3) : i < k
         /\ ~ Video!Short(s, i) /\ Video!Long(s, i) =>
              Left(s, i) = {i} \cup Left(s, i + 4) /\ \A k \in Left(s, i + 4) : i < k
         /\ ~ Video!Short(s, i) /\ ~ Video!Long(s, i) => Left(s, i) = Left(s, i + 1)
  <1>1. PICK l \in Nat : l = Len(s)
    OBVIOUS
  <1>2. \A k \in Nat \ {0} :
          /\ Video!Long(s, k) <=> k + 3 <= l /\ s[k] = 0 /\ s[k + 1] = 0 /\ s[k + 2] = 0 /\ s[k + 3] = 1
          /\ Video!Short(s, k) <=> k + 2 <= l /\ s[k] = 0 /\ s[k + 1] = 0 /\ s[k + 2] = 1
    BY <1>1, LongAt, ShortAt
  <1>3. \A k \in 1..l : k \in Starts(s) <=>
              \/ Video!Long(s, k)
              \/ Video!Short(s, k) /\ ~ (k > 1 /\ Video!Long(s, k - 1))
    BY <1>1 DEF Starts, Video!IsStart
  <1>4. \A k \in 1..l : k > 1 /\ Video!Long(s, k - 1) => Video!Short(s, k)
    <2> TAKE k \in 1..l
    <2> SUFFICES ASSUME k > 1, Video!Long(s, k - 1) PROVE Video!Short(s, k)
      OBVIOUS
    <2>1. PICK h \in Nat \ {0} : h = k - 1
      OBVIOUS
    <2>2. h + 3 <= l /\ s[h + 1] = 0 /\ s[h + 2] = 0 /\ s[h + 3] = 1
      BY <1>2, <2>1
    <2>3. h + 1 = k /\ h + 2 = k + 1 /\ h + 3 = k + 2
      BY <2>1
    <2> QED
      BY <1>2, <2>2, <2>3
  <1>5. ASSUME NEW j \in Nat \ {0}, j > i, Video!Short(s, i) \/ Video!Long(s, i),
               j = i + (IF Video!Short(s, i) THEN 3 ELSE 4)
        PROVE  Left(s, i) = {i} \cup Left(s, j) /\ \A k \in Left(s, j) : i < k
    <2>0. i \in 1..l
      BY <1>2, <1>5
    <2>1. i \in Left(s, i)
      <3>1. i \in Starts(s) \/ (i > 1 /\ Video!Long(s, i - 1))
        BY <1>3, <1>5, <2>0
      <3> QED
        BY <1>1, <2>0, <3>1 DEF Left
    <2>2. ~ Video!Long(s, j - 1)
      <3>1. PICK h \in Nat \ {0} : h = j - 1
        BY <1>5
      <3>2. s[h] = 1
        <4>1. CASE Video!Short(s, i)
          <5>1. h = i + 2
            BY <1>5, <3>1, <4>1
          <5> QED
            BY <1>2, <4>1, <5>1
        <4>2. CASE ~ Video!Short(s, i)
          <5>1. h = i + 3 /\ Video!Long(s, i)
            BY <1>5, <3>1, <4>2
          <5> QED
            BY <1>2, <5>1
        <4> QED
          BY <4>1, <4>2
      <3>3. 0 # 1
        OBVIOUS
      <3> QED
        BY <1>2, <3>1, <3>2, <3>3
    <2>3. \A k \in Starts(s) : k > i => k >= j
      <3> TAKE k \in Starts(s)
      <3> SUFFICES ASSUME k > i PROVE k >= j
        OBVIOUS
      <3>0. k \in 1..l
        BY <1>1 DEF Starts
      <3>1. CASE i \in Starts(s)
        <4>1. PICK c \in {3, 4} : c = CodeLength(s, i) /\ j = i + c
          BY <1>5 DEF CodeLength
        <4>2. i + c <= k
          BY <3>1, <4>1, Spacing
        <4> QED
          BY <4>1, <4>2
      <3>2. CASE i \notin Starts(s)
        <4>1. Video!Short(s, i) /\ i > 1 /\ Video!Long(s, i - 1)
          BY <1>3, <1>5, <2>0, <3>2
        <4>2. PICK h \in 1..l : h = i - 1
          BY <2>0, <4>1
        <4>3. h \in Starts(s) /\ h < k
          BY <1>3, <4>1, <4>2, <3>0
        <4>4. ~ Video!Short(s, h)
          <5>1. h \in Nat \ {0}
            BY <4>2
          <5>2. Video!Long(s, h)
            BY <4>1, <4>2
          <5>3. Video!Short(s, h) => s[h + 2] = 1
            BY <1>2, <5>1
          <5>4. s[h + 2] = 0
            BY <1>2, <5>1, <5>2
          <5>5. 0 # 1
            OBVIOUS
          <5> QED
            BY <5>3, <5>4, <5>5
        <4>5. PICK c \in {4} : c = CodeLength(s, h)
          BY <4>4 DEF CodeLength
        <4>6. h + c <= k
          BY <4>3, <4>5, Spacing
        <4>7. j = i + 3
          BY <1>5, <4>1
        <4> QED
          BY <4>2, <4>5, <4>6, <4>7
      <3> QED
        BY <3>1, <3>2
    <2>4. Left(s, j) = {k \in 1..l : k >= j /\ k \in Starts(s)}
      BY <1>1, <2>2 DEF Left
    <2>5. Left(s, i) = {i} \cup {k \in 1..l : k > i /\ k \in Starts(s)}
      BY <1>1, <2>0, <2>1 DEF Left
    <2>6. {k \in 1..l : k > i /\ k \in Starts(s)} = {k \in 1..l : k >= j /\ k \in Starts(s)}
      BY <1>5, <2>3
    <2> QED
      BY <1>5, <2>4, <2>5, <2>6
  <1>6. ASSUME i + 2 > l PROVE Left(s, i) = {}
    <2>1. \A k \in 1..l : k >= i => ~ Video!Long(s, k) /\ ~ Video!Short(s, k)
      BY <1>2, <1>6
    <2> QED
      BY <1>1, <1>3, <1>4, <2>1 DEF Left
  <1>7. ASSUME ~ Video!Short(s, i), ~ Video!Long(s, i) PROVE Left(s, i) = Left(s, i + 1)
    <2>1. ~ (i \in Starts(s))
      BY <1>1, <1>3, <1>7 DEF Starts
    <2>2. i \in 1..l => ~ (i > 1 /\ Video!Long(s, i - 1))
      BY <1>4, <1>7
    <2>3. (i + 1) - 1 = i
      OBVIOUS
    <2>4. Left(s, i) = {k \in 1..l : k >= i /\ k \in Starts(s)}
      BY <1>1, <2>2 DEF Left
    <2>5. Left(s, i + 1) = {k \in 1..l : k >= i + 1 /\ k \in Starts(s)}
      BY <1>1, <1>7, <2>3 DEF Left
    <2>6. \A k \in 1..l : k \in Starts(s) => (k >= i <=> k >= i + 1)
      BY <2>1
    <2> QED
      BY <2>4, <2>5, <2>6
  <1>8. ASSUME Video!Short(s, i)
        PROVE  Left(s, i) = {i} \cup Left(s, i + 3) /\ \A k \in Left(s, i + 3) : i < k
    <2>1. PICK j \in Nat \ {0} : j = i + 3
      OBVIOUS
    <2>2. j > i /\ j = i + (IF Video!Short(s, i) THEN 3 ELSE 4)
      BY <1>8, <2>1
    <2> QED
      BY <1>5, <1>8, <2>1, <2>2
  <1>9. ASSUME ~ Video!Short(s, i), Video!Long(s, i)
        PROVE  Left(s, i) = {i} \cup Left(s, i + 4) /\ \A k \in Left(s, i + 4) : i < k
    <2>1. PICK j \in Nat \ {0} : j = i + 4
      OBVIOUS
    <2>2. j > i /\ j = i + (IF Video!Short(s, i) THEN 3 ELSE 4)
      BY <1>9, <2>1
    <2> QED
      BY <1>5, <1>9, <2>1, <2>2
  <1> QED
    BY <1>1, <1>6, <1>7, <1>8, <1>9

\* A step of the scan, from what h finds further on.
Scanned(s, h, i) ==
    IF i + 2 > Len(s) THEN <<>>
    ELSE IF Video!Short(s, i) THEN <<i>> \o h[i + 3]
    ELSE IF Video!Long(s, i) THEN <<i>> \o h[i + 4]
    ELSE h[i + 1]

\* One step is right if those after it are.
LEMMA ScanStep ==
  ASSUME NEW s \in Seq(Nat), NEW l \in Nat, l = Len(s), NEW h, NEW i \in 1..(l + 4),
         \A j \in 1..(l + 4) : j > i => Lists(h[j], Left(s, j))
  PROVE  Lists(Scanned(s, h, i), Left(s, i))
  <1>0. i \in Nat \ {0}
    OBVIOUS
  <1>1. CASE i + 2 > l
    <2>1. Left(s, i) = {}
      BY <1>0, <1>1, LeftAt
    <2>2. PICK e \in Seq(Nat) : e = <<>> /\ Len(e) = 0
      BY NoPlaces
    <2>3. Lists(e, {})
      BY <2>2 DEF Lists
    <2>4. Scanned(s, h, i) = <<>>
      BY <1>1 DEF Scanned
    <2> QED
      BY <2>1, <2>2, <2>3, <2>4
  <1>2. CASE ~ (i + 2 > l) /\ Video!Short(s, i)
    <2>1. PICK j \in 1..(l + 4) : j = i + 3 /\ j > i
      BY <1>2
    <2>2. PICK B : B = Left(s, j)
      OBVIOUS
    <2>3. Left(s, i) = {i} \cup B /\ \A k \in B : i < k
      BY <1>0, <1>2, <2>1, <2>2, LeftAt
    <2>4. PICK q : q = h[j]
      OBVIOUS
    <2>5. Lists(q, B)
      BY <2>1, <2>2, <2>4
    <2>6. Lists(<<i>> \o q, {i} \cup B)
      BY <1>0, <2>3, <2>5, Prepend
    <2>7. Scanned(s, h, i) = <<i>> \o q
      BY <1>2, <2>1, <2>4 DEF Scanned
    <2> QED
      BY <2>3, <2>6, <2>7
  <1>3. CASE ~ (i + 2 > l) /\ ~ Video!Short(s, i) /\ Video!Long(s, i)
    <2>1. PICK j \in 1..(l + 4) : j = i + 4 /\ j > i
      <3>1. i + 4 \in 1..(l + 4)
        BY <1>3
      <3> QED
        BY <3>1
    <2>2. PICK B : B = Left(s, j)
      OBVIOUS
    <2>3. Left(s, i) = {i} \cup B /\ \A k \in B : i < k
      BY <1>0, <1>3, <2>1, <2>2, LeftAt
    <2>4. PICK q : q = h[j]
      OBVIOUS
    <2>5. Lists(q, B)
      BY <2>1, <2>2, <2>4
    <2>6. Lists(<<i>> \o q, {i} \cup B)
      BY <1>0, <2>3, <2>5, Prepend
    <2>7. Scanned(s, h, i) = <<i>> \o q
      BY <1>3, <2>1, <2>4 DEF Scanned
    <2> QED
      BY <2>3, <2>6, <2>7
  <1>4. CASE ~ (i + 2 > l) /\ ~ Video!Short(s, i) /\ ~ Video!Long(s, i)
    <2>1. PICK j \in 1..(l + 4) : j = i + 1 /\ j > i
      BY <1>4
    <2>2. Left(s, i) = Left(s, j)
      BY <1>0, <1>4, <2>1, LeftAt
    <2>3. Scanned(s, h, i) = h[j]
      BY <1>4, <2>1 DEF Scanned
    <2> QED
      BY <2>1, <2>2, <2>3
  <1> QED
    BY <1>1, <1>2, <1>3, <1>4

\* The scan and the places agree.
LEMMA ScanFinds ==
  ASSUME NEW s \in Seq(Nat)
  PROVE  Video!StartCodes(s) = Video!ScanStarts(s)
  <1>1. PICK l \in Nat : l = Len(s)
    OBVIOUS
  <1>2. PICK f \in [1..(l + 4) -> Seq(Nat)] : \A i \in 1..(l + 4) : Lists(f[i], Left(s, i))
    <2>1. \A i \in 1..(l + 4) : Lists(Video!Ascending(l, Left(s, i)), Left(s, i))
      <3> TAKE i \in 1..(l + 4)
      <3>1. PICK A : A = Left(s, i)
        OBVIOUS
      <3>2. A \cap (1..l) = A
        BY <1>1, <3>1 DEF Left
      <3>3. Lists(Video!Ascending(l, A), A \cap (1..l))
        BY AscendingLists
      <3> QED
        BY <3>1, <3>2, <3>3
    <2> DEFINE F == [i \in 1..(l + 4) |-> Video!Ascending(l, Left(s, i))]
    <2>2. \A i \in 1..(l + 4) : F[i] = Video!Ascending(l, Left(s, i))
      OBVIOUS
    <2>3. F \in [1..(l + 4) -> Seq(Nat)]
      BY <2>1 DEF Lists
    <2> HIDE DEF F
    <2> QED
      BY <2>1, <2>2, <2>3
  <1>3. f = [i \in 1..(l + 4) |-> Scanned(s, f, i)]
    <2>1. \A i \in 1..(l + 4) : f[i] = Scanned(s, f, i)
      <3> TAKE i \in 1..(l + 4)
      <3>1. Lists(Scanned(s, f, i), Left(s, i))
        BY <1>1, <1>2, ScanStep
      <3>2. PICK q : q = Scanned(s, f, i)
        OBVIOUS
      <3>3. PICK r : r = f[i]
        OBVIOUS
      <3>4. PICK B : B = Left(s, i)
        OBVIOUS
      <3>5. Lists(q, B) /\ Lists(r, B)
        BY <1>2, <3>1, <3>2, <3>3, <3>4
      <3>6. q = r
        BY <3>5, OneList
      <3> QED
        BY <3>2, <3>3, <3>6
    <2>2. f = [i \in 1..(l + 4) |-> f[i]]
      OBVIOUS
    <2> QED
      BY <2>1, <2>2
  <1> DEFINE c == CHOOSE h : h = [i \in 1..(l + 4) |-> Scanned(s, h, i)]
  <1>4. c = [i \in 1..(l + 4) |-> Scanned(s, c, i)]
    BY <1>3
  <1>5. Video!ScanStarts(s) = c[1]
    BY <1>1 DEF Video!ScanStarts, Scanned
  <1> HIDE DEF c
  <1>6. PICK g : g = c
    OBVIOUS
  <1>7. \A i \in 1..(l + 4) : g[i] = Scanned(s, g, i)
    BY <1>4, <1>6
  <1>8. \A i \in 1..(l + 4) : Lists(g[i], Left(s, i))
    <2> DEFINE D == {k \in 0..(l + 4) : \E i \in 1..(l + 4) : k + i = l + 4 /\ ~ Lists(g[i], Left(s, i))}
    <2>1. SUFFICES ASSUME NEW i \in 1..(l + 4), ~ Lists(g[i], Left(s, i)) PROVE FALSE
      OBVIOUS
    <2>2. D \subseteq Nat /\ D # {}
      <3>1. PICK k \in 0..(l + 4) : k + i = l + 4
        <4>1. (l + 4) - i \in 0..(l + 4) /\ ((l + 4) - i) + i = l + 4
          OBVIOUS
        <4> QED
          BY <4>1
      <3>2. k \in D
        BY <2>1, <3>1
      <3>3. \A y \in D : y \in Nat
        OBVIOUS
      <3> HIDE DEF D
      <3> QED
        BY <3>2, <3>3
    <2>3. PICK k \in D : \A y \in D : k <= y
      <3> HIDE DEF D
      <3> QED
        BY <2>2, LeastMember
    <2>4. PICK j \in 1..(l + 4) : k + j = l + 4 /\ ~ Lists(g[j], Left(s, j))
      BY <2>3
    <2>5. ASSUME NEW m \in 1..(l + 4), m > j PROVE Lists(g[m], Left(s, m))
      <3>1. PICK d \in 0..(l + 4) : d + m = l + 4
        <4>1. (l + 4) - m \in 0..(l + 4) /\ ((l + 4) - m) + m = l + 4
          OBVIOUS
        <4> QED
          BY <4>1
      <3>2. k \in 0..(l + 4)
        BY <2>3
      <3>3. d < k
        BY <2>4, <2>5, <3>1, <3>2
      <3>4. d \notin D
        BY <2>3, <3>1, <3>2, <3>3
      <3> QED
        BY <3>1, <3>4
    <2>6. Lists(Scanned(s, g, j), Left(s, j))
      <3> HIDE DEF D
      <3> QED
        BY <1>1, <2>5, ScanStep
    <2> QED
      BY <1>7, <2>4, <2>6
  <1>9. PICK q : q = g[1]
    OBVIOUS
  <1>10. PICK r : r = Video!StartCodes(s)
    OBVIOUS
  <1>11. PICK B : B = Starts(s)
    OBVIOUS
  <1>12. Left(s, 1) = Starts(s)
    BY <1>1 DEF Left, Starts
  <1>13. 1 \in 1..(l + 4)
    OBVIOUS
  <1>14. Lists(q, B)
    BY <1>8, <1>9, <1>11, <1>12, <1>13
  <1>15. Lists(r, B)
    BY <1>10, <1>11, StartCodesList
  <1>16. q = r
    BY <1>14, <1>15, OneList
  <1> QED
    BY <1>5, <1>6, <1>9, <1>10, <1>16

-----------------------------------------------------------------------------
(* What an ffmpeg writes: its NALs, one behind the other                     *)

\* What follows the start code of a NAL: its header and the rest.
BodyLength(kind) == IF Video!IsVcl(kind) THEN 6 ELSE 2

\* w is a NAL, byte by byte.
IsNal(w, code, kind, p) ==
    /\ w \in Seq(Nat) /\ code \in {3, 4} /\ kind \in 0..31
    /\ Len(w) = code + BodyLength(kind)
    /\ w[1] = 0 /\ w[2] = 0 /\ (code = 4 => w[3] = 0)
    /\ w[code] = 1
    /\ w[code + 1] = 96 + kind
    /\ ~ Video!IsVcl(kind) => w[code + 2] = 2
    /\ Video!IsVcl(kind) =>
         /\ w[code + 2] = 0 /\ w[code + 3] = 0 /\ w[code + 4] = 3
         /\ w[code + 5] = p[1] /\ w[code + 6] = p[2] + 1
         /\ p[1] \in Nat \ {0} /\ p[2] \in Nat

LEMMA NalBytes ==
  ASSUME NEW kind \in 0..31, NEW code \in {3, 4}, NEW p \in (Nat \ {0}) \X Nat,
         NEW w, w = Video!Nal(kind, code, p)
  PROVE  IsNal(w, code, kind, p)
  <1>1. PICK z \in Seq(Nat) :
          /\ z = (IF code = 4 THEN <<0, 0, 0, 1>> ELSE <<0, 0, 1>>)
          /\ Len(z) = code /\ z[1] = 0 /\ z[2] = 0 /\ (code = 4 => z[3] = 0) /\ z[code] = 1
    <2>1. CASE code = 4
      <3>1. PICK z : z = <<0, 0, 0, 1>>
        OBVIOUS
      <3>2. z \in Seq(Nat) /\ Len(z) = 4 /\ z[1] = 0 /\ z[2] = 0 /\ z[3] = 0 /\ z[4] = 1
        BY <3>1
      <3>3. z = (IF code = 4 THEN <<0, 0, 0, 1>> ELSE <<0, 0, 1>>)
        BY <2>1, <3>1
      <3> QED
        BY <2>1, <3>2, <3>3
    <2>2. CASE code = 3
      <3>1. PICK z : z = <<0, 0, 1>>
        OBVIOUS
      <3>2. z \in Seq(Nat) /\ Len(z) = 3 /\ z[1] = 0 /\ z[2] = 0 /\ z[3] = 1
        BY <3>1
      <3>3. z = (IF code = 4 THEN <<0, 0, 0, 1>> ELSE <<0, 0, 1>>)
        BY <2>2, <3>1
      <3> QED
        BY <2>2, <3>2, <3>3
    <2> QED
      BY <2>1, <2>2
  <1>2. PICK h \in Seq(Nat) : h = <<96 + kind>> /\ Len(h) = 1 /\ h[1] = 96 + kind
    <2>1. PICK g \in Nat : g = 96 + kind
      OBVIOUS
    <2>2. PICK h : h = <<g>>
      OBVIOUS
    <2>3. h \in Seq(Nat) /\ Len(h) = 1 /\ h[1] = g
      BY <2>2
    <2> QED
      BY <2>1, <2>2, <2>3
  <1>3. PICK a \in Nat \ {0} : a = p[1]
    OBVIOUS
  <1>4. PICK d \in Nat : d = p[2]
    OBVIOUS
  <1>5. PICK r \in Seq(Nat) :
          /\ r = Video!Payload(kind, p)
          /\ Len(r) = BodyLength(kind) - 1
          /\ ~ Video!IsVcl(kind) => r[1] = 2
          /\ Video!IsVcl(kind) => r[1] = 0 /\ r[2] = 0 /\ r[3] = 3 /\ r[4] = a /\ r[5] = d + 1
    <2>1. CASE Video!IsVcl(kind)
      <3>0. PICK e \in Nat : e = d + 1
        OBVIOUS
      <3>1. PICK r : r = <<0, 0, 3, a, e>>
        OBVIOUS
      <3>2. r \in Seq(Nat) /\ Len(r) = 5 /\ r[1] = 0 /\ r[2] = 0 /\ r[3] = 3 /\ r[4] = a /\ r[5] = e
        BY <3>1
      <3>3. Video!Payload(kind, p) = r /\ BodyLength(kind) - 1 = 5
        BY <1>3, <1>4, <2>1, <3>0, <3>1 DEF Video!Payload, BodyLength
      <3> QED
        BY <2>1, <3>0, <3>2, <3>3
    <2>2. CASE ~ Video!IsVcl(kind)
      <3>1. PICK r : r = <<2>>
        OBVIOUS
      <3>2. r \in Seq(Nat) /\ Len(r) = 1 /\ r[1] = 2
        BY <3>1
      <3>3. Video!Payload(kind, p) = r /\ BodyLength(kind) - 1 = 1
        BY <2>2, <3>1 DEF Video!Payload, BodyLength
      <3> QED
        BY <2>2, <3>2, <3>3
    <2> QED
      BY <2>1, <2>2
  <1>6. PICK g : g = z \o h
    OBVIOUS
  <1>7. g \in Seq(Nat) /\ Len(g) = code + 1 /\ (\A k \in 1..code : g[k] = z[k]) /\ g[code + 1] = 96 + kind
    <2>1. IsJoin(Nat, g, z, h)
      BY <1>6, JoinOf
    <2> QED
      BY <1>1, <1>2, <2>1 DEF IsJoin
  <1>8. w = g \o r
    BY <1>1, <1>2, <1>5, <1>6 DEF Video!Nal
  <1>9. PICK n \in Nat : n = Len(r) /\ n + 1 = BodyLength(kind) /\ (Video!IsVcl(kind) => n = 5) /\ (~ Video!IsVcl(kind) => n = 1)
    BY <1>5 DEF BodyLength
  <1>10. /\ w \in Seq(Nat) /\ Len(w) = code + 1 + n
         /\ \A k \in 1..(code + 1) : w[k] = g[k]
         /\ \A k \in 1..n : w[code + 1 + k] = r[k]
    <2>1. IsJoin(Nat, w, g, r)
      BY <1>5, <1>7, <1>8, JoinOf
    <2> QED
      BY <1>7, <1>9, <2>1 DEF IsJoin
  <1>11. /\ Len(w) = code + BodyLength(kind)
         /\ w[1] = 0 /\ w[2] = 0 /\ (code = 4 => w[3] = 0)
         /\ w[code] = 1
         /\ w[code + 1] = 96 + kind
    <2>1. Len(w) = code + BodyLength(kind)
      BY <1>9, <1>10, SMTT(30)
    <2>2. \A k \in 1..code : w[k] = z[k]
      BY <1>7, <1>10
    <2>3. w[1] = 0 /\ w[2] = 0 /\ (code = 4 => w[3] = 0) /\ w[code] = 1
      BY <1>1, <2>2
    <2>4. w[code + 1] = 96 + kind
      BY <1>7, <1>10
    <2> QED
      BY <2>1, <2>3, <2>4
  <1>12. ~ Video!IsVcl(kind) => w[code + 2] = 2
    BY <1>5, <1>9, <1>10
  <1>13. ASSUME Video!IsVcl(kind)
         PROVE  /\ w[code + 2] = 0 /\ w[code + 3] = 0 /\ w[code + 4] = 3
                /\ w[code + 5] = a /\ w[code + 6] = d + 1
    <2>1. n = 5 /\ r[1] = 0 /\ r[2] = 0 /\ r[3] = 3 /\ r[4] = a /\ r[5] = d + 1
      BY <1>5, <1>9, <1>13
    <2>2. w[code + 1 + 1] = 0 /\ w[code + 1 + 2] = 0 /\ w[code + 1 + 3] = 3 /\ w[code + 1 + 4] = a /\ w[code + 1 + 5] = d + 1
      <3>1. \A k \in 1..5 : w[code + 1 + k] = r[k]
        BY <1>10, <2>1
      <3>2. 1 \in 1..5 /\ 2 \in 1..5 /\ 3 \in 1..5 /\ 4 \in 1..5 /\ 5 \in 1..5
        OBVIOUS
      <3> QED
        BY <2>1, <3>1, <3>2, Zenon
    <2>3. /\ code + 1 + 1 = code + 2 /\ code + 1 + 2 = code + 3 /\ code + 1 + 3 = code + 4
          /\ code + 1 + 4 = code + 5 /\ code + 1 + 5 = code + 6
      OBVIOUS
    <2> QED
      BY <2>2, <2>3
  <1> QED
    BY <1>3, <1>4, <1>10, <1>11, <1>12, <1>13 DEF IsNal

\* How long a NAL of an encoder is, and the picture a slice names.
NalLength(b, i) == CodeLength(b, i) + BodyLength(Video!NalType(b, i))

IdAt(b, i) == <<b[i + CodeLength(b, i) + 4], b[i + CodeLength(b, i) + 5] - 1>>

Slices(b) == {i \in Starts(b) : Video!IsVcl(Video!NalType(b, i))}

\* b is NALs, whole ones, from its first byte to its last.
WholeNals(b) ==
    /\ b \in Seq(Nat)
    /\ Len(b) # 0 => b[Len(b)] # 0 /\ 1 \in Starts(b)
    /\ \A i \in Starts(b) : i + NalLength(b, i) <= Len(b) + 1
    /\ \A i, j \in Starts(b) : i < j => i + NalLength(b, i) <= j

\* b and c have the same NAL at i.
AlikeAt(b, c, i) ==
    /\ i \in Starts(b) /\ i \in Starts(c)
    /\ CodeLength(b, i) = CodeLength(c, i)
    /\ Video!NalType(b, i) = Video!NalType(c, i)
    /\ Video!IsVcl(Video!NalType(c, i)) => IdAt(b, i) = IdAt(c, i)

\* A NAL that is there as a whole is the same whatever follows.
LEMMA AlikeIn ==
  ASSUME NEW b, NEW c, Extends(c, b), NEW i \in Starts(c), i + NalLength(c, i) <= Len(b) + 1
  PROVE  AlikeAt(b, c, i)
  <1>1. b \in Seq(Nat) /\ c \in Seq(Nat) /\ \A k \in 1..Len(b) : c[k] = b[k]
    BY DEF Extends
  <1>2. PICK m \in Nat : m = Len(b)
    BY <1>1
  <1>3. i \in Nat \ {0}
    BY <1>1 DEF Starts
  <1>4. PICK h \in {3, 4} : h = CodeLength(c, i)
    BY DEF CodeLength
  <1>5. i + h + 1 <= m /\ (Video!IsVcl(Video!NalType(c, i)) => i + h + 5 <= m)
    BY <1>2, <1>3, <1>4 DEF NalLength, BodyLength
  <1>6. i \in Starts(b)
    BY <1>2, <1>3, <1>4, <1>5, FoundInTime
  <1>7. CodeLength(b, i) = h /\ Video!NalType(b, i) = Video!NalType(c, i)
    BY <1>2, <1>3, <1>4, <1>5, <1>6, FoundInTime
  <1>8. ASSUME Video!IsVcl(Video!NalType(c, i)) PROVE IdAt(b, i) = IdAt(c, i)
    <2>1. i + h + 4 \in 1..m /\ i + h + 5 \in 1..m
      BY <1>3, <1>5, <1>8
    <2>2. c[i + h + 4] = b[i + h + 4] /\ c[i + h + 5] = b[i + h + 5]
      BY <1>1, <1>2, <2>1
    <2> QED
      BY <1>4, <1>7, <2>2 DEF IdAt
  <1> QED
    BY <1>4, <1>6, <1>7, <1>8 DEF AlikeAt

\* c is b with one more NAL, that starts at v.
HasOneMore(b, c, v, code, kind, p) ==
    /\ WholeNals(c)
    /\ Extends(c, b)
    /\ Starts(c) = Starts(b) \cup {v}
    /\ Video!NalType(c, v) = kind
    /\ Video!IsVcl(kind) => IdAt(c, v) = <<p[1], p[2]>>
    /\ \A i \in Starts(b) : AlikeAt(b, c, i) /\ i < v
    /\ Len(c) = Len(b) + code + BodyLength(kind)

LEMMA AppendNal ==
  ASSUME NEW b, WholeNals(b), NEW w, NEW code, NEW kind, NEW p, IsNal(w, code, kind, p),
         NEW c, c = b \o w, NEW v, v = Len(b) + 1
  PROVE  HasOneMore(b, c, v, code, kind, p)
  <1>0. 0 # 1 /\ 0 # 2 /\ 0 # 3 /\ 1 # 3 /\ 3 # 4
    OBVIOUS
  <1>1. /\ b \in Seq(Nat) /\ w \in Seq(Nat) /\ code \in {3, 4} /\ kind \in 0..31
    BY DEF WholeNals, IsNal
  <1>2. PICK m \in Nat : m = Len(b)
    BY <1>1
  <1>3. PICK d \in {2, 6} : d = BodyLength(kind) /\ (Video!IsVcl(kind) => d = 6) /\ (~ Video!IsVcl(kind) => d = 2)
    BY DEF BodyLength
  <1>4. Len(w) = code + d
    BY <1>3 DEF IsNal
  <1>5. /\ c \in Seq(Nat) /\ Len(c) = m + code + d
        /\ \A k \in 1..m : c[k] = b[k]
        /\ \A k \in 1..(code + d) : c[m + k] = w[k]
    <2>1. IsJoin(Nat, c, b, w)
      BY <1>1, JoinOf
    <2>2. /\ c \in Seq(Nat) /\ Len(c) = Len(b) + Len(w)
          /\ \A k \in 1..Len(b) : c[k] = b[k]
          /\ \A k \in 1..Len(w) : c[Len(b) + k] = w[k]
      BY <2>1 DEF IsJoin
    <2>3. Len(c) = m + code + d
      BY <1>1, <1>2, <1>4, <2>2
    <2> QED
      BY <1>2, <1>4, <2>2, <2>3
  <1>6. /\ c[m + 1] = 0 /\ c[m + 2] = 0 /\ (code = 4 => c[m + 3] = 0)
        /\ c[m + code] = 1
        /\ c[m + (code + 1)] = 96 + kind
        /\ d = 2 => c[m + (code + 2)] = 2
        /\ d = 6 =>
             /\ c[m + (code + 2)] = 0 /\ c[m + (code + 3)] = 0 /\ c[m + (code + 4)] = 3
             /\ c[m + (code + 5)] = p[1] /\ c[m + (code + 6)] = p[2] + 1
             /\ p[1] \in Nat \ {0} /\ p[2] \in Nat
    <2>1. 1 \in 1..(code + d) /\ 2 \in 1..(code + d) /\ 3 \in 1..(code + d) /\ code \in 1..(code + d)
          /\ code + 1 \in 1..(code + d) /\ code + 2 \in 1..(code + d)
      BY <1>1
    <2>2. d = 6 => /\ code + 3 \in 1..(code + d) /\ code + 4 \in 1..(code + d)
                   /\ code + 5 \in 1..(code + d) /\ code + 6 \in 1..(code + d)
      BY <1>1
    <2>3. (d = 6 => Video!IsVcl(kind)) /\ (d = 2 => ~ Video!IsVcl(kind))
      BY <1>3
    <2>5. /\ c[m + 1] = w[1] /\ c[m + 2] = w[2] /\ c[m + 3] = w[3] /\ c[m + code] = w[code]
          /\ c[m + (code + 1)] = w[code + 1] /\ c[m + (code + 2)] = w[code + 2]
      BY <1>5, <2>1, Zenon
    <2>6. d = 6 => /\ c[m + (code + 3)] = w[code + 3] /\ c[m + (code + 4)] = w[code + 4]
                   /\ c[m + (code + 5)] = w[code + 5] /\ c[m + (code + 6)] = w[code + 6]
      BY <1>5, <2>2, Zenon
    <2> QED
      BY <2>3, <2>5, <2>6, Zenon DEF IsNal
  <1>7. b \in Seq(Nat) /\ (m # 0 => b[m] # 0 /\ 1 \in Starts(b))
    BY <1>2 DEF WholeNals
  <1>8. Extends(c, b)
    BY <1>1, <1>2, <1>3, <1>5 DEF Extends
  <1>9. /\ \A i \in Starts(b) : i \in 1..m /\ i + NalLength(b, i) <= m + 1
        /\ \A i, j \in Starts(b) : i < j => i + NalLength(b, i) <= j
    BY <1>2 DEF WholeNals, Starts
  <1>10. ASSUME NEW i \in Starts(b) PROVE AlikeAt(b, c, i) /\ i < v
    <2>1. i \in Nat \ {0}
      BY <1>9
    <2>2. PICK h \in {3, 4} : h = CodeLength(c, i)
      BY DEF CodeLength
    <2>3. i \in Starts(c) /\ CodeLength(b, i) = h
      BY <1>8, <2>1, <2>2, FoundInTime
    <2>4. i + h <= m
      BY <1>9, <2>1, <2>2, <2>3, SMTT(30) DEF NalLength, BodyLength
    <2>5. Video!NalType(b, i) = Video!NalType(c, i)
      BY <1>2, <1>8, <2>1, <2>2, <2>4, FoundInTime
    <2>6. NalLength(c, i) = NalLength(b, i)
      BY <2>2, <2>3, <2>5 DEF NalLength
    <2>7. i + NalLength(c, i) <= Len(b) + 1
      BY <1>2, <1>9, <2>6
    <2>8. AlikeAt(b, c, i)
      BY <1>8, <2>3, <2>7, AlikeIn
    <2> QED
      BY <1>2, <1>9, <2>8
  <1>11. /\ v = m + 1 /\ v \in Nat \ {0}
         /\ Video!Long(c, v) <=> code = 4
         /\ Video!Short(c, v) <=> code = 3
    <2>1. v = m + 1 /\ v \in Nat \ {0}
      BY <1>2
    <2>2. Video!Long(c, v) <=> v + 3 <= Len(c) /\ c[v] = 0 /\ c[v + 1] = 0 /\ c[v + 2] = 0 /\ c[v + 3] = 1
      BY <1>5, <2>1, LongAt
    <2>3. Video!Short(c, v) <=> v + 2 <= Len(c) /\ c[v] = 0 /\ c[v + 1] = 0 /\ c[v + 2] = 1
      BY <1>5, <2>1, ShortAt
    <2>4. v + 1 = m + 2 /\ v + 2 = m + 3 /\ v + 3 = m + 4
      BY <2>1
    <2>5. v + 3 <= Len(c)
      BY <1>1, <1>3, <1>5, <2>1, SMTT(30)
    <2>6. CASE code = 4
      BY <1>6, <2>1, <2>2, <2>3, <2>4, <2>5, <2>6, ZenonT(60)
    <2>7. CASE code = 3
      BY <1>6, <2>1, <2>2, <2>3, <2>4, <2>5, <2>7, SMTT(30)
    <2> QED
      BY <1>1, <2>1, <2>6, <2>7
  <1>12. v \in Starts(c) /\ CodeLength(c, v) = code
    <2>1. ~ (v > 1 /\ c[v - 1] = 0)
      <3>1. v - 1 = m /\ (v > 1 => m \in 1..m /\ m # 0)
        BY <1>11
      <3> QED
        BY <1>5, <1>7, <3>1
    <2>2. v \in Starts(c)
      BY <1>1, <1>5, <1>11, <2>1, StartAt
    <2> QED
      BY <1>1, <1>11, <2>2 DEF CodeLength
  <1>13. ASSUME NEW i \in Starts(c), i \notin Starts(b) PROVE i = v
    <2>1. i \in 1..(m + code + d)
      BY <1>5 DEF Starts
    <2>2. PICK h \in {3, 4} : h = CodeLength(c, i)
      BY DEF CodeLength
    <2>3. /\ c[i] = 0 /\ c[i + 1] = 0 /\ c[(i + h) - 1] = 1
          /\ (h = 4 <=> Video!Long(c, i))
          /\ h = 3 => ~ (i > 1 /\ c[i - 1] = 0)
          /\ h = 4 => c[i + 2] = 0
      <3>1. i \in Nat \ {0}
        BY <2>1
      <3>2. c \in Seq(Nat)
        BY <1>5
      <3>3. c[i] = 0 /\ c[i + 1] = 0 /\ c[(i + h) - 1] = 1
        BY <2>2, <3>1, <3>2, StartAt
      <3>4. h = 4 <=> Video!Long(c, i)
        BY <2>2, <3>1, <3>2, StartAt
      <3>5. h = 3 => ~ (i > 1 /\ c[i - 1] = 0)
        BY <1>0, <3>1, <3>2, <3>4, StartAt
      <3>6. h = 4 => c[i + 2] = 0
        BY <3>1, <3>2, <3>4, LongAt
      <3> QED
        BY <3>3, <3>4, <3>5, <3>6
    <2>5. (i + h) - 1 > m
      <3>1. i \in Nat \ {0}
        BY <2>1
      <3>2. ~ ((i + h) - 1 <= m)
        BY <1>2, <1>8, <1>13, <2>2, <3>1, FoundInTime
      <3> QED
        BY <1>2, <2>1, <3>2
    <2>6. i > m
      <3>1. SUFFICES ASSUME i <= m PROVE FALSE
        BY <2>1
      <3>2. m = i \/ m = i + 1 \/ (h = 4 /\ m = i + 2)
        BY <2>1, <2>5, <3>1
      <3>3. c[m] = 0
        BY <2>3, <3>2
      <3>4. m \in 1..m /\ m # 0
        BY <2>1, <3>1
      <3> QED
        BY <1>5, <1>7, <3>3, <3>4
    <2>8. PICK j \in 1..(code + d) : i = m + j
      <3>0. PICK l \in Nat : l = code + d
        BY <1>1
      <3>1. i \in 1..(m + l)
        <4>1. m + code + d = m + l
          BY <1>1, <3>0
        <4> QED
          BY <2>1, <4>1
      <3>2. i - m \in 1..l /\ i = m + (i - m)
        BY <2>6, <3>1
      <3> QED
        BY <3>0, <3>2
    <2>9. j # code
      <3>1. j = code => c[i] = 1
        BY <1>6, <2>8
      <3> QED
        BY <1>0, <2>3, <3>1
    <2>10. j # code + 1
      <3>1. j = code + 1 => c[i] = 96 + kind
        BY <1>6, <2>8
      <3> QED
        BY <1>1, <2>3, <3>1
    <2>11. ASSUME j > code + 1 PROVE FALSE
      <3>1. CASE d = 2
        <4>1. j = code + 2
          BY <1>1, <2>11, <3>1
        <4>2. c[i] = 2
          BY <1>6, <2>8, <3>1, <4>1
        <4> QED
          BY <1>0, <2>3, <4>2
      <3>2. CASE d = 6
        <4>1. j \in {code + 2, code + 3, code + 4, code + 5, code + 6}
          BY <1>1, <2>11, <3>2
        <4>2. j # code + 4 /\ j # code + 5 /\ j # code + 6
          <5>1. j = code + 4 => c[i] = 3
            BY <1>6, <2>8, <3>2
          <5>2. j = code + 5 => c[i] # 0
            BY <1>6, <2>8, <3>2
          <5>3. j = code + 6 => c[i] = p[2] + 1 /\ p[2] \in Nat
            BY <1>6, <2>8, <3>2
          <5>4. 0 # 3
            OBVIOUS
          <5> QED
            BY <1>0, <2>3, <5>1, <5>2, <5>3, <5>4
        <4>3. j # code + 3
          <5>1. j = code + 3 => i + 1 = m + (code + 4)
            BY <1>1, <2>8
          <5>2. c[m + (code + 4)] = 3
            BY <1>6, <3>2
          <5> QED
            BY <1>0, <2>3, <5>1, <5>2
        <4>4. j # code + 2
          <5>1. j = code + 2 => i + 2 = m + (code + 4) /\ (h = 3 => (i + h) - 1 = i + 2)
            BY <1>1, <2>8
          <5>2. c[m + (code + 4)] = 3
            BY <1>6, <3>2
          <5> QED
            BY <1>0, <2>2, <2>3, <5>1, <5>2, ZenonT(60)
        <4> QED
          BY <4>1, <4>2, <4>3, <4>4
      <3> QED
        BY <1>3, <3>1, <3>2
    <2>12. j < code
      BY <1>1, <2>9, <2>10, <2>11
    <2>13. j = 1
      <3>1. SUFFICES ASSUME j # 1 PROVE FALSE
        OBVIOUS
      <3>2. j = 2 \/ (code = 4 /\ j = 3)
        BY <1>1, <2>12, <3>1
      <3>3. CASE j = code - 1
        <4>1. i + 1 = m + code
          BY <1>1, <2>8, <3>3
        <4> QED
          BY <1>0, <1>6, <2>3, <4>1, ZenonT(60)
      <3>4. CASE j = 2 /\ code = 4
        <4>1. i + 2 = m + code /\ i - 1 = m + 1 /\ i > 1
          BY <2>1, <2>8, <3>4
        <4>2. c[i + 2] = 1 /\ c[i - 1] = 0
          BY <1>6, <4>1
        <4>3. h = 3
          BY <1>0, <2>2, <2>3, <4>2
        <4> QED
          BY <2>3, <4>1, <4>2, <4>3
      <3> QED
        BY <1>1, <3>2, <3>3, <3>4
    <2> QED
      BY <1>11, <2>8, <2>13
  <1>14. Starts(c) = Starts(b) \cup {v}
    <2>1. \A i \in Starts(b) : i \in Starts(c)
      BY <1>10 DEF AlikeAt
    <2> QED
      BY <1>12, <1>13, <2>1
  <1>15. Video!NalType(c, v) = kind
    <2>1. PICK x : x = m + (code + 1)
      OBVIOUS
    <2>2. Video!Header(c, v) = x
      BY <1>1, <1>11, <2>1 DEF Video!Header
    <2>3. x <= Len(c) /\ c[x] = 96 + kind
      <3>1. x <= m + code + d
        BY <1>1, <1>3, <2>1
      <3> QED
        BY <1>5, <1>6, <2>1, <3>1
    <2>4. (96 + kind) % 32 = kind
      <3>1. PICK k \in Int : k = kind /\ 0 <= k /\ k <= 31
        BY <1>1
      <3>2. (96 + k) % 32 = k
        BY <3>1
      <3> QED
        BY <3>1, <3>2
    <2> QED
      BY <2>2, <2>3, <2>4 DEF Video!NalType
  <1>16. Video!IsVcl(kind) => IdAt(c, v) = <<p[1], p[2]>>
    <2>1. SUFFICES ASSUME Video!IsVcl(kind) PROVE IdAt(c, v) = <<p[1], p[2]>>
      OBVIOUS
    <2>2. d = 6
      BY <1>3, <2>1
    <2>3. v + code + 4 = m + (code + 5) /\ v + code + 5 = m + (code + 6)
      BY <1>1, <1>11
    <2>4. PICK a : a = p[1]
      OBVIOUS
    <2>5. PICK e \in Nat : e = p[2]
      BY <1>6, <2>2
    <2>6. c[v + code + 4] = a /\ c[v + code + 5] = e + 1
      BY <1>6, <2>2, <2>3, <2>4, <2>5
    <2>7. (e + 1) - 1 = e
      OBVIOUS
    <2> QED
      BY <1>12, <2>4, <2>5, <2>6, <2>7 DEF IdAt
  <1>17. NalLength(c, v) = code + d
    BY <1>3, <1>12, <1>15 DEF NalLength
  <1>18. \A i \in Starts(b) : NalLength(c, i) = NalLength(b, i)
    BY <1>10 DEF AlikeAt, NalLength
  <1>19. WholeNals(c)
    <2>1. c[Len(c)] # 0 /\ 1 \in Starts(c)
      <3>1. c[Len(c)] # 0
        <4>1. CASE d = 2
          <5>1. Len(c) = m + (code + 2)
            BY <1>1, <1>5, <4>1
          <5> QED
            BY <1>6, <4>1, <5>1, ZenonT(60)
        <4>2. CASE d = 6
          <5>1. Len(c) = m + (code + 6)
            BY <1>1, <1>5, <4>2
          <5>2. c[m + (code + 6)] = p[2] + 1 /\ p[2] \in Nat
            BY <1>6, <4>2
          <5> QED
            BY <5>1, <5>2
        <4> QED
          BY <1>3, <4>1, <4>2
      <3>2. 1 \in Starts(c)
        BY <1>7, <1>11, <1>14
      <3> QED
        BY <3>1, <3>2
    <2>2. ASSUME NEW i \in Starts(c) PROVE i + NalLength(c, i) <= Len(c) + 1
      <3>1. CASE i = v
        <4>1. v + (code + d) <= (m + code + d) + 1
          BY <1>1, <1>3, <1>11
        <4> QED
          BY <1>5, <1>17, <3>1, <4>1
      <3>2. CASE i \in Starts(b)
        <4>1. PICK e \in Nat : e = NalLength(b, i)
          <5>1. CodeLength(b, i) \in Nat /\ BodyLength(Video!NalType(b, i)) \in Nat
            BY DEF CodeLength, BodyLength
          <5> QED
            BY <5>1 DEF NalLength
        <4>2. i \in 1..m /\ i + e <= m + 1
          BY <1>9, <3>2, <4>1
        <4>3. i + e <= (m + code + d) + 1
          BY <1>1, <1>3, <4>2
        <4> QED
          BY <1>5, <1>18, <3>2, <4>1, <4>3
      <3> QED
        BY <1>14, <2>2, <3>1, <3>2
    <2>3. ASSUME NEW i \in Starts(c), NEW j \in Starts(c), i < j PROVE i + NalLength(c, i) <= j
      <3>1. i \in Starts(b)
        <4>1. i # v
          <5>1. i = v => j \in Starts(b) /\ j < v
            BY <1>10, <1>14, <2>3, <1>11
          <5>2. j \in Nat /\ v \in Nat
            BY <1>5, <1>11 DEF Starts
          <5> QED
            BY <1>0, <2>3, <5>1, <5>2
        <4> QED
          BY <1>14, <4>1
      <3>2. CASE j = v
        BY <1>9, <1>11, <1>18, <3>1, <3>2
      <3>3. CASE j \in Starts(b)
        BY <1>9, <1>18, <2>3, <3>1, <3>3
      <3> QED
        BY <1>14, <3>2, <3>3
    <2> QED
      BY <1>5, <2>1, <2>2, <2>3 DEF WholeNals
  <1> QED
    BY <1>2, <1>3, <1>5, <1>8, <1>10, <1>14, <1>15, <1>16, <1>19 DEF HasOneMore

\* c is b and behind it the first k NALs of a picture p, at the places P.
HasNals(b, c, P, shape, p, k) ==
    /\ WholeNals(c)
    /\ Extends(c, b)
    /\ Starts(c) = Starts(b) \cup {P[j] : j \in 1..k}
    /\ \A j \in 1..k :
         /\ Len(b) < P[j] /\ P[j] <= Len(c)
         /\ Video!NalType(c, P[j]) = shape[j][1]
         /\ Video!IsVcl(shape[j][1]) => IdAt(c, P[j]) = <<p[1], p[2]>>
    /\ \A i, j \in 1..k : i < j => P[i] < P[j]
    /\ \A i \in Starts(b) : AlikeAt(b, c, i)

LEMMA OneNalMore ==
  ASSUME NEW b, NEW c, NEW P, NEW shape, NEW p, NEW k \in Nat \ {0}, HasNals(b, c, P, shape, p, k - 1),
         NEW w, IsNal(w, shape[k][2], shape[k][1], p), NEW d, d = c \o w, P[k] = Len(c) + 1
  PROVE  HasNals(b, d, P, shape, p, k)
  <1>1. PICK v : v = P[k]
    OBVIOUS
  <1>2. PICK code : code = shape[k][2]
    OBVIOUS
  <1>3. PICK kind : kind = shape[k][1]
    OBVIOUS
  <1>4. WholeNals(c) /\ Extends(c, b) /\ IsNal(w, code, kind, p) /\ v = Len(c) + 1
    BY <1>1, <1>2, <1>3 DEF HasNals
  <1>5. HasOneMore(c, d, v, code, kind, p)
    BY <1>4, AppendNal
  <1>6. PICK m \in Nat : m = Len(c)
    BY <1>4 DEF WholeNals
  <1>7. PICK n \in Nat : n = Len(b) /\ n <= m
    BY <1>4, <1>6 DEF Extends
  <1>8. PICK l \in Nat : l = Len(d) /\ l >= v
    <2>1. code \in {3, 4} /\ BodyLength(kind) \in {2, 6}
      BY <1>4 DEF IsNal, BodyLength
    <2>2. Len(d) = m + code + BodyLength(kind)
      BY <1>5, <1>6 DEF HasOneMore
    <2> QED
      BY <1>4, <1>6, <2>1, <2>2
  <1>9. Extends(d, b)
    <2>1. /\ b \in Seq(Nat) /\ d \in Seq(Nat)
          /\ \A j \in 1..n : c[j] = b[j]
          /\ \A j \in 1..m : d[j] = c[j]
      BY <1>4, <1>5, <1>6, <1>7 DEF Extends, HasOneMore
    <2>2. ASSUME NEW j \in 1..n PROVE d[j] = b[j]
      <3>1. j \in 1..m
        BY <1>7
      <3> QED
        BY <2>1, <3>1
    <2> QED
      BY <1>4, <1>6, <1>7, <1>8, <2>1, <2>2 DEF Extends
  <1>10. \A j \in 1..k : j # k => j \in 1..(k - 1)
    OBVIOUS
  <1>11. \A j \in 1..(k - 1) : j \in 1..k /\ j < k
    OBVIOUS
  <1>12. Starts(d) = Starts(b) \cup {P[j] : j \in 1..k}
    <2>1. Starts(d) = Starts(c) \cup {v} /\ Starts(c) = Starts(b) \cup {P[j] : j \in 1..(k - 1)}
      BY <1>5 DEF HasOneMore, HasNals
    <2>2. k \in 1..k
      OBVIOUS
    <2> QED
      BY <1>1, <1>10, <1>11, <2>1, <2>2
  <1>13. ASSUME NEW j \in 1..(k - 1)
         PROVE  /\ P[j] \in Starts(c) /\ P[j] < v /\ P[j] \in Nat
                /\ n < P[j] /\ P[j] <= m
                /\ Video!NalType(d, P[j]) = shape[j][1]
                /\ Video!IsVcl(shape[j][1]) => IdAt(d, P[j]) = <<p[1], p[2]>>
    <2>1. P[j] \in Starts(c)
      BY DEF HasNals
    <2>2. /\ n < P[j] /\ P[j] <= m
          /\ Video!NalType(c, P[j]) = shape[j][1]
          /\ Video!IsVcl(shape[j][1]) => IdAt(c, P[j]) = <<p[1], p[2]>>
      BY <1>6, <1>7 DEF HasNals
    <2>3. AlikeAt(c, d, P[j]) /\ P[j] < v
      BY <1>5, <2>1 DEF HasOneMore
    <2>4. P[j] \in Nat
      BY <1>4, <2>1 DEF Starts, WholeNals
    <2> QED
      BY <2>1, <2>2, <2>3, <2>4 DEF AlikeAt
  <1>14. ASSUME NEW j \in 1..k
         PROVE  /\ Len(b) < P[j] /\ P[j] <= Len(d)
                /\ Video!NalType(d, P[j]) = shape[j][1]
                /\ Video!IsVcl(shape[j][1]) => IdAt(d, P[j]) = <<p[1], p[2]>>
    <2>1. CASE j = k
      <3>1. n < v /\ v <= l
        BY <1>4, <1>6, <1>7, <1>8
      <3>2. Video!NalType(d, v) = kind /\ (Video!IsVcl(kind) => IdAt(d, v) = <<p[1], p[2]>>)
        BY <1>5 DEF HasOneMore
      <3> QED
        BY <1>1, <1>3, <1>7, <1>8, <2>1, <3>1, <3>2
    <2>2. CASE j # k
      <3>1. j \in 1..(k - 1)
        BY <1>10, <2>2
      <3>2. P[j] <= l
        BY <1>4, <1>6, <1>8, <1>13, <3>1
      <3> QED
        BY <1>7, <1>8, <1>13, <3>1, <3>2
    <2> QED
      BY <2>1, <2>2
  <1>15. ASSUME NEW i \in 1..k, NEW j \in 1..k, i < j PROVE P[i] < P[j]
    <2>1. i \in 1..(k - 1)
      BY <1>15
    <2>2. CASE j = k
      BY <1>1, <1>13, <2>1, <2>2
    <2>3. CASE j # k
      <3>1. j \in 1..(k - 1)
        BY <1>10, <2>3
      <3> QED
        BY <1>15, <2>1, <3>1 DEF HasNals
    <2> QED
      BY <2>2, <2>3
  <1>16. ASSUME NEW i \in Starts(b) PROVE AlikeAt(b, d, i)
    <2>1. AlikeAt(b, c, i)
      BY DEF HasNals
    <2>2. i \in Starts(c)
      BY <2>1 DEF AlikeAt
    <2>3. AlikeAt(c, d, i)
      BY <1>5, <2>2 DEF HasOneMore
    <2> QED
      BY <2>1, <2>3 DEF AlikeAt
  <1>17. WholeNals(d)
    BY <1>5 DEF HasOneMore
  <1> QED
    BY <1>9, <1>12, <1>14, <1>15, <1>16, <1>17 DEF HasNals

\* What an encoder may make of a picture, and the NALs of it.
Shape(shape) == shape \in Seq((0..31) \X {3, 4})

NalsOf(shape, p) == [i \in DOMAIN shape |-> Video!Nal(shape[i][1], shape[i][2], p)]

LEMMA Regroup ==
  ASSUME NEW p \in Seq(Nat), NEW q \in Seq(Nat), NEW r \in Seq(Nat)
  PROVE  (p \o q) \o r = p \o (q \o r)
  <1>1. PICK A : A = Nat
    OBVIOUS
  <1>2. p \in Seq(A) /\ q \in Seq(A) /\ r \in Seq(A)
    BY <1>1
  <1> QED
    BY <1>2, ConcatAssociative, SMTT(30)

LEMMA SameFlatten ==
  ASSUME NEW s
  PROVE  Video!FlattenSeq(s) = FlattenSeq(s)
  BY DEF Video!FlattenSeq, FlattenSeq

LEMMA CodedBehind ==
  ASSUME NEW b, WholeNals(b), NEW shape, Shape(shape), NEW p \in (Nat \ {0}) \X Nat,
         NEW c, c = b \o Video!Coded(shape, p)
  PROVE  /\ \E P : HasNals(b, c, P, shape, p, Len(shape))
         /\ Video!Coded(shape, p) \in Seq(Nat)
  <1>1. PICK n \in Nat : n = Len(shape)
    BY DEF Shape
  <1>2. ASSUME NEW i \in 1..n
        PROVE  shape[i][1] \in 0..31 /\ shape[i][2] \in {3, 4}
    <2>1. PICK D : D = (0..31) \X {3, 4}
      OBVIOUS
    <2>2. shape[i] \in D
      BY <1>1, <2>1 DEF Shape
    <2> QED
      BY <2>1, <2>2
  <1>3. PICK s : s = NalsOf(shape, p)
    OBVIOUS
  <1>4. ASSUME NEW i \in 1..n PROVE IsNal(s[i], shape[i][2], shape[i][1], p)
    <2>1. s[i] = Video!Nal(shape[i][1], shape[i][2], p)
      BY <1>1, <1>3 DEF NalsOf, Shape
    <2> QED
      BY <1>2, <2>1, NalBytes
  <1>5. s \in Seq(Seq(Nat)) /\ Len(s) = n
    <2>1. PICK D : D = Seq(Nat)
      OBVIOUS
    <2>2. \A i \in 1..n : s[i] \in D
      BY <1>4, <2>1 DEF IsNal
    <2>3. s = [i \in 1..n |-> s[i]]
      BY <1>1, <1>3 DEF NalsOf, Shape
    <2>4. PICK f \in [1..n -> D] : \A i \in 1..n : f[i] = s[i]
      <3> DEFINE F == [i \in 1..n |-> s[i]]
      <3>1. F \in [1..n -> D] /\ \A i \in 1..n : F[i] = s[i]
        BY <2>2
      <3> HIDE DEF F
      <3> QED
        BY <3>1
    <2>5. f = s
      BY <2>3, <2>4
    <2>6. f \in Seq(D) /\ Len(f) = n
      BY <2>4
    <2> QED
      BY <2>1, <2>5, <2>6
  <1>6. PICK J : J = Joined(s)
    OBVIOUS
  <1>7. /\ J \in [0..n -> Seq(Nat)]
        /\ J[0] = <<>>
        /\ \A i \in 1..n : J[i] = J[i - 1] \o s[i]
    BY <1>5, <1>6, JoinedDef
  <1>8. Video!Coded(shape, p) = J[n] /\ J[n] \in Seq(Nat)
    <2>1. FlattenSeq(s) = J[n]
      BY <1>5, <1>6, FlattenIsJoined
    <2>2. n \in 0..n
      OBVIOUS
    <2>3. Video!Coded(shape, p) = FlattenSeq(s)
      BY <1>3, SameFlatten DEF Video!Coded, NalsOf
    <2> QED
      BY <1>7, <2>1, <2>2, <2>3
  <1>9. PICK P : P = [j \in 1..n |-> Len(b \o J[j - 1]) + 1]
    OBVIOUS
  <1> DEFINE S == {k \in 0..n : HasNals(b, b \o J[k], P, shape, p, k)}
  <1>10. 0 \in S
    <2>1. b \o J[0] = b
      <3>1. PICK e \in Seq(Nat) : e = <<>> /\ Len(e) = 0
        BY NoPlaces
      <3>2. b \in Seq(Nat)
        BY DEF WholeNals
      <3> QED
        BY <1>7, <3>1, <3>2
    <2>2. 1..0 = {}
      OBVIOUS
    <2>3. Extends(b, b)
      BY DEF Extends, WholeNals
    <2>4. \A i \in Starts(b) : AlikeAt(b, b, i)
      BY DEF AlikeAt
    <2>5. HasNals(b, b, P, shape, p, 0)
      BY <2>2, <2>3, <2>4 DEF HasNals
    <2>6. 0 \in 0..n
      OBVIOUS
    <2> QED
      BY <2>1, <2>5, <2>6
  <1>11. ASSUME NEW k \in 1..n, k - 1 \in S PROVE k \in S
    <2>1. PICK f : f = b \o J[k - 1]
      OBVIOUS
    <2>2. HasNals(b, f, P, shape, p, k - 1)
      BY <1>11, <2>1
    <2>3. PICK d : d = f \o s[k]
      OBVIOUS
    <2>4. d = b \o J[k]
      <3>1. J[k] = J[k - 1] \o s[k] /\ J[k - 1] \in Seq(Nat)
        <4>1. k - 1 \in 0..n
          OBVIOUS
        <4> QED
          BY <1>7, <4>1
      <3>2. s[k] \in Seq(Nat) /\ b \in Seq(Nat)
        BY <1>4 DEF IsNal, WholeNals
      <3>3. PICK g \in Seq(Nat) : g = J[k - 1]
        BY <3>1
      <3>4. PICK w \in Seq(Nat) : w = s[k]
        BY <3>2
      <3>5. (b \o g) \o w = b \o (g \o w)
        BY <3>2, Regroup, ZenonT(60)
      <3> QED
        BY <2>1, <2>3, <3>1, <3>3, <3>4, <3>5
    <2>5. P[k] = Len(f) + 1
      BY <1>9, <2>1
    <2>6. k \in Nat \ {0} /\ k \in 0..n
      OBVIOUS
    <2>7. PICK w : w = s[k]
      OBVIOUS
    <2>8. IsNal(w, shape[k][2], shape[k][1], p)
      BY <1>4, <2>7
    <2>9. HasNals(b, d, P, shape, p, k)
      <3> HIDE DEF S
      <3> QED
        BY <2>2, <2>3, <2>5, <2>6, <2>7, <2>8, OneNalMore
    <2> QED
      BY <2>4, <2>6, <2>9
  <1> HIDE DEF S
  <1>12. 0..n \subseteq S
    BY <1>10, <1>11, Ascent
  <1>13. n \in S
    BY <1>12
  <1> QED
    BY <1>1, <1>8, <1>13 DEF S

\* The number of the picture a slice is of.
NumberAt(b, i) == IdAt(b, i)[2]

\* No slice of b lies between i and k.
Adjacent(b, i, k) == i < k /\ \A l \in Slices(b) : l <= i \/ k <= l

\* b is pictures 0 to m - 1 of an encoder, one slice each: a keyframe is an
\* IDR slice, parameter sets come with keyframes only, behind the delimiter.
IsPictures(b, inst, m) ==
    /\ WholeNals(b) /\ m \in Nat
    /\ \A i \in Slices(b) : /\ NumberAt(b, i) \in Nat
                            /\ IdAt(b, i) = <<inst, NumberAt(b, i)>>
                            /\ Video!NalType(b, i) = 5 <=> Video!IsKey(NumberAt(b, i))
    /\ \A i \in Slices(b) : (\A k \in Slices(b) : i <= k) => NumberAt(b, i) = 0
    /\ \A i, k \in Slices(b) : Adjacent(b, i, k) => NumberAt(b, k) = NumberAt(b, i) + 1
    /\ \A i \in Starts(b), k \in Slices(b) :
         Video!NalType(b, i) = 7 /\ Adjacent(b, i, k) => Video!NalType(b, k) = 5
    /\ \A i, j \in Starts(b) : Video!NalType(b, i) = 7 /\ Video!Opens(Video!NalType(b, j)) => ~ Adjacent(b, i, j)
    /\ Len(b) = 0 => m = 0
    /\ Len(b) # 0 => \E e \in Slices(b) : NumberAt(b, e) + 1 = m /\ \A i \in Starts(b) : i <= e

\* What EncoderAssumption says of a picture: its last NAL is its only slice.
IsShape(shape, n, key) ==
    /\ Shape(shape) /\ n = Len(shape) /\ n \in Nat \ {0}
    /\ Video!IsVcl(shape[n][1])
    /\ shape[n][1] = 5 <=> key
    /\ \A k \in 1..n : k # n => ~ Video!IsVcl(shape[k][1])
    /\ \A k \in 1..n : shape[k][1] = 7 => key
    /\ \A j, k \in 1..n : j < k /\ shape[j][1] = 7 => ~ Video!Opens(shape[k][1])

LEMMA ShapesAre ==
  ASSUME NEW m \in Nat, NEW shape \in Video!Shapes(m)
  PROVE  IsShape(shape, Len(shape), Video!IsKey(m))
  <1>1. PICK n : n = Len(shape)
    OBVIOUS
  <1>2. Shape(shape) /\ shape # <<>>
    BY EncoderAssumption DEF Video!Shapes, Shape, CodesPicture
  <1>3. n \in Nat \ {0}
    <2>1. PICK D : D = (0..31) \X {3, 4}
      OBVIOUS
    <2>2. shape \in Seq(D)
      BY <1>2, <2>1 DEF Shape
    <2> QED
      BY <1>1, <1>2, <2>2
  <1>4. \A k \in 1..n : k # n => k \in 1..(n - 1)
    BY <1>3
  <1>5. 5 \in 1..5 /\ 5 \notin 1..4
    OBVIOUS
  <1>6. CASE Video!IsKey(m)
    <2>1. shape \in KeyShapes
      BY <1>6 DEF Video!Shapes
    <2>2. CodesPicture(shape, {5}) /\ \A j, k \in 1..n : j < k /\ shape[j][1] = 7 => ~ Video!Opens(shape[k][1])
      BY <1>1, <2>1, EncoderAssumption
    <2>3. shape[n][1] = 5 /\ \A k \in 1..(n - 1) : ~ Video!IsVcl(shape[k][1])
      BY <1>1, <2>2 DEF CodesPicture
    <2> QED
      BY <1>1, <1>2, <1>3, <1>4, <1>5, <1>6, <2>2, <2>3 DEF IsShape, Video!IsVcl
  <1>7. CASE ~ Video!IsKey(m)
    <2>1. shape \in PShapes
      BY <1>7 DEF Video!Shapes
    <2>2. CodesPicture(shape, 1..4) /\ \A k \in 1..n : shape[k][1] # 7
      BY <1>1, <2>1, EncoderAssumption
    <2>3. shape[n][1] \in 1..4 /\ \A k \in 1..(n - 1) : ~ Video!IsVcl(shape[k][1])
      BY <1>1, <2>2 DEF CodesPicture
    <2>4. shape[n][1] \in 1..5 /\ shape[n][1] # 5
      BY <2>3
    <2> QED
      BY <1>1, <1>2, <1>3, <1>4, <1>7, <2>2, <2>3, <2>4 DEF IsShape, Video!IsVcl
  <1> QED
    BY <1>1, <1>6, <1>7

LEMMA OnePictureMore ==
  ASSUME NEW b, NEW inst \in Nat \ {0}, NEW m, IsPictures(b, inst, m),
         NEW shape \in Video!Shapes(m), NEW c, c = b \o Video!Coded(shape, <<inst, m>>)
  PROVE  IsPictures(c, inst, m + 1)
  <1>1. m \in Nat /\ WholeNals(b)
    BY DEF IsPictures
  <1>2. PICK n : IsShape(shape, n, Video!IsKey(m)) /\ n = Len(shape)
    BY <1>1, ShapesAre
  <1>3. PICK p \in (Nat \ {0}) \X Nat : p = <<inst, m>>
    BY <1>1
  <1>4. PICK P : HasNals(b, c, P, shape, p, n)
    BY <1>1, <1>2, <1>3, CodedBehind DEF IsShape
  <1>5. n \in Nat \ {0} /\ n \in 1..n
    BY <1>2 DEF IsShape
  <1>6. PICK l \in Nat : l = Len(b)
    BY <1>1 DEF WholeNals
  <1>7. \A i \in Starts(b) : i \in 1..l
    BY <1>6 DEF Starts
  <1>8. /\ WholeNals(c) /\ Extends(c, b) /\ c \in Seq(Nat)
        /\ Starts(c) = Starts(b) \cup {P[j] : j \in 1..n}
        /\ \A i \in Starts(b) : AlikeAt(b, c, i)
    BY <1>4 DEF HasNals, WholeNals
  <1>9. \A j \in 1..n :
          /\ P[j] \in Starts(c) /\ P[j] \in Nat /\ l < P[j]
          /\ Video!NalType(c, P[j]) = shape[j][1]
    <2> TAKE j \in 1..n
    <2>1. P[j] \in Starts(c)
      BY <1>8
    <2>2. P[j] \in Nat
      BY <1>8, <2>1 DEF Starts
    <2>3. Len(b) < P[j] /\ Video!NalType(c, P[j]) = shape[j][1]
      BY <1>4 DEF HasNals
    <2> QED
      BY <1>6, <2>1, <2>2, <2>3
  <1>10. PICK v : v = P[n]
    OBVIOUS
  <1>11. /\ v \in Starts(c) /\ v \in Nat /\ l < v
         /\ Video!NalType(c, v) = shape[n][1]
         /\ IdAt(c, v) = <<inst, m>> /\ NumberAt(c, v) = m
         /\ \A j \in 1..n : j # n => P[j] < v
    <2>1. Video!IsVcl(shape[n][1])
      BY <1>2 DEF IsShape
    <2>2. IdAt(c, v) = <<p[1], p[2]>>
      BY <1>4, <1>5, <1>10, <2>1 DEF HasNals
    <2>3. p[1] = inst /\ p[2] = m
      BY <1>3
    <2>4. NumberAt(c, v) = m
      BY <2>2, <2>3 DEF NumberAt
    <2>5. \A j \in 1..n : j # n => P[j] < v
      <3>1. \A j \in 1..n : j # n => j < n
        BY <1>5
      <3> QED
        BY <1>4, <1>5, <1>10, <3>1 DEF HasNals
    <2> QED
      BY <1>5, <1>9, <1>10, <2>2, <2>3, <2>4, <2>5
  <1>12. \A i \in Starts(b) : /\ i \in Starts(c) /\ i < v
                              /\ Video!NalType(c, i) = Video!NalType(b, i)
                              /\ i \in Slices(b) => NumberAt(c, i) = NumberAt(b, i) /\ IdAt(c, i) = IdAt(b, i)
    <2> TAKE i \in Starts(b)
    <2>1. AlikeAt(b, c, i)
      BY <1>8
    <2>2. i < v
      <3>1. i \in 1..l
        BY <1>7
      <3>2. l < v /\ v \in Nat
        BY <1>11
      <3> QED
        BY <1>6, <3>1, <3>2
    <2> QED
      BY <2>1, <2>2 DEF AlikeAt, Slices, NumberAt
  <1>13. Slices(c) = Slices(b) \cup {v}
    <2>1. ASSUME NEW i \in Slices(c) PROVE i \in Slices(b) \cup {v}
      <3>1. i \in Starts(c) /\ Video!IsVcl(Video!NalType(c, i))
        BY DEF Slices
      <3>2. CASE i \in Starts(b)
        BY <1>12, <3>1, <3>2 DEF Slices
      <3>3. CASE i \notin Starts(b)
        <4>1. PICK j \in 1..n : i = P[j]
          BY <1>8, <3>1, <3>3
        <4>2. Video!IsVcl(shape[j][1])
          BY <1>9, <3>1, <4>1
        <4>3. j = n
          BY <1>2, <4>2 DEF IsShape
        <4> QED
          BY <1>10, <4>1, <4>3
      <3> QED
        BY <3>2, <3>3
    <2>2. v \in Slices(c)
      BY <1>2, <1>11 DEF Slices, IsShape
    <2>3. \A i \in Slices(b) : i \in Slices(c)
      BY <1>12 DEF Slices
    <2> QED
      BY <2>1, <2>2, <2>3
  <1>14. \A i \in Slices(b) : i \in Starts(b) /\ i \in 1..l /\ i \in Nat
    BY <1>7 DEF Slices
  <1>15. ASSUME l = 0 PROVE m = 0 /\ Slices(b) = {}
    BY <1>6, <1>14, <1>15 DEF IsPictures
  <1>16. ASSUME l # 0
         PROVE  \E e \in Slices(b) : NumberAt(b, e) + 1 = m /\ \A i \in Starts(b) : i <= e
    BY <1>6, <1>16 DEF IsPictures
  <1>17. ASSUME NEW i \in Slices(c)
         PROVE  /\ NumberAt(c, i) \in Nat
                /\ IdAt(c, i) = <<inst, NumberAt(c, i)>>
                /\ Video!NalType(c, i) = 5 <=> Video!IsKey(NumberAt(c, i))
    <2>1. CASE i \in Slices(b)
      <3>1. /\ NumberAt(b, i) \in Nat
            /\ IdAt(b, i) = <<inst, NumberAt(b, i)>>
            /\ Video!NalType(b, i) = 5 <=> Video!IsKey(NumberAt(b, i))
        BY <2>1 DEF IsPictures
      <3> QED
        BY <1>12, <1>14, <2>1, <3>1
    <2>2. CASE i = v
      <3>1. shape[n][1] = 5 <=> Video!IsKey(m)
        BY <1>2 DEF IsShape
      <3> QED
        BY <1>1, <1>11, <2>2, <3>1
    <2> QED
      BY <1>13, <1>17, <2>1, <2>2
  <1>18. ASSUME NEW i \in Slices(c), \A k \in Slices(c) : i <= k PROVE NumberAt(c, i) = 0
    <2>1. CASE i \in Slices(b)
      <3>1. NumberAt(b, i) = 0
        BY <1>13, <1>18, <2>1 DEF IsPictures
      <3> QED
        BY <1>12, <1>14, <2>1, <3>1
    <2>2. CASE i = v
      <3>1. Slices(b) = {}
        <4>1. \A k \in Slices(b) : k < v /\ v <= k
          BY <1>12, <1>13, <1>14, <1>18, <2>2
        <4> QED
          BY <1>11, <1>14, <4>1
      <3>2. m = 0
        BY <1>15, <1>16, <3>1
      <3> QED
        BY <1>11, <2>2, <3>2
    <2> QED
      BY <1>13, <1>18, <2>1, <2>2
  <1>19. ASSUME NEW i \in Slices(c), Adjacent(c, i, v), i # v
         PROVE  i \in Slices(b) /\ NumberAt(b, i) + 1 = m /\ \A k \in Starts(b) : k <= i
    <2>1. i \in Slices(b)
      BY <1>13, <1>19
    <2>2. l # 0
      BY <1>14, <2>1
    <2>3. PICK e \in Slices(b) : NumberAt(b, e) + 1 = m /\ \A k \in Starts(b) : k <= e
      BY <1>16, <2>2
    <2>4. e \in Slices(c) /\ e < v
      BY <1>12, <1>13, <1>14
    <2>5. e <= i
      <3>1. e <= i \/ v <= e
        BY <1>19, <2>4 DEF Adjacent
      <3>2. e \in Nat /\ v \in Nat
        BY <1>11, <1>14, <2>3
      <3> QED
        BY <2>4, <3>1, <3>2
    <2>6. i <= e
      BY <1>14, <2>1, <2>3
    <2>7. i = e
      BY <1>14, <2>1, <2>5, <2>6
    <2> QED
      BY <2>1, <2>3, <2>7
  <1>20. ASSUME NEW i \in Slices(b), NEW k \in Slices(b) PROVE Adjacent(c, i, k) <=> Adjacent(b, i, k)
    <2>1. k < v /\ k \in Nat /\ v \in Nat
      BY <1>11, <1>12, <1>14
    <2>2. k <= v
      BY <2>1
    <2>3. (\A y \in Slices(c) : y <= i \/ k <= y) <=> (\A y \in Slices(b) : y <= i \/ k <= y)
      BY <1>13, <2>2
    <2> QED
      BY <2>3 DEF Adjacent
  <1>21. ASSUME NEW i \in Slices(c), NEW k \in Slices(c), Adjacent(c, i, k)
         PROVE  NumberAt(c, k) = NumberAt(c, i) + 1
    <2>0. i < k
      BY <1>21 DEF Adjacent
    <2>1. CASE k = v
      <3>1. i # v
        BY <1>11, <2>0, <2>1
      <3> QED
        BY <1>11, <1>12, <1>14, <1>19, <1>21, <2>1, <3>1
    <2>2. CASE k \in Slices(b)
      <3>1. i \in Slices(b)
        <4>1. k < v
          BY <1>12, <1>14, <2>2
        <4>2. i # v
          BY <1>11, <1>14, <2>0, <2>2, <4>1
        <4> QED
          BY <1>13, <4>2
      <3>2. NumberAt(b, k) = NumberAt(b, i) + 1
        BY <1>20, <1>21, <2>2, <3>1 DEF IsPictures
      <3> QED
        BY <1>12, <1>14, <2>2, <3>1, <3>2
    <2> QED
      BY <1>13, <1>21, <2>1, <2>2
  <1>22. ASSUME NEW i \in Starts(c), NEW k \in Slices(c), Video!NalType(c, i) = 7, Adjacent(c, i, k)
         PROVE  Video!NalType(c, k) = 5
    <2>0. i < k
      BY <1>22 DEF Adjacent
    <2>1. CASE i \in Starts(b) /\ k \in Slices(b)
      <3>1. Adjacent(b, i, k)
        BY <1>13, <1>22 DEF Adjacent
      <3>2. Video!NalType(b, i) = 7
        BY <1>12, <1>22, <2>1
      <3>3. Video!NalType(b, k) = 5
        BY <2>1, <3>1, <3>2 DEF IsPictures
      <3> QED
        BY <1>12, <1>14, <2>1, <3>3
    <2>2. CASE i \in Starts(b) /\ k = v
      <3>1. l # 0
        BY <1>7, <2>2
      <3>2. PICK e \in Slices(b) : \A j \in Starts(b) : j <= e
        BY <1>16, <3>1
      <3>3. i <= e /\ e < v /\ e \in Slices(c)
        BY <1>12, <1>13, <1>14, <2>2, <3>2
      <3>4. e <= i
        <4>1. e <= i \/ v <= e
          BY <1>22, <2>2, <3>3 DEF Adjacent
        <4>2. e \in Nat /\ v \in Nat
          BY <1>11, <1>14, <3>2
        <4> QED
          BY <3>3, <4>1, <4>2
      <3>5. i = e
        BY <1>7, <1>14, <2>2, <3>3, <3>4
      <3>6. Video!IsVcl(Video!NalType(c, i))
        BY <1>13, <3>5 DEF Slices
      <3>7. 7 \notin 1..5
        OBVIOUS
      <3> QED
        BY <1>22, <3>6, <3>7 DEF Video!IsVcl
    <2>3. CASE i \notin Starts(b)
      <3>1. PICK j \in 1..n : i = P[j]
        BY <1>8, <2>3
      <3>2. k = v
        <4>1. l < i /\ i \in Nat
          BY <1>9, <3>1
        <4>2. k \in Slices(b) => k \in 1..l
          BY <1>14
        <4>3. k \notin Slices(b)
          BY <1>6, <2>0, <4>1, <4>2
        <4> QED
          BY <1>13, <4>3
      <3>3. shape[j][1] = 7
        BY <1>9, <1>22, <3>1
      <3>4. shape[n][1] = 5
        BY <1>2, <3>3 DEF IsShape
      <3> QED
        BY <1>11, <3>2, <3>4
    <2> QED
      BY <1>13, <2>1, <2>2, <2>3
  <1>23. ASSUME NEW i \in Starts(c), NEW j \in Starts(c), Video!NalType(c, i) = 7,
                Video!Opens(Video!NalType(c, j)), Adjacent(c, i, j)
         PROVE  FALSE
    <2>0. i < j
      BY <1>23 DEF Adjacent
    <2>1. CASE i \in Starts(b) /\ j \in Starts(b)
      <3>1. Adjacent(b, i, j)
        BY <1>13, <1>23 DEF Adjacent
      <3>2. Video!NalType(b, i) = 7 /\ Video!Opens(Video!NalType(b, j))
        BY <1>12, <1>23, <2>1
      <3> QED
        BY <2>1, <3>1, <3>2 DEF IsPictures
    <2>2. CASE i \in Starts(b) /\ j \notin Starts(b)
      <3>1. l # 0
        BY <1>7, <2>2
      <3>2. PICK e \in Slices(b) : \A x \in Starts(b) : x <= e
        BY <1>16, <3>1
      <3>3. PICK x \in 1..n : j = P[x]
        BY <1>8, <2>2
      <3>4. i <= e /\ e < j /\ e \in Slices(c)
        BY <1>6, <1>9, <1>13, <1>14, <2>2, <3>2, <3>3
      <3>5. e <= i
        BY <1>9, <1>14, <1>23, <3>3, <3>4 DEF Adjacent
      <3>6. i = e
        BY <1>7, <1>14, <2>2, <3>4, <3>5
      <3>7. Video!IsVcl(Video!NalType(c, i))
        BY <1>13, <3>6 DEF Slices
      <3>8. 7 \notin 1..5
        OBVIOUS
      <3> QED
        BY <1>23, <3>7, <3>8 DEF Video!IsVcl
    <2>3. CASE i \notin Starts(b)
      <3>1. PICK x \in 1..n : i = P[x]
        BY <1>8, <2>3
      <3>2. j \notin Starts(b)
        BY <1>6, <1>7, <1>9, <2>0, <3>1
      <3>3. PICK y \in 1..n : j = P[y]
        BY <1>8, <3>2
      <3>4. x < y
        <4>1. ~ (y < x)
          <5>1. y < x => P[y] < P[x]
            BY <1>4 DEF HasNals
          <5> QED
            BY <1>9, <2>0, <3>1, <3>3, <5>1
        <4>2. x # y
          BY <1>9, <2>0, <3>1, <3>3
        <4> QED
          BY <1>5, <4>1, <4>2
      <3>5. shape[x][1] = 7 /\ Video!Opens(shape[y][1])
        BY <1>9, <1>23, <3>1, <3>3
      <3> QED
        BY <1>2, <3>4, <3>5 DEF IsShape
    <2> QED
      BY <2>1, <2>2, <2>3
  <1>24. Len(c) # 0
    <2>1. v \in 1..Len(c)
      BY <1>11 DEF Starts
    <2> QED
      BY <2>1
  <1>25. /\ v \in Slices(c)
         /\ NumberAt(c, v) + 1 = m + 1
         /\ \A i \in Starts(c) : i <= v
    <2>1. ASSUME NEW i \in Starts(c) PROVE i <= v
      <3>1. CASE i \in Starts(b)
        <4>1. i \in 1..l
          BY <1>7, <3>1
        <4>2. l < v /\ v \in Nat
          BY <1>11
        <4> QED
          BY <1>6, <4>1, <4>2
      <3>2. CASE i \notin Starts(b)
        <4>1. PICK j \in 1..n : i = P[j]
          BY <1>8, <3>2
        <4> QED
          <5>1. P[j] \in Nat /\ v \in Nat /\ (j # n => P[j] < v)
            BY <1>9, <1>11
          <5> QED
            BY <1>10, <4>1, <5>1
      <3> QED
        BY <3>1, <3>2
    <2> QED
      BY <1>11, <1>13, <2>1
  <1>26. m + 1 \in Nat
    BY <1>1
  <1> QED
    BY <1>8, <1>17, <1>18, <1>21, <1>22, <1>23, <1>24, <1>25, <1>26 DEF IsPictures

-----------------------------------------------------------------------------
(* The NALs of a unit                                                        *)

\* d has at k the NAL that b has at p.
SameAs(d, k, b, p) ==
    /\ Video!NalType(d, k) = Video!NalType(b, p)
    /\ Video!IsVcl(Video!NalType(b, p)) => IdAt(d, k) = IdAt(b, p)

\* What d, a part of b up to e, has at k.
IsNalOf(d, k, b, p, e) ==
    /\ k \in Starts(d) <=> p \in Starts(b) /\ p < e
    /\ k \in Starts(d) => SameAs(d, k, b, p)

LEMMA NalsOfPart ==
  ASSUME NEW b, WholeNals(b), NEW c \in Starts(b), NEW e \in Starts(b), c < e,
         NEW d, d = SubSeq(b, c, e - 1), NEW k \in Nat \ {0}, NEW p, p = Place(c, k)
  PROVE  d \in Seq(Nat) /\ IsNalOf(d, k, b, p, e)
  <1>1. b \in Seq(Nat)
    BY DEF WholeNals
  <1>2. PICK l \in Nat : l = Len(b)
    BY <1>1
  <1>3. c \in 1..l /\ e \in 1..l
    BY <1>2 DEF Starts
  <1>4. PICK u : u = TailAt(b, c)
    OBVIOUS
  <1>5. /\ u \in Seq(Nat) /\ Len(u) = (l - c) + 1
        /\ \A j \in 1..((l - c) + 1) : u[j] = b[c + j - 1]
    <2>1. c \in Nat \ {0} /\ c <= Len(b)
      BY <1>2, <1>3
    <2>2. IsPart(u, b, c, l)
      BY <1>1, <1>2, <1>4, <2>1, TailIs
    <2> QED
      BY <1>3, <2>2 DEF IsPart
  <1>6. PICK h \in Nat : h = e - 1 /\ h >= c
    BY <1>3
  <1>7. /\ d \in Seq(Nat) /\ Len(d) = (h - c) + 1
        /\ \A j \in 1..((h - c) + 1) : d[j] = b[c + j - 1]
    <2>1. c \in Nat \ {0} /\ c <= h + 1 /\ h <= Len(b)
      BY <1>2, <1>3, <1>6
    <2>2. IsPart(d, b, c, h)
      BY <1>1, <1>6, <2>1, PartOf
    <2> QED
      BY <1>3, <1>6, <2>2 DEF IsPart
  <1>8. Extends(u, d)
    <2>1. (h - c) + 1 <= (l - c) + 1 /\ (h - c) + 1 \in Nat
      BY <1>3, <1>6
    <2>2. \A j \in 1..((h - c) + 1) : j \in 1..((l - c) + 1)
      BY <1>3, <2>1
    <2>3. \A j \in 1..((h - c) + 1) : u[j] = d[j]
      BY <1>5, <1>7, <2>2
    <2> QED
      BY <1>5, <1>7, <2>1, <2>3 DEF Extends
  <1>9. /\ k \in Starts(u) <=> p \in Starts(b)
        /\ k \in Starts(u) => /\ CodeLength(u, k) = CodeLength(b, p)
                              /\ Video!NalType(u, k) = Video!NalType(b, p)
    <2>1. SameStart(u, k, b, p)
      BY <1>1, <1>4, TailStarts
    <2> QED
      BY <2>1 DEF SameStart
  <1>10. p \in Nat \ {0} /\ p = c + k - 1
    BY <1>3 DEF Place
  <1>11. ASSUME p \in Starts(b), p < e PROVE k \in Starts(d) /\ SameAs(d, k, b, p)
    <2>1. PICK n \in {5, 6, 9, 10} : n = NalLength(b, p)
      BY DEF NalLength, CodeLength, BodyLength
    <2>2. p + n <= e
      BY <1>11, <2>1 DEF WholeNals
    <2>3. k \in Starts(u) /\ NalLength(u, k) = n
      BY <1>9, <1>11, <2>1 DEF NalLength
    <2>4. k + n <= Len(d) + 1
      <3>1. n \in Nat
        BY <2>1
      <3> QED
        BY <1>3, <1>6, <1>7, <1>10, <2>2, <3>1
    <2>5. AlikeAt(d, u, k)
      BY <1>8, <2>3, <2>4, AlikeIn
    <2>6. ASSUME Video!IsVcl(Video!NalType(b, p)) PROVE IdAt(u, k) = IdAt(b, p)
      <3>1. PICK x \in {3, 4} : x = CodeLength(b, p) /\ x = CodeLength(u, k)
        BY <1>9, <1>11 DEF CodeLength
      <3>2. n = x + 6
        BY <2>1, <2>6, <3>1 DEF NalLength, BodyLength
      <3>3. k + x + 4 \in 1..((l - c) + 1) /\ k + x + 5 \in 1..((l - c) + 1)
        BY <1>3, <1>6, <1>7, <2>4, <3>2
      <3>4. c + (k + x + 4) - 1 = p + x + 4 /\ c + (k + x + 5) - 1 = p + x + 5
        BY <1>3, <1>10
      <3>5. u[k + x + 4] = b[p + x + 4] /\ u[k + x + 5] = b[p + x + 5]
        BY <1>5, <3>3, <3>4
      <3> QED
        BY <3>1, <3>5 DEF IdAt
    <2> QED
      BY <1>9, <1>11, <2>5, <2>6 DEF AlikeAt, SameAs
  <1>12. ASSUME k \in Starts(d) PROVE p \in Starts(b) /\ p < e
    <2>1. k \in Starts(u)
      BY <1>8, <1>12, FoundInTime
    <2>2. k \in 1..((h - c) + 1)
      BY <1>7, <1>12 DEF Starts
    <2>3. p < e
      BY <1>3, <1>6, <1>10, <2>2
    <2> QED
      BY <1>9, <2>1, <2>3
  <1> QED
    BY <1>7, <1>11, <1>12 DEF IsNalOf

LEMMA StartsFound ==
  ASSUME NEW d \in Seq(Nat)
  PROVE  Video!Range(Video!StartCodes(d)) = Starts(d)
  <1>1. PICK q : q = Video!StartCodes(d)
    OBVIOUS
  <1>2. Lists(q, Starts(d))
    BY <1>1, StartCodesList
  <1>3. Video!Range(q) = Starts(d)
    BY <1>2 DEF Video!Range, Lists
  <1> QED
    BY <1>1, <1>3

\* The pictures in d, by its slices.
LEMMA PicturesAre ==
  ASSUME NEW d \in Seq(Nat)
  PROVE  /\ Slices(d) = {} => Video!Pictures(d) = <<>>
         /\ \A k : Slices(d) = {k} =>
              Video!Pictures(d) = <<[kind |-> Video!NalType(d, k), id |-> IdAt(d, k)]>>
  <1>1. PICK l \in Nat : l = Len(d)
    OBVIOUS
  <1>2. Video!Range(Video!StartCodes(d)) = Starts(d)
    BY StartsFound
  <1>3. PICK q : q = Video!Ascending(l, Slices(d))
    OBVIOUS
  <1>4. Lists(q, Slices(d))
    <2>1. PICK A : A = Slices(d)
      OBVIOUS
    <2>2. A \cap (1..l) = A
      BY <1>1, <2>1 DEF Slices, Starts
    <2> QED
      BY <1>3, <2>1, <2>2, AscendingLists
  <1>5. Video!Pictures(d) = [n \in DOMAIN q |-> [kind |-> Video!NalType(d, q[n]), id |-> IdAt(d, q[n])]]
    <2>1. {i \in Video!Range(Video!StartCodes(d)) : Video!IsVcl(Video!NalType(d, i))} = Slices(d)
      BY <1>2 DEF Slices
    <2>2. \A n \in DOMAIN q : q[n] \in Nat
      BY <1>4 DEF Lists
    <2>3. ASSUME NEW i \in Nat
          PROVE  <<d[Video!Header(d, i) + 4], d[Video!Header(d, i) + 5] - 1>> = IdAt(d, i)
      <3>1. Video!Header(d, i) = i + CodeLength(d, i)
        BY DEF Video!Header, CodeLength
      <3> QED
        BY <3>1 DEF IdAt
    <2> QED
      BY <1>1, <1>3, <2>1, <2>2, <2>3 DEF Video!Pictures
  <1>6. ASSUME Slices(d) = {} PROVE Video!Pictures(d) = <<>>
    <2>1. PICK B : B = Slices(d)
      OBVIOUS
    <2>2. PICK e \in Seq(Nat) : e = <<>> /\ Len(e) = 0
      BY NoPlaces
    <2>3. Lists(e, B)
      BY <1>6, <2>1, <2>2 DEF Lists
    <2>4. q = e
      BY <1>4, <2>1, <2>3, OneList
    <2> QED
      BY <1>5, <2>2, <2>4
  <1>7. ASSUME NEW k, Slices(d) = {k}
        PROVE  Video!Pictures(d) = <<[kind |-> Video!NalType(d, k), id |-> IdAt(d, k)]>>
    <2>0. k \in Nat
      BY <1>7 DEF Slices, Starts
    <2>1. PICK B : B = Slices(d)
      OBVIOUS
    <2>2. PICK e : e = <<k>>
      OBVIOUS
    <2>3. e \in Seq(Nat) /\ Len(e) = 1 /\ e[1] = k
      BY <2>0, <2>2
    <2>4. Lists(e, B)
      <3>1. 1 \in 1..1 /\ \A j \in 1..1 : j = 1
        OBVIOUS
      <3> QED
        BY <1>7, <2>1, <2>3, <3>1 DEF Lists
    <2>5. q = e
      BY <1>4, <2>1, <2>4, OneList
    <2>6. DOMAIN q = 1..1 /\ \A n \in 1..1 : q[n] = k
      BY <2>3, <2>5
    <2>7. Video!Pictures(d) = [n \in 1..1 |-> [kind |-> Video!NalType(d, k), id |-> IdAt(d, k)]]
      BY <1>5, <2>6
    <2>8. PICK r : r = [kind |-> Video!NalType(d, k), id |-> IdAt(d, k)]
      OBVIOUS
    <2>9. [n \in 1..1 |-> r] = <<r>>
      OBVIOUS
    <2> QED
      BY <2>7, <2>8, <2>9
  <1> QED
    BY <1>6, <1>7

\* What was read of b has its NALs, but perhaps the last.
LEMMA NalsRead ==
  ASSUME NEW b, WholeNals(b), NEW s, Extends(b, s)
  PROVE  /\ \A i \in Nals(s) : AlikeAt(s, b, i) /\ i \in Nat
         /\ \A i \in Starts(b), j \in Starts(s) : i < j => i \in Nals(s)
         /\ Starts(s) \subseteq Starts(b)
  <1>1. b \in Seq(Nat) /\ s \in Seq(Nat)
    BY DEF Extends
  <1>2. PICK m \in Nat : m = Len(s)
    BY <1>1
  <1>3. ASSUME NEW i \in Starts(s) PROVE i \in Starts(b) /\ i \in 1..m
    <2>1. i \in 1..m
      BY <1>2 DEF Starts
    <2>2. i \in Nat \ {0}
      BY <2>1
    <2> QED
      BY <2>1, <2>2, FoundInTime
  <1>4. ASSUME NEW i \in Starts(b), NEW j \in Starts(s), i < j PROVE AlikeAt(s, b, i) /\ i \in Nals(s)
    <2>1. j \in Starts(b) /\ j \in 1..m
      BY <1>3
    <2>2. PICK n \in {5, 6, 9, 10} : n = NalLength(b, i)
      BY DEF NalLength, CodeLength, BodyLength
    <2>3. i + n <= j
      BY <1>4, <2>1, <2>2 DEF WholeNals
    <2>4. i \in Nat
      BY <1>1 DEF Starts
    <2>5. i + n <= m + 1
      <3>1. n \in Nat
        BY <2>2
      <3> QED
        BY <2>1, <2>3, <2>4, <3>1
    <2>6. AlikeAt(s, b, i)
      BY <1>2, <2>2, <2>5, AlikeIn
    <2> QED
      BY <1>4, <2>6 DEF AlikeAt, Nals
  <1>5. ASSUME NEW i \in Nals(s) PROVE AlikeAt(s, b, i) /\ i \in Nat
    <2>1. PICK j \in Starts(s) : i \in Starts(s) /\ i < j
      BY DEF Nals
    <2> QED
      BY <1>3, <1>4, <2>1
  <1> QED
    BY <1>3, <1>4, <1>5

\* Between two that follow each other in a list there is none.
LEMMA NoneBetween ==
  ASSUME NEW B, NEW a, Lists(a, B), NEW i \in Nat \ {0}, NEW j, j = i + 1, j <= Len(a), NEW x \in B
  PROVE  x <= a[i] \/ a[j] <= x
  <1>1. PICK n \in Nat : n = Len(a)
    BY DEF Lists
  <1>2. i \in 1..n /\ j \in 1..n
    BY <1>1
  <1>3. PICK k \in 1..n : a[k] = x
    BY <1>1 DEF Lists
  <1>4. \A y \in 1..n : a[y] \in Nat
    BY <1>1 DEF Lists
  <1>5. k < i \/ k = i \/ k = j \/ j < k
    BY <1>2
  <1>6. k < i => a[k] < a[i]
    BY <1>1, <1>2 DEF Lists
  <1>7. j < k => a[j] < a[k]
    BY <1>1, <1>2 DEF Lists
  <1> QED
    BY <1>2, <1>3, <1>4, <1>5, <1>6, <1>7

\* From lo to hi is a unit of what was read of b.
IsSpan(b, s, lo, hi) ==
    /\ lo \in Nals(s) /\ hi \in Opening(s) /\ lo < hi
    /\ \A x \in Opening(s) : x <= lo \/ hi <= x

\* There is at most one slice in it, an IDR slice if there is a parameter set.
LEMMA OneSlice ==
  ASSUME NEW b, NEW inst, NEW m, IsPictures(b, inst, m), NEW s, Extends(b, s),
         NEW lo, NEW hi, IsSpan(b, s, lo, hi)
  PROVE  /\ \A j, k \in Slices(b) : ~ (lo <= j /\ j < k /\ k < hi)
         /\ \A i \in Starts(b) : lo <= i /\ i < hi /\ Video!NalType(b, i) = 7 =>
              \E k \in Slices(b) : lo <= k /\ k < hi /\ Video!NalType(b, k) = 5
  <1>1. WholeNals(b)
    BY DEF IsPictures
  <1>2. /\ \A i \in Nals(s) : AlikeAt(s, b, i) /\ i \in Nat
        /\ \A i \in Starts(b), j \in Starts(s) : i < j => i \in Nals(s)
    BY <1>1, NalsRead
  <1>3. /\ lo \in Nals(s) /\ hi \in Nals(s) /\ hi \in Starts(s) /\ hi \in Opening(s)
        /\ lo \in Nat /\ hi \in Nat /\ lo < hi
    BY <1>2 DEF IsSpan, Opening, Nals
  <1>4. \A i \in Nals(s) : Video!NalType(s, i) = Video!NalType(b, i) /\ i \in Starts(b) /\ i \in Nat
    BY <1>2 DEF AlikeAt
  <1>5. \A i \in Starts(b) : i < hi => i \in Nals(s)
    BY <1>2, <1>3
  <1>6. ASSUME NEW i \in Nals(s), i < hi, Video!Opens(Video!NalType(b, i)) PROVE i <= lo
    <2>1. i \in Opening(s)
      BY <1>4, <1>6, OpeningAt
    <2> QED
      BY <1>3, <1>4, <1>6, <2>1 DEF IsSpan
  <1>7. ASSUME NEW j \in Slices(b), NEW k \in Slices(b), lo <= j, j < k, k < hi PROVE FALSE
    <2>1. j \in Nals(s) /\ k \in Nals(s) /\ j \in Nat /\ k \in Nat
      <3>1. k \in Nals(s)
        BY <1>5, <1>7 DEF Slices
      <3>2. k \in Starts(s) /\ j \in Starts(b)
        BY <1>7, <3>1 DEF Nals, Slices
      <3>3. j \in Nals(s)
        BY <1>2, <1>7, <3>2
      <3> QED
        BY <1>4, <3>1, <3>3
    <2>2. Video!IsVcl(Video!NalType(s, j)) /\ Video!IsVcl(Video!NalType(s, k))
      BY <1>4, <2>1 DEF Slices
    <2>3. \A l \in Nals(s) : j < l /\ l < k => ~ Video!Opens(Video!NalType(s, l))
      <3> TAKE l \in Nals(s)
      <3> SUFFICES ASSUME j < l, l < k, Video!Opens(Video!NalType(s, l)) PROVE FALSE
        OBVIOUS
      <3>1. l \in Nat /\ l < hi
        BY <1>3, <1>4, <1>7, <2>1
      <3>2. l <= lo
        BY <1>4, <1>6, <3>1
      <3> QED
        BY <1>3, <1>7, <2>1, <3>1, <3>2
    <2>4. k \in Opening(s)
      BY <1>7, <2>1, <2>2, <2>3, OpeningAt DEF SliceBefore
    <2>5. k <= lo \/ hi <= k
      BY <2>4 DEF IsSpan
    <2> QED
      BY <1>3, <1>7, <2>1, <2>5
  <1>8. ASSUME NEW i \in Starts(b), lo <= i, i < hi, Video!NalType(b, i) = 7
        PROVE  \E k \in Slices(b) : lo <= k /\ k < hi /\ Video!NalType(b, k) = 5
    <2>1. i \in Nals(s) /\ i \in Nat
      BY <1>4, <1>5, <1>8
    <2>2. \E k \in Slices(b) : i < k /\ k < hi
      <3>1. SUFFICES ASSUME \A k \in Slices(b) : ~ (i < k /\ k < hi) PROVE FALSE
        OBVIOUS
      <3>2. Adjacent(b, i, hi)
        <4>1. \A k \in Slices(b) : k \in Nat
          BY <1>1 DEF Slices, Starts, WholeNals
        <4> QED
          BY <1>3, <1>8, <2>1, <3>1, <4>1 DEF Adjacent
      <3>3. ~ Video!Opens(Video!NalType(b, hi))
        BY <1>3, <1>4, <1>8, <3>2 DEF IsPictures
      <3>4. ~ (\A j \in Nals(s) : hi <= j)
        BY <1>3
      <3>5. SliceBefore(s, hi)
        BY <1>3, <1>4, <3>3, <3>4, OpeningAt
      <3>6. PICK k \in Nals(s) :
              /\ k < hi /\ Video!IsVcl(Video!NalType(s, k))
              /\ \A l \in Nals(s) : k < l /\ l < hi => ~ Video!Opens(Video!NalType(s, l))
        BY <3>5 DEF SliceBefore
      <3>7. k \in Slices(b) /\ k \in Nat
        BY <1>4, <3>6 DEF Slices
      <3>8. k <= i
        BY <2>1, <3>1, <3>6, <3>7
      <3>9. k # i
        <4>1. 7 \notin 1..5
          OBVIOUS
        <4> QED
          BY <1>8, <3>7, <4>1 DEF Slices, Video!IsVcl
      <3>10. Video!Opens(Video!NalType(s, i))
        BY <1>4, <1>8, <2>1 DEF Video!Opens
      <3> QED
        BY <1>8, <2>1, <3>6, <3>7, <3>8, <3>9, <3>10
    <2>3. PICK T : T = {k \in Slices(b) : i < k /\ k < hi}
      OBVIOUS
    <2>4. T \subseteq Nat /\ T # {}
      BY <1>1, <2>2, <2>3 DEF Slices, Starts, WholeNals
    <2>5. PICK k \in T : \A y \in T : k <= y
      BY <2>4, LeastMember
    <2>6. k \in Slices(b) /\ i < k /\ k < hi /\ k \in Nat
      BY <2>3, <2>4, <2>5
    <2>7. Adjacent(b, i, k)
      <3>1. ASSUME NEW l \in Slices(b) PROVE l <= i \/ k <= l
        <4>1. l \in Nat
          BY <1>1 DEF Slices, Starts, WholeNals
        <4>2. CASE i < l /\ l < hi
          BY <2>3, <2>5, <4>2
        <4>3. CASE ~ (i < l /\ l < hi)
          BY <1>3, <2>1, <2>6, <4>1, <4>3
        <4> QED
          BY <4>2, <4>3
      <3> QED
        BY <2>6, <3>1 DEF Adjacent
    <2>8. Video!NalType(b, k) = 5
      BY <1>8, <2>6, <2>7 DEF IsPictures
    <2>9. lo <= k
      BY <1>3, <1>8, <2>1, <2>6
    <2> QED
      BY <2>6, <2>8, <2>9
  <1> QED
    BY <1>7, <1>8

\* What a unit is, by its slice.
LEMMA UnitIs ==
  ASSUME NEW b, NEW inst, NEW m, IsPictures(b, inst, m), NEW s, Extends(b, s),
         NEW lo, NEW hi, IsSpan(b, s, lo, hi), NEW d, d = SubSeq(b, lo, hi - 1)
  PROVE  /\ d \in Seq(Nat)
         /\ (\A k \in Slices(b) : ~ (lo <= k /\ k < hi)) =>
              Video!Pictures(d) = <<>> /\ ~ Video!Unit(d).keyframe
         /\ \A k \in Slices(b) : lo <= k /\ k < hi =>
              /\ Video!Pictures(d) = <<[kind |-> Video!NalType(b, k), id |-> IdAt(b, k)]>>
              /\ Video!Unit(d).keyframe <=> Video!NalType(b, k) = 5
  <1>1. WholeNals(b)
    BY DEF IsPictures
  <1>2. lo \in Starts(b) /\ hi \in Starts(b) /\ lo < hi
    BY <1>1, NalsRead DEF IsSpan, Opening, Nals
  <1>3. /\ lo \in Nat \ {0} /\ hi \in Nat
        /\ \A k \in Starts(b) : k \in Nat
    BY <1>1, <1>2 DEF Starts, WholeNals
  <1>4. d \in Seq(Nat)
    <2>1. PICK k \in Nat \ {0} : k = 1
      OBVIOUS
    <2>2. PICK p : p = Place(lo, k)
      OBVIOUS
    <2> QED
      BY <1>1, <1>2, <2>1, <2>2, NalsOfPart
  <1>5. ASSUME NEW k \in Nat \ {0}, NEW p, p = Place(lo, k) PROVE IsNalOf(d, k, b, p, hi)
    BY <1>1, <1>2, <1>5, NalsOfPart
  <1>6. ASSUME NEW k \in Starts(d)
        PROVE  \E p \in Starts(b) : /\ p = Place(lo, k) /\ lo <= p /\ p < hi /\ k \in Nat
                                    /\ SameAs(d, k, b, p)
    <2>1. k \in Nat \ {0}
      BY <1>4 DEF Starts
    <2>2. PICK p : p = Place(lo, k)
      OBVIOUS
    <2>3. IsNalOf(d, k, b, p, hi)
      BY <1>5, <2>1, <2>2
    <2>4. lo <= p
      BY <1>3, <2>1, <2>2 DEF Place
    <2> QED
      BY <1>6, <2>1, <2>2, <2>3, <2>4 DEF IsNalOf
  <1>7. ASSUME NEW p \in Starts(b), lo <= p, p < hi
        PROVE  \E k \in Starts(d) : p = Place(lo, k) /\ SameAs(d, k, b, p)
    <2>1. PICK k \in Nat \ {0} : k = (p - lo) + 1
      BY <1>3, <1>7
    <2>2. p = Place(lo, k)
      BY <1>3, <1>7, <2>1 DEF Place
    <2>3. IsNalOf(d, k, b, p, hi)
      BY <1>5, <2>1, <2>2
    <2> QED
      BY <1>7, <2>2, <2>3 DEF IsNalOf
  <1>8. Video!Unit(d).keyframe <=> \E i \in Starts(d) : Video!NalType(d, i) \in {5, 7}
    BY <1>4, StartsFound DEF Video!Unit
  <1>9. Video!Unit(d).keyframe <=> \E k \in Slices(b) : lo <= k /\ k < hi /\ Video!NalType(b, k) = 5
    <2>1. ASSUME Video!Unit(d).keyframe
          PROVE  \E k \in Slices(b) : lo <= k /\ k < hi /\ Video!NalType(b, k) = 5
      <3>1. PICK i \in Starts(d) : Video!NalType(d, i) \in {5, 7}
        BY <1>8, <2>1
      <3>2. PICK p \in Starts(b) : lo <= p /\ p < hi /\ SameAs(d, i, b, p)
        BY <1>6
      <3>3. CASE Video!NalType(b, p) = 7
        BY <3>2, <3>3, OneSlice
      <3>4. CASE Video!NalType(b, p) = 5
        <4>1. 5 \in 1..5
          OBVIOUS
        <4>2. p \in Slices(b)
          BY <3>4, <4>1 DEF Slices, Video!IsVcl
        <4> QED
          BY <3>2, <3>4, <4>2
      <3> QED
        BY <3>1, <3>2, <3>3, <3>4 DEF SameAs
    <2>2. ASSUME NEW k \in Slices(b), lo <= k, k < hi, Video!NalType(b, k) = 5
          PROVE  Video!Unit(d).keyframe
      <3>1. k \in Starts(b)
        BY DEF Slices
      <3>2. PICK i \in Starts(d) : SameAs(d, i, b, k)
        BY <1>7, <2>2, <3>1
      <3> QED
        BY <1>8, <2>2, <3>2 DEF SameAs
    <2> QED
      BY <2>1, <2>2
  <1>10. ASSUME NEW i \in Slices(d)
         PROVE  \E p \in Slices(b) : p = Place(lo, i) /\ lo <= p /\ p < hi /\ i \in Nat
    <2>1. i \in Starts(d) /\ Video!IsVcl(Video!NalType(d, i))
      BY DEF Slices
    <2>2. PICK p \in Starts(b) : p = Place(lo, i) /\ lo <= p /\ p < hi /\ i \in Nat /\ SameAs(d, i, b, p)
      BY <1>6, <2>1
    <2> QED
      BY <2>1, <2>2 DEF SameAs, Slices
  <1>11. ASSUME \A k \in Slices(b) : ~ (lo <= k /\ k < hi)
         PROVE  Video!Pictures(d) = <<>> /\ ~ Video!Unit(d).keyframe
    <2>1. Slices(d) = {}
      BY <1>10, <1>11
    <2> QED
      BY <1>4, <1>9, <1>11, <2>1, PicturesAre
  <1>12. ASSUME NEW k \in Slices(b), lo <= k, k < hi
         PROVE  /\ Video!Pictures(d) = <<[kind |-> Video!NalType(b, k), id |-> IdAt(b, k)]>>
                /\ Video!Unit(d).keyframe <=> Video!NalType(b, k) = 5
    <2>1. k \in Starts(b) /\ k \in Nat /\ Video!IsVcl(Video!NalType(b, k))
      BY <1>3 DEF Slices
    <2>2. PICK i \in Starts(d) : k = Place(lo, i) /\ SameAs(d, i, b, k)
      BY <1>7, <1>12, <2>1
    <2>3. Video!NalType(d, i) = Video!NalType(b, k) /\ IdAt(d, i) = IdAt(b, k)
      BY <2>1, <2>2 DEF SameAs
    <2>4. \A p \in Slices(b) : lo <= p /\ p < hi => p = k
      <3> TAKE p \in Slices(b)
      <3> SUFFICES ASSUME lo <= p, p < hi PROVE p = k
        OBVIOUS
      <3>1. p \in Nat
        BY <1>3 DEF Slices
      <3>2. ~ (p < k) /\ ~ (k < p)
        BY <1>12, OneSlice
      <3> QED
        BY <2>1, <3>1, <3>2
    <2>5. Slices(d) = {i}
      <3>1. i \in Slices(d)
        BY <2>1, <2>2, <2>3 DEF Slices
      <3>2. ASSUME NEW j \in Slices(d) PROVE j = i
        <4>1. PICK p \in Slices(b) : p = Place(lo, j) /\ lo <= p /\ p < hi /\ j \in Nat
          BY <1>10
        <4>2. p = k
          BY <2>4, <4>1
        <4>3. i \in Nat
          BY <1>6
        <4> QED
          BY <1>3, <2>2, <4>1, <4>2, <4>3 DEF Place
      <3> QED
        BY <3>1, <3>2
    <2>6. Video!Pictures(d) = <<[kind |-> Video!NalType(d, i), id |-> IdAt(d, i)]>>
      BY <1>4, <2>5, PicturesAre
    <2>7. Video!Unit(d).keyframe <=> Video!NalType(b, k) = 5
      BY <1>9, <1>12, <2>4
    <2> QED
      BY <2>3, <2>6, <2>7
  <1> QED
    BY <1>4, <1>11, <1>12

-----------------------------------------------------------------------------
(* The pictures in a series of units                                         *)

\* Of the slices of b from c on, the first is of picture x.
NextNumber(b, c, x) ==
    \A k \in Slices(b) : c <= k /\ (\A l \in Slices(b) : l < c \/ k <= l) => NumberAt(b, k) = x

\* r is picture x.
IsPicture(r, inst, x) == r.id = <<inst, x>> /\ (r.kind = 5 <=> Video!IsKey(x))

\* v is picture x, or no picture, and from c on b goes on accordingly.
CarriesNext(v, b, c, inst, x) ==
    \/ v = <<>> /\ NextNumber(b, c, x)
    \/ \E r : v = <<r>> /\ IsPicture(r, inst, x) /\ NextNumber(b, c, x + 1)

\* A unit carries the next picture, or none.
LEMMA OneUnitOn ==
  ASSUME NEW b, NEW inst, NEW m, IsPictures(b, inst, m), NEW s, Extends(b, s),
         NEW lo, NEW hi, IsSpan(b, s, lo, hi), NEW d, d = SubSeq(b, lo, hi - 1),
         NEW x \in Nat, NextNumber(b, lo, x)
  PROVE  CarriesNext(Video!Pictures(d), b, hi, inst, x)
  <1>1. WholeNals(b)
    BY DEF IsPictures
  <1>2. /\ \A k \in Slices(b) : k \in Nat
        /\ lo \in Nat /\ hi \in Nat /\ lo < hi
    <2>1. lo \in Nals(s) /\ hi \in Nals(s) /\ lo < hi
      BY DEF IsSpan, Opening
    <2> QED
      BY <1>1, <2>1, NalsRead DEF Slices, Starts, WholeNals
  <1>3. CASE \A k \in Slices(b) : ~ (lo <= k /\ k < hi)
    <2>1. Video!Pictures(d) = <<>>
      BY <1>3, UnitIs
    <2>2. NextNumber(b, hi, x)
      <3>1. SUFFICES ASSUME NEW k \in Slices(b), hi <= k, \A l \in Slices(b) : l < hi \/ k <= l
                     PROVE  NumberAt(b, k) = x
        BY DEF NextNumber
      <3>2. lo <= k
        BY <1>2, <3>1
      <3>3. \A l \in Slices(b) : l < lo \/ k <= l
        BY <1>2, <1>3, <3>1
      <3> QED
        BY <3>2, <3>3 DEF NextNumber
    <2> QED
      BY <2>1, <2>2 DEF CarriesNext
  <1>4. ASSUME NEW k \in Slices(b), lo <= k, k < hi
        PROVE  \E r : Video!Pictures(d) = <<r>> /\ IsPicture(r, inst, x) /\ NextNumber(b, hi, x + 1)
    <2>1. PICK r : r = [kind |-> Video!NalType(b, k), id |-> IdAt(b, k)]
      OBVIOUS
    <2>2. Video!Pictures(d) = <<r>>
      BY <1>4, <2>1, UnitIs
    <2>3. \A l \in Slices(b) : l <= k \/ hi <= l
      <3> TAKE l \in Slices(b)
      <3>1. ~ (k < l /\ l < hi)
        BY <1>4, OneSlice
      <3> QED
        BY <1>2, <3>1
    <2>4. \A l \in Slices(b) : l < lo \/ k <= l
      <3> TAKE l \in Slices(b)
      <3>1. ~ (lo <= l /\ l < k)
        BY <1>4, OneSlice
      <3> QED
        BY <1>2, <3>1
    <2>5. NumberAt(b, k) = x
      BY <1>4, <2>4 DEF NextNumber
    <2>6. IsPicture(r, inst, x)
      <3>1. IdAt(b, k) = <<inst, x>> /\ (Video!NalType(b, k) = 5 <=> Video!IsKey(x))
        BY <2>5 DEF IsPictures
      <3>2. r.id = IdAt(b, k) /\ r.kind = Video!NalType(b, k)
        BY <2>1
      <3> QED
        BY <3>1, <3>2 DEF IsPicture
    <2>7. NextNumber(b, hi, x + 1)
      <3>1. SUFFICES ASSUME NEW j \in Slices(b), hi <= j, \A l \in Slices(b) : l < hi \/ j <= l
                     PROVE  NumberAt(b, j) = x + 1
        BY DEF NextNumber
      <3>2. Adjacent(b, k, j)
        <4>1. k < j
          BY <1>2, <1>4, <3>1
        <4>2. \A l \in Slices(b) : l <= k \/ j <= l
          BY <1>2, <2>3, <3>1
        <4> QED
          BY <4>1, <4>2 DEF Adjacent
      <3> QED
        BY <2>5, <3>2 DEF IsPictures
    <2> QED
      BY <2>2, <2>6, <2>7
  <1> QED
    BY <1>3, <1>4 DEF CarriesNext

\* Q is pictures 0, 1 and so on of an encoder.
InOrder(Q, inst) == \A n \in 1..Len(Q) : IsPicture(Q[n], inst, n - 1)

LEMMA OrderGrows ==
  ASSUME NEW A, NEW Q \in Seq(A), NEW inst, InOrder(Q, inst), NEW r \in A, IsPicture(r, inst, Len(Q)),
         NEW R, R = Q \o <<r>>
  PROVE  InOrder(R, inst) /\ Len(R) = Len(Q) + 1
  <1>1. PICK l \in Nat : l = Len(Q)
    OBVIOUS
  <1>2. PICK e : e = <<r>>
    OBVIOUS
  <1>3. e \in Seq(A) /\ Len(e) = 1 /\ e[1] = r
    BY <1>2
  <1>4. IsJoin(A, R, Q, e)
    BY <1>2, <1>3, JoinOf
  <1>5. Len(R) = l + 1 /\ (\A k \in 1..l : R[k] = Q[k]) /\ R[l + 1] = r
    <2>1. 1 \in 1..Len(e)
      BY <1>3
    <2> QED
      BY <1>1, <1>3, <1>4, <2>1 DEF IsJoin
  <1>6. ASSUME NEW n \in 1..(l + 1) PROVE IsPicture(R[n], inst, n - 1)
    <2>1. CASE n = l + 1
      <3>1. n - 1 = l
        BY <2>1
      <3> QED
        BY <1>1, <1>5, <2>1, <3>1
    <2>2. CASE n # l + 1
      <3>1. n \in 1..l
        BY <2>2
      <3> QED
        BY <1>1, <1>5, <3>1 DEF InOrder
    <2> QED
      BY <2>1, <2>2
  <1> QED
    BY <1>1, <1>5, <1>6 DEF InOrder

\* All pictures in units that follow each other.
PicturesIn(us) == [i \in DOMAIN us |-> Video!Pictures(us[i].data)]

Shown(us) == FlattenSeq(PicturesIn(us))

PictureSet == UNION {Range(Video!Pictures(data)) : data \in Seq(Nat)}

LEMMA PicturesType ==
  ASSUME NEW d \in Seq(Nat)
  PROVE  Video!Pictures(d) \in Seq(PictureSet)
  <1>1. PICK q : q = Video!Ascending(Len(d), {i \in Video!Range(Video!StartCodes(d)) : Video!IsVcl(Video!NalType(d, i))})
    OBVIOUS
  <1>2. q \in Seq(Nat)
    BY <1>1, AscendingLists DEF Lists
  <1>3. PICK f : f = Video!Pictures(d)
    OBVIOUS
  <1>4. PICK n \in Nat : n = Len(q) /\ DOMAIN q = 1..n
    BY <1>2
  <1>5. PICK g : f = [i \in 1..n |-> g[i]]
    <2> DEFINE h == [i \in 1..n |-> [kind |-> Video!NalType(d, q[i]),
                                     id |-> <<d[Video!Header(d, q[i]) + 4], d[Video!Header(d, q[i]) + 5] - 1>>]]
    <2>1. f = h
      BY <1>1, <1>3, <1>4 DEF Video!Pictures
    <2>2. h = [i \in 1..n |-> h[i]]
      OBVIOUS
    <2> HIDE DEF h
    <2> QED
      BY <2>1, <2>2
  <1>6. DOMAIN f = 1..n /\ f \in [1..n -> Range(f)]
    BY <1>5 DEF Range
  <1>7. Range(f) \subseteq PictureSet
    BY <1>3 DEF PictureSet
  <1>8. PICK D : D = PictureSet
    OBVIOUS
  <1>9. f \in [1..n -> D]
    BY <1>6, <1>7, <1>8
  <1>10. f \in Seq(D)
    BY <1>9
  <1> QED
    BY <1>3, <1>8, <1>10

LEMMA ShownType ==
  ASSUME NEW us \in Seq(UnitSet)
  PROVE  PicturesIn(us) \in Seq(Seq(PictureSet)) /\ Shown(us) \in Seq(PictureSet)
  <1>1. PICK n \in Nat : n = Len(us)
    OBVIOUS
  <1>2. PICK D : D = Seq(PictureSet)
    OBVIOUS
  <1>3. ASSUME NEW i \in 1..n PROVE Video!Pictures(us[i].data) \in D
    <2>1. PICK U : U = UnitSet
      OBVIOUS
    <2>2. us[i] \in U
      BY <1>1, <2>1
    <2>3. PICK data \in Seq(Nat) : us[i] = Video!Unit(data)
      BY <2>1, <2>2 DEF UnitSet
    <2>4. us[i].data = data
      BY <2>3 DEF Video!Unit
    <2> QED
      BY <1>2, <2>4, PicturesType
  <1>4. PICK f : f = PicturesIn(us)
    OBVIOUS
  <1>5. f = [i \in 1..n |-> Video!Pictures(us[i].data)]
    BY <1>1, <1>4 DEF PicturesIn
  <1>6. f \in Seq(D)
    BY <1>3, <1>5
  <1>7. f \in Seq(Seq(PictureSet))
    BY <1>2, <1>6
  <1>8. FlattenSeq(f) \in Seq(PictureSet)
    BY <1>7, FlattenType
  <1> QED
    BY <1>4, <1>7, <1>8 DEF Shown

LEMMA SpanAt ==
  ASSUME NEW s \in Seq(Nat), NEW a, Lists(a, Opening(s)), NEW i \in Nat \ {0}, NEW j, j = i + 1, j <= Len(a), NEW b
  PROVE  IsSpan(b, s, a[i], a[j])
  <1>1. PICK n \in Nat : n = Len(a)
    BY DEF Lists
  <1>2. i \in 1..n /\ j \in 1..n /\ i < j
    BY <1>1
  <1>3. a[i] \in Opening(s) /\ a[j] \in Opening(s) /\ a[i] < a[j]
    BY <1>1, <1>2 DEF Lists
  <1>4. a[i] \in Nals(s)
    BY <1>3 DEF Opening
  <1>5. \A x \in Opening(s) : x <= a[i] \/ a[j] <= x
    <2> TAKE x \in Opening(s)
    <2>1. PICK B : B = Opening(s)
      OBVIOUS
    <2>2. Lists(a, B) /\ x \in B
      BY <2>1
    <2> QED
      BY <2>2, NoneBetween
  <1> QED
    BY <1>3, <1>4, <1>5 DEF IsSpan

\* The first cut is at the first NAL, so no slice is before it.
LEMMA BeforeFirst ==
  ASSUME NEW b, NEW inst, NEW m, IsPictures(b, inst, m), NEW s, Extends(b, s), Nals(s) # {},
         NEW a, Lists(a, Opening(s))
  PROVE  NextNumber(b, a[1], 0)
  <1>1. WholeNals(b)
    BY DEF IsPictures
  <1>2. /\ \A i \in Nals(s) : AlikeAt(s, b, i) /\ i \in Nat
        /\ \A i \in Starts(b), j \in Starts(s) : i < j => i \in Nals(s)
        /\ Starts(s) \subseteq Starts(b)
    BY <1>1, NalsRead
  <1>3. Nals(s) \subseteq Nat
    BY <1>2
  <1>4. PICK f \in Nals(s) : \A i \in Nals(s) : f <= i
    BY <1>3, LeastMember
  <1>5. f \in Opening(s) /\ Opening(s) \subseteq Nals(s)
    BY <1>4 DEF Opening
  <1>6. a[1] = f
    <2>1. PICK B : B = Opening(s)
      OBVIOUS
    <2>2. Lists(a, B) /\ f \in B /\ (\A y \in B : f <= y) /\ B \subseteq Nat
      BY <1>3, <1>4, <1>5, <2>1
    <2> QED
      BY <2>2, FirstOfList
  <1>7. ASSUME NEW k \in Slices(b) PROVE f <= k
    <2>1. k \in Starts(b) /\ k \in Nat /\ f \in Nat
      BY <1>1, <1>3, <1>4 DEF Slices, Starts, WholeNals
    <2>2. f \in Starts(s)
      BY <1>4 DEF Nals
    <2>3. k < f => f <= k
      BY <1>2, <1>4, <2>1, <2>2
    <2> QED
      BY <2>1, <2>3
  <1>8. \A k \in Slices(b) : k \in Nat /\ f \in Nat
    BY <1>1, <1>3, <1>4 DEF Slices, Starts, WholeNals
  <1>9. NextNumber(b, f, 0)
    <2>1. SUFFICES ASSUME NEW k \in Slices(b), \A l \in Slices(b) : l < f \/ k <= l
                   PROVE  NumberAt(b, k) = 0
      BY DEF NextNumber
    <2>2. \A l \in Slices(b) : k <= l
      BY <1>7, <1>8, <2>1
    <2> QED
      BY <2>2 DEF IsPictures
  <1> QED
    BY <1>6, <1>9

\* The units that were split from what was read carry the pictures in order.
LEMMA UnitsInOrder ==
  ASSUME NEW b, NEW inst, NEW m, IsPictures(b, inst, m), NEW s, Extends(b, s)
  PROVE  InOrder(Shown(Pushed(s).units), inst)
  <1>0. s \in Seq(Nat) /\ b \in Seq(Nat)
    BY DEF Extends
  <1>1. PICK U : U = Pushed(s).units
    OBVIOUS
  <1>2. U \in Seq(UnitSet)
    BY <1>0, <1>1, PushedType
  <1>3. PICK V : V = PicturesIn(U)
    OBVIOUS
  <1>4. PICK A : A = PictureSet
    OBVIOUS
  <1>5. V \in Seq(Seq(A))
    BY <1>2, <1>3, <1>4, ShownType
  <1>6. PICK l \in Nat : l = Len(V) /\ l = Len(U)
    <2>1. PICK l \in Nat : l = Len(U) /\ DOMAIN U = 1..l
      <3>1. PICK D : D = UnitSet
        OBVIOUS
      <3>2. U \in Seq(D)
        BY <1>2, <3>1
      <3> QED
        BY <3>2
    <2>2. DOMAIN V = 1..l
      BY <1>3, <2>1 DEF PicturesIn
    <2>3. PICK D : D = Seq(A)
      OBVIOUS
    <2>4. V \in Seq(D)
      BY <1>5, <2>3
    <2>5. Len(V) = l
      BY <2>1, <2>2, <2>4
    <2> QED
      BY <2>1, <2>5
  <1>7. PICK J : J = Joined(V)
    OBVIOUS
  <1>8. /\ J \in [0..l -> Seq(A)]
        /\ J[0] = <<>>
        /\ \A i \in 1..l : J[i] = J[i - 1] \o V[i]
    BY <1>5, <1>6, <1>7, JoinedDef
  <1>9. Shown(U) = J[l]
    BY <1>3, <1>5, <1>6, <1>7, FlattenIsJoined DEF Shown
  <1>10. J[0] \in Seq(A) /\ Len(J[0]) = 0
    <2>1. 0 \in 0..l
      OBVIOUS
    <2> QED
      BY <1>8, <2>1
  <1>11. CASE Nals(s) = {}
    <2>1. U = <<>>
      BY <1>0, <1>1, <1>11, PushedIs
    <2>2. l = 0
      BY <1>6, <2>1
    <2> QED
      BY <1>1, <1>9, <1>10, <2>2 DEF InOrder
  <1>12. CASE Nals(s) # {}
    <2>1. PICK a : Lists(a, Opening(s))
      BY <1>0, <1>12, SomeOpening
    <2>2. PICK n : n = Len(a)
      OBVIOUS
    <2>3. U = UnitsAt(s, a)
      BY <1>0, <1>1, <1>12, <2>1, PushedIs DEF SplitAt
    <2>4. AreUnits(U, s, a, n)
      BY <1>0, <1>12, <2>1, <2>2, <2>3, UnitsType
    <2>5. n \in Nat \ {0} /\ l = n - 1 /\ \A i \in 1..l : IsUnitAt(s, a, i, U[i])
      BY <1>6, <2>4 DEF AreUnits
    <2> DEFINE S == {i \in 0..l : InOrder(J[i], inst) /\ NextNumber(b, a[i + 1], Len(J[i]))}
    <2>6. 0 \in S
      <3>1. InOrder(J[0], inst)
        BY <1>10 DEF InOrder
      <3>2. NextNumber(b, a[1], 0)
        BY <1>12, <2>1, BeforeFirst
      <3>3. 0 + 1 = 1 /\ 0 \in 0..l
        OBVIOUS
      <3> QED
        BY <1>10, <3>1, <3>2, <3>3
    <2>7. ASSUME NEW i \in 1..l, i - 1 \in S PROVE i \in S
      <3>1. PICK h \in 0..l : h = i - 1 /\ h + 1 = i
        OBVIOUS
      <3>2. PICK Q : Q = J[h]
        OBVIOUS
      <3>3. PICK x \in Nat : x = Len(Q)
        BY <1>8, <3>2
      <3>4. Q \in Seq(A) /\ InOrder(Q, inst) /\ NextNumber(b, a[i], x)
        BY <1>8, <2>7, <3>1, <3>2, <3>3
      <3>5. PICK j \in Nat : j = i + 1 /\ j <= n /\ i \in Nat \ {0}
        BY <2>5
      <3>6. PICK lo : lo = a[i]
        OBVIOUS
      <3>7. PICK hi : hi = a[j]
        OBVIOUS
      <3>8. IsSpan(b, s, lo, hi)
        BY <1>0, <2>1, <2>2, <3>5, <3>6, <3>7, SpanAt
      <3>9. PICK d : d = SubSeq(b, lo, hi - 1)
        OBVIOUS
      <3>10. V[i] = Video!Pictures(d)
        <4>1. IsUnitAt(s, a, i, U[i])
          BY <2>5
        <4>2. /\ lo \in Nat \ {0} /\ hi \in Nat \ {0} /\ lo < hi /\ hi <= Len(s)
              /\ U[i] = Video!Unit(SubSeq(s, lo, hi - 1))
          BY <3>5, <3>6, <3>7, <4>1 DEF IsUnitAt
        <4>3. PICK e \in Nat : e = hi - 1 /\ lo <= e + 1 /\ e <= Len(s)
          BY <1>0, <4>2
        <4>4. SubSeq(b, lo, e) = SubSeq(s, lo, e)
          BY <4>2, <4>3, PartOfHead
        <4>5. U[i].data = d
          BY <3>9, <4>2, <4>3, <4>4 DEF Video!Unit
        <4>6. i \in DOMAIN U
          <5>1. PICK D : D = UnitSet
            OBVIOUS
          <5>2. U \in Seq(D)
            BY <1>2, <5>1
          <5> QED
            BY <1>6, <5>2
        <4> QED
          BY <1>3, <4>5, <4>6 DEF PicturesIn
      <3>11. J[i] = Q \o V[i]
        BY <1>8, <3>1, <3>2
      <3>12. \/ V[i] = <<>> /\ NextNumber(b, hi, x)
             \/ \E r : V[i] = <<r>> /\ IsPicture(r, inst, x) /\ NextNumber(b, hi, x + 1)
        <4>1. NextNumber(b, lo, x)
          BY <3>4, <3>6
        <4>2. CarriesNext(Video!Pictures(d), b, hi, inst, x)
          BY <3>8, <3>9, <4>1, OneUnitOn
        <4> QED
          BY <3>10, <4>2 DEF CarriesNext
      <3>13. CASE V[i] = <<>> /\ NextNumber(b, hi, x)
        <4>1. J[i] = Q
          BY <3>4, <3>11, <3>13
        <4>2. i \in 0..l
          OBVIOUS
        <4> QED
          BY <3>3, <3>4, <3>5, <3>7, <3>13, <4>1, <4>2
      <3>14. ASSUME NEW r, V[i] = <<r>>, IsPicture(r, inst, x), NextNumber(b, hi, x + 1) PROVE i \in S
        <4>1. r \in A
          <5>1. PICK D : D = Seq(A)
            OBVIOUS
          <5>2. V[i] \in D
            <6>1. V \in Seq(D)
              BY <1>5, <5>1
            <6>2. i \in 1..Len(V)
              BY <1>6
            <6> QED
              BY <6>1, <6>2
          <5>3. PICK e \in Seq(A) : e = <<r>>
            BY <3>14, <5>1, <5>2
          <5>4. e[1] = r /\ Len(e) = 1
            BY <5>3
          <5>5. e[1] \in A
            BY <5>3, <5>4
          <5> QED
            BY <5>4, <5>5
        <4>2. PICK R : R = Q \o <<r>>
          OBVIOUS
        <4>3. InOrder(R, inst) /\ Len(R) = x + 1
          BY <3>3, <3>4, <3>14, <4>1, <4>2, OrderGrows
        <4>4. J[i] = R
          BY <3>11, <3>14, <4>2
        <4>5. i \in 0..l
          OBVIOUS
        <4> QED
          BY <3>5, <3>7, <3>14, <4>3, <4>4, <4>5
      <3> HIDE DEF S
      <3> QED
        BY <3>12, <3>13, <3>14
    <2> HIDE DEF S
    <2>8. 0..l \subseteq S
      BY <2>6, <2>7, Ascent
    <2>9. l \in S
      BY <2>8
    <2> QED
      BY <1>1, <1>9, <2>9 DEF S
  <1> QED
    BY <1>11, <1>12

LEMMA FlattenJoin ==
  ASSUME NEW A, NEW s \in Seq(Seq(A)), NEW t \in Seq(Seq(A)), NEW r, r = s \o t
  PROVE  FlattenSeq(r) = FlattenSeq(s) \o FlattenSeq(t)
  <1>1. PICK D : D = Seq(A)
    OBVIOUS
  <1>2. s \in Seq(D) /\ t \in Seq(D)
    BY <1>1
  <1>3. PICK m \in Nat : m = Len(s)
    BY <1>2
  <1>4. PICK n \in Nat : n = Len(t)
    BY <1>2
  <1>5. /\ r \in Seq(D) /\ Len(r) = m + n
        /\ \A i \in 1..m : r[i] = s[i]
        /\ \A i \in 1..n : r[m + i] = t[i]
    <2>1. IsJoin(D, r, s, t)
      BY <1>2, JoinOf
    <2> QED
      BY <1>3, <1>4, <2>1 DEF IsJoin
  <1>6. r \in Seq(Seq(A))
    BY <1>1, <1>5
  <1>7. PICK J : J = Joined(s)
    OBVIOUS
  <1>8. PICK K : K = Joined(t)
    OBVIOUS
  <1>9. PICK L : L = Joined(r)
    OBVIOUS
  <1>10. J \in [0..m -> D] /\ J[0] = <<>> /\ \A i \in 1..m : J[i] = J[i - 1] \o s[i]
    BY <1>1, <1>3, <1>7, JoinedDef
  <1>11. K \in [0..n -> D] /\ K[0] = <<>> /\ \A i \in 1..n : K[i] = K[i - 1] \o t[i]
    BY <1>1, <1>4, <1>8, JoinedDef
  <1>12. L[0] = <<>> /\ \A i \in 1..(m + n) : L[i] = L[i - 1] \o r[i]
    BY <1>5, <1>6, <1>9, JoinedDef
  <1>13. FlattenSeq(r) = L[m + n] /\ FlattenSeq(s) = J[m] /\ FlattenSeq(t) = K[n]
    BY <1>3, <1>4, <1>5, <1>6, <1>7, <1>8, <1>9, FlattenIsJoined, ZenonT(60)
  <1> DEFINE S == {i \in 0..m : L[i] = J[i]}
  <1>14. 0 \in S
    <2>1. 0 \in 0..m
      OBVIOUS
    <2> QED
      BY <1>10, <1>12, <2>1
  <1>15. ASSUME NEW i \in 1..m, i - 1 \in S PROVE i \in S
    <2>1. i \in 1..(m + n) /\ i \in 0..m
      OBVIOUS
    <2>2. L[i] = L[i - 1] \o r[i] /\ J[i] = J[i - 1] \o s[i] /\ r[i] = s[i]
      BY <1>5, <1>10, <1>12, <2>1
    <2> QED
      BY <1>15, <2>1, <2>2
  <1>16. L[m] = J[m]
    <2> HIDE DEF S
    <2>1. 0..m \subseteq S
      BY <1>14, <1>15, Ascent
    <2>2. m \in S
      BY <2>1
    <2> QED
      BY <2>2 DEF S
  <1> HIDE DEF S
  <1>17. PICK F \in Seq(A) : F = J[m]
    <2>1. m \in 0..m
      OBVIOUS
    <2> QED
      BY <1>1, <1>10, <2>1
  <1> DEFINE T == {j \in 0..n : L[m + j] = F \o K[j]}
  <1>18. 0 \in T
    <2>1. PICK e \in Seq(A) : e = <<>> /\ Len(e) = 0
      <3>1. PICK e : e = <<>>
        OBVIOUS
      <3>2. e \in Seq(A) /\ Len(e) = 0
        BY <3>1
      <3> QED
        BY <3>1, <3>2
    <2>2. F \o e = F
      BY <2>1
    <2>3. 0 \in 0..n /\ m + 0 = m
      OBVIOUS
    <2> QED
      BY <1>11, <1>16, <1>17, <2>1, <2>2, <2>3
  <1>19. ASSUME NEW j \in 1..n, j - 1 \in T PROVE j \in T
    <2>1. PICK h \in 0..n : h = j - 1
      OBVIOUS
    <2>2. PICK k \in 1..(m + n) : k = m + j /\ k - 1 = m + h
      <3>1. m + j \in 1..(m + n) /\ (m + j) - 1 = m + h
        BY <2>1
      <3> QED
        BY <3>1
    <2>3. PICK G \in Seq(A) : G = K[h]
      BY <1>1, <1>11
    <2>4. PICK w \in Seq(A) : w = t[j]
      BY <1>1, <1>2, <1>4
    <2>5. L[m + h] = F \o G
      BY <1>19, <2>1, <2>3
    <2>6. L[k] = (F \o G) \o w
      BY <1>5, <1>12, <2>2, <2>4, <2>5
    <2>7. K[j] = G \o w
      BY <1>11, <2>1, <2>3, <2>4
    <2>8. (F \o G) \o w = F \o (G \o w)
      BY ConcatAssociative, SMTT(30)
    <2>9. j \in 0..n
      OBVIOUS
    <2> QED
      BY <2>2, <2>6, <2>7, <2>8, <2>9
  <1> HIDE DEF T
  <1>20. 0..n \subseteq T
    BY <1>18, <1>19, Ascent
  <1>21. n \in T
    BY <1>20
  <1> QED
    BY <1>13, <1>17, <1>21 DEF T

LEMMA ShownJoin ==
  ASSUME NEW us \in Seq(UnitSet), NEW vs \in Seq(UnitSet), NEW ws, ws = us \o vs
  PROVE  Shown(ws) = Shown(us) \o Shown(vs)
  <1>1. PICK U : U = UnitSet
    OBVIOUS
  <1>2. us \in Seq(U) /\ vs \in Seq(U)
    BY <1>1
  <1>3. PICK m \in Nat : m = Len(us) /\ DOMAIN us = 1..m
    BY <1>2
  <1>4. PICK n \in Nat : n = Len(vs) /\ DOMAIN vs = 1..n
    BY <1>2
  <1>5. /\ ws \in Seq(U) /\ Len(ws) = m + n
        /\ \A i \in 1..m : ws[i] = us[i]
        /\ \A i \in 1..n : ws[m + i] = vs[i]
    <2>1. IsJoin(U, ws, us, vs)
      BY <1>2, JoinOf
    <2> QED
      BY <1>3, <1>4, <2>1 DEF IsJoin
  <1>6. DOMAIN ws = 1..(m + n)
    BY <1>5
  <1>7. PICK A : A = PictureSet
    OBVIOUS
  <1>8. PICK D : D = Seq(A)
    OBVIOUS
  <1>9. PICK p \in Seq(D) : p = PicturesIn(us)
    BY <1>7, <1>8, ShownType
  <1>10. PICK q \in Seq(D) : q = PicturesIn(vs)
    BY <1>7, <1>8, ShownType
  <1>11. PICK r \in Seq(D) : r = PicturesIn(ws)
    BY <1>1, <1>5, <1>7, <1>8, ShownType
  <1>12. /\ Len(p) = m /\ \A i \in 1..m : p[i] = Video!Pictures(us[i].data)
    <2>1. DOMAIN p = 1..m /\ \A i \in 1..m : p[i] = Video!Pictures(us[i].data)
      BY <1>3, <1>9 DEF PicturesIn
    <2> QED
      BY <2>1
  <1>13. /\ Len(q) = n /\ \A i \in 1..n : q[i] = Video!Pictures(vs[i].data)
    <2>1. DOMAIN q = 1..n /\ \A i \in 1..n : q[i] = Video!Pictures(vs[i].data)
      BY <1>4, <1>10 DEF PicturesIn
    <2> QED
      BY <2>1
  <1>14. /\ Len(r) = m + n /\ \A i \in 1..(m + n) : r[i] = Video!Pictures(ws[i].data)
    <2>1. PICK k \in Nat : k = m + n
      OBVIOUS
    <2>2. DOMAIN r = 1..k /\ \A i \in 1..k : r[i] = Video!Pictures(ws[i].data)
      BY <1>6, <1>11, <2>1 DEF PicturesIn
    <2>3. Len(r) = k
      BY <2>2
    <2> QED
      BY <2>1, <2>2, <2>3
  <1>15. PICK z : z = p \o q
    OBVIOUS
  <1>16. /\ z \in Seq(D) /\ Len(z) = m + n
         /\ \A i \in 1..m : z[i] = p[i]
         /\ \A i \in 1..n : z[m + i] = q[i]
    <2>1. IsJoin(D, z, p, q)
      BY <1>15, JoinOf
    <2> QED
      BY <1>12, <1>13, <2>1 DEF IsJoin
  <1>17. ASSUME NEW i \in 1..(m + n) PROVE r[i] = z[i]
    <2>1. CASE i <= m
      <3>1. i \in 1..m
        BY <2>1
      <3> QED
        BY <1>5, <1>12, <1>14, <1>16, <3>1, ZenonT(60)
    <2>2. CASE ~ (i <= m)
      <3>1. PICK j \in 1..n : i = m + j
        <4>1. i - m \in 1..n /\ i = m + (i - m)
          BY <2>2
        <4> QED
          BY <4>1
      <3>2. ws[i] = vs[j] /\ z[i] = q[j]
        BY <1>5, <1>16, <3>1
      <3> QED
        BY <1>13, <1>14, <3>2
    <2> QED
      BY <2>1, <2>2
  <1>18. r = z
    BY <1>11, <1>14, <1>16, <1>17, SeqEqual
  <1>19. FlattenSeq(r) = FlattenSeq(p) \o FlattenSeq(q)
    BY <1>8, <1>15, <1>18, FlattenJoin
  <1> QED
    BY <1>9, <1>10, <1>11, <1>19 DEF Shown

\* What one picture's bytes show.
LEMMA OnePacket ==
  ASSUME NEW inst \in Nat \ {0}, NEW m \in Nat, NEW shape \in Video!Shapes(m),
         NEW c, c = Video!Coded(shape, <<inst, m>>)
  PROVE  \E r \in PictureSet : Video!Pictures(c) = <<r>> /\ IsPicture(r, inst, m)
  <1>1. PICK n : IsShape(shape, n, Video!IsKey(m)) /\ n = Len(shape)
    BY ShapesAre
  <1>2. PICK p \in (Nat \ {0}) \X Nat : p = <<inst, m>>
    OBVIOUS
  <1>3. PICK b \in Seq(Nat) : b = <<>> /\ Len(b) = 0
    BY NoPlaces
  <1>4. Starts(b) = {}
    BY <1>3 DEF Starts
  <1>5. WholeNals(b)
    BY <1>3, <1>4 DEF WholeNals
  <1>6. PICK d : d = b \o Video!Coded(shape, p)
    OBVIOUS
  <1>7. PICK P : HasNals(b, d, P, shape, p, n)
    BY <1>1, <1>5, <1>6, CodedBehind DEF IsShape
  <1>8. c \in Seq(Nat) /\ d = c
    <2>1. PICK e \in Seq(Nat) : e = Video!Coded(shape, p)
      BY <1>1, <1>5, <1>6, CodedBehind DEF IsShape
    <2>2. b \o e = e
      BY <1>3
    <2> QED
      BY <1>2, <1>6, <2>1, <2>2
  <1>9. n \in Nat \ {0} /\ n \in 1..n
    BY <1>1 DEF IsShape
  <1>10. Starts(c) = {P[j] : j \in 1..n}
    BY <1>4, <1>7, <1>8 DEF HasNals
  <1>11. \A j \in 1..n : /\ Video!NalType(c, P[j]) = shape[j][1]
                         /\ Video!IsVcl(shape[j][1]) => IdAt(c, P[j]) = <<p[1], p[2]>>
    BY <1>7, <1>8 DEF HasNals
  <1>12. PICK v : v = P[n]
    OBVIOUS
  <1>13. Slices(c) = {v}
    <2>1. ASSUME NEW i \in Slices(c) PROVE i = v
      <3>1. i \in Starts(c) /\ Video!IsVcl(Video!NalType(c, i))
        BY DEF Slices
      <3>2. PICK j \in 1..n : i = P[j]
        BY <1>10, <3>1
      <3>3. j = n
        BY <1>1, <1>11, <3>1, <3>2 DEF IsShape
      <3> QED
        BY <1>12, <3>2, <3>3
    <2>2. v \in Slices(c)
      BY <1>1, <1>9, <1>10, <1>11, <1>12 DEF Slices, IsShape
    <2> QED
      BY <2>1, <2>2
  <1>14. PICK r : r = [kind |-> Video!NalType(c, v), id |-> IdAt(c, v)]
    OBVIOUS
  <1>15. Video!Pictures(c) = <<r>>
    BY <1>8, <1>13, <1>14, PicturesAre
  <1>16. IsPicture(r, inst, m)
    <2>1. shape[n][1] = 5 <=> Video!IsKey(m)
      BY <1>1 DEF IsShape
    <2>2. IdAt(c, v) = <<inst, m>>
      BY <1>1, <1>2, <1>9, <1>11, <1>12 DEF IsShape
    <2>3. Video!NalType(c, v) = shape[n][1]
      BY <1>9, <1>11, <1>12
    <2>4. r.kind = Video!NalType(c, v) /\ r.id = IdAt(c, v)
      BY <1>14
    <2> QED
      BY <2>1, <2>2, <2>3, <2>4 DEF IsPicture
  <1>17. r \in PictureSet
    <2>1. PICK e : e = <<r>>
      OBVIOUS
    <2>2. r \in Range(e)
      <3>1. 1 \in DOMAIN e /\ e[1] = r
        BY <2>1
      <3> QED
        BY <3>1 DEF Range
    <2> QED
      BY <1>8, <1>15, <2>1, <2>2 DEF PictureSet
  <1> QED
    BY <1>15, <1>16, <1>17

\* What the client has decoded after the pictures Q, if it had decoded w before.
LastOf(Q, w) == IF Len(Q) = 0 THEN w ELSE Q[Len(Q)].id

\* A picture of Q does not follow the one before it, as it must.
Breaks(Q, w) ==
    \E n \in DOMAIN Q : /\ Q[n].kind # 5
                        /\ Q[n].id # Video!Follows(IF n - 1 = 0 THEN w ELSE Q[n - 1].id)

LEMMA Sends ==
  ASSUME NEW packets, Video!SendPackets(packets),
         NEW Q, Q = FlattenSeq([i \in DOMAIN packets |-> Video!Pictures(packets[i])])
  PROVE  /\ reference' = LastOf(Q, reference)
         /\ broken' = (broken \/ Breaks(Q, reference))
  <1>1. Q = Video!FlattenSeq([i \in DOMAIN packets |-> Video!Pictures(packets[i])])
    BY SameFlatten
  <1> QED
    BY <1>1 DEF Video!SendPackets, LastOf, Breaks

\* One picture that follows the one before it, or is a keyframe.
LEMMA SendsOne ==
  ASSUME NEW inst \in Nat \ {0}, NEW m \in Nat, NEW shape \in Video!Shapes(m),
         Video!SendPackets(<<Video!Coded(shape, <<inst, m>>)>>),
         Video!IsKey(m) \/ reference = <<inst, m - 1>>
  PROVE  /\ reference' = <<inst, m>>
         /\ ~ broken => ~ broken'
  <1>1. PICK c : c = Video!Coded(shape, <<inst, m>>)
    OBVIOUS
  <1>2. PICK A : A = PictureSet
    OBVIOUS
  <1>3. PICK r \in A : Video!Pictures(c) = <<r>> /\ IsPicture(r, inst, m)
    BY <1>1, <1>2, OnePacket
  <1>4. PICK e : e = <<r>>
    OBVIOUS
  <1>5. e \in Seq(A) /\ Len(e) = 1 /\ e[1] = r /\ DOMAIN e = {1}
    BY <1>4
  <1>6. PICK packets : packets = <<c>>
    OBVIOUS
  <1>7. DOMAIN packets = {1} /\ packets[1] = c
    BY <1>6
  <1>8. PICK D : D = Seq(A)
    OBVIOUS
  <1>9. PICK s : s = [i \in DOMAIN packets |-> Video!Pictures(packets[i])]
    OBVIOUS
  <1>10. s \in Seq(D) /\ Len(s) = 1 /\ s[1] = e
    <2>1. s = [i \in 1..1 |-> e]
      BY <1>3, <1>4, <1>7, <1>9
    <2>2. e \in D
      BY <1>5, <1>8
    <2> QED
      BY <2>1, <2>2
  <1>11. FlattenSeq(s) = e
    <2>1. s \in Seq(Seq(A))
      BY <1>8, <1>10
    <2>2. PICK J : J = Joined(s)
      OBVIOUS
    <2>3. J[0] = <<>> /\ \A i \in 1..1 : J[i] = J[i - 1] \o s[i]
      BY <1>10, <2>1, <2>2, JoinedDef
    <2>4. J[1] = <<>> \o e
      <3>1. 1 \in 1..1 /\ 1 - 1 = 0
        OBVIOUS
      <3> QED
        BY <1>10, <2>3, <3>1
    <2>5. <<>> \o e = e
      BY <1>5
    <2>6. FlattenSeq(s) = J[1]
      BY <1>10, <2>1, <2>2, FlattenIsJoined
    <2> QED
      BY <2>4, <2>5, <2>6
  <1>12. reference' = LastOf(e, reference) /\ broken' = (broken \/ Breaks(e, reference))
    BY <1>1, <1>6, <1>9, <1>11, Sends
  <1>13. LastOf(e, reference) = <<inst, m>>
    BY <1>3, <1>5 DEF LastOf, IsPicture
  <1>14. ~ Breaks(e, reference)
    <2>1. SUFFICES ASSUME r.kind # 5, r.id # Video!Follows(reference) PROVE FALSE
      BY <1>5 DEF Breaks
    <2>2. ~ Video!IsKey(m) /\ r.id = <<inst, m>>
      BY <1>3, <2>1 DEF IsPicture
    <2>3. Video!Follows(reference) = <<inst, (m - 1) + 1>>
      BY <2>2 DEF Video!Follows
    <2>4. (m - 1) + 1 = m
      OBVIOUS
    <2> QED
      BY <2>1, <2>2, <2>3, <2>4
  <1>15. broken' = (broken \/ Breaks(e, reference))
    BY <1>12
  <1>16. ~ broken => ~ broken'
    BY <1>14, <1>15, Zenon
  <1> QED
    BY <1>12, <1>13, <1>16

\* The client has the last of the pictures P of this encoder, if there are any.
Reached(P, w, inst) == Len(P) = 0 \/ w = <<inst, Len(P) - 1>>

LEMMA FirstIsKey == Video!IsKey(0)
  <1>1. Gop \in Nat \ {0}
    BY EncoderAssumption
  <1> QED
    BY <1>1 DEF Video!IsKey

\* One picture after another of the same encoder.
LEMMA FollowsNext ==
  ASSUME NEW inst, NEW x \in Nat, NEW y \in Nat, y = x + 1, NEW w, w = <<inst, x>>
  PROVE  Video!Follows(w) = <<inst, y>>
  <1>1. w[1] = inst /\ w[2] = x
    OBVIOUS
  <1> QED
    BY <1>1 DEF Video!Follows

\* The units go to the client in the order in which they were split.
LEMMA SendsUnits ==
  ASSUME NEW inst, NEW us \in Seq(UnitSet), Video!SendPackets(DataOf(us)),
         NEW P \in Seq(PictureSet), NEW E, E = P \o Shown(us), InOrder(E, inst),
         Reached(P, reference, inst)
  PROVE  /\ Reached(E, reference', inst)
         /\ ~ broken => ~ broken'
  <1>1. PICK packets : packets = DataOf(us)
    OBVIOUS
  <1>2. PICK Q : Q = Shown(us)
    OBVIOUS
  <1>3. PICK A : A = PictureSet
    OBVIOUS
  <1>4. Q \in Seq(A) /\ P \in Seq(A)
    BY <1>2, <1>3, ShownType
  <1>5. Q = FlattenSeq([i \in DOMAIN packets |-> Video!Pictures(packets[i])])
    <2>1. DOMAIN packets = DOMAIN us /\ \A i \in DOMAIN us : packets[i] = us[i].data
      BY <1>1 DEF DataOf
    <2>2. PicturesIn(us) = [i \in DOMAIN packets |-> Video!Pictures(packets[i])]
      BY <2>1 DEF PicturesIn
    <2> QED
      BY <1>2, <2>2 DEF Shown
  <1>6. reference' = LastOf(Q, reference) /\ broken' = (broken \/ Breaks(Q, reference))
    BY <1>1, <1>5, Sends
  <1>7. PICK n \in Nat : n = Len(P)
    BY <1>4
  <1>8. PICK q \in Nat : q = Len(Q)
    BY <1>4
  <1>9. Len(E) = n + q /\ \A j \in 1..q : E[n + j] = Q[j]
    BY <1>2, <1>4, <1>7, <1>8
  <1>10. ASSUME NEW j \in 1..q, NEW x \in Nat, x = n + j - 1
         PROVE  IsPicture(Q[j], inst, x)
    <2>1. PICK i \in 1..(n + q) : i = n + j
      BY <1>10
    <2>2. E[i] = Q[j] /\ i - 1 = x
      BY <1>9, <1>10, <2>1
    <2>3. IsPicture(E[i], inst, i - 1)
      BY <1>9, <2>1 DEF InOrder
    <2> QED
      BY <2>2, <2>3
  <1>11. Reached(E, reference', inst)
    <2>1. CASE q = 0
      <3>1. reference' = reference
        BY <1>6, <1>8, <2>1 DEF LastOf
      <3>2. Len(E) = Len(P)
        BY <1>7, <1>9, <2>1
      <3> QED
        BY <3>1, <3>2 DEF Reached
    <2>2. CASE q # 0
      <3>1. reference' = Q[q].id
        BY <1>6, <1>8, <2>2 DEF LastOf
      <3>2. PICK x \in Nat : x = n + q - 1
        BY <2>2
      <3>3. q \in 1..q
        BY <2>2
      <3>4. Q[q].id = <<inst, x>>
        BY <1>10, <3>2, <3>3 DEF IsPicture
      <3>5. Len(E) - 1 = x
        BY <1>9, <3>2
      <3> QED
        BY <3>1, <3>4, <3>5 DEF Reached
    <2> QED
      BY <2>1, <2>2
  <1>12. ~ Breaks(Q, reference)
    <2>1. SUFFICES ASSUME NEW j \in 1..q, Q[j].kind # 5,
                          Q[j].id # Video!Follows(IF j - 1 = 0 THEN reference ELSE Q[j - 1].id)
                   PROVE  FALSE
      BY <1>4, <1>8 DEF Breaks
    <2>2. PICK y \in Nat : y = n + j - 1
      OBVIOUS
    <2>3. Q[j].id = <<inst, y>> /\ ~ Video!IsKey(y)
      BY <1>10, <2>1, <2>2 DEF IsPicture
    <2>4. y # 0
      BY <2>3, FirstIsKey
    <2>5. PICK x \in Nat : y = x + 1
      BY <2>4
    <2>6. PICK w : w = IF j - 1 = 0 THEN reference ELSE Q[j - 1].id
      OBVIOUS
    <2>7. w = <<inst, x>>
      <3>1. CASE j = 1
        <4>1. n # 0 /\ n - 1 = x
          BY <2>2, <2>4, <2>5, <3>1
        <4>2. reference = <<inst, x>>
          BY <1>7, <4>1 DEF Reached
        <4>3. j - 1 = 0
          BY <3>1
        <4> QED
          BY <2>6, <4>2, <4>3
      <3>2. CASE j # 1
        <4>1. PICK i \in 1..q : i = j - 1
          BY <3>2
        <4>2. x = n + i - 1 /\ j - 1 # 0
          BY <2>2, <2>5, <4>1
        <4>3. Q[i].id = <<inst, x>>
          BY <1>10, <4>2 DEF IsPicture
        <4> QED
          BY <2>6, <4>1, <4>2, <4>3
      <3> QED
        BY <3>1, <3>2
    <2>8. Video!Follows(w) = <<inst, y>>
      BY <2>5, <2>7, FollowsNext, ZenonT(60)
    <2>9. Q[j].id = Video!Follows(w)
      BY <2>3, <2>8, Zenon
    <2>10. Q[j].id = Video!Follows(IF j - 1 = 0 THEN reference ELSE Q[j - 1].id)
      BY <2>6, <2>9, Zenon
    <2> QED
      BY <2>1, <2>10
  <1>13. broken' = (broken \/ Breaks(Q, reference))
    BY <1>6
  <1>14. ~ broken => ~ broken'
    BY <1>12, <1>13, Zenon
  <1> QED
    BY <1>11, <1>14

LEMMA ShownNone == Shown(<<>>) = <<>>
  <1>1. PICK f : f = PicturesIn(<<>>)
    OBVIOUS
  <1>2. f = <<>>
    BY <1>1 DEF PicturesIn
  <1>3. PICK D : D = Seq(PictureSet)
    OBVIOUS
  <1>4. <<>> \in Seq(D)
    OBVIOUS
  <1>5. f \in Seq(Seq(PictureSet)) /\ Len(f) = 0
    BY <1>2, <1>3, <1>4
  <1>6. FlattenSeq(f) = Joined(f)[Len(f)] /\ Joined(f)[0] = <<>>
    BY <1>5, FlattenIsJoined, JoinedDef
  <1> QED
    BY <1>1, <1>5, <1>6 DEF Shown

\* What a read of n bytes takes of s, and what it leaves.
IsCut(s, n, x, y) ==
    /\ n \in 1..Len(s)
    /\ x = SubSeq(s, 1, n)
    /\ y = SubSeq(s, n + 1, Len(s))

AreHalves(s, x, y) == x \in Seq(Nat) /\ y \in Seq(Nat) /\ s = x \o y

LEMMA Halves ==
  ASSUME NEW s \in Seq(Nat), NEW n, NEW x, NEW y, IsCut(s, n, x, y)
  PROVE  AreHalves(s, x, y)
  <1>0. n \in 1..Len(s) /\ x = SubSeq(s, 1, n) /\ y = SubSeq(s, n + 1, Len(s))
    BY DEF IsCut
  <1>1. PICK l \in Nat : l = Len(s)
    OBVIOUS
  <1>2. PICK k \in Nat \ {0} : k = n + 1
    BY <1>0
  <1>3. IsPart(x, s, 1, n)
    <2>1. PICK i \in Nat \ {0} : i = 1
      OBVIOUS
    <2>2. n \in Nat /\ i <= n + 1 /\ n <= Len(s) /\ x = SubSeq(s, i, n)
      BY <1>0, <1>1, <2>1
    <2>3. IsPart(x, s, i, n)
      BY <2>2, PartOf
    <2> QED
      BY <2>1, <2>3
  <1>4. IsPart(y, s, k, l)
    <2>1. k <= l + 1 /\ l <= Len(s) /\ y = SubSeq(s, k, l)
      BY <1>0, <1>1, <1>2
    <2> QED
      BY <1>1, <2>1, PartOf
  <1>5. /\ x \in Seq(Nat) /\ y \in Seq(Nat)
        /\ Len(x) = n /\ \A j \in 1..n : x[j] = s[j]
        /\ Len(y) = l - n /\ \A j \in 1..(l - n) : y[j] = s[n + j]
    <2>1. /\ x \in Seq(Nat) /\ Len(x) = n - 1 + 1
          /\ \A j \in 1..(n - 1 + 1) : x[j] = s[1 + j - 1]
      BY <1>3 DEF IsPart
    <2>2. /\ y \in Seq(Nat) /\ Len(y) = l - k + 1
          /\ \A j \in 1..(l - k + 1) : y[j] = s[k + j - 1]
      BY <1>4 DEF IsPart
    <2>3. n - 1 + 1 = n /\ l - k + 1 = l - n
      BY <1>0, <1>1, <1>2
    <2>4. \A j \in 1..n : 1 + j - 1 = j
      OBVIOUS
    <2>5. \A j \in 1..(l - n) : k + j - 1 = n + j
      BY <1>0, <1>1, <1>2
    <2> QED
      BY <2>1, <2>2, <2>3, <2>4, <2>5
  <1>6. PICK r : r = x \o y
    OBVIOUS
  <1>7. IsJoin(Nat, r, x, y)
    BY <1>5, <1>6, JoinOf
  <1>8. r \in Seq(Nat) /\ Len(r) = Len(s)
    BY <1>0, <1>1, <1>5, <1>7 DEF IsJoin
  <1>9. ASSUME NEW j \in 1..Len(s) PROVE r[j] = s[j]
    <2>1. CASE j <= n
      BY <1>0, <1>1, <1>5, <1>7, <2>1 DEF IsJoin
    <2>2. CASE ~ (j <= n)
      <3>1. PICK i \in 1..(l - n) : j = n + i
        BY <1>0, <1>1, <2>2
      <3>2. r[n + i] = y[i] /\ y[i] = s[n + i]
        BY <1>5, <1>7, <3>1 DEF IsJoin
      <3> QED
        BY <3>1, <3>2
    <2> QED
      BY <2>1, <2>2
  <1>10. r = s
    BY <1>8, <1>9, SeqEqual
  <1> QED
    BY <1>5, <1>6, <1>10 DEF AreHalves

-----------------------------------------------------------------------------
(* The invariant of the stream                                               *)

VideoType ==
    /\ instance \in Nat /\ index \in Nat
    /\ stdin \in Seq(Nat) /\ stdout \in Seq(Nat) /\ coded \in Seq(Nat)
    /\ units \in Seq(UnitSet) /\ emitted \in Seq(UnitSet)
    /\ backend \in {"none", "vaapi", "x264"}
    /\ alive => backend = "vaapi"
    /\ backend # "none" => instance # 0

\* Of the bytes b, all but o were read, and the units e and the rest k are
\* what one read would have made of them.
IsRead(b, r, o, e, k) ==
    /\ r \in Seq(Nat)
    /\ b = r \o o
    /\ e = Pushed(r).units
    /\ k = Pushed(r).buf

AllRead == \E r : IsRead(coded, r, stdout, emitted, carry)

\* The pictures from m on wait in q; n comes next.
Waits(q, n, m) ==
    /\ n = m + Len(q)
    /\ \A j \in 1..Len(q) : q[j] = m + j - 1

AllCoded ==
    \E m : /\ IsPictures(coded, instance, m)
           /\ backend = "vaapi" => Waits(stdin, index, m)

\* The client has decoded the pictures P of the units e, all but those of the
\* units u in the channel.
IsSent(P, e, u, w, inst) ==
    /\ P \in Seq(PictureSet)
    /\ Shown(e) = P \o Shown(u)
    /\ Reached(P, w, inst)

AllSent ==
    /\ backend = "vaapi" => \E P : IsSent(P, emitted, units, reference, instance)
    /\ backend = "x264" => index # 0 /\ reference = <<instance, index - 1>>

VideoInv == VideoType /\ AllRead /\ AllCoded /\ AllSent /\ ~ broken

\* With a new pipe, nothing was coded, read or sent.
LEMMA NothingYet ==
  /\ IsRead(<<>>, <<>>, <<>>, <<>>, <<>>)
  /\ \A inst : IsPictures(<<>>, inst, 0)
  /\ \A w, inst : IsSent(<<>>, <<>>, <<>>, w, inst)
  /\ <<>> \in Seq(UnitSet)
  <1>1. Starts(<<>>) = {} /\ Nals(<<>>) = {}
    BY NoPlaces DEF Starts, Nals
  <1>2. Slices(<<>>) = {}
    BY <1>1 DEF Slices
  <1>3. IsRead(<<>>, <<>>, <<>>, <<>>, <<>>)
    <2>1. Pushed(<<>>).units = <<>> /\ Pushed(<<>>).buf = <<>>
      BY <1>1, NoPlaces, PushedIs
    <2>2. <<>> = <<>> \o <<>>
      OBVIOUS
    <2> QED
      BY <2>1, <2>2, NoPlaces DEF IsRead
  <1>4. ASSUME NEW inst PROVE IsPictures(<<>>, inst, 0)
    <2>1. WholeNals(<<>>)
      BY <1>1, NoPlaces DEF WholeNals
    <2> QED
      BY <1>1, <1>2, <2>1, NoPlaces DEF IsPictures
  <1>5. ASSUME NEW w, NEW inst PROVE IsSent(<<>>, <<>>, <<>>, w, inst)
    <2>1. PICK A : A = PictureSet
      OBVIOUS
    <2>2. <<>> \in Seq(A) /\ <<>> = <<>> \o <<>> /\ Len(<<>>) = 0
      OBVIOUS
    <2>3. <<>> \in Seq(PictureSet)
      BY <2>1, <2>2
    <2> QED
      BY <2>2, <2>3, ShownNone DEF IsSent, Reached
  <1>6. <<>> \in Seq(UnitSet)
    <2>1. PICK U : U = UnitSet
      OBVIOUS
    <2>2. <<>> \in Seq(U)
      OBVIOUS
    <2> QED
      BY <2>1, <2>2
  <1> QED
    BY <1>3, <1>4, <1>5, <1>6

LEMMA VideoInit == StreamInit => VideoInv
  <1>1. SUFFICES ASSUME StreamInit PROVE VideoInv
    OBVIOUS
  <1>2. /\ backend = "none" /\ instance = 0 /\ index = 0 /\ alive = FALSE
        /\ stdin = <<>> /\ stdout = <<>> /\ carry = <<>> /\ units = <<>>
        /\ coded = <<>> /\ emitted = <<>> /\ broken = FALSE
    BY <1>1 DEF StreamInit, Video!Init
  <1>3. VideoType
    BY <1>2, NothingYet, NoPlaces DEF VideoType
  <1>4. AllRead
    BY <1>2, NothingYet DEF AllRead
  <1>5. AllCoded
    BY <1>2, NothingYet DEF AllCoded
  <1>6. AllSent
    BY <1>2 DEF AllSent
  <1> QED
    BY <1>2, <1>3, <1>4, <1>5, <1>6 DEF VideoInv

LEMMA NewPipe ==
  ASSUME stdout' = <<>>, carry' = <<>>, units' = <<>>, coded' = <<>>, emitted' = <<>>
  PROVE  /\ AllRead'
         /\ IsPictures(coded', instance', 0)
         /\ IsSent(<<>>, emitted', units', reference', instance')
         /\ stdout' \in Seq(Nat) /\ coded' \in Seq(Nat)
         /\ units' \in Seq(UnitSet) /\ emitted' \in Seq(UnitSet)
  <1>1. IsRead(coded', <<>>, stdout', emitted', carry')
    BY NothingYet
  <1>2. AllRead'
    BY <1>1 DEF AllRead
  <1> QED
    BY <1>2, NothingYet, NoPlaces

LEMMA X264Opens ==
  ASSUME VideoInv, Video!OpenX264
  PROVE  VideoInv'
  <1>1. VideoType /\ ~ broken
    BY DEF VideoInv
  <1>2. PICK inst \in Nat \ {0} : inst = instance + 1
    BY <1>1 DEF VideoType
  <1>3. instance' = inst /\ index' = 1 /\ backend' = "x264"
    BY <1>2 DEF Video!OpenX264
  <1>4. /\ stdin' = <<>> /\ stdout' = <<>> /\ alive' = FALSE /\ carry' = <<>>
        /\ units' = <<>> /\ coded' = <<>> /\ emitted' = <<>>
    BY DEF Video!OpenX264, Video!NoFfmpeg
  <1>5. PICK shape \in KeyShapes : Video!SendPackets(<<Video!Coded(shape, <<inst, 0>>)>>)
    BY <1>3 DEF Video!OpenX264
  <1>6. shape \in Video!Shapes(0) /\ Video!IsKey(0)
    BY <1>5, FirstIsKey DEF Video!Shapes
  <1>7. reference' = <<inst, 0>> /\ ~ broken'
    <2>1. 0 \in Nat
      OBVIOUS
    <2> QED
      BY <1>1, <1>5, <1>6, <2>1, SendsOne
  <1>8. /\ AllRead' /\ IsPictures(coded', instance', 0)
        /\ stdout' \in Seq(Nat) /\ coded' \in Seq(Nat)
        /\ units' \in Seq(UnitSet) /\ emitted' \in Seq(UnitSet)
    BY <1>4, NewPipe
  <1>9. VideoType'
    BY <1>2, <1>3, <1>4, <1>8, NoPlaces DEF VideoType
  <1>10. AllCoded'
    BY <1>3, <1>8 DEF AllCoded
  <1>11. AllSent'
    BY <1>3, <1>7 DEF AllSent
  <1> QED
    BY <1>7, <1>8, <1>9, <1>10, <1>11 DEF VideoInv

LEMMA VaapiOpens ==
  ASSUME VideoInv, Video!OpenVaapi
  PROVE  VideoInv'
  <1>1. VideoType /\ ~ broken
    BY DEF VideoInv
  <1>2. PICK inst \in Nat \ {0} : inst = instance + 1
    BY <1>1 DEF VideoType
  <1>3. instance' = inst /\ index' = 1 /\ backend' = "vaapi" /\ stdin' = <<0>>
    BY <1>2 DEF Video!OpenVaapi
  <1>4. /\ stdout' = <<>> /\ carry' = <<>> /\ units' = <<>> /\ coded' = <<>> /\ emitted' = <<>>
        /\ reference' = reference /\ broken' = broken
    BY DEF Video!OpenVaapi, Video!clientVars
  <1>5. /\ AllRead' /\ IsPictures(coded', instance', 0)
        /\ IsSent(<<>>, emitted', units', reference', instance')
        /\ stdout' \in Seq(Nat) /\ coded' \in Seq(Nat)
        /\ units' \in Seq(UnitSet) /\ emitted' \in Seq(UnitSet)
    BY <1>4, NewPipe
  <1>6. PICK q : q = <<0>>
    OBVIOUS
  <1>7. q \in Seq(Nat) /\ Len(q) = 1 /\ q[1] = 0
    BY <1>6
  <1>8. Waits(q, 1, 0)
    BY <1>7 DEF Waits
  <1>9. VideoType'
    BY <1>2, <1>3, <1>5, <1>6, <1>7 DEF VideoType
  <1>10. AllCoded'
    BY <1>3, <1>5, <1>6, <1>8 DEF AllCoded
  <1>11. AllSent'
    BY <1>3, <1>5 DEF AllSent
  <1> QED
    BY <1>1, <1>4, <1>5, <1>9, <1>10, <1>11 DEF VideoInv

LEMMA X264Encodes ==
  ASSUME VideoInv, backend = "x264", Video!EncodeX264
  PROVE  VideoInv'
  <1>1. VideoType /\ AllRead /\ AllCoded /\ AllSent /\ ~ broken
    BY DEF VideoInv
  <1>2. /\ backend' = backend /\ instance' = instance /\ index' = index + 1
        /\ stdin' = stdin /\ stdout' = stdout /\ alive' = alive /\ carry' = carry
        /\ units' = units /\ coded' = coded /\ emitted' = emitted
    BY DEF Video!EncodeX264, Video!ffmpegVars
  <1>3. PICK inst \in Nat \ {0} : inst = instance
    BY <1>1 DEF VideoType
  <1>4. PICK m \in Nat \ {0} : m = index
    BY <1>1 DEF VideoType, AllSent
  <1>5. reference = <<inst, m - 1>>
    BY <1>1, <1>3, <1>4 DEF AllSent
  <1>6. PICK shape \in Video!Shapes(m) : Video!SendPackets(<<Video!Coded(shape, <<inst, m>>)>>)
    BY <1>3, <1>4 DEF Video!EncodeX264
  <1>7. reference' = <<inst, m>> /\ ~ broken'
    <2>1. m \in Nat
      OBVIOUS
    <2> QED
      BY <1>1, <1>5, <1>6, <2>1, SendsOne
  <1>8. PICK k \in Nat : k = m + 1
    OBVIOUS
  <1>9. index' = k /\ k # 0 /\ k - 1 = m
    BY <1>2, <1>4, <1>8
  <1>10. VideoType'
    BY <1>1, <1>2, <1>8, <1>9 DEF VideoType
  <1>11. AllRead'
    BY <1>1, <1>2 DEF AllRead
  <1>12. AllCoded'
    BY <1>1, <1>2 DEF AllCoded
  <1>13. AllSent'
    BY <1>2, <1>3, <1>7, <1>9 DEF AllSent
  <1> QED
    BY <1>7, <1>10, <1>11, <1>12, <1>13 DEF VideoInv

LEMMA Resizes ==
  ASSUME VideoInv, Video!Resize
  PROVE  VideoInv'
  <1>1. VideoType /\ ~ broken
    BY DEF VideoInv
  <1>2. /\ backend' = "none" /\ instance' = instance /\ index' = index
        /\ stdin' = <<>> /\ stdout' = <<>> /\ alive' = FALSE /\ carry' = <<>>
        /\ units' = <<>> /\ coded' = <<>> /\ emitted' = <<>> /\ broken' = broken
    BY DEF Video!Resize, Video!NoFfmpeg, Video!clientVars
  <1>3. /\ AllRead' /\ IsPictures(coded', instance', 0)
        /\ stdout' \in Seq(Nat) /\ coded' \in Seq(Nat)
        /\ units' \in Seq(UnitSet) /\ emitted' \in Seq(UnitSet)
    BY <1>2, NewPipe
  <1>4. VideoType'
    BY <1>1, <1>2, <1>3, NoPlaces DEF VideoType
  <1>5. AllCoded'
    BY <1>2, <1>3 DEF AllCoded
  <1>6. AllSent'
    BY <1>2 DEF AllSent
  <1> QED
    BY <1>1, <1>2, <1>3, <1>4, <1>5, <1>6 DEF VideoInv

LEMMA FfmpegEnds ==
  ASSUME VideoInv, Video!FfmpegDies
  PROVE  VideoInv'
  <1>1. VideoType /\ AllRead /\ AllCoded /\ AllSent /\ ~ broken
    BY DEF VideoInv
  <1>2. /\ backend' = backend /\ instance' = instance /\ index' = index
        /\ stdin' = stdin /\ stdout' = stdout /\ alive' = FALSE /\ carry' = carry
        /\ units' = units /\ coded' = coded /\ emitted' = emitted
        /\ reference' = reference /\ broken' = broken
    BY DEF Video!FfmpegDies, Video!clientVars
  <1>3. VideoType' /\ AllRead' /\ AllCoded' /\ AllSent'
    BY <1>1, <1>2 DEF VideoType, AllRead, AllCoded, AllSent
  <1> QED
    BY <1>1, <1>2, <1>3 DEF VideoInv

\* What was read is where what was coded begins.
LEMMA ReadIsHead ==
  ASSUME NEW b \in Seq(Nat), NEW o \in Seq(Nat), NEW r, NEW e, NEW k, IsRead(b, r, o, e, k)
  PROVE  Extends(b, r) /\ Len(r) = Len(b) - Len(o)
  <1>1. r \in Seq(Nat) /\ IsJoin(Nat, b, r, o)
    BY JoinOf DEF IsRead
  <1> QED
    BY <1>1 DEF IsJoin, Extends

LEMMA VaapiEncodes ==
  ASSUME VideoInv, Video!EncodeVaapi
  PROVE  VideoInv'
  <1>1. VideoType /\ AllRead /\ AllCoded /\ AllSent /\ ~ broken
    BY DEF VideoInv
  <1>2. backend = "vaapi" /\ backend' = backend
    BY <1>1 DEF VideoType, Video!EncodeVaapi
  <1>3. /\ instance' = instance /\ index' = index + 1 /\ stdin' = Append(stdin, index)
        /\ stdout' = stdout /\ alive' = alive /\ carry' = carry
        /\ units' = <<>> /\ coded' = coded /\ emitted' = emitted
    BY DEF Video!EncodeVaapi
  <1>4. PICK P : IsSent(P, emitted, units, reference, instance)
    BY <1>1, <1>2 DEF AllSent
  <1>5. PICK E : E = Shown(emitted)
    OBVIOUS
  <1>6. PICK m : IsPictures(coded, instance, m) /\ Waits(stdin, index, m)
    BY <1>1, <1>2 DEF AllCoded
  <1>7. InOrder(E, instance)
    <2>1. PICK r : IsRead(coded, r, stdout, emitted, carry)
      BY <1>1 DEF AllRead
    <2>2. Extends(coded, r) /\ emitted = Pushed(r).units
      BY <1>1, <2>1, ReadIsHead DEF VideoType, IsRead
    <2> QED
      BY <1>5, <1>6, <2>2, UnitsInOrder
  <1>8. Reached(E, reference', instance) /\ ~ broken'
    <2>1. Video!SendPackets(DataOf(units))
      BY DEF Video!EncodeVaapi, DataOf
    <2>2. E = P \o Shown(units) /\ P \in Seq(PictureSet) /\ Reached(P, reference, instance)
      BY <1>4, <1>5 DEF IsSent
    <2>3. units \in Seq(UnitSet)
      BY <1>1 DEF VideoType
    <2> QED
      BY <1>1, <1>7, <2>1, <2>2, <2>3, SendsUnits
  <1>9. IsSent(E, emitted', units', reference', instance')
    <2>1. emitted \in Seq(UnitSet)
      BY <1>1 DEF VideoType
    <2>2. E \in Seq(PictureSet)
      BY <1>5, <2>1, ShownType
    <2>3. E = E \o <<>>
      <3>1. PICK A : A = PictureSet
        OBVIOUS
      <3>2. E \in Seq(A)
        BY <2>2, <3>1
      <3> QED
        BY <3>2
    <2> QED
      BY <1>3, <1>5, <1>8, <2>2, <2>3, ShownNone DEF IsSent
  <1>10. PICK q \in Seq(Nat) : q = Append(stdin, index)
    <2>1. PICK A : A = Nat
      OBVIOUS
    <2>2. stdin \in Seq(A) /\ index \in A
      BY <1>1, <2>1 DEF VideoType
    <2>3. Append(stdin, index) \in Seq(A)
      BY <2>2
    <2> QED
      BY <2>1, <2>3
  <1>11. Waits(stdin', index', m)
    <2>1. PICK l \in Nat : l = Len(stdin)
      BY <1>1 DEF VideoType
    <2>2. PICK n \in Nat : n = index
      BY <1>1 DEF VideoType
    <2>3. m \in Nat
      BY <1>6 DEF IsPictures
    <2>4. n = m + l /\ \A j \in 1..l : stdin[j] = m + j - 1
      BY <1>6, <2>1, <2>2 DEF Waits
    <2>5. Len(q) = l + 1 /\ q[l + 1] = n /\ \A j \in 1..l : q[j] = stdin[j]
      BY <1>1, <1>10, <2>1, <2>2 DEF VideoType
    <2>6. \A j \in 1..(l + 1) : q[j] = m + j - 1
      <3> TAKE j \in 1..(l + 1)
      <3>1. CASE j = l + 1
        BY <2>1, <2>3, <2>4, <2>5, <3>1
      <3>2. CASE j # l + 1
        <4>1. j \in 1..l
          BY <2>1, <3>2
        <4> QED
          BY <2>4, <2>5, <4>1
      <3> QED
        BY <3>1, <3>2
    <2>7. n + 1 = m + (l + 1)
      BY <2>1, <2>3, <2>4
    <2> QED
      BY <1>3, <1>10, <2>2, <2>5, <2>6, <2>7 DEF Waits
  <1>12. VideoType'
    BY <1>1, <1>2, <1>3, <1>10, NothingYet DEF VideoType
  <1>13. AllRead'
    BY <1>1, <1>3 DEF AllRead
  <1>14. AllCoded'
    BY <1>3, <1>6, <1>11 DEF AllCoded
  <1>15. AllSent'
    BY <1>2, <1>9 DEF AllSent
  <1> QED
    BY <1>8, <1>12, <1>13, <1>14, <1>15 DEF VideoInv

LEMMA PictureCoded ==
  ASSUME VideoInv, Video!FfmpegCodes
  PROVE  VideoInv'
  <1>1. VideoType /\ AllRead /\ AllCoded /\ AllSent /\ ~ broken
    BY DEF VideoInv
  <1>2. backend = "vaapi"
    BY <1>1 DEF VideoType, Video!FfmpegCodes
  <1>3. /\ backend' = backend /\ instance' = instance /\ index' = index /\ alive' = alive
        /\ stdin' = Tail(stdin) /\ carry' = carry /\ units' = units /\ emitted' = emitted
        /\ reference' = reference /\ broken' = broken
    BY DEF Video!FfmpegCodes, Video!clientVars
  <1>4. PICK l \in Nat \ {0} : l = Len(stdin)
    BY <1>1 DEF VideoType, Video!FfmpegCodes
  <1>5. PICK m : IsPictures(coded, instance, m) /\ Waits(stdin, index, m)
    BY <1>1, <1>2 DEF AllCoded
  <1>6. m \in Nat
    BY <1>5 DEF IsPictures
  <1>7. index = m + l /\ \A j \in 1..l : stdin[j] = m + j - 1
    BY <1>4, <1>5 DEF Waits
  <1>8. Head(stdin) = m
    <2>1. stdin[1] = m + 1 - 1
      BY <1>4, <1>7
    <2>2. Head(stdin) = stdin[1]
      BY <1>1, <1>4 DEF VideoType
    <2> QED
      BY <1>6, <2>1, <2>2
  <1>9. PICK inst \in Nat \ {0} : inst = instance
    BY <1>1, <1>2 DEF VideoType
  <1>10. PICK shape \in Video!Shapes(m) : /\ stdout' = stdout \o Video!Coded(shape, <<inst, m>>)
                                          /\ coded' = coded \o Video!Coded(shape, <<inst, m>>)
    BY <1>8, <1>9 DEF Video!FfmpegCodes
  <1>11. IsPictures(coded', inst, m + 1)
    <2>1. PICK c : c = coded'
      OBVIOUS
    <2>2. IsPictures(coded, inst, m) /\ c = coded \o Video!Coded(shape, <<inst, m>>)
      BY <1>5, <1>9, <1>10, <2>1
    <2>3. IsPictures(c, inst, m + 1)
      BY <2>2, OnePictureMore
    <2> QED
      BY <2>1, <2>3
  <1>12. PICK bytes : bytes = Video!Coded(shape, <<inst, m>>)
    OBVIOUS
  <1>13. bytes \in Seq(Nat)
    <2>1. PICK p : p = <<inst, m>>
      OBVIOUS
    <2>2. p \in (Nat \ {0}) \X Nat
      BY <1>6, <2>1
    <2>3. Shape(shape)
      BY <1>6, ShapesAre DEF IsShape
    <2>4. WholeNals(coded)
      BY <1>5 DEF IsPictures
    <2>5. PICK c : c = coded \o Video!Coded(shape, p)
      OBVIOUS
    <2>6. Video!Coded(shape, p) \in Seq(Nat)
      BY <2>2, <2>3, <2>4, <2>5, CodedBehind
    <2> QED
      BY <1>12, <2>1, <2>6
  <1>14. stdout' = stdout \o bytes /\ coded' = coded \o bytes
    BY <1>10, <1>12
  <1>15. stdout' \in Seq(Nat) /\ coded' \in Seq(Nat) /\ stdin' \in Seq(Nat)
    <2>1. stdout \in Seq(Nat) /\ coded \in Seq(Nat) /\ stdin \in Seq(Nat)
      BY <1>1 DEF VideoType
    <2>2. PICK A : A = Nat
      OBVIOUS
    <2>3. stdout \o bytes \in Seq(A) /\ coded \o bytes \in Seq(A)
      BY <1>13, <2>1, <2>2
    <2>4. Tail(stdin) \in Seq(Nat)
      BY <1>4, <2>1
    <2> QED
      BY <1>3, <1>14, <2>2, <2>3, <2>4
  <1>16. VideoType'
    BY <1>1, <1>3, <1>15 DEF VideoType
  <1>17. AllRead'
    <2>1. PICK r : IsRead(coded, r, stdout, emitted, carry)
      BY <1>1 DEF AllRead
    <2>2. r \in Seq(Nat) /\ coded = r \o stdout
      BY <2>1 DEF IsRead
    <2>3. stdout \in Seq(Nat)
      BY <1>1 DEF VideoType
    <2>4. (r \o stdout) \o bytes = r \o (stdout \o bytes)
      BY <1>13, <2>2, <2>3, Regroup
    <2>5. IsRead(coded', r, stdout', emitted', carry')
      BY <1>3, <1>14, <2>1, <2>2, <2>4 DEF IsRead
    <2> QED
      BY <2>5 DEF AllRead
  <1>18. AllCoded'
    <2>1. PICK q \in Seq(Nat) : q = stdin'
      BY <1>15
    <2>2. PICK k \in Nat : k = m + 1
      BY <1>6
    <2>3. Len(q) = l - 1 /\ \A j \in 1..(l - 1) : q[j] = stdin[j + 1]
      BY <1>1, <1>3, <1>4, <2>1 DEF VideoType
    <2>4. index = k + (l - 1)
      BY <1>4, <1>6, <1>7, <2>2
    <2>5. \A j \in 1..(l - 1) : q[j] = k + j - 1
      <3> TAKE j \in 1..(l - 1)
      <3>1. PICK i \in 1..l : i = j + 1
        BY <1>4
      <3>2. stdin[i] = m + i - 1
        BY <1>7
      <3> QED
        BY <1>4, <1>6, <2>2, <2>3, <3>1, <3>2
    <2>6. Waits(q, index, k)
      BY <2>3, <2>4, <2>5 DEF Waits
    <2>7. IsPictures(coded', instance', k) /\ Waits(stdin', index', k)
      BY <1>3, <1>9, <1>11, <2>1, <2>2, <2>6
    <2> QED
      BY <2>7 DEF AllCoded
  <1>19. AllSent'
    BY <1>1, <1>2, <1>3 DEF AllSent
  <1> QED
    BY <1>1, <1>3, <1>16, <1>17, <1>18, <1>19 DEF VideoInv

\* A read of any length changes nothing of what is read in the end.
LEMMA PipeRead ==
  ASSUME VideoInv, Video!ReadPipe
  PROVE  VideoInv'
  <1>1. VideoType /\ AllRead /\ AllCoded /\ AllSent /\ ~ broken
    BY DEF VideoInv
  <1>2. /\ backend' = backend /\ instance' = instance /\ index' = index /\ alive' = alive
        /\ stdin' = stdin /\ coded' = coded /\ reference' = reference /\ broken' = broken
    BY DEF Video!ReadPipe, Video!clientVars
  <1>3. PICK n \in 1..Len(stdout) :
          /\ stdout' = SubSeq(stdout, n + 1, Len(stdout))
          /\ carry' = Video!PushBytes(carry, SubSeq(stdout, 1, n)).buf
          /\ units' = units \o Video!PushBytes(carry, SubSeq(stdout, 1, n)).units
          /\ emitted' = emitted \o Video!PushBytes(carry, SubSeq(stdout, 1, n)).units
    BY DEF Video!ReadPipe
  <1>4. PICK x : x = SubSeq(stdout, 1, n)
    OBVIOUS
  <1>5. PICK y : y = SubSeq(stdout, n + 1, Len(stdout))
    OBVIOUS
  <1>6. stdout \in Seq(Nat) /\ units \in Seq(UnitSet) /\ emitted \in Seq(UnitSet)
    BY <1>1 DEF VideoType
  <1>7. x \in Seq(Nat) /\ y \in Seq(Nat) /\ stdout = x \o y
    <2>1. IsCut(stdout, n, x, y)
      BY <1>3, <1>4, <1>5 DEF IsCut
    <2>2. AreHalves(stdout, x, y)
      BY <1>6, <2>1, Halves
    <2> QED
      BY <2>2 DEF AreHalves
  <1>8. PICK q : q = Video!PushBytes(carry, x)
    OBVIOUS
  <1>9. stdout' = y /\ carry' = q.buf /\ units' = units \o q.units /\ emitted' = emitted \o q.units
    BY <1>3, <1>4, <1>5, <1>8
  <1>10. PICK r : IsRead(coded, r, stdout, emitted, carry)
    BY <1>1 DEF AllRead
  <1>11. r \in Seq(Nat) /\ coded = r \o stdout /\ emitted = Pushed(r).units /\ carry = Pushed(r).buf
    BY <1>10 DEF IsRead
  <1>12. PICK t : t = r \o x
    OBVIOUS
  <1>13. /\ Pushed(t).units = Pushed(r).units \o q.units
         /\ Pushed(t).buf = q.buf
         /\ q.units \in Seq(UnitSet)
    <2>1. q = Video!PushBytes(Pushed(r).buf, x)
      BY <1>8, <1>11
    <2>2. r \in Seq(Nat) /\ x \in Seq(Nat)
      BY <1>7, <1>11
    <2>3. Resumed(t, r, q)
      BY <1>12, <2>1, <2>2, Resume
    <2> QED
      BY <2>3 DEF Resumed
  <1>14. t \in Seq(Nat)
    BY <1>7, <1>11, <1>12, JoinOf DEF IsJoin
  <1>15. IsRead(coded', t, stdout', emitted', carry')
    <2>1. coded = t \o y
      BY <1>7, <1>11, <1>12, Regroup
    <2> QED
      BY <1>2, <1>9, <1>11, <1>13, <1>14, <2>1 DEF IsRead
  <1>16. AllRead'
    BY <1>15 DEF AllRead
  <1>17. units' \in Seq(UnitSet) /\ emitted' \in Seq(UnitSet)
    <2>1. PICK U : U = UnitSet
      OBVIOUS
    <2>2. units \in Seq(U) /\ emitted \in Seq(U) /\ q.units \in Seq(U)
      BY <1>6, <1>13, <2>1
    <2>3. units \o q.units \in Seq(U) /\ emitted \o q.units \in Seq(U)
      BY <2>2
    <2> QED
      BY <1>9, <2>1, <2>3
  <1>18. VideoType'
    BY <1>1, <1>2, <1>7, <1>9, <1>17 DEF VideoType
  <1>19. AllCoded'
    BY <1>1, <1>2 DEF AllCoded
  <1>20. ASSUME NEW P, IsSent(P, emitted, units, reference, instance)
         PROVE  IsSent(P, emitted', units', reference', instance')
    <2>1. Shown(emitted') = Shown(emitted) \o Shown(q.units)
      BY <1>6, <1>9, <1>13, ShownJoin
    <2>2. Shown(units') = Shown(units) \o Shown(q.units)
      BY <1>6, <1>9, <1>13, ShownJoin
    <2>3. PICK A : A = PictureSet
      OBVIOUS
    <2>4. Shown(units) \in Seq(A) /\ Shown(q.units) \in Seq(A) /\ P \in Seq(A)
      BY <1>6, <1>13, <1>20, <2>3, ShownType DEF IsSent
    <2>5. (P \o Shown(units)) \o Shown(q.units) = P \o (Shown(units) \o Shown(q.units))
      BY <2>4, ConcatAssociative, SMTT(30)
    <2>6. Shown(emitted) = P \o Shown(units)
      BY <1>20 DEF IsSent
    <2> QED
      BY <1>2, <1>20, <2>1, <2>2, <2>5, <2>6 DEF IsSent
  <1>21. AllSent'
    BY <1>1, <1>2, <1>20 DEF AllSent
  <1> QED
    BY <1>1, <1>2, <1>16, <1>18, <1>19, <1>21 DEF VideoInv

LEMMA VideoStep ==
  ASSUME VideoInv, [StreamNext]_streamVars
  PROVE  VideoInv'
  <1>1. CASE UNCHANGED videoVars
    BY <1>1 DEF videoVars, VideoInv, VideoType, AllRead, AllCoded, AllSent
  <1>2. CASE OnPipe
    <2>1. CASE Video!Picture
      <3>1. CASE Video!OpenX264
        BY <3>1, X264Opens
      <3>2. CASE Video!OpenVaapi
        BY <3>2, VaapiOpens
      <3>3. CASE backend = "x264" /\ Video!EncodeX264
        BY <3>3, X264Encodes
      <3>4. CASE Video!EncodeVaapi
        BY <3>4, VaapiEncodes
      <3>5. CASE Video!FallBack
        BY <3>5, X264Opens DEF Video!FallBack
      <3> QED
        BY <2>1, <3>1, <3>2, <3>3, <3>4, <3>5 DEF Video!Picture
    <2>2. CASE Video!Resize
      BY <2>2, Resizes
    <2>3. CASE Video!FfmpegCodes
      BY <2>3, PictureCoded
    <2>4. CASE Video!FfmpegDies
      BY <2>4, FfmpegEnds
    <2>5. CASE Video!ReadPipe
      BY <2>5, PipeRead
    <2> QED
      BY <1>2, <2>1, <2>2, <2>3, <2>4, <2>5 DEF OnPipe, Video!Next
  <1>3. OnConnection(Next) \/ UNCHANGED streamVars => UNCHANGED videoVars
    BY DEF OnConnection, streamVars
  <1> QED
    BY <1>1, <1>2, <1>3 DEF StreamNext

-----------------------------------------------------------------------------
(* The theorems about the stream                                             *)

\* Whatever the lengths of the reads, the encoders that end and the changes of
\* size: what was split is what one read of all that was read would have made,
\* it is the pictures of one encoder from its first on, and the client has
\* decoded those that were taken from the channel, one after the other
\* (push_bytes, VaapiEncoder and Encoder::encode).
THEOREM VideoInvariant == StreamSpec => []VideoInv
  <1>1. VideoInv /\ [StreamNext]_streamVars => VideoInv'
    BY VideoStep
  <1> QED
    BY VideoInit, <1>1, PTL DEF StreamSpec

\* The client never decodes a picture without its reference (Encoder::encode,
\* VaapiEncoder::encode).
THEOREM StreamDecodableHolds == StreamSpec => []StreamDecodable
  <1>1. VideoInv => StreamDecodable
    BY DEF VideoInv, StreamDecodable, Video!StreamDecodable
  <1> QED
    BY VideoInvariant, <1>1, PTL

LEMMA ReadsIgnored == VideoInv => SplitIgnoresReads
  <1>1. SUFFICES ASSUME VideoInv PROVE SplitIgnoresReads
    OBVIOUS
  <1>2. VideoType /\ AllRead /\ AllCoded
    BY <1>1 DEF VideoInv
  <1>3. PICK r : IsRead(coded, r, stdout, emitted, carry)
    BY <1>2 DEF AllRead
  <1>4. r \in Seq(Nat) /\ emitted = Pushed(r).units /\ carry = Pushed(r).buf
    BY <1>3 DEF IsRead
  <1>5. coded \in Seq(Nat) /\ stdout \in Seq(Nat)
    BY <1>2 DEF VideoType
  <1>6. Extends(coded, r) /\ Len(r) = Len(coded) - Len(stdout)
    BY <1>3, <1>5, ReadIsHead
  <1>7. SubSeq(coded, 1, Len(coded) - Len(stdout)) = r
    <2>1. PICK l \in Nat : l = Len(r)
      BY <1>4
    <2>2. PICK i \in Nat \ {0} : i = 1
      OBVIOUS
    <2>3. i <= l + 1 /\ l <= Len(r)
      BY <2>1, <2>2
    <2>4. SubSeq(coded, i, l) = SubSeq(r, i, l)
      BY <1>6, <2>3, PartOfHead
    <2>5. SubSeq(r, 1, Len(r)) = r
      <3>1. PICK A : A = Nat
        OBVIOUS
      <3>2. r \in Seq(A)
        BY <1>4, <3>1
      <3> QED
        BY <3>2
    <2> QED
      BY <1>6, <2>1, <2>2, <2>4, <2>5
  <1>8. Video!StartCodes(r) = Video!ScanStarts(r)
    BY <1>4, ScanFinds
  <1>9. Nals(r) # {} => 1 \in Nals(r)
    <2>1. PICK m : IsPictures(coded, instance, m)
      BY <1>2 DEF AllCoded
    <2>2. WholeNals(coded)
      BY <2>1 DEF IsPictures
    <2>3. SUFFICES ASSUME NEW i \in Nals(r) PROVE 1 \in Nals(r)
      OBVIOUS
    <2>4. PICK j \in Starts(r) : i < j /\ i \in Starts(r)
      BY <2>3 DEF Nals
    <2>5. /\ \A k \in Starts(coded), h \in Starts(r) : k < h => k \in Nals(r)
          /\ Starts(r) \subseteq Starts(coded)
      BY <1>6, <2>2, NalsRead
    <2>6. i \in 1..Len(r) /\ j \in 1..Len(r)
      BY <2>4 DEF Starts
    <2>7. Len(r) \in Nat /\ Len(coded) \in Nat /\ Len(stdout) \in Nat
      BY <1>4, <1>5
    <2>8. Len(coded) # 0
      BY <1>6, <2>6, <2>7
    <2>9. 1 \in Starts(coded)
      BY <2>2, <2>8 DEF WholeNals
    <2>10. 1 < j
      BY <2>4, <2>6, <2>7
    <2> QED
      BY <2>4, <2>5, <2>9, <2>10
  <1>10. FlattenSeq(DataOf(emitted)) \o carry = r
    BY <1>4, <1>9, Conserved
  <1>11. Video!FlattenSeq([i \in DOMAIN emitted |-> emitted[i].data]) \o carry = r
    BY <1>10, SameFlatten DEF DataOf
  <1> QED
    BY <1>4, <1>7, <1>8, <1>11 DEF SplitIgnoresReads, Video!SplitIgnoresReads, Pushed

\* The splitter cuts the same units wherever the reads end, loses no byte, and
\* finds the start codes that a scan finds (push_bytes, start_codes).
THEOREM SplitIgnoresReadsHolds == StreamSpec => []SplitIgnoresReads
  BY VideoInvariant, ReadsIgnored, PTL

LEMMA PicturesCut == VideoInv => UnitsArePictures
  <1>1. SUFFICES ASSUME VideoInv PROVE UnitsArePictures
    OBVIOUS
  <1>2. VideoType /\ AllRead /\ AllCoded
    BY <1>1 DEF VideoInv
  <1>3. PICK r : IsRead(coded, r, stdout, emitted, carry)
    BY <1>2 DEF AllRead
  <1>4. r \in Seq(Nat) /\ emitted = Pushed(r).units
    BY <1>3 DEF IsRead
  <1>5. Extends(coded, r)
    BY <1>2, <1>3, ReadIsHead DEF VideoType
  <1>6. PICK m : IsPictures(coded, instance, m)
    BY <1>2 DEF AllCoded
  <1>7. ASSUME NEW i \in DOMAIN emitted
        PROVE  /\ Len(Video!Pictures(emitted[i].data)) <= 1
               /\ emitted[i].keyframe <=> /\ Video!Pictures(emitted[i].data) # <<>>
                                          /\ Video!Pictures(emitted[i].data)[1].kind = 5
    <2>1. Nals(r) # {}
      <3>1. SUFFICES ASSUME Nals(r) = {} PROVE FALSE
        OBVIOUS
      <3>2. emitted = <<>>
        BY <1>4, <3>1, PushedIs
      <3> QED
        BY <1>7, <3>2
    <2>2. PICK a : Lists(a, Opening(r))
      BY <1>4, <2>1, SomeOpening
    <2>3. PICK n : n = Len(a)
      OBVIOUS
    <2>4. emitted = UnitsAt(r, a)
      BY <1>4, <2>1, <2>2, PushedIs DEF SplitAt
    <2>5. AreUnits(emitted, r, a, n)
      BY <1>4, <2>1, <2>2, <2>3, <2>4, UnitsType
    <2>6. n \in Nat \ {0} /\ i \in 1..(n - 1)
      BY <1>7, <2>3, <2>4, <2>5 DEF AreUnits, UnitsAt
    <2>7. PICK lo : lo = a[i]
      OBVIOUS
    <2>8. PICK j \in Nat : j = i + 1 /\ j <= n
      BY <2>6
    <2>9. PICK hi : hi = a[j]
      OBVIOUS
    <2>10. IsUnitAt(r, a, i, emitted[i])
      BY <2>5, <2>6 DEF AreUnits
    <2>11. /\ lo \in Nat \ {0} /\ hi \in Nat \ {0} /\ lo < hi /\ hi <= Len(r)
           /\ emitted[i] = Video!Unit(SubSeq(r, lo, hi - 1))
      BY <2>7, <2>8, <2>9, <2>10 DEF IsUnitAt
    <2>12. PICK k \in Nat : k = hi - 1
      BY <2>11
    <2>13. PICK d : d = SubSeq(coded, lo, k)
      OBVIOUS
    <2>14. d = SubSeq(r, lo, k)
      <3>1. lo <= k + 1 /\ k <= Len(r)
        BY <1>4, <2>11, <2>12
      <3> QED
        BY <1>5, <2>11, <2>13, <3>1, PartOfHead, ZenonT(60)
    <2>15. emitted[i] = Video!Unit(d) /\ emitted[i].data = d
      BY <2>11, <2>12, <2>14 DEF Video!Unit
    <2>16. IsSpan(coded, r, lo, hi)
      <3>1. i \in Nat \ {0} /\ j \in Nat /\ j = i + 1
        BY <2>6, <2>8
      <3>2. j <= Len(a)
        BY <2>3, <2>8
      <3>3. IsSpan(coded, r, a[i], a[j])
        BY <1>4, <2>2, <3>1, <3>2, SpanAt
      <3> QED
        BY <2>7, <2>9, <3>3
    <2>17. /\ (\A h \in Slices(coded) : ~ (lo <= h /\ h < hi)) =>
                Video!Pictures(d) = <<>> /\ ~ Video!Unit(d).keyframe
           /\ \A h \in Slices(coded) : lo <= h /\ h < hi =>
                /\ Video!Pictures(d) = <<[kind |-> Video!NalType(coded, h), id |-> IdAt(coded, h)]>>
                /\ Video!Unit(d).keyframe <=> Video!NalType(coded, h) = 5
      <3>1. d = SubSeq(coded, lo, hi - 1)
        BY <2>12, <2>13
      <3> QED
        BY <1>5, <1>6, <2>16, <3>1, UnitIs, ZenonT(60)
    <2>18. CASE \A h \in Slices(coded) : ~ (lo <= h /\ h < hi)
      <3>1. Video!Pictures(d) = <<>> /\ ~ Video!Unit(d).keyframe
        BY <2>17, <2>18
      <3> QED
        BY <2>15, <3>1
    <2>19. CASE ~ \A h \in Slices(coded) : ~ (lo <= h /\ h < hi)
      <3>1. PICK h \in Slices(coded) : lo <= h /\ h < hi
        BY <2>19
      <3>2. PICK p : p = [kind |-> Video!NalType(coded, h), id |-> IdAt(coded, h)]
        OBVIOUS
      <3>3. Video!Pictures(d) = <<p>> /\ (Video!Unit(d).keyframe <=> p.kind = 5)
        BY <2>17, <3>1, <3>2
      <3>4. PICK e : e = <<p>>
        OBVIOUS
      <3>5. Len(e) <= 1 /\ e # <<>> /\ e[1] = p
        BY <3>4
      <3> QED
        BY <2>15, <3>3, <3>4, <3>5
    <2> QED
      BY <2>18, <2>19
  <1> QED
    BY <1>7 DEF UnitsArePictures, Video!UnitsArePictures

\* A unit carries one picture at most, and is marked as a keyframe exactly if
\* it carries one (push_bytes).
THEOREM UnitsArePicturesHolds == StreamSpec => []UnitsArePictures
  BY VideoInvariant, PicturesCut, PTL

=============================================================================
