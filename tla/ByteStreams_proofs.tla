-------------------------- MODULE ByteStreams_proofs -------------------------
(***************************************************************************)
(* Proofs about ByteStreams: what is read from a connection is what was    *)
(* written, whatever the bytes, however they are cut into pieces.          *)
(***************************************************************************)
EXTENDS ByteStreams, SequenceTheorems, WellFoundedInduction, TLAPS

-----------------------------------------------------------------------------
(* Induction and iteration *)

\* Every set of naturals that is not empty has a least member.
LEMMA LeastMember ==
  ASSUME NEW T, T \subseteq Nat, T # {}
  PROVE  \E x \in T : \A y \in T : x <= y
  <1>1. PICK R : R = OpToRel(<, Nat)
    OBVIOUS
  <1>2. IsWellFoundedOn(R, Nat)
    BY <1>1, NatLessThanWellFounded
  <1>3. \E x \in T : \A y \in T : <<y, x>> \notin R
    BY <1>2, WFMin
  <1>4. \A x, y \in Nat : x < y <=> <<x, y>> \in R
    BY <1>1 DEF OpToRel
  <1>5. PICK x \in T : \A y \in T : <<y, x>> \notin R
    BY <1>3
  <1>6. \A y \in T : ~ (y < x)
    BY <1>4, <1>5
  <1> QED
    BY <1>5, <1>6

\* Induction up to a bound, for a property that is a set.
LEMMA Ascent ==
  ASSUME NEW n \in Nat, NEW S, 0 \in S,
         \A i \in 1..n : i - 1 \in S => i \in S
  PROVE  0..n \subseteq S
  <1> SUFFICES ASSUME (0..n) \ S # {} PROVE FALSE
    OBVIOUS
  <1>0. PICK T : T = (0..n) \ S
    OBVIOUS
  <1>1. PICK x \in T : \A y \in T : x <= y
    <2>1. T \subseteq Nat /\ T # {}
      BY <1>0
    <2> QED
      BY <2>1, LeastMember
  <1>2. x \in 1..n /\ x - 1 \in 0..n
    BY <1>0, <1>1
  <1>3. x - 1 \in S
    BY <1>0, <1>1, <1>2
  <1> QED
    BY <1>0, <1>1, <1>2, <1>3

\* f goes from base through m of the steps.
Iterates(f, n, D, base, step, m) ==
    /\ f \in [0..n -> D]
    /\ f[0] = base
    /\ \A i \in 1..m : f[i] = step[i][f[i - 1]]

\* A function can be defined from each place to the next.
LEMMA Iteration ==
  ASSUME NEW n \in Nat, NEW D, NEW base \in D, NEW step \in [1..n -> [D -> D]]
  PROVE  \E f : Iterates(f, n, D, base, step, n)
  <1> USE DEF Iterates
  <1> DEFINE Right(f, m) == Iterates(f, n, D, base, step, m)
             S == {m \in 0..n : \E f : Right(f, m)}
  <1>1. 0 \in S
    <2> DEFINE f == [i \in 0..n |-> base]
    <2>1. Right(f, 0)
      OBVIOUS
    <2>2. 0 \in 0..n
      OBVIOUS
    <2> HIDE DEF f, Right
    <2> QED
      BY <2>1, <2>2
  <1>2. ASSUME NEW m \in 1..n, m - 1 \in S PROVE m \in S
    <2>1. PICK f : Right(f, m - 1)
      BY <1>2
    <2>2. m - 1 \in 0..n /\ f[m - 1] \in D
      BY <2>1
    <2>3. step[m][f[m - 1]] \in D
      BY <2>2
    <2> DEFINE g == [i \in 0..n |-> IF i = m THEN step[m][f[m - 1]] ELSE f[i]]
    <2>4. g \in [0..n -> D] /\ g[0] = base
      BY <2>1, <2>3
    <2>5. ASSUME NEW i \in 1..m PROVE g[i] = step[i][g[i - 1]]
      <3>1. g[i - 1] = f[i - 1]
        OBVIOUS
      <3>2. CASE i = m
        <4>1. g[m] = step[m][f[m - 1]]
          OBVIOUS
        <4> HIDE DEF g
        <4> QED
          BY <3>1, <3>2, <4>1
      <3>3. CASE i # m
        <4>1. g[i] = f[i] /\ i \in 1..(m - 1)
          BY <3>3
        <4> HIDE DEF g
        <4> QED
          BY <2>1, <3>1, <4>1
      <3> QED
        BY <3>2, <3>3
    <2> HIDE DEF g
    <2>6. Right(g, m)
      BY <2>4, <2>5
    <2> QED
      BY <2>6
  <1> HIDE DEF S
  <1>3. 0..n \subseteq S
    BY <1>1, <1>2, Ascent
  <1>4. n \in S
    BY <1>3
  <1> HIDE DEF Iterates
  <1> QED
    BY <1>4 DEF S

-----------------------------------------------------------------------------
(* FlattenSeq *)

\* The first pieces, put together.
Joined(s) == CHOOSE f : f = [i \in 0..Len(s) |-> IF i = 0 THEN <<>> ELSE f[i - 1] \o s[i]]

LEMMA JoinedDef ==
  ASSUME NEW A, NEW s \in Seq(Seq(A))
  PROVE  /\ Joined(s) \in [0..Len(s) -> Seq(A)]
         /\ Joined(s)[0] = <<>>
         /\ \A i \in 1..Len(s) : Joined(s)[i] = Joined(s)[i - 1] \o s[i]
  <1>1. PICK n \in Nat : n = Len(s)
    OBVIOUS
  <1>2. PICK D : D = Seq(A)
    OBVIOUS
  <1>3. <<>> \in D
    BY <1>2
  <1>4. \A i \in 1..n : s[i] \in D
    BY <1>1, <1>2
  <1>5. \A p, q \in D : p \o q \in D
    BY <1>2
  <1>6. PICK step \in [1..n -> [D -> D]] :
          \A i \in 1..n, p \in D : step[i][p] = p \o s[i]
    <2> DEFINE next == [i \in 1..n |-> [p \in D |-> p \o s[i]]]
    <2>1. next \in [1..n -> [D -> D]]
      BY <1>4, <1>5
    <2>2. \A i \in 1..n, p \in D : next[i][p] = p \o s[i]
      OBVIOUS
    <2> HIDE DEF next
    <2> QED
      BY <2>1, <2>2
  <1>7. PICK base \in D : base = <<>>
    BY <1>3
  <1>8. PICK f : Iterates(f, n, D, base, step, n)
    BY Iteration
  <1>9. /\ f \in [0..n -> D] /\ f[0] = base
        /\ \A i \in 1..n : f[i] = step[i][f[i - 1]] /\ f[i - 1] \in D
    BY <1>8 DEF Iterates
  <1>10. \A i \in 1..n : f[i] = f[i - 1] \o s[i]
    BY <1>6, <1>9
  <1> DEFINE J(h, i) == IF i = 0 THEN <<>> ELSE h[i - 1] \o s[i]
  <1>11. \A i \in 0..n : f[i] = J(f, i)
    <2> TAKE i \in 0..n
    <2>1. CASE i = 0
      BY <1>7, <1>9, <2>1
    <2>2. CASE i # 0
      <3>1. i \in 1..n
        BY <2>2
      <3> QED
        BY <1>10, <2>2, <3>1, Zenon
    <2> QED
      BY <2>1, <2>2
  <1>12. PICK g : g = [i \in 0..n |-> J(g, i)] /\ g = Joined(s)
    <2>1. f = [i \in 0..n |-> J(f, i)]
      <3> HIDE DEF J
      <3>1. f = [i \in 0..n |-> f[i]]
        BY <1>9
      <3> QED
        BY <1>11, <3>1
    <2>2. \E h : h = [i \in 0..n |-> J(h, i)]
      BY <2>1
    <2> QED
      BY <1>1, <2>2 DEF Joined
  <1>13. \A i \in 0..n : g[i] = J(g, i)
    <2> HIDE DEF J
    <2> QED
      BY <1>12
  <1>14. g = [i \in 0..n |-> g[i]]
    BY <1>12
  <1>15. g[0] = <<>> /\ \A i \in 1..n : g[i] = g[i - 1] \o s[i]
    <2>1. g[0] = <<>>
      BY <1>13
    <2>2. ASSUME NEW i \in 1..n PROVE g[i] = g[i - 1] \o s[i]
      <3>1. i \in 0..n /\ i # 0
        OBVIOUS
      <3> QED
        BY <1>13, <3>1, Zenon
    <2> QED
      BY <2>1, <2>2
  <1> DEFINE S == {i \in 0..n : g[i] \in D}
  <1>16. 0 \in S
    BY <1>3, <1>15
  <1>17. ASSUME NEW i \in 1..n, i - 1 \in S PROVE i \in S
    <2>1. g[i - 1] \in D
      BY <1>17
    <2>2. g[i - 1] \o s[i] \in D
      BY <1>4, <1>5, <2>1, Zenon
    <2>3. i \in 0..n
      OBVIOUS
    <2> QED
      BY <1>15, <2>2, <2>3, Zenon
  <1> HIDE DEF S
  <1>18. \A i \in 0..n : i \in S
    BY <1>16, <1>17, Ascent
  <1>19. \A i \in 0..n : g[i] \in D
    BY <1>18 DEF S
  <1>20. g \in [0..n -> D]
    BY <1>14, <1>19
  <1> QED
    BY <1>1, <1>2, <1>12, <1>15, <1>20

LEMMA FlattenIsJoined ==
  ASSUME NEW A, NEW s \in Seq(Seq(A))
  PROVE  FlattenSeq(s) = Joined(s)[Len(s)]
  <1>1. PICK n \in Nat : n = Len(s)
    OBVIOUS
  <1>2. PICK g : g = Joined(s)
    OBVIOUS
  <1>3. /\ g \in [0..n -> Seq(A)] /\ g[0] = <<>>
        /\ \A i \in 1..n : g[i] = g[i - 1] \o s[i]
    BY <1>1, <1>2, JoinedDef
  <1>p. \A i \in 1..n : s[i] \in Seq(A)
    BY <1>1
  <1>4. CASE n = 0
    <2>1. s = <<>>
      <3>1. Len(s) = 0
        BY <1>1, <1>4
      <3> QED
        BY <3>1, EmptySeq
    <2>3. g[n] = <<>>
      BY <1>3, <1>4, Zenon
    <2>2. FlattenSeq(s) = s
      BY <1>1, <1>4 DEF FlattenSeq
    <2> QED
      BY <1>1, <1>2, <2>1, <2>2, <2>3
  <1>5. CASE n # 0
    <2> DEFINE F(h, i) == IF i = 1 THEN s[i] ELSE h[i - 1] \o s[i]
    <2>1. PICK f : f = [i \in 1..n |-> F(f, i)] /\ FlattenSeq(s) = f[n]
      <3> DEFINE h == [i \in 1..n |-> g[i]]
      <3>1. ASSUME NEW i \in 1..n PROVE g[i] = F(h, i)
        <4>1. CASE i = 1
          <5>0. 1 \in 1..n /\ 1 - 1 = 0
            BY <4>1
          <5>1. g[1] = g[0] \o s[1] /\ s[1] \in Seq(A)
            BY <1>p, <1>3, <5>0, Zenon
          <5>2. g[0] \o s[1] = s[1]
            BY <1>3, <5>1
          <5> QED
            BY <4>1, <5>1, <5>2
        <4>2. CASE i # 1
          <5>1. i - 1 \in 1..n
            BY <4>2
          <5>2. h[i - 1] = g[i - 1]
            BY <5>1
          <5>3. g[i] = g[i - 1] \o s[i]
            BY <1>3
          <5> HIDE DEF h
          <5> QED
            BY <4>2, <5>2, <5>3, Zenon
        <4> QED
          BY <4>1, <4>2
      <3> HIDE DEF F
      <3>2. h = [i \in 1..n |-> F(h, i)]
        BY <3>1
      <3>3. \E x : x = [i \in 1..n |-> F(x, i)]
        BY <3>2
      <3> DEFINE c == CHOOSE x : x = [i \in 1..n |-> F(x, i)]
      <3>4. c = [i \in 1..n |-> F(c, i)]
        BY <3>3
      <3>5. FlattenSeq(s) = c[n]
        BY <1>1, <1>5 DEF FlattenSeq, F
      <3> HIDE DEF c
      <3> QED
        BY <3>4, <3>5
    <2> DEFINE S == {i \in 0..n : i # 0 => f[i] = g[i]}
    <2>2. 0 \in S
      OBVIOUS
    <2>3. ASSUME NEW i \in 1..n, i - 1 \in S PROVE i \in S
      <3>1. f[i] = F(f, i)
        <4> HIDE DEF F
        <4> QED
          BY <2>1
      <3>2. CASE i = 1
        <4>0. 1 \in 1..n /\ 1 - 1 = 0
          BY <3>2
        <4>1. g[1] = g[0] \o s[1] /\ s[1] \in Seq(A)
          BY <1>p, <1>3, <4>0, Zenon
        <4>2. g[0] \o s[1] = s[1]
          BY <1>3, <4>1
        <4> QED
          BY <3>1, <3>2, <4>1, <4>2
      <3>3. CASE i # 1
        <4>1. f[i - 1] = g[i - 1] /\ i \in 0..n
          BY <2>3, <3>3
        <4>2. g[i] = g[i - 1] \o s[i]
          BY <1>3
        <4> QED
          BY <3>1, <3>3, <4>1, <4>2, Zenon
      <3> QED
        BY <3>2, <3>3
    <2> HIDE DEF S
    <2>4. 0..n \subseteq S
      BY <2>2, <2>3, Ascent
    <2>5. n \in S
      BY <2>4
    <2> QED
      BY <1>1, <1>2, <1>5, <2>1, <2>5 DEF S
  <1> QED
    BY <1>4, <1>5

LEMMA FlattenType ==
  ASSUME NEW A, NEW s \in Seq(Seq(A))
  PROVE  FlattenSeq(s) \in Seq(A)
  <1>1. PICK D : D = Seq(A)
    OBVIOUS
  <1>2. Joined(s) \in [0..Len(s) -> D]
    BY <1>1, JoinedDef
  <1>3. Len(s) \in 0..Len(s)
    OBVIOUS
  <1>4. Joined(s)[Len(s)] \in D
    BY <1>2, <1>3
  <1> QED
    BY <1>1, <1>4, FlattenIsJoined

\* What comes later does not change the first pieces.
LEMMA JoinedAppend ==
  ASSUME NEW A, NEW s \in Seq(Seq(A)), NEW e \in Seq(A)
  PROVE  /\ \A i \in 0..Len(s) : Joined(Append(s, e))[i] = Joined(s)[i]
         /\ FlattenSeq(Append(s, e)) = FlattenSeq(s) \o e
  <1>1. PICK n \in Nat : n = Len(s)
    OBVIOUS
  <1>2. PICK t \in Seq(Seq(A)) : t = Append(s, e)
    <2>1. PICK D : D = Seq(A)
      OBVIOUS
    <2>2. Append(s, e) \in Seq(D)
      BY <2>1
    <2> QED
      BY <2>1, <2>2
  <1>3. Len(t) = n + 1 /\ t[n + 1] = e /\ \A i \in 1..n : t[i] = s[i]
    BY <1>1, <1>2
  <1>4. PICK g : g = Joined(s)
    OBVIOUS
  <1>5. PICK h : h = Joined(t)
    OBVIOUS
  <1>6. /\ g[0] = <<>>
        /\ \A i \in 1..n : g[i] = g[i - 1] \o s[i]
    BY <1>1, <1>4, JoinedDef
  <1>7. /\ h[0] = <<>>
        /\ \A i \in 1..(n + 1) : h[i] = h[i - 1] \o t[i]
    BY <1>3, <1>5, JoinedDef
  <1> DEFINE S == {i \in 0..n : h[i] = g[i]}
  <1>8. 0 \in S
    BY <1>6, <1>7
  <1>9. ASSUME NEW i \in 1..n, i - 1 \in S PROVE i \in S
    <2>1. h[i - 1] = g[i - 1] /\ i \in 1..(n + 1) /\ i \in 0..n
      BY <1>9
    <2>2. h[i] = g[i]
      BY <1>3, <1>6, <1>7, <2>1, Zenon
    <2> QED
      BY <2>1, <2>2
  <1> HIDE DEF S
  <1>10. 0..n \subseteq S
    BY <1>8, <1>9, Ascent
  <1>11. \A i \in 0..n : h[i] = g[i]
    BY <1>10 DEF S
  <1>12. h[n + 1] = g[n] \o e
    <2>1. n + 1 \in 1..(n + 1) /\ (n + 1) - 1 = n /\ n \in 0..n
      OBVIOUS
    <2> QED
      BY <1>3, <1>7, <1>11, <2>1, Zenon
  <1>13. FlattenSeq(t) = h[n + 1] /\ FlattenSeq(s) = g[n]
    BY <1>1, <1>3, <1>4, <1>5, FlattenIsJoined
  <1> QED
    BY <1>1, <1>2, <1>4, <1>5, <1>11, <1>12, <1>13

\* The piece i lies in the whole right behind the pieces before it.
LEMMA PieceInPlace ==
  ASSUME NEW A, NEW s \in Seq(Seq(A)), NEW i \in 1..Len(s),
         NEW lo, NEW hi, lo = Len(Joined(s)[i - 1]), hi = Len(Joined(s)[i])
  PROVE  /\ lo \in Nat /\ hi \in Nat
         /\ hi = lo + Len(s[i])
         /\ hi <= Len(FlattenSeq(s))
         /\ SubSeq(FlattenSeq(s), lo + 1, hi) = s[i]
  <1>1. PICK n \in Nat : n = Len(s) /\ i \in 1..n
    OBVIOUS
  <1>2. PICK D : D = Seq(A)
    OBVIOUS
  <1>3. PICK g : g = Joined(s)
    OBVIOUS
  <1>4. /\ g \in [0..n -> D]
        /\ \A j \in 1..n : g[j] = g[j - 1] \o s[j]
    BY <1>1, <1>2, <1>3, JoinedDef
  <1>5. \A j \in 1..n : s[j] \in D
    BY <1>1, <1>2
  <1>6. \A j \in 0..n : g[j] \in D
    BY <1>4
  <1>7. FlattenSeq(s) = g[n]
    BY <1>1, <1>3, FlattenIsJoined
  <1>8. \A p, q \in D : /\ p \o q \in D /\ Len(p) \in Nat /\ Len(q) \in Nat
                        /\ Len(p \o q) = Len(p) + Len(q)
                        /\ \A k \in 1..Len(p) : (p \o q)[k] = p[k]
                        /\ \A k \in 1..Len(q) : (p \o q)[Len(p) + k] = q[k]
    BY <1>2
  <1> DEFINE S == {j \in 0..n : j >= i =>
                     /\ Len(g[i]) <= Len(g[j])
                     /\ \A k \in 1..Len(g[i]) : g[j][k] = g[i][k]}
  <1>9. 0 \in S
    BY <1>1
  <1>10. ASSUME NEW j \in 1..n, j - 1 \in S PROVE j \in S
    <2> SUFFICES ASSUME j >= i
                 PROVE  /\ Len(g[i]) <= Len(g[j])
                        /\ \A k \in 1..Len(g[i]) : g[j][k] = g[i][k]
      OBVIOUS
    <2>1. CASE j = i
      BY <1>6, <1>8, <2>1
    <2>2. CASE j # i
      <3>1. j - 1 >= i /\ j - 1 \in 0..n
        BY <1>1, <2>2
      <3>2. /\ Len(g[i]) <= Len(g[j - 1])
            /\ \A k \in 1..Len(g[i]) : g[j - 1][k] = g[i][k]
        BY <1>10, <3>1
      <3>3. PICK p \in D : p = g[j - 1]
        BY <1>6, <3>1
      <3>4. PICK q \in D : q = s[j]
        BY <1>5
      <3>5. g[j] = p \o q
        BY <1>4, <3>3, <3>4
      <3>6. PICK a \in Nat : a = Len(g[i])
        <4>1. i \in 0..n
          BY <1>1
        <4>2. g[i] \in D
          BY <1>6, <4>1
        <4> QED
          BY <1>8, <4>2
      <3>7. a <= Len(p) /\ \A k \in 1..a : p[k] = g[i][k]
        BY <3>2, <3>3, <3>6
      <3>8. a <= Len(p \o q) /\ \A k \in 1..a : (p \o q)[k] = p[k]
        <4>1. PICK b, c \in Nat : b = Len(p) /\ c = Len(q)
          BY <1>8
        <4>2. Len(p \o q) = b + c /\ \A k \in 1..b : (p \o q)[k] = p[k]
          BY <1>8, <4>1
        <4>3. a <= b
          BY <3>7, <4>1
        <4> QED
          BY <4>2, <4>3
      <3> QED
        BY <3>5, <3>6, <3>7, <3>8
    <2> QED
      BY <2>1, <2>2
  <1> HIDE DEF S
  <1>11. 0..n \subseteq S
    BY <1>9, <1>10, Ascent
  <1>12. /\ Len(g[i]) <= Len(g[n])
         /\ \A k \in 1..Len(g[i]) : g[n][k] = g[i][k]
    <2>1. n \in 0..n /\ n >= i
      BY <1>1
    <2>2. n \in S
      BY <1>11, <2>1
    <2> QED
      BY <2>1, <2>2 DEF S
  <1>13. PICK w \in D : w = g[n]
    BY <1>1, <1>6
  <1>14. PICK p \in D : p = g[i - 1]
    BY <1>1, <1>6
  <1>15. PICK q \in D : q = s[i]
    BY <1>1, <1>5
  <1>16. g[i] = p \o q
    BY <1>1, <1>4, <1>14, <1>15
  <1>17. lo = Len(p) /\ hi = Len(p \o q)
    BY <1>3, <1>14, <1>16
  <1>18. /\ lo \in Nat /\ Len(q) \in Nat /\ hi = lo + Len(q)
         /\ \A k \in 1..Len(q) : (p \o q)[lo + k] = q[k]
    BY <1>8, <1>17
  <1>19. hi <= Len(w) /\ \A k \in 1..hi : w[k] = (p \o q)[k]
    BY <1>12, <1>13, <1>16, <1>17
  <1>20. \A k \in 1..Len(q) : w[lo + k] = q[k]
    <2> TAKE k \in 1..Len(q)
    <2>1. lo + k \in 1..hi
      BY <1>18
    <2> QED
      BY <1>18, <1>19, <2>1
  <1>21. SubSeq(w, lo + 1, hi) = q
    <2>1. w \in Seq(A) /\ q \in Seq(A)
      BY <1>2
    <2>2. /\ SubSeq(w, lo + 1, hi) \in Seq(A)
          /\ Len(SubSeq(w, lo + 1, hi)) = Len(q)
          /\ \A k \in 1..Len(q) : SubSeq(w, lo + 1, hi)[k] = w[lo + k]
      <3>1. PICK l, m, n0 \in Nat : l = Len(w) /\ m = lo /\ n0 = Len(q)
        <4>1. Len(w) \in Nat
          BY <2>1
        <4> QED
          BY <1>18, <4>1
      <3>2. hi = m + n0 /\ m + n0 <= l
        BY <1>18, <1>19, <3>1
      <3>3. m + 1 \in 1..(l + 1) /\ m + n0 \in m..l
        BY <3>1, <3>2
      <3>4. /\ SubSeq(w, m + 1, m + n0) \in Seq(A)
            /\ Len(SubSeq(w, m + 1, m + n0)) = n0
            /\ \A k \in 1..n0 : SubSeq(w, m + 1, m + n0)[k] = w[m + k]
        <4>0. PICK a \in Int : a = m + 1
          BY <3>1
        <4>1. PICK b \in Int : a = m + 1 /\ b = m + n0
          BY <3>1, <4>0
        <4>2. a \in 1..(l + 1) /\ b \in (a - 1)..l
          BY <3>1, <3>3, <4>0, <4>1
        <4>3. /\ SubSeq(w, a, b) \in Seq(A)
              /\ Len(SubSeq(w, a, b)) = b - a + 1
              /\ \A k \in 1..(b - a + 1) : SubSeq(w, a, b)[k] = w[a + k - 1]
          BY <2>1, <3>1, <4>2, SubSeqProperties
        <4>4. b - a + 1 = n0 /\ \A k \in 1..n0 : a + k - 1 = m + k
          BY <3>1, <4>0, <4>1
        <4> QED
          BY <4>1, <4>3, <4>4
      <3> QED
        BY <3>1, <3>2, <3>4
    <2>3. \A k \in 1..Len(q) : SubSeq(w, lo + 1, hi)[k] = q[k]
      BY <1>20, <2>2
    <2> QED
      BY <2>1, <2>2, <2>3, SeqEqual
  <1>22. hi \in Nat
    BY <1>18
  <1> QED
    BY <1>7, <1>13, <1>15, <1>18, <1>19, <1>21, <1>22

-----------------------------------------------------------------------------
(* Numbers: from_le_bytes undoes to_le_bytes, if the number fits             *)

Rests(v, w) == CHOOSE f : f = [i \in 1..w |-> IF i = 1 THEN v ELSE f[i - 1] \div 256]

Divides(g, v, w) ==
    /\ g \in [1..w -> Int]
    /\ g[1] = v
    /\ \A i \in 2..w : g[i] = g[i - 1] \div 256

LEMMA RestsDef ==
  ASSUME NEW v \in Int, NEW w \in Nat \ {0}
  PROVE  Divides(Rests(v, w), v, w)
  <1>1. PICK n \in Nat : n = w - 1
    OBVIOUS
  <1>2. PICK D : D = Int
    OBVIOUS
  <1>3. PICK step \in [1..n -> [D -> D]] :
          \A i \in 1..n, p \in D : step[i][p] = p \div 256
    <2> DEFINE next == [i \in 1..n |-> [p \in D |-> p \div 256]]
    <2>1. \A p \in D : p \div 256 \in D
      BY <1>2
    <2>2. next \in [1..n -> [D -> D]] /\ \A i \in 1..n, p \in D : next[i][p] = p \div 256
      BY <2>1
    <2> HIDE DEF next
    <2> QED
      BY <2>2
  <1>4. PICK base \in D : base = v
    BY <1>2
  <1>5. PICK f : Iterates(f, n, D, base, step, n)
    BY Iteration
  <1>6. /\ f \in [0..n -> D] /\ f[0] = v
        /\ \A i \in 1..n : f[i] = step[i][f[i - 1]] /\ f[i - 1] \in D
    BY <1>4, <1>5 DEF Iterates
  <1>7. \A i \in 1..n : f[i] = f[i - 1] \div 256
    BY <1>3, <1>6
  <1> DEFINE F(h, i) == IF i = 1 THEN v ELSE h[i - 1] \div 256
             h == [i \in 1..w |-> f[i - 1]]
  <1>8. ASSUME NEW i \in 1..w PROVE h[i] = F(h, i)
    <2>1. CASE i = 1
      BY <1>6, <2>1
    <2>2. CASE i # 1
      <3>1. i - 1 \in 1..n /\ i - 1 \in 1..w
        BY <1>1, <2>2
      <3>2. h[i] = f[i - 1] /\ h[i - 1] = f[(i - 1) - 1]
        BY <3>1
      <3>3. f[i - 1] = f[(i - 1) - 1] \div 256
        BY <1>7, <3>1
      <3> HIDE DEF h
      <3> QED
        BY <2>2, <3>2, <3>3
    <2> QED
      BY <2>1, <2>2
  <1>9. h \in [1..w -> Int]
    BY <1>1, <1>2, <1>6
  <1>10. h = [i \in 1..w |-> h[i]]
    OBVIOUS
  <1> HIDE DEF h, F
  <1>11. h = [i \in 1..w |-> F(h, i)]
    BY <1>8, <1>10
  <1>12. \E x : x = [i \in 1..w |-> F(x, i)]
    BY <1>11
  <1>13. PICK g : g = [i \in 1..w |-> F(g, i)] /\ g = Rests(v, w)
    BY <1>12 DEF Rests, F
  <1>14. \A i \in 1..w : g[i] = F(g, i)
    BY <1>13
  <1>15. g[1] = v /\ \A i \in 2..w : g[i] = g[i - 1] \div 256
    BY <1>14 DEF F
  <1> DEFINE S == {i \in 0..n : g[i + 1] \in Int}
  <1>16. 0 \in S
    BY <1>15
  <1>17. ASSUME NEW i \in 1..n, i - 1 \in S PROVE i \in S
    <2>1. i + 1 \in 2..w /\ (i + 1) - 1 = i /\ (i - 1) + 1 = i /\ i \in 0..n
      BY <1>1
    <2>2. g[i] \in Int
      BY <1>17, <2>1
    <2>3. g[i + 1] = g[i] \div 256
      BY <1>15, <2>1
    <2> QED
      BY <2>1, <2>2, <2>3
  <1> HIDE DEF S
  <1>18. 0..n \subseteq S
    BY <1>16, <1>17, Ascent
  <1>19. ASSUME NEW i \in 1..w PROVE g[i] \in Int
    <2>1. i - 1 \in 0..n /\ (i - 1) + 1 = i
      BY <1>1
    <2> QED
      BY <1>18, <2>1 DEF S
  <1>20. g = [i \in 1..w |-> g[i]]
    BY <1>13
  <1>21. g \in [1..w -> Int]
    BY <1>19, <1>20
  <1> QED
    BY <1>13, <1>15, <1>21 DEF Divides

LEMMA LittleEndianBytes ==
  ASSUME NEW v \in Int, NEW w \in Nat \ {0}
  PROVE  /\ LittleEndian(v, w) \in Seq(Byte)
         /\ Len(LittleEndian(v, w)) = w
         /\ \A i \in 1..w : LittleEndian(v, w)[i] = Rests(v, w)[i] % 256
  <1>1. PICK g : g = Rests(v, w) /\ g \in [1..w -> Int]
    BY RestsDef DEF Divides
  <1>2. LittleEndian(v, w) = [i \in 1..w |-> g[i] % 256]
    <2>1. LittleEndian(v, w) = [i \in 1..w |-> Rests(v, w)[i] % 256]
      BY DEF LittleEndian, Rests
    <2> QED
      BY <1>1, <2>1
  <1>3. \A i \in 1..w : g[i] % 256 \in Byte
    <2>1. \A x \in Int : x % 256 \in Byte
      BY DEF Byte
    <2>2. \A i \in 1..w : g[i] \in Int
      BY <1>1
    <2> QED
      BY <2>1, <2>2
  <1>4. PICK l : l = LittleEndian(v, w)
    OBVIOUS
  <1>5. l = [i \in 1..w |-> g[i] % 256] /\ l \in [1..w -> Byte]
    BY <1>2, <1>3, <1>4
  <1>6. l \in Seq(Byte) /\ Len(l) = w
    BY <1>5
  <1> QED
    BY <1>1, <1>4, <1>5, <1>6

LEMMA LittleEndianType ==
  ASSUME NEW v \in Int, NEW w \in Nat \ {0}, NEW l, l = LittleEndian(v, w)
  PROVE  l \in Seq(Byte) /\ Len(l) = w
  BY LittleEndianBytes

LEMMA Lengths ==
  /\ \A n \in Nat : LittleEndian(n, 2) \in Seq(Byte) /\ Len(LittleEndian(n, 2)) = 2
  /\ \A n \in Nat : LittleEndian(n, 4) \in Seq(Byte) /\ Len(LittleEndian(n, 4)) = 4
  <1>1. ASSUME NEW n \in Nat, NEW w \in {2, 4}
        PROVE  LittleEndian(n, w) \in Seq(Byte) /\ Len(LittleEndian(n, w)) = w
    BY LittleEndianType
  <1> QED
    BY <1>1

LEMMA NumberBack ==
  ASSUME NEW v \in Int, NEW w \in Nat \ {0}, NEW signed \in BOOLEAN,
         Rests(v, w)[w] \in IF signed THEN -128..127 ELSE 0..255
  PROVE  Number(LittleEndian(v, w), signed) = v
  <1>1. PICK g : g = Rests(v, w)
    OBVIOUS
  <1>2. /\ \A i \in 1..w : g[i] \in Int
        /\ g[1] = v
        /\ \A i \in 2..w : g[i] = g[i - 1] \div 256
    <2>1. Divides(g, v, w)
      BY <1>1, RestsDef
    <2> QED
      BY <2>1 DEF Divides
  <1>3. PICK l : l = LittleEndian(v, w)
    OBVIOUS
  <1>4. l \in Seq(Byte) /\ Len(l) = w /\ \A i \in 1..w : l[i] = g[i] % 256
    BY <1>1, <1>3, LittleEndianBytes
  <1>5. PICK top \in Int : top = g[w] /\ top \in IF signed THEN -128..127 ELSE 0..255
    <2>1. w \in 1..w
      OBVIOUS
    <2>2. g[w] \in Int
      BY <1>2, <2>1
    <2> QED
      BY <1>1, <2>2
  <1> DEFINE Sign == IF signed /\ Last(l) >= 128 THEN -1 ELSE 0
  <1>6. Sign = top \div 256
    <2>1. Last(l) = top % 256
      BY <1>4, <1>5 DEF Last
    <2>2. CASE signed
      <3>1. top \in -128..127
        BY <1>5, <2>2
      <3> QED
        BY <2>1, <2>2, <3>1
    <2>3. CASE ~ signed
      <3>1. top \in 0..255
        BY <1>5, <2>3
      <3> QED
        BY <2>1, <2>3, <3>1
    <2> QED
      BY <2>2, <2>3
  <1>7. PICK sign \in Int : sign = Sign /\ sign = top \div 256
    BY <1>5, <1>6
  <1> DEFINE F(h, i) == IF i <= w THEN l[i] + 256 * h[i + 1] ELSE sign
             h == [i \in 1..(w + 1) |-> IF i <= w THEN g[i] ELSE sign]
  <1>8. ASSUME NEW i \in 1..w
        PROVE  h[i + 1] = g[i] \div 256 /\ h[i] = g[i]
    <2>1. CASE i = w
      BY <1>5, <1>7, <2>1
    <2>2. CASE i # w
      <3>1. i + 1 \in 2..w /\ (i + 1) - 1 = i
        BY <2>2
      <3> QED
        BY <1>2, <3>1
    <2> QED
      BY <2>1, <2>2
  <1>9. \A x \in Int : x = (x % 256) + 256 * (x \div 256)
    OBVIOUS
  <1>10. h[w + 1] = sign /\ h = [i \in 1..(w + 1) |-> h[i]]
    OBVIOUS
  <1> HIDE DEF h
  <1>11. ASSUME NEW i \in 1..(w + 1) PROVE h[i] = F(h, i)
    <2>1. CASE i <= w
      <3>1. i \in 1..w
        BY <2>1
      <3>2. g[i] = l[i] + 256 * h[i + 1]
        <4>1. PICK x \in Int : x = g[i]
          BY <1>2, <3>1
        <4>2. l[i] = x % 256 /\ h[i + 1] = x \div 256
          BY <1>4, <1>8, <3>1, <4>1
        <4>3. x = (x % 256) + 256 * (x \div 256)
          BY <1>9
        <4> QED
          BY <4>1, <4>2, <4>3
      <3> QED
        BY <1>8, <2>1, <3>1, <3>2
    <2>2. CASE ~ (i <= w)
      <3>1. i = w + 1
        BY <2>2
      <3> QED
        BY <1>10, <2>2, <3>1
    <2> QED
      BY <2>1, <2>2
  <1> DEFINE G(h_, i) == IF i <= Len(l) THEN l[i] + 256 * h_[i + 1] ELSE Sign
  <1>12. \E x : x = [i \in 1..(Len(l) + 1) |-> G(x, i)]
    <2>1. h = [i \in 1..(w + 1) |-> F(h, i)]
      <3> HIDE DEF F
      <3> QED
        BY <1>10, <1>11
    <2> HIDE DEF Sign
    <2>2. h = [i \in 1..(Len(l) + 1) |-> G(h, i)]
      BY <1>4, <1>7, <2>1
    <2> HIDE DEF G
    <2> QED
      BY <2>2
  <1>13. PICK from : from = [i \in 1..(Len(l) + 1) |-> G(from, i)] /\ Number(l, signed) = from[1]
    <2> DEFINE c == CHOOSE x : x = [i \in 1..(Len(l) + 1) |-> G(x, i)]
    <2>1. Number(l, signed) = c[1]
      BY DEF Number
    <2>2. c = [i \in 1..(Len(l) + 1) |-> G(c, i)]
      <3> HIDE DEF G
      <3> QED
        BY <1>12
    <2> HIDE DEF c, G
    <2> QED
      BY <2>1, <2>2
  <1>14. ASSUME NEW i \in 1..(w + 1) PROVE from[i] = F(from, i)
    <2>1. i \in 1..(Len(l) + 1)
      BY <1>4
    <2> HIDE DEF Sign
    <2>2. from[i] = G(from, i)
      <3> HIDE DEF G
      <3> QED
        BY <1>13, <2>1
    <2> QED
      BY <1>4, <1>7, <2>2
  <1> DEFINE S == {k \in 0..w : from[w + 1 - k] = h[w + 1 - k]}
  <1>15. 0 \in S
    <2>1. w + 1 \in 1..(w + 1) /\ ~ (w + 1 <= w) /\ (w + 1) - 0 = w + 1
      OBVIOUS
    <2>2. from[w + 1] = sign
      BY <1>14, <2>1
    <2> QED
      BY <1>10, <2>1, <2>2
  <1>16. ASSUME NEW k \in 1..w, k - 1 \in S PROVE k \in S
    <2>1. PICK i \in 1..w : i = w + 1 - k /\ i + 1 = w + 1 - (k - 1) /\ i \in 1..(w + 1)
      OBVIOUS
    <2>2. from[i + 1] = h[i + 1]
      BY <1>16, <2>1
    <2>3. from[i] = l[i] + 256 * from[i + 1] /\ h[i] = l[i] + 256 * h[i + 1]
      BY <1>11, <1>14, <2>1
    <2>4. from[i] = h[i] /\ k \in 0..w
      BY <2>2, <2>3
    <2> QED
      BY <2>1, <2>4
  <1> HIDE DEF S
  <1>17. 0..w \subseteq S
    BY <1>15, <1>16, Ascent
  <1>18. from[1] = h[1]
    <2>1. w \in 0..w /\ w + 1 - w = 1
      OBVIOUS
    <2> QED
      BY <1>17, <2>1 DEF S
  <1>19. h[1] = v
    BY <1>2, <1>8
  <1> QED
    BY <1>3, <1>13, <1>18, <1>19


-----------------------------------------------------------------------------
(* What the Reader makes of a piece that lies in the buffer                  *)

\* The piece is in the buffer, right behind the first at bytes.
Lies(buf, at, piece) ==
    /\ at + Len(piece) <= Len(buf)
    /\ \A k \in 1..Len(piece) : buf[at + k] = piece[k]

LEMMA OkFields ==
  ASSUME NEW a, NEW x
  PROVE  Ok(a, x).err = "" /\ Ok(a, x).at = a /\ Ok(a, x).v = x
  BY DEF Ok

LEMMA OkIs ==
  ASSUME NEW y, NEW a, NEW x, y = Ok(a, x)
  PROVE  y.err = "" /\ y.at = a /\ y.v = x
  BY OkFields, Zenon

LEMMA ErrIs ==
  ASSUME NEW r, NEW err, r = Err(err)
  PROVE  r.err = err
  BY DEF Err

LEMMA TakePiece ==
  ASSUME NEW buf \in Seq(Byte), NEW at \in Nat, NEW piece \in Seq(Byte), Lies(buf, at, piece)
  PROVE  Take(buf, at, Len(piece)) = Ok(at + Len(piece), piece)
  <1>1. PICK n \in Nat : n = Len(piece)
    OBVIOUS
  <1>2. at + n <= Len(buf) /\ \A k \in 1..n : buf[at + k] = piece[k]
    BY <1>1 DEF Lies
  <1>3. PICK q : q = SubSeq(buf, at + 1, at + n)
    OBVIOUS
  <1>4. q \in Seq(Byte) /\ Len(q) = n /\ \A k \in 1..n : q[k] = buf[at + k]
    BY <1>2, <1>3
  <1>5. q = piece
    BY <1>1, <1>2, <1>4, SeqEqual
  <1>6. ~ (at + n > Len(buf))
    BY <1>2
  <1> QED
    BY <1>1, <1>3, <1>5, <1>6, Zenon DEF Take

\* Then goes on exactly once.
LEMMA ChooseOnly ==
  ASSUME NEW S, NEW e, S = {e}
  PROVE  (CHOOSE y \in S : TRUE) = e
  OBVIOUS

LEMMA NumberRead ==
  ASSUME NEW buf, NEW at, NEW kind, NEW p, NEW raw, Take(buf, at, Width[kind]) = Ok(p, raw)
  PROVE  GetNumber(buf, at, kind) = Ok(p, Number(raw, kind = "i32"))
  <1> DEFINE r == Take(buf, at, Width[kind])
             E(x) == IF x.err # "" THEN x ELSE Ok(x.at, Number(x.v, kind = "i32"))
  <1>1. GetNumber(buf, at, kind) = CHOOSE y \in {E(x) : x \in {r}} : TRUE
    BY DEF GetNumber, Then
  <1>2. r = Ok(p, raw)
    OBVIOUS
  <1> HIDE DEF r
  <1>3. r.err = "" /\ r.at = p /\ r.v = raw
    BY <1>2, OkIs, Zenon
  <1>4. E(r) = Ok(p, Number(raw, kind = "i32"))
    BY <1>3, Zenon
  <1> HIDE DEF E
  <1>5. {E(x) : x \in {r}} = {E(r)}
    OBVIOUS
  <1> QED
    BY <1>1, <1>4, <1>5, ChooseOnly


\* The widths, kind by kind.
LEMMA WidthIs ==
  /\ DOMAIN Width = {"u8", "u16", "u32", "i32", "u64"}
  /\ Width["u8"] = 1 /\ Width["u16"] = 2 /\ Width["u32"] = 4 /\ Width["i32"] = 4 /\ Width["u64"] = 8
  BY DEF Width

LEMMA WidthType ==
  ASSUME NEW kind \in DOMAIN Width
  PROVE  Width[kind] \in Nat \ {0}
  BY WidthIs

\* The steps of a number of two bytes, of four and of eight.
LEMMA RestsByThree ==
  ASSUME NEW v \in Int
  PROVE  /\ Rests(v, 1)[1] = v
         /\ Rests(v, 2)[2] = v \div 256
         /\ Rests(v, 4)[4] = Above(v)
         /\ Rests(v, 8)[8] = Above(Above(v)) \div 256
  <1>1. ASSUME NEW w \in {1, 2, 4, 8}, NEW g, g = Rests(v, w)
        PROVE  /\ g[1] = v
               /\ w >= 2 => g[2] = g[1] \div 256
               /\ w >= 4 => g[3] = g[2] \div 256 /\ g[4] = g[3] \div 256
               /\ w = 8 => /\ g[5] = g[4] \div 256 /\ g[6] = g[5] \div 256
                            /\ g[7] = g[6] \div 256 /\ g[8] = g[7] \div 256
    <2>1. Divides(g, v, w)
      BY <1>1, RestsDef
    <2>2. g[1] = v /\ \A i \in 2..w : g[i] = g[i - 1] \div 256
      BY <2>1 DEF Divides
    <2> QED
      BY <2>2
  <1>2. PICK h : h = Rests(v, 4)
    OBVIOUS
  <1>3. h[4] = Above(v)
    BY <1>1, <1>2 DEF Above
  <1>4. PICK k : k = Rests(v, 8)
    OBVIOUS
  <1>5. k[4] = Above(v) /\ k[7] = ((k[4] \div 256) \div 256) \div 256 /\ k[8] = k[7] \div 256
    BY <1>1, <1>4 DEF Above
  <1>6. k[8] = Above(Above(v)) \div 256
    BY <1>5 DEF Above
  <1> QED
    BY <1>1, <1>2, <1>3, <1>4, <1>6

LEMMA ValuesAre ==
  /\ Values["u8"] = Byte /\ Values["u16"] = U16 /\ Values["u32"] = U32
  /\ Values["i32"] = I32 /\ Values["u64"] = U64 /\ Values["bool"] = BOOLEAN
  /\ Values["hash"] = {v \in Seq(Byte) : Len(v) = HashBytes}
  /\ Values["bytes"] = Seq(Byte) /\ Values["str"] = Seq(Byte)
  BY DEF Values

\* The number of a kind is below the limit of its width.
LEMMA ValueTop ==
  ASSUME NEW kind \in DOMAIN Width, NEW v \in Values[kind]
  PROVE  /\ v \in Int
         /\ Rests(v, Width[kind])[Width[kind]] \in IF kind = "i32" THEN -128..127 ELSE Byte
  <1>1. kind \in {"u8", "u16", "u32", "i32", "u64"}
    BY WidthIs
  <1>2. CASE kind = "u8"
    <2>1. v \in Byte /\ Width[kind] = 1
      BY <1>2, WidthIs, ValuesAre
    <2>2. v \in Int
      BY <2>1 DEF Byte
    <2> QED
      BY <1>2, <2>1, <2>2, RestsByThree
  <1>3. CASE kind = "u16"
    <2>1. v \in Int /\ v \div 256 \in Byte /\ Width[kind] = 2
      BY <1>3, WidthIs, ValuesAre DEF U16
    <2> QED
      BY <1>3, <2>1, RestsByThree
  <1>4. CASE kind = "u32"
    <2>1. v \in Int /\ Above(v) \in Byte /\ Width[kind] = 4
      BY <1>4, WidthIs, ValuesAre DEF U32
    <2> QED
      BY <1>4, <2>1, RestsByThree
  <1>5. CASE kind = "i32"
    <2>1. v \in Int /\ Above(v) \in -128..127 /\ Width[kind] = 4
      BY <1>5, WidthIs, ValuesAre DEF I32
    <2> QED
      BY <1>5, <2>1, RestsByThree
  <1>6. CASE kind = "u64"
    <2>1. v \in Int /\ Above(Above(v)) \div 256 \in Byte /\ Width[kind] = 8
      BY <1>6, WidthIs, ValuesAre DEF U64
    <2> QED
      BY <1>6, <2>1, RestsByThree
  <1> QED
    BY <1>1, <1>2, <1>3, <1>4, <1>5, <1>6

LEMMA GetNumberBack ==
  ASSUME NEW buf \in Seq(Byte), NEW at \in Nat, NEW kind \in DOMAIN Width, NEW v \in Values[kind],
         Lies(buf, at, LittleEndian(v, Width[kind]))
  PROVE  GetNumber(buf, at, kind) = Ok(at + Width[kind], v)
  <1>1. PICK w \in Nat \ {0} : w = Width[kind]
    BY WidthType
  <1>2. v \in Int /\ Rests(v, w)[w] \in IF kind = "i32" THEN -128..127 ELSE 0..255
    BY <1>1, ValueTop DEF Byte
  <1>3. PICK l : l = LittleEndian(v, w)
    OBVIOUS
  <1>4. l \in Seq(Byte) /\ Len(l) = w
    BY <1>2, <1>3, LittleEndianBytes
  <1>5. Take(buf, at, w) = Ok(at + w, l)
    BY <1>1, <1>3, <1>4, TakePiece
  <1>6. Number(l, kind = "i32") = v
    <2>1. PICK signed \in BOOLEAN : signed <=> kind = "i32"
      OBVIOUS
    <2>2. Rests(v, w)[w] \in IF signed THEN -128..127 ELSE 0..255
      BY <1>2, <2>1
    <2>3. Number(l, signed) = v
      BY <1>2, <1>3, <2>2, NumberBack
    <2>4. signed = (kind = "i32")
      BY <2>1
    <2> QED
      BY <2>3, <2>4, Zenon
  <1>7. GetNumber(buf, at, kind) = Ok(at + w, Number(l, kind = "i32"))
    BY <1>1, <1>5, NumberRead
  <1> QED
    BY <1>1, <1>6, <1>7, Zenon


LEMMA SmallLengths ==
  /\ MaxFrame \in Nat /\ MaxString \in Nat /\ MaxDisplays \in Nat
  /\ \A n \in Nat : n <= MaxFrame => n \in U32 /\ Above(n) = 0
  /\ \A n \in Nat : n <= MaxString \/ n <= MaxDisplays => n \in U16
  <1>1. MaxFrame \in Nat /\ MaxString \in Nat /\ MaxDisplays \in Nat
    BY LimitsAssumption
  <1>2. ASSUME NEW n \in Nat, n <= MaxFrame PROVE n \in U32 /\ Above(n) = 0
    <2>1. n <= 8 * 1024 * 1024
      BY <1>2, LimitsAssumption
    <2>2. PICK a \in Nat : a = n \div 256 /\ a <= 8 * 1024 * 4
      BY <2>1
    <2>3. PICK b \in Nat : b = a \div 256 /\ b <= 128
      BY <2>2
    <2>4. Above(n) = 0
      BY <2>2, <2>3 DEF Above
    <2>5. 0 \in Byte
      BY DEF Byte
    <2> QED
      BY <2>4, <2>5 DEF U32
  <1>3. ASSUME NEW n \in Nat, n < 256 * 256 PROVE n \in U16
    <2>1. n \div 256 \in 0..255
      BY <1>3
    <2> QED
      BY <2>1 DEF U16, Byte
  <1>4. MaxString < 256 * 256 /\ MaxDisplays < 256 * 256
    BY LimitsAssumption
  <1> QED
    BY <1>1, <1>2, <1>3, <1>4

LEMMA LiesSelf ==
  ASSUME NEW buf \in Seq(Byte)
  PROVE  Lies(buf, 0, buf)
  <1>1. PICK l \in Nat : l = Len(buf)
    OBVIOUS
  <1>2. \A k \in 1..l : buf[0 + k] = buf[k]
    <2> TAKE k \in 1..l
    <2>1. 0 + k = k
      OBVIOUS
    <2> QED
      BY <2>1
  <1>3. 0 + l <= l
    OBVIOUS
  <1> QED
    BY <1>1, <1>2, <1>3, Zenon DEF Lies

LEMMA LiesParts ==
  ASSUME NEW buf \in Seq(Byte), NEW at \in Nat, NEW p \in Seq(Byte), NEW q \in Seq(Byte),
         Lies(buf, at, p \o q)
  PROVE  Lies(buf, at, p) /\ Lies(buf, at + Len(p), q)
  <1>1. PICK m \in Nat : m = Len(p)
    OBVIOUS
  <1>2. PICK n \in Nat : n = Len(q)
    OBVIOUS
  <1>0. PICK w : w = p \o q
    OBVIOUS
  <1>3. w \in Seq(Byte) /\ w = p \o q
    BY <1>0
  <1>4. /\ Len(w) = m + n
        /\ \A k \in 1..m : w[k] = p[k]
        /\ \A k \in 1..n : w[m + k] = q[k]
    BY <1>1, <1>2, <1>3
  <1>5. at + (m + n) <= Len(buf) /\ \A k \in 1..(m + n) : buf[at + k] = w[k]
    BY <1>3, <1>4 DEF Lies
  <1>6. \A k \in 1..m : buf[at + k] = p[k]
    BY <1>4, <1>5
  <1>7. \A k \in 1..n : buf[(at + m) + k] = q[k]
    <2> TAKE k \in 1..n
    <2>1. m + k \in 1..(m + n) /\ at + (m + k) = (at + m) + k
      OBVIOUS
    <2> QED
      BY <1>4, <1>5, <2>1
  <1>8. Lies(buf, at, p)
    BY <1>1, <1>5, <1>6 DEF Lies
  <1>9. Lies(buf, at + m, q)
    <2>1. (at + m) + n <= Len(buf)
      BY <1>5
    <2> QED
      BY <1>2, <1>7, <2>1, Zenon DEF Lies
  <1> QED
    BY <1>1, <1>8, <1>9

LEMMA ClipType ==
  ASSUME NEW text \in Seq(Byte)
  PROVE  Clip(text) \in Seq(Byte) /\ Len(Clip(text)) <= MaxString
  <1>1. MaxString \in Nat
    BY SmallLengths
  <1> QED
    BY <1>1 DEF Clip

LEMMA PutType ==
  ASSUME NEW kind \in DOMAIN Values, NEW v \in Values[kind]
  PROVE  Put(v, kind) \in Seq(Byte)
  <1>1. CASE kind \in DOMAIN Width
    <2>1. v \in Int /\ Width[kind] \in Nat \ {0}
      BY <1>1, ValueTop, WidthType
    <2>2. Put(v, kind) = LittleEndian(v, Width[kind])
      <3>1. kind \notin {"bool", "hash", "bytes", "str"}
        BY <1>1, WidthIs
      <3> QED
        BY <1>1, <3>1, Zenon DEF Put
    <2> QED
      BY <2>1, <2>2, LittleEndianBytes
  <1>2. CASE kind = "bool"
    <2>1. Put(v, kind) = <<IF v THEN 1 ELSE 0>>
      BY <1>2, WidthIs DEF Put
    <2>2. (IF v THEN 1 ELSE 0) \in Byte
      BY DEF Byte
    <2> QED
      BY <2>1, <2>2
  <1>3. CASE kind = "hash"
    <2>1. Put(v, kind) = v
      BY <1>3, WidthIs DEF Put
    <2>2. v \in Seq(Byte)
      BY <1>3, ValuesAre
    <2> QED
      BY <2>1, <2>2
  <1>4. CASE kind = "bytes"
    <2>1. Put(v, kind) = LittleEndian(Len(v), 4) \o v
      BY <1>4, WidthIs DEF Put
    <2>2. v \in Seq(Byte)
      BY <1>4, ValuesAre
    <2>3. LittleEndian(Len(v), 4) \in Seq(Byte)
      BY <2>2, LittleEndianBytes
    <2> QED
      BY <2>1, <2>2, <2>3
  <1>5. CASE kind = "str"
    <2>1. Put(v, kind) = LittleEndian(Len(Clip(v)), 2) \o Clip(v)
      BY <1>5, WidthIs DEF Put, PutStr
    <2>2. Clip(v) \in Seq(Byte)
      BY <1>5, ValuesAre, ClipType
    <2>3. LittleEndian(Len(Clip(v)), 2) \in Seq(Byte)
      BY <2>2, LittleEndianBytes
    <2> QED
      BY <2>1, <2>2, <2>3
  <1>6. DOMAIN Values = DOMAIN Width \cup {"bool", "hash", "bytes", "str"}
    BY WidthIs DEF Values
  <1> QED
    BY <1>1, <1>2, <1>3, <1>4, <1>5, <1>6


\* What a text becomes on the way, and when it is read at all.
Received(v, kind) == IF kind = "str" THEN Clip(v) ELSE v
Readable(v, kind) == kind = "str" => Utf8(Clip(v))

LEMMA FlagBack ==
  ASSUME NEW buf \in Seq(Byte), NEW at \in Nat, NEW v \in BOOLEAN,
         Lies(buf, at, <<IF v THEN 1 ELSE 0>>)
  PROVE  /\ GetPressed(buf, at) = Ok(at + 1, v)
         /\ GetKeyframe(buf, at) = Ok(at + 1, v)
  <1>1. PICK b \in Byte : b = (IF v THEN 1 ELSE 0)
    BY DEF Byte
  <1>2. PICK piece : piece = <<b>>
    OBVIOUS
  <1>3. piece \in Seq(Byte) /\ Len(piece) = 1 /\ piece[1] = b
    BY <1>2
  <1>0. PICK p \in Nat : p = at + 1
    OBVIOUS
  <1>4. Take(buf, at, 1) = Ok(p, piece)
    BY <1>0, <1>1, <1>2, <1>3, TakePiece
  <1> DEFINE r == Take(buf, at, 1)
             E(x) == IF x.err # "" THEN x
                     ELSE IF x.v[1] \in {0, 1} THEN Ok(x.at, x.v[1] = 1) ELSE Err("Invalid")
             F(x) == IF x.err # "" THEN x ELSE Ok(x.at, x.v[1] % 2 = 1)
  <1>5. GetPressed(buf, at) = CHOOSE y \in {E(x) : x \in {r}} : TRUE
    BY DEF GetPressed, Then
  <1>6. GetKeyframe(buf, at) = CHOOSE y \in {F(x) : x \in {r}} : TRUE
    BY DEF GetKeyframe, Then
  <1>7. r = Ok(p, piece)
    BY <1>4
  <1> HIDE DEF r
  <1>8. r.err = "" /\ r.at = p /\ r.v = piece
    <2>1. Ok(p, piece).err = "" /\ Ok(p, piece).at = p /\ Ok(p, piece).v = piece
      BY OkFields, Zenon
    <2> QED
      BY <1>7, <2>1, Zenon
  <1>9. b \in {0, 1} /\ (b = 1) = v /\ (b % 2 = 1) = v
    BY <1>1
  <1>10. E(r) = Ok(p, v)
    BY <1>3, <1>8, <1>9, Zenon
  <1>11. F(r) = Ok(p, v)
    BY <1>3, <1>8, <1>9, Zenon
  <1> HIDE DEF E, F
  <1>12. {E(x) : x \in {r}} = {E(r)} /\ {F(x) : x \in {r}} = {F(r)}
    OBVIOUS
  <1> QED
    BY <1>0, <1>5, <1>6, <1>10, <1>11, <1>12, ChooseOnly

LEMMA BytesBack ==
  ASSUME NEW buf \in Seq(Byte), NEW at \in Nat, NEW v \in Seq(Byte), Len(buf) <= MaxFrame,
         Lies(buf, at, LittleEndian(Len(v), 4) \o v)
  PROVE  GetBytes(buf, at) = Ok(at + 4 + Len(v), v)
  <1>1. PICK n \in Nat : n = Len(v)
    OBVIOUS
  <1>2. PICK l : l = LittleEndian(n, 4)
    OBVIOUS
  <1>a. l \in Seq(Byte) /\ Len(l) = 4
    BY <1>2, Lengths, Zenon
  <1>b. PICK j \in Nat : j = at + 4
    OBVIOUS
  <1>c. PICK k \in Nat : k = j + n
    OBVIOUS
  <1>3. Lies(buf, at, l) /\ Lies(buf, j, v)
    BY <1>1, <1>2, <1>a, <1>b, LiesParts
  <1>4. n <= MaxFrame
    BY <1>1, <1>3, SmallLengths DEF Lies
  <1>5. "u32" \in DOMAIN Width /\ Width["u32"] = 4 /\ n \in Values["u32"]
    BY <1>4, SmallLengths, WidthIs, ValuesAre
  <1>6. GetNumber(buf, at, "u32") = Ok(j, n)
    BY <1>2, <1>b, <1>3, <1>5, GetNumberBack
  <1>7. Take(buf, j, n) = Ok(k, v)
    BY <1>1, <1>3, <1>c, TakePiece
  <1> DEFINE r == GetNumber(buf, at, "u32")
             E(x) == IF x.err # "" THEN x
                     ELSE IF x.v > MaxFrame THEN Err("Invalid") ELSE Take(buf, x.at, x.v)
  <1>8. GetBytes(buf, at) = CHOOSE y \in {E(x) : x \in {r}} : TRUE
    BY DEF GetBytes, Then
  <1>9. r = Ok(j, n)
    BY <1>6
  <1> HIDE DEF r
  <1>10. r.err = "" /\ r.at = j /\ r.v = n
    <2>1. Ok(j, n).err = "" /\ Ok(j, n).at = j /\ Ok(j, n).v = n
      BY OkFields, Zenon
    <2> QED
      BY <1>9, <2>1, Zenon
  <1>11. ~ (n > MaxFrame)
    BY <1>4, SmallLengths
  <1>12. E(r) = Ok(k, v)
    BY <1>7, <1>10, <1>11, Zenon
  <1> HIDE DEF E
  <1>13. {E(x) : x \in {r}} = {E(r)}
    OBVIOUS
  <1>14. k = at + 4 + Len(v)
    BY <1>1, <1>b, <1>c
  <1> QED
    BY <1>8, <1>12, <1>13, <1>14, ChooseOnly

LEMMA TextBack ==
  ASSUME NEW buf \in Seq(Byte), NEW at \in Nat, NEW v \in Seq(Byte), Lies(buf, at, PutStr(v))
  PROVE  GetStr(buf, at) = IF Utf8(Clip(v)) THEN Ok(at + 2 + Len(Clip(v)), Clip(v)) ELSE Err("Utf8")
  <1>1. PICK t \in Seq(Byte) : t = Clip(v) /\ Len(t) <= MaxString
    BY ClipType
  <1>2. PICK n \in Nat : n = Len(t)
    OBVIOUS
  <1>3. PICK l : l = LittleEndian(n, 2)
    OBVIOUS
  <1>a. l \in Seq(Byte) /\ Len(l) = 2
    BY <1>3, Lengths, Zenon
  <1>b. PICK j \in Nat : j = at + 2
    OBVIOUS
  <1>c. PICK k \in Nat : k = j + n
    OBVIOUS
  <1>4. PutStr(v) = l \o t
    BY <1>1, <1>2, <1>3 DEF PutStr
  <1>5. Lies(buf, at, l) /\ Lies(buf, j, t)
    BY <1>1, <1>a, <1>b, <1>4, LiesParts
  <1>6. "u16" \in DOMAIN Width /\ Width["u16"] = 2 /\ n \in Values["u16"]
    BY <1>1, <1>2, SmallLengths, WidthIs, ValuesAre
  <1>7. GetNumber(buf, at, "u16") = Ok(j, n)
    <2>1. Lies(buf, at, LittleEndian(n, Width["u16"]))
      BY <1>3, <1>5, <1>6
    <2> QED
      BY <1>b, <1>6, <2>1, GetNumberBack
  <1>8. Take(buf, j, n) = Ok(k, t)
    BY <1>1, <1>2, <1>c, <1>5, TakePiece
  <1> DEFINE r == GetNumber(buf, at, "u16")
             F(z) == IF z.err # "" THEN z
                     ELSE IF Utf8(z.v) THEN Ok(z.at, z.v) ELSE Err("Utf8")
             C(s) == CHOOSE y \in {F(z) : z \in {s}} : TRUE
             E(x) == IF x.err # "" THEN x
                     ELSE IF x.v > MaxString THEN Err("Invalid") ELSE C(Take(buf, x.at, x.v))
  <1>9. GetStr(buf, at) = CHOOSE y \in {E(x) : x \in {r}} : TRUE
    BY DEF GetStr, Then
  <1>10. PICK s : s = Ok(k, t)
    OBVIOUS
  <1>11. s.err = "" /\ s.at = k /\ s.v = t
    <2>1. Ok(k, t).err = "" /\ Ok(k, t).at = k /\ Ok(k, t).v = t
      BY OkFields, Zenon
    <2> QED
      BY <1>10, <2>1, Zenon
  <1>12. F(s) = IF Utf8(t) THEN Ok(k, t) ELSE Err("Utf8")
    BY <1>11, Zenon
  <1> HIDE DEF F
  <1>13. {F(z) : z \in {s}} = {F(s)}
    OBVIOUS
  <1>14. C(s) = F(s)
    BY <1>13, ChooseOnly
  <1> HIDE DEF C
  <1>15. r = Ok(j, n)
    BY <1>7
  <1> HIDE DEF r
  <1>16. r.err = "" /\ r.at = j /\ r.v = n
    <2>1. Ok(j, n).err = "" /\ Ok(j, n).at = j /\ Ok(j, n).v = n
      BY OkFields, Zenon
    <2> QED
      BY <1>15, <2>1, Zenon
  <1>17. ~ (n > MaxString)
    BY <1>1, <1>2, SmallLengths
  <1>18. E(r) = C(s)
    BY <1>8, <1>10, <1>16, <1>17, Zenon
  <1> HIDE DEF E
  <1>19. {E(x) : x \in {r}} = {E(r)}
    OBVIOUS
  <1>20. GetStr(buf, at) = F(s)
    BY <1>9, <1>14, <1>18, <1>19, ChooseOnly
  <1>21. k = at + 2 + Len(Clip(v))
    BY <1>1, <1>2, <1>b, <1>c
  <1> QED
    BY <1>1, <1>12, <1>20, <1>21


LEMMA Concat ==
  ASSUME NEW p \in Seq(Byte), NEW q \in Seq(Byte), NEW w, w = p \o q
  PROVE  w \in Seq(Byte) /\ Len(w) = Len(p) + Len(q)
  OBVIOUS

\* How a value that was put as kp is got.
Matches(kp, kg) == (kp # "bool" /\ kg = kp) \/ (kp = "bool" /\ kg \in {"pressed", "keyframe"})

LEMMA GetPut ==
  ASSUME NEW buf \in Seq(Byte), Len(buf) <= MaxFrame, NEW at \in Nat,
         NEW kp \in DOMAIN Values, NEW kg, Matches(kp, kg), NEW v \in Values[kp],
         Lies(buf, at, Put(v, kp))
  PROVE  Get(buf, at, kg) = IF Readable(v, kp)
                              THEN Ok(at + Len(Put(v, kp)), Received(v, kp)) ELSE Err("Utf8")
  <1>1. DOMAIN Values = DOMAIN Width \cup {"bool", "hash", "bytes", "str"}
    BY WidthIs DEF Values
  <1>2. PICK n \in Nat : n = Len(Put(v, kp)) /\ Put(v, kp) \in Seq(Byte)
    BY PutType
  <1>3. PICK e \in Nat : e = at + n
    OBVIOUS
  <1>4. CASE kp \in DOMAIN Width
    <2>1. kg = kp /\ kp \notin {"bool", "hash", "bytes", "str", "pressed", "keyframe"}
      BY <1>4, WidthIs DEF Matches
    <2>2. Put(v, kp) = LittleEndian(v, Width[kp])
      BY <1>4, <2>1, Zenon DEF Put
    <2>3. Get(buf, at, kg) = GetNumber(buf, at, kp)
      BY <1>4, <2>1, Zenon DEF Get
    <2>4. v \in Int /\ Width[kp] \in Nat \ {0}
      BY <1>4, ValueTop, WidthType
    <2>5. n = Width[kp]
      BY <1>2, <2>2, <2>4, LittleEndianType
    <2>6. GetNumber(buf, at, kp) = Ok(e, v)
      BY <1>3, <1>4, <2>2, <2>5, GetNumberBack
    <2>7. Readable(v, kp) /\ Received(v, kp) = v
      BY <2>1 DEF Readable, Received
    <2> QED
      BY <1>2, <1>3, <2>3, <2>6, <2>7, Zenon
  <1>5. CASE kp = "bool"
    <2>1. kp \notin DOMAIN Width /\ kg \in {"pressed", "keyframe"} /\ kg \notin DOMAIN Width
      BY <1>5, WidthIs DEF Matches
    <2>2. Put(v, kp) = <<IF v THEN 1 ELSE 0>>
      BY <1>5, <2>1 DEF Put
    <2>3. v \in BOOLEAN
      BY <1>5, ValuesAre
    <2>4. n = 1
      BY <1>2, <2>2
    <2>5. GetPressed(buf, at) = Ok(e, v) /\ GetKeyframe(buf, at) = Ok(e, v)
      <3>1. Lies(buf, at, <<IF v THEN 1 ELSE 0>>)
        BY <2>2
      <3> QED
        BY <1>3, <2>3, <2>4, <3>1, FlagBack
    <2>6. Get(buf, at, kg) = Ok(e, v)
      BY <2>1, <2>5 DEF Get
    <2>7. Readable(v, kp) /\ Received(v, kp) = v
      BY <1>5 DEF Readable, Received
    <2> QED
      BY <1>2, <1>3, <2>6, <2>7, Zenon
  <1>6. CASE kp = "hash"
    <2>1. kp \notin DOMAIN Width /\ kg = "hash"
      BY <1>6, WidthIs DEF Matches
    <2>2. Put(v, kp) = v
      BY <1>6, <2>1 DEF Put
    <2>3. v \in Seq(Byte) /\ Len(v) = HashBytes
      BY <1>6, ValuesAre
    <2>4. Take(buf, at, HashBytes) = Ok(at + HashBytes, v)
      BY <2>2, <2>3, TakePiece
    <2>5. Get(buf, at, kg) = Ok(at + HashBytes, v)
      BY <1>6, <2>1, <2>4 DEF Get
    <2>6. Readable(v, kp) /\ Received(v, kp) = v
      BY <1>6 DEF Readable, Received
    <2>7. n = HashBytes
      BY <1>2, <2>2, <2>3
    <2> QED
      BY <1>2, <2>5, <2>6, <2>7, Zenon
  <1>7. CASE kp = "bytes"
    <2>1. kp \notin DOMAIN Width /\ kg = "bytes"
      BY <1>7, WidthIs DEF Matches
    <2>2. Put(v, kp) = LittleEndian(Len(v), 4) \o v
      BY <1>7, <2>1 DEF Put
    <2>3. v \in Seq(Byte) /\ Len(v) \in Nat
      BY <1>7, ValuesAre
    <2>4. PICK l \in Seq(Byte) : l = LittleEndian(Len(v), 4) /\ Len(l) = 4
      BY <2>3, Lengths
    <2>5. n = 4 + Len(v)
      <3>1. Put(v, kp) = l \o v
        BY <2>2, <2>4
      <3>2. Len(Put(v, kp)) = Len(l) + Len(v)
        BY <2>3, <3>1, Concat
      <3> QED
        BY <1>2, <2>4, <3>2
    <2>6. GetBytes(buf, at) = Ok(e, v)
      <3>1. at + 4 + Len(v) = e
        BY <1>3, <2>3, <2>5
      <3>2. Lies(buf, at, LittleEndian(Len(v), 4) \o v)
        BY <2>2
      <3>3. GetBytes(buf, at) = Ok(at + 4 + Len(v), v)
        BY <2>3, <3>2, BytesBack
      <3> QED
        BY <3>1, <3>3
    <2>7. Get(buf, at, kg) = Ok(e, v)
      BY <1>7, <2>1, <2>6 DEF Get
    <2>8. Readable(v, kp) /\ Received(v, kp) = v
      BY <1>7 DEF Readable, Received
    <2> QED
      BY <1>2, <1>3, <2>7, <2>8, Zenon
  <1>8. CASE kp = "str"
    <2>1. kp \notin DOMAIN Width /\ kg = "str"
      BY <1>8, WidthIs DEF Matches
    <2>2. Put(v, kp) = PutStr(v)
      BY <1>8, <2>1 DEF Put
    <2>3. v \in Seq(Byte)
      BY <1>8, ValuesAre
    <2>4. PICK t \in Seq(Byte) : t = Clip(v)
      BY <2>3, ClipType
    <2>5. PICK l \in Seq(Byte) : l = LittleEndian(Len(t), 2) /\ Len(l) = 2
      BY Lengths
    <2>6. n = 2 + Len(t)
      <3>1. Put(v, kp) = l \o t
        BY <2>2, <2>4, <2>5 DEF PutStr
      <3>2. Len(Put(v, kp)) = Len(l) + Len(t)
        BY <3>1, Concat
      <3> QED
        BY <1>2, <2>5, <3>2
    <2>7. GetStr(buf, at) = IF Utf8(t) THEN Ok(e, t) ELSE Err("Utf8")
      <3>1. at + 2 + Len(t) = e
        BY <1>3, <2>6
      <3>2. Lies(buf, at, PutStr(v))
        BY <2>2
      <3>3. GetStr(buf, at) = IF Utf8(t) THEN Ok(at + 2 + Len(t), t) ELSE Err("Utf8")
        BY <2>3, <2>4, <3>2, TextBack
      <3> QED
        BY <3>1, <3>3
    <2>8. Get(buf, at, kg) = GetStr(buf, at)
      BY <1>8, <2>1 DEF Get
    <2>9. (Readable(v, kp) <=> Utf8(t)) /\ Received(v, kp) = t
      BY <1>8, <2>4 DEF Readable, Received
    <2> QED
      BY <1>2, <1>3, <2>7, <2>8, <2>9, Zenon
  <1> QED
    BY <1>1, <1>4, <1>5, <1>6, <1>7, <1>8


\* q is the piece from lo up to hi, counted from at.
InPlace(buf, at, q, lo, hi) == lo \in Nat /\ hi = lo + Len(q) /\ Lies(buf, at + lo, q)

LEMMA PieceLies ==
  ASSUME NEW buf \in Seq(Byte), NEW at \in Nat, NEW s \in Seq(Seq(Byte)), Lies(buf, at, FlattenSeq(s)),
         NEW i \in 1..Len(s), NEW lo, NEW hi, lo = Len(Joined(s)[i - 1]), hi = Len(Joined(s)[i]),
         NEW piece, piece = s[i]
  PROVE  InPlace(buf, at, piece, lo, hi)
  <1>1. PICK w \in Seq(Byte) : w = FlattenSeq(s)
    BY FlattenType
  <1>2. PICK q \in Seq(Byte) : q = s[i]
    <2>1. PICK D : D = Seq(Byte)
      OBVIOUS
    <2>2. s[i] \in D
      BY <2>1
    <2> QED
      BY <2>1, <2>2
  <1>3. PICK n \in Nat : n = Len(q)
    OBVIOUS
  <1>4. lo \in Nat /\ hi \in Nat /\ hi = lo + n /\ hi <= Len(w) /\ SubSeq(w, lo + 1, hi) = q
    BY <1>1, <1>2, <1>3, PieceInPlace
  <1>5. \A k \in 1..n : q[k] = w[lo + k]
    <2>1. /\ Len(SubSeq(w, lo + 1, hi)) = n
          /\ \A k \in 1..n : SubSeq(w, lo + 1, hi)[k] = w[lo + k]
      BY <1>4
    <2> QED
      BY <1>4, <2>1
  <1>6. at + Len(w) <= Len(buf) /\ \A k \in 1..Len(w) : buf[at + k] = w[k]
    BY <1>1 DEF Lies
  <1>7. (at + lo) + n <= Len(buf)
    BY <1>4, <1>6
  <1>8. \A k \in 1..n : buf[(at + lo) + k] = q[k]
    <2> TAKE k \in 1..n
    <2>1. lo + k \in 1..Len(w) /\ at + (lo + k) = (at + lo) + k
      BY <1>4
    <2> QED
      BY <1>5, <1>6, <2>1
  <1>9. Lies(buf, at + lo, q)
    BY <1>3, <1>7, <1>8, Zenon DEF Lies
  <1> QED
    BY <1>2, <1>3, <1>4, <1>9 DEF InPlace

LEMMA NextValue ==
  ASSUME NEW buf, NEW a, NEW values, NEW kind, NEW sofar
  PROVE  /\ sofar = Err("Utf8") => GetNext(buf, sofar, kind) = Err("Utf8")
         /\ sofar = Ok(a, values) =>
              /\ Get(buf, a, kind) = Err("Utf8") => GetNext(buf, sofar, kind) = Err("Utf8")
              /\ \A e, x : Get(buf, a, kind) = Ok(e, x) =>
                             GetNext(buf, sofar, kind) = Ok(e, Append(values, x))
  <1> DEFINE F(z, vals) == IF z.err # "" THEN z ELSE Ok(z.at, Append(vals, z.v))
             C(t, vals) == CHOOSE y \in {F(z, vals) : z \in {t}} : TRUE
             E(x) == IF x.err # "" THEN x ELSE C(Get(buf, x.at, kind), x.v)
  <1>1. GetNext(buf, sofar, kind) = CHOOSE y \in {E(x) : x \in {sofar}} : TRUE
    BY DEF GetNext, Then
  <1>2. \A t, vals : C(t, vals) = F(t, vals)
    <2> TAKE t, vals
    <2> HIDE DEF F
    <2>1. {F(z, vals) : z \in {t}} = {F(t, vals)}
      OBVIOUS
    <2> QED
      BY <2>1, ChooseOnly
  <1> HIDE DEF C
  <1>3. GetNext(buf, sofar, kind) = E(sofar)
    <2> HIDE DEF E
    <2>1. {E(x) : x \in {sofar}} = {E(sofar)}
      OBVIOUS
    <2> QED
      BY <1>1, <2>1, ChooseOnly
  <1>4. ASSUME sofar = Err("Utf8") PROVE E(sofar) = Err("Utf8")
    <2>1. sofar.err = "Utf8"
      BY <1>4, ErrIs
    <2>2. sofar.err # ""
      BY <2>1
    <2> QED
      BY <1>4, <2>2, Zenon
  <1>5. ASSUME sofar = Ok(a, values) PROVE E(sofar) = F(Get(buf, a, kind), values)
    <2>1. sofar.err = "" /\ sofar.at = a /\ sofar.v = values
      <3>1. Ok(a, values).err = "" /\ Ok(a, values).at = a /\ Ok(a, values).v = values
        BY OkFields, Zenon
      <3> QED
        BY <1>5, <3>1, Zenon
    <2> HIDE DEF F
    <2> QED
      BY <1>2, <2>1, Zenon
  <1>6. ASSUME Get(buf, a, kind) = Err("Utf8") PROVE F(Get(buf, a, kind), values) = Err("Utf8")
    <2>1. PICK z : z = Get(buf, a, kind)
      OBVIOUS
    <2>2. z = Err("Utf8")
      BY <1>6, <2>1
    <2>3. z.err = "Utf8"
      BY <2>2, ErrIs
    <2>4. z.err # ""
      BY <2>3
    <2> QED
      BY <2>1, <2>2, <2>4, Zenon
  <1>7. ASSUME NEW e, NEW x, Get(buf, a, kind) = Ok(e, x)
        PROVE  F(Get(buf, a, kind), values) = Ok(e, Append(values, x))
    <2>1. PICK z : z = Get(buf, a, kind)
      OBVIOUS
    <2>2. z = Ok(e, x)
      BY <1>7, <2>1
    <2>3. z.err = "" /\ z.at = e /\ z.v = x
      <3>1. Ok(e, x).err = "" /\ Ok(e, x).at = e /\ Ok(e, x).v = x
        BY OkFields, Zenon
      <3> QED
        BY <2>2, <3>1, Zenon
    <2> QED
      BY <2>1, <2>3, Zenon
  <1> HIDE DEF E, F
  <1> QED
    BY <1>3, <1>4, <1>5, <1>6, <1>7


-----------------------------------------------------------------------------
(* The fields of a shape                                                     *)

\* What encode puts is what decode gets: the same fields, in the same order.
Alike(puts, gets, n) ==
    /\ n \in Nat
    /\ Len(puts) = n /\ Len(gets) = n
    /\ DOMAIN puts = 1..n /\ DOMAIN gets = 1..n
    /\ \A i \in 1..n :
         /\ gets[i][1] = puts[i][1]
         /\ puts[i][2] \in DOMAIN Values
         /\ Matches(puts[i][2], gets[i][2])
         /\ \A j \in 1..n : puts[i][1] = puts[j][1] => i = j

\* The fields that have arrived, and that they could be read.
KindOf(puts, f) == puts[CHOOSE i \in DOMAIN puts : puts[i][1] = f][2]

Gotten(r, puts) == [f \in Names(puts) |-> Received(r[f], KindOf(puts, f))]

AllReadable(r, puts, m) == \A i \in 1..m : Readable(r[puts[i][1]], puts[i][2])

LEMMA PutFieldsType ==
  ASSUME NEW puts, NEW gets, NEW n, Alike(puts, gets, n), NEW r,
         \A i \in 1..n : r[puts[i][1]] \in Values[puts[i][2]]
  PROVE  \E s \in Seq(Seq(Byte)) :
           /\ Len(s) = n
           /\ \A i \in 1..n : s[i] = Put(r[puts[i][1]], puts[i][2])
           /\ PutFields(r, puts) = FlattenSeq(s)
           /\ PutFields(r, puts) \in Seq(Byte)
  <1>1. PICK D : D = Seq(Byte)
    OBVIOUS
  <1>2. PICK s : s = [i \in 1..n |-> Put(r[puts[i][1]], puts[i][2])]
    OBVIOUS
  <1>3. \A i \in 1..n : Put(r[puts[i][1]], puts[i][2]) \in D
    BY <1>1, PutType DEF Alike
  <1>4. s \in [1..n -> D]
    BY <1>2, <1>3
  <1>5. n \in Nat /\ DOMAIN puts = 1..n
    BY DEF Alike
  <1>6. s \in Seq(D) /\ Len(s) = n
    BY <1>4, <1>5
  <1>7. PutFields(r, puts) = FlattenSeq(s)
    BY <1>2, <1>5 DEF PutFields
  <1>8. s \in Seq(Seq(Byte))
    BY <1>1, <1>6
  <1>9. FlattenSeq(s) \in Seq(Byte)
    BY <1>8, FlattenType
  <1> QED
    BY <1>2, <1>6, <1>7, <1>8, <1>9

ReadsOn(buf, start, gets, n, read) ==
    \A i \in 0..n : read[i] = IF i = 0 THEN Ok(start, <<>>)
                                       ELSE GetNext(buf, read[i - 1], gets[i][2])

ReadsAll(buf, start, puts, gets, n, r, read) ==
    /\ read = [i \in 0..n |-> read[i]]
    /\ ReadsOn(buf, start, gets, n, read)
    /\ read[n] = IF AllReadable(r, puts, n)
                   THEN Ok(start + Len(PutFields(r, puts)),
                           [i \in 1..n |-> Received(r[puts[i][1]], puts[i][2])])
                   ELSE Err("Utf8")

\* The fields are read one after the other, up to the first text that is broken.
LEMMA ReadFields ==
  ASSUME NEW puts, NEW gets, NEW n, Alike(puts, gets, n), NEW r,
         \A i \in 1..n : r[puts[i][1]] \in Values[puts[i][2]],
         NEW buf \in Seq(Byte), Len(buf) <= MaxFrame, NEW start \in Nat,
         Lies(buf, start, PutFields(r, puts))
  PROVE  \E read : ReadsAll(buf, start, puts, gets, n, r, read)
  <1>1. PICK s \in Seq(Seq(Byte)) :
          /\ Len(s) = n
          /\ \A i \in 1..n : s[i] = Put(r[puts[i][1]], puts[i][2])
          /\ PutFields(r, puts) = FlattenSeq(s)
    BY PutFieldsType
  <1>0. s \in Seq(Seq(Byte))
    BY <1>1
  <1>2. n \in Nat
    BY DEF Alike
  <1>3. PICK J : J = Joined(s)
    OBVIOUS
  <1>4. PICK D : D = Seq(Byte)
    OBVIOUS
  <1>5. J \in [0..n -> D] /\ J[0] = <<>> /\ FlattenSeq(s) = J[n]
    BY <1>1, <1>3, <1>4, JoinedDef, FlattenIsJoined
  <1>6. ASSUME NEW i \in 0..n PROVE Len(J[i]) \in Nat
    <2>1. J[i] \in D
      BY <1>5
    <2> QED
      BY <1>4, <2>1
  <1>7. PICK off : off = [i \in 0..n |-> start + Len(J[i])]
    OBVIOUS
  <1>8. PICK V : V = [i \in 1..n |-> Received(r[puts[i][1]], puts[i][2])]
    OBVIOUS
  <1>9. PICK P : P = [i \in 0..n |-> [j \in 1..i |-> V[j]]]
    OBVIOUS
  <1>10. ASSUME NEW i \in 1..n
         PROVE  Get(buf, off[i - 1], gets[i][2]) =
                  IF Readable(r[puts[i][1]], puts[i][2]) THEN Ok(off[i], V[i]) ELSE Err("Utf8")
    <2>1. PICK kp \in DOMAIN Values : kp = puts[i][2]
      BY DEF Alike
    <2>2. PICK kg : kg = gets[i][2] /\ Matches(kp, kg)
      BY <2>1 DEF Alike
    <2>3. PICK v \in Values[kp] : v = r[puts[i][1]]
      BY <2>1
    <2>4. s[i] = Put(v, kp)
      BY <1>1, <2>1, <2>3
    <2>5. PICK lo : lo = Len(J[i - 1])
      OBVIOUS
    <2>6. PICK hi : hi = Len(J[i])
      OBVIOUS
    <2>7. i \in 1..Len(s) /\ i - 1 \in 0..n /\ i \in 0..n
      BY <1>1, <1>2
    <2>8. /\ lo \in Nat /\ hi = lo + Len(s[i])
          /\ Lies(buf, start + lo, s[i])
      <3>1. Lies(buf, start, FlattenSeq(s))
        BY <1>1
      <3>2. lo = Len(Joined(s)[i - 1]) /\ hi = Len(Joined(s)[i])
        BY <1>3, <2>5, <2>6
      <3>3. PICK q : q = s[i]
        OBVIOUS
      <3>4. InPlace(buf, start, q, lo, hi)
        BY <1>0, <2>7, <3>1, <3>2, <3>3, PieceLies
      <3> QED
        BY <3>3, <3>4 DEF InPlace
    <2>9. PICK a \in Nat : a = start + lo
      BY <2>8
    <2>10. off[i - 1] = a
      BY <1>7, <2>5, <2>7, <2>9
    <2>11. off[i] = start + hi
      BY <1>7, <2>6, <2>7
    <2>12. Len(Put(v, kp)) \in Nat
      BY PutType
    <2>13. off[i] = a + Len(Put(v, kp))
      BY <2>4, <2>8, <2>9, <2>11, <2>12
    <2>14. Lies(buf, a, Put(v, kp))
      BY <2>4, <2>8, <2>9
    <2>15. Get(buf, a, kg) = IF Readable(v, kp) THEN Ok(a + Len(Put(v, kp)), Received(v, kp))
                                                ELSE Err("Utf8")
      BY <2>2, <2>14, GetPut
    <2>16. V[i] = Received(v, kp)
      BY <1>8, <2>1, <2>3
    <2> QED
      BY <2>1, <2>2, <2>3, <2>10, <2>13, <2>15, <2>16, Zenon
  <1> DEFINE R(i) == IF AllReadable(r, puts, i) THEN Ok(off[i], P[i]) ELSE Err("Utf8")
  <1>a. PICK read : read = [i \in 0..n |-> R(i)]
    OBVIOUS
  <1>b. \A i \in 0..n : read[i] = R(i)
    <2> HIDE DEF R
    <2> QED
      BY <1>a
  <1>11. read[0] = Ok(start, <<>>)
    <2>1. 0 \in 0..n
      BY <1>2
    <2>2. AllReadable(r, puts, 0)
      BY DEF AllReadable
    <2>3. P[0] = <<>>
      <3>1. P[0] = [j \in 1..0 |-> V[j]]
        BY <1>9, <2>1
      <3>2. 1..0 = {}
        OBVIOUS
      <3> QED
        BY <3>1, <3>2
    <2>4. off[0] = start
      BY <1>5, <1>7, <2>1
    <2> QED
      BY <1>b, <2>1, <2>2, <2>3, <2>4, Zenon
  <1>12. ASSUME NEW i \in 1..n PROVE read[i] = GetNext(buf, read[i - 1], gets[i][2])
    <2>1. i - 1 \in 0..n /\ i \in 0..n /\ i # 0
      BY <1>2
    <2>2. read[i - 1] = R(i - 1) /\ read[i] = R(i)
      BY <1>b, <2>1
    <2>4. P[i] = Append(P[i - 1], V[i])
      <3>1. P[i] = [j \in 1..i |-> V[j]] /\ P[i - 1] = [j \in 1..(i - 1) |-> V[j]]
        BY <1>9, <2>1
      <3>2. PICK A : A = {V[j] : j \in 1..n}
        OBVIOUS
      <3>3. \A j \in 1..n : V[j] \in A
        BY <3>2
      <3>4. PICK p : p = P[i - 1]
        OBVIOUS
      <3>5. p \in Seq(A) /\ Len(p) = i - 1 /\ \A j \in 1..(i - 1) : p[j] = V[j]
        <4>1. PICK m \in Nat : m = i - 1 /\ m <= n
          BY <1>2
        <4>2. p = [j \in 1..m |-> V[j]]
          BY <3>1, <3>4, <4>1
        <4>3. p \in [1..m -> A]
          BY <1>2, <3>3, <4>1, <4>2
        <4> QED
          BY <4>1, <4>2, <4>3
      <3>6. PICK x \in A : x = V[i]
        BY <3>3
      <3>7. PICK q : q = Append(p, x)
        OBVIOUS
      <3>8. /\ q \in Seq(A) /\ Len(q) = i /\ \A j \in 1..(i - 1) : q[j] = V[j]
            /\ q[i] = V[i]
        BY <3>5, <3>6, <3>7
      <3>9. q = [j \in 1..i |-> q[j]]
        BY <3>8
      <3>10. \A j \in 1..i : q[j] = V[j]
        BY <3>8
      <3> QED
        BY <3>1, <3>4, <3>6, <3>7, <3>9, <3>10
    <2>5. CASE ~ AllReadable(r, puts, i - 1)
      <3>1. ~ AllReadable(r, puts, i)
        BY <2>5 DEF AllReadable
      <3>2. read[i - 1] = Err("Utf8")
        BY <2>2, <2>5
      <3>3. GetNext(buf, read[i - 1], gets[i][2]) = Err("Utf8")
        BY <3>2, NextValue
      <3> QED
        BY <2>2, <3>1, <3>3
    <2>6. CASE AllReadable(r, puts, i - 1)
      <3>1. read[i - 1] = Ok(off[i - 1], P[i - 1])
        BY <2>2, <2>6
      <3>2. AllReadable(r, puts, i) <=> Readable(r[puts[i][1]], puts[i][2])
        <4>1. \A j \in 1..i : j = i \/ j \in 1..(i - 1)
          OBVIOUS
        <4>2. \A j \in 1..(i - 1) : Readable(r[puts[j][1]], puts[j][2])
          BY <2>6 DEF AllReadable
        <4>3. i \in 1..i
          OBVIOUS
        <4> QED
          BY <4>1, <4>2, <4>3, Zenon DEF AllReadable
      <3>3. CASE Readable(r[puts[i][1]], puts[i][2])
        <4>1. Get(buf, off[i - 1], gets[i][2]) = Ok(off[i], V[i])
          BY <1>10, <3>3
        <4>2. GetNext(buf, read[i - 1], gets[i][2]) = Ok(off[i], Append(P[i - 1], V[i]))
          BY <3>1, <4>1, NextValue
        <4> QED
          BY <2>2, <2>4, <3>2, <3>3, <4>2
      <3>4. CASE ~ Readable(r[puts[i][1]], puts[i][2])
        <4>1. Get(buf, off[i - 1], gets[i][2]) = Err("Utf8")
          BY <1>10, <3>4
        <4>2. GetNext(buf, read[i - 1], gets[i][2]) = Err("Utf8")
          BY <3>1, <4>1, NextValue
        <4> QED
          BY <2>2, <3>2, <3>4, <4>2
      <3> QED
        BY <3>3, <3>4
    <2> QED
      BY <2>5, <2>6
  <1>13. ReadsOn(buf, start, gets, n, read)
    <2>1. ASSUME NEW i \in 0..n, i # 0 PROVE i \in 1..n
      BY <2>1, <1>2
    <2> QED
      BY <1>11, <1>12, <2>1, Zenon DEF ReadsOn
  <1>14. n \in 0..n
    BY <1>2
  <1>15. read[n] = R(n)
    BY <1>b, <1>14
  <1>16. off[n] = start + Len(PutFields(r, puts))
    BY <1>1, <1>5, <1>7, <1>14
  <1>17. P[n] = [i \in 1..n |-> Received(r[puts[i][1]], puts[i][2])]
    BY <1>8, <1>9, <1>14
  <1>18. read = [i \in 0..n |-> read[i]]
    <2> HIDE DEF R
    <2> QED
      BY <1>a
  <1> QED
    BY <1>13, <1>15, <1>16, <1>17, <1>18, Zenon DEF ReadsAll

\* That determines what is read.
LEMMA ReadOnce ==
  ASSUME NEW buf, NEW start, NEW gets, NEW n \in Nat, NEW f, ReadsOn(buf, start, gets, n, f),
         NEW g, ReadsOn(buf, start, gets, n, g)
  PROVE  f[n] = g[n]
  <1> DEFINE S == {i \in 0..n : f[i] = g[i]}
  <1>1. 0 \in S
    <2>1. 0 \in 0..n
      OBVIOUS
    <2> QED
      BY <2>1 DEF ReadsOn
  <1>2. ASSUME NEW i \in 1..n, i - 1 \in S PROVE i \in S
    <2>1. i \in 0..n /\ i # 0
      OBVIOUS
    <2>2. f[i - 1] = g[i - 1]
      BY <1>2
    <2>3. f[i] = GetNext(buf, f[i - 1], gets[i][2]) /\ g[i] = GetNext(buf, g[i - 1], gets[i][2])
      BY <2>1, Zenon DEF ReadsOn
    <2> QED
      BY <2>1, <2>2, <2>3
  <1> HIDE DEF S
  <1>3. 0..n \subseteq S
    BY <1>1, <1>2, Ascent
  <1>4. n \in S
    BY <1>3
  <1> QED
    BY <1>4 DEF S

LEMMA FieldsBack ==
  ASSUME NEW puts, NEW gets, NEW n, Alike(puts, gets, n), NEW r,
         \A i \in 1..n : r[puts[i][1]] \in Values[puts[i][2]],
         NEW buf \in Seq(Byte), Len(buf) <= MaxFrame, NEW start \in Nat,
         Lies(buf, start, PutFields(r, puts))
  PROVE  GetFields(buf, start, gets) =
           IF AllReadable(r, puts, n)
             THEN Ok(start + Len(PutFields(r, puts)), Gotten(r, puts)) ELSE Err("Utf8")
  <1>1. PICK V : V = [i \in 1..n |-> Received(r[puts[i][1]], puts[i][2])]
    OBVIOUS
  <1>2. PICK e : e = start + Len(PutFields(r, puts))
    OBVIOUS
  <1>3. PICK read : /\ read = [i \in 0..n |-> read[i]]
                    /\ ReadsOn(buf, start, gets, n, read)
                    /\ read[n] = IF AllReadable(r, puts, n) THEN Ok(e, V) ELSE Err("Utf8")
    <2>1. PICK read : ReadsAll(buf, start, puts, gets, n, r, read)
      BY ReadFields
    <2> QED
      BY <1>1, <1>2, <2>1 DEF ReadsAll
  <1>4. n \in Nat /\ Len(gets) = n /\ DOMAIN gets = 1..n /\ DOMAIN puts = 1..n
    BY DEF Alike
  <1> DEFINE G(h, i) == IF i = 0 THEN Ok(start, <<>>) ELSE GetNext(buf, h[i - 1], gets[i][2])
             c == CHOOSE h : h = [i \in 0..Len(gets) |-> G(h, i)]
             place(name) == CHOOSE i \in DOMAIN gets : gets[i][1] = name
             E(x) == IF x.err # "" THEN x
                     ELSE Ok(x.at, [name \in Names(gets) |-> x.v[place(name)]])
  <1>5. GetFields(buf, start, gets) = CHOOSE y \in {E(x) : x \in {c[Len(gets)]}} : TRUE
    BY DEF GetFields, Then
  <1>6. c = [i \in 0..n |-> G(c, i)]
    <2>1. \A i \in 0..n : read[i] = G(read, i)
      BY <1>3 DEF ReadsOn
    <2> HIDE DEF G
    <2>2. read = [i \in 0..n |-> G(read, i)]
      BY <1>3, <2>1
    <2>3. \E h : h = [i \in 0..Len(gets) |-> G(h, i)]
      BY <1>4, <2>2
    <2>4. c = [i \in 0..Len(gets) |-> G(c, i)]
      BY <2>3
    <2> QED
      BY <1>4, <2>4
  <1> HIDE DEF c
  <1>7. ReadsOn(buf, start, gets, n, c)
    <2>1. \A i \in 0..n : c[i] = G(c, i)
      <3> HIDE DEF G
      <3> QED
        BY <1>6
    <2> QED
      BY <2>1 DEF ReadsOn
  <1>8. c[Len(gets)] = IF AllReadable(r, puts, n) THEN Ok(e, V) ELSE Err("Utf8")
    BY <1>3, <1>4, <1>7, ReadOnce
  <1>9. PICK x : x = c[Len(gets)]
    OBVIOUS
  <1>10. GetFields(buf, start, gets) = E(x)
    <2> HIDE DEF E
    <2>1. {E(z) : z \in {x}} = {E(x)}
      OBVIOUS
    <2> QED
      BY <1>5, <1>9, <2>1, ChooseOnly
  <1>11. CASE ~ AllReadable(r, puts, n)
    <2>1. x = Err("Utf8")
      BY <1>8, <1>9, <1>11
    <2>2. x.err = "Utf8"
      BY <2>1, ErrIs
    <2>3. x.err # ""
      BY <2>2
    <2>4. E(x) = x
      BY <2>3, Zenon
    <2> QED
      BY <1>10, <1>11, <2>1, <2>4
  <1>12. CASE AllReadable(r, puts, n)
    <2>1. x = Ok(e, V)
      BY <1>8, <1>9, <1>12
    <2>2. x.err = "" /\ x.at = e /\ x.v = V
      <3>1. Ok(e, V).err = "" /\ Ok(e, V).at = e /\ Ok(e, V).v = V
        BY OkFields, Zenon
      <3> QED
        BY <2>1, <3>1, Zenon
    <2>3. Names(gets) = Names(puts)
      BY <1>4 DEF Names, Alike
    <2>4. ASSUME NEW f \in Names(puts) PROVE V[place(f)] = Received(r[f], KindOf(puts, f))
      <3>1. PICK i \in 1..n : puts[i][1] = f
        BY <1>4 DEF Names
      <3>2. \A j \in 1..n : gets[j][1] = puts[j][1] /\ (puts[i][1] = puts[j][1] => i = j)
        BY DEF Alike
      <3>3. \A j \in 1..n : (gets[j][1] = f) <=> (j = i)
        BY <3>1, <3>2
      <3>4. \A j \in 1..n : (puts[j][1] = f) <=> (j = i)
        BY <3>1, <3>2
      <3>5. place(f) = i
        BY <1>4, <3>3
      <3>6. (CHOOSE j \in DOMAIN puts : puts[j][1] = f) = i
        BY <1>4, <3>4
      <3> HIDE DEF place
      <3>7. V[i] = Received(r[puts[i][1]], puts[i][2])
        BY <1>1
      <3> QED
        BY <3>1, <3>5, <3>6, <3>7, Zenon DEF KindOf
    <2> HIDE DEF place
    <2>5. [name \in Names(gets) |-> V[place(name)]] = Gotten(r, puts)
      BY <2>3, <2>4 DEF Gotten
    <2>6. E(x) = Ok(e, [name \in Names(gets) |-> V[place(name)]])
      BY <2>2
    <2> QED
      BY <1>2, <1>10, <1>12, <2>5, <2>6
  <1> QED
    BY <1>11, <1>12

\* The texts are the fields with these names.
TextsNamed(puts, n) == \A i \in 1..n : puts[i][2] = "str" <=> puts[i][1] \in Texts

LEMMA Kinds ==
  DOMAIN Values = {"u8", "u16", "u32", "i32", "u64", "bool", "hash", "bytes", "str"}
  BY DEF Values

LEMMA DisplayShape ==
  Alike(DisplayPuts, DisplayGets, 7) /\ TextsNamed(DisplayPuts, 7)
  BY Kinds DEF Alike, Matches, TextsNamed, Texts, DisplayPuts, DisplayGets

\* Each message is put and got alike.
LEMMA MessageShape ==
  ASSUME NEW type \in DOMAIN Puts
  PROVE  \E n : Alike(Puts[type], Gets[type], n) /\ TextsNamed(Puts[type], n)
  <1>1. Alike(Puts["Hello"], Gets["Hello"], 2) /\ TextsNamed(Puts["Hello"], 2)
    <2>1. Puts["Hello"] = << <<"version", "u16">>, <<"name", "str">> >>
      BY DEF Puts
    <2>2. Gets["Hello"] = << <<"version", "u16">>, <<"name", "str">> >>
      BY DEF Gets
    <2> QED
      BY <2>1, <2>2, Kinds DEF Alike, Matches, TextsNamed, Texts
  <1>2. Alike(Puts["HelloAck"], Gets["HelloAck"], 1) /\ TextsNamed(Puts["HelloAck"], 1)
    <2>1. Puts["HelloAck"] = << <<"version", "u16">> >>
      BY DEF Puts
    <2>2. Gets["HelloAck"] = << <<"version", "u16">> >>
      BY DEF Gets
    <2> QED
      BY <2>1, <2>2, Kinds DEF Alike, Matches, TextsNamed, Texts
  <1>3. Alike(Puts["Video"], Gets["Video"], 4) /\ TextsNamed(Puts["Video"], 4)
    <2>1. Puts["Video"] = << <<"display_id", "u32">>, <<"pts_ms", "u32">>, <<"keyframe", "bool">>, <<"data", "bytes">> >>
      BY DEF Puts
    <2>2. Gets["Video"] = << <<"display_id", "u32">>, <<"pts_ms", "u32">>, <<"keyframe", "keyframe">>, <<"data", "bytes">> >>
      BY DEF Gets
    <2> QED
      BY <2>1, <2>2, Kinds DEF Alike, Matches, TextsNamed, Texts
  <1>4. Alike(Puts["MouseMove"], Gets["MouseMove"], 3) /\ TextsNamed(Puts["MouseMove"], 3)
    <2>1. Puts["MouseMove"] = << <<"display_id", "u32">>, <<"x", "u32">>, <<"y", "u32">> >>
      BY DEF Puts
    <2>2. Gets["MouseMove"] = << <<"display_id", "u32">>, <<"x", "u32">>, <<"y", "u32">> >>
      BY DEF Gets
    <2> QED
      BY <2>1, <2>2, Kinds DEF Alike, Matches, TextsNamed, Texts
  <1>5. Alike(Puts["MouseButton"], Gets["MouseButton"], 3) /\ TextsNamed(Puts["MouseButton"], 3)
    <2>1. Puts["MouseButton"] = << <<"display_id", "u32">>, <<"button", "u8">>, <<"pressed", "bool">> >>
      BY DEF Puts
    <2>2. Gets["MouseButton"] = << <<"display_id", "u32">>, <<"button", "u8">>, <<"pressed", "pressed">> >>
      BY DEF Gets
    <2> QED
      BY <2>1, <2>2, Kinds DEF Alike, Matches, TextsNamed, Texts
  <1>6. Alike(Puts["MouseWheel"], Gets["MouseWheel"], 3) /\ TextsNamed(Puts["MouseWheel"], 3)
    <2>1. Puts["MouseWheel"] = << <<"display_id", "u32">>, <<"dx", "i32">>, <<"dy", "i32">> >>
      BY DEF Puts
    <2>2. Gets["MouseWheel"] = << <<"display_id", "u32">>, <<"dx", "i32">>, <<"dy", "i32">> >>
      BY DEF Gets
    <2> QED
      BY <2>1, <2>2, Kinds DEF Alike, Matches, TextsNamed, Texts
  <1>7. Alike(Puts["Key"], Gets["Key"], 2) /\ TextsNamed(Puts["Key"], 2)
    <2>1. Puts["Key"] = << <<"code", "u16">>, <<"pressed", "bool">> >>
      BY DEF Puts
    <2>2. Gets["Key"] = << <<"code", "u16">>, <<"pressed", "pressed">> >>
      BY DEF Gets
    <2> QED
      BY <2>1, <2>2, Kinds DEF Alike, Matches, TextsNamed, Texts
  <1>8. Alike(Puts["FileOffer"], Gets["FileOffer"], 3) /\ TextsNamed(Puts["FileOffer"], 3)
    <2>1. Puts["FileOffer"] = << <<"id", "u32">>, <<"size", "u64">>, <<"name", "str">> >>
      BY DEF Puts
    <2>2. Gets["FileOffer"] = << <<"id", "u32">>, <<"size", "u64">>, <<"name", "str">> >>
      BY DEF Gets
    <2> QED
      BY <2>1, <2>2, Kinds DEF Alike, Matches, TextsNamed, Texts
  <1>9. Alike(Puts["FileAccept"], Gets["FileAccept"], 1) /\ TextsNamed(Puts["FileAccept"], 1)
    <2>1. Puts["FileAccept"] = << <<"id", "u32">> >>
      BY DEF Puts
    <2>2. Gets["FileAccept"] = << <<"id", "u32">> >>
      BY DEF Gets
    <2> QED
      BY <2>1, <2>2, Kinds DEF Alike, Matches, TextsNamed, Texts
  <1>10. Alike(Puts["FileChunk"], Gets["FileChunk"], 3) /\ TextsNamed(Puts["FileChunk"], 3)
    <2>1. Puts["FileChunk"] = << <<"id", "u32">>, <<"offset", "u64">>, <<"data", "bytes">> >>
      BY DEF Puts
    <2>2. Gets["FileChunk"] = << <<"id", "u32">>, <<"offset", "u64">>, <<"data", "bytes">> >>
      BY DEF Gets
    <2> QED
      BY <2>1, <2>2, Kinds DEF Alike, Matches, TextsNamed, Texts
  <1>11. Alike(Puts["FileAck"], Gets["FileAck"], 2) /\ TextsNamed(Puts["FileAck"], 2)
    <2>1. Puts["FileAck"] = << <<"id", "u32">>, <<"offset", "u64">> >>
      BY DEF Puts
    <2>2. Gets["FileAck"] = << <<"id", "u32">>, <<"offset", "u64">> >>
      BY DEF Gets
    <2> QED
      BY <2>1, <2>2, Kinds DEF Alike, Matches, TextsNamed, Texts
  <1>12. Alike(Puts["FileComplete"], Gets["FileComplete"], 2) /\ TextsNamed(Puts["FileComplete"], 2)
    <2>1. Puts["FileComplete"] = << <<"id", "u32">>, <<"sha256", "hash">> >>
      BY DEF Puts
    <2>2. Gets["FileComplete"] = << <<"id", "u32">>, <<"sha256", "hash">> >>
      BY DEF Gets
    <2> QED
      BY <2>1, <2>2, Kinds DEF Alike, Matches, TextsNamed, Texts
  <1>13. Alike(Puts["FileCancel"], Gets["FileCancel"], 2) /\ TextsNamed(Puts["FileCancel"], 2)
    <2>1. Puts["FileCancel"] = << <<"id", "u32">>, <<"reason", "str">> >>
      BY DEF Puts
    <2>2. Gets["FileCancel"] = << <<"id", "u32">>, <<"reason", "str">> >>
      BY DEF Gets
    <2> QED
      BY <2>1, <2>2, Kinds DEF Alike, Matches, TextsNamed, Texts
  <1>14. Alike(Puts["Ping"], Gets["Ping"], 1) /\ TextsNamed(Puts["Ping"], 1)
    <2>1. Puts["Ping"] = << <<"nonce", "u64">> >>
      BY DEF Puts
    <2>2. Gets["Ping"] = << <<"nonce", "u64">> >>
      BY DEF Gets
    <2> QED
      BY <2>1, <2>2, Kinds DEF Alike, Matches, TextsNamed, Texts
  <1>15. Alike(Puts["Pong"], Gets["Pong"], 1) /\ TextsNamed(Puts["Pong"], 1)
    <2>1. Puts["Pong"] = << <<"nonce", "u64">> >>
      BY DEF Puts
    <2>2. Gets["Pong"] = << <<"nonce", "u64">> >>
      BY DEF Gets
    <2> QED
      BY <2>1, <2>2, Kinds DEF Alike, Matches, TextsNamed, Texts
  <1>16. Alike(Puts["Auth"], Gets["Auth"], 1) /\ TextsNamed(Puts["Auth"], 1)
    <2>1. Puts["Auth"] = << <<"spake2", "bytes">> >>
      BY DEF Puts
    <2>2. Gets["Auth"] = << <<"spake2", "bytes">> >>
      BY DEF Gets
    <2> QED
      BY <2>1, <2>2, Kinds DEF Alike, Matches, TextsNamed, Texts
  <1>17. Alike(Puts["AuthConfirm"], Gets["AuthConfirm"], 1) /\ TextsNamed(Puts["AuthConfirm"], 1)
    <2>1. Puts["AuthConfirm"] = << <<"mac", "hash">> >>
      BY DEF Puts
    <2>2. Gets["AuthConfirm"] = << <<"mac", "hash">> >>
      BY DEF Gets
    <2> QED
      BY <2>1, <2>2, Kinds DEF Alike, Matches, TextsNamed, Texts
  <1>18. Alike(Puts["AuthDenied"], Gets["AuthDenied"], 2) /\ TextsNamed(Puts["AuthDenied"], 2)
    <2>1. Puts["AuthDenied"] = << <<"retry_after_secs", "u32">>, <<"reason", "str">> >>
      BY DEF Puts
    <2>2. Gets["AuthDenied"] = << <<"retry_after_secs", "u32">>, <<"reason", "str">> >>
      BY DEF Gets
    <2> QED
      BY <2>1, <2>2, Kinds DEF Alike, Matches, TextsNamed, Texts
  <1> DEFINE Shaped(t) == \E n : Alike(Puts[t], Gets[t], n) /\ TextsNamed(Puts[t], n)
  <1>19. DOMAIN Puts = {"Hello", "HelloAck", "Video", "MouseMove", "MouseButton", "MouseWheel", "Key", "FileOffer", "FileAccept",
                     "FileChunk", "FileAck", "FileComplete", "FileCancel", "Ping", "Pong", "Auth", "AuthConfirm", "AuthDenied"}
    BY DEF Puts
  <1>20. /\ Shaped("Hello")
         /\ Shaped("HelloAck")
         /\ Shaped("Video")
         /\ Shaped("MouseMove")
         /\ Shaped("MouseButton")
         /\ Shaped("MouseWheel")
         /\ Shaped("Key")
         /\ Shaped("FileOffer")
         /\ Shaped("FileAccept")
    BY <1>1, <1>2, <1>3, <1>4, <1>5, <1>6, <1>7, <1>8, <1>9
  <1>21. /\ Shaped("FileChunk")
         /\ Shaped("FileAck")
         /\ Shaped("FileComplete")
         /\ Shaped("FileCancel")
         /\ Shaped("Ping")
         /\ Shaped("Pong")
         /\ Shaped("Auth")
         /\ Shaped("AuthConfirm")
         /\ Shaped("AuthDenied")
    BY <1>10, <1>11, <1>12, <1>13, <1>14, <1>15, <1>16, <1>17, <1>18
  <1> HIDE DEF Shaped
  <1>22. Shaped(type)
    BY <1>19, <1>20, <1>21
  <1> QED
    BY <1>22 DEF Shaped


LEMMA FieldsArrive ==
  ASSUME NEW puts, NEW gets, NEW n, Alike(puts, gets, n), TextsNamed(puts, n),
         NEW r, NEW more, HasShape(r, puts, more), more \cap Texts = {}
  PROVE  /\ Gotten(r, puts) = [f \in Names(puts) |-> IF f \in Texts THEN Clip(r[f]) ELSE r[f]]
         /\ AllReadable(r, puts, n) <=> TextsWhole(r)
         /\ \A i \in 1..n : r[puts[i][1]] \in Values[puts[i][2]]
  <1>1. n \in Nat /\ DOMAIN puts = 1..n
    BY DEF Alike
  <1>2. DOMAIN r = Names(puts) \cup more /\ \A i \in 1..n : r[puts[i][1]] \in Values[puts[i][2]]
    BY <1>1 DEF HasShape
  <1>3. \A i \in 1..n : puts[i][2] = "str" <=> puts[i][1] \in Texts
    BY DEF TextsNamed
  <1>4. Names(puts) = {puts[i][1] : i \in 1..n}
    BY <1>1 DEF Names
  <1>5. ASSUME NEW f \in Names(puts)
        PROVE  Received(r[f], KindOf(puts, f)) = IF f \in Texts THEN Clip(r[f]) ELSE r[f]
    <2>1. PICK i \in 1..n : puts[i][1] = f
      BY <1>4
    <2>2. \A j \in 1..n : puts[j][1] = f <=> j = i
      BY <2>1 DEF Alike
    <2>3. (CHOOSE j \in DOMAIN puts : puts[j][1] = f) = i
      BY <1>1, <2>2
    <2>4. KindOf(puts, f) = puts[i][2]
      BY <2>3, Zenon DEF KindOf
    <2>5. KindOf(puts, f) = "str" <=> f \in Texts
      BY <1>3, <2>1, <2>4
    <2> QED
      BY <2>5, Zenon DEF Received
  <1>6. Gotten(r, puts) = [f \in Names(puts) |-> IF f \in Texts THEN Clip(r[f]) ELSE r[f]]
    BY <1>5 DEF Gotten
  <1>7. AllReadable(r, puts, n) <=> TextsWhole(r)
    <2>1. ASSUME AllReadable(r, puts, n), NEW f \in DOMAIN r \cap Texts PROVE Utf8(Clip(r[f]))
      <3>1. f \in Names(puts)
        BY <1>2
      <3>2. PICK i \in 1..n : puts[i][1] = f
        BY <1>4, <3>1
      <3>3. puts[i][2] = "str"
        BY <1>3, <3>2
      <3>4. Readable(r[puts[i][1]], puts[i][2])
        BY <2>1 DEF AllReadable
      <3> QED
        BY <3>2, <3>3, <3>4 DEF Readable
    <2>2. ASSUME TextsWhole(r), NEW i \in 1..n PROVE Readable(r[puts[i][1]], puts[i][2])
      <3>1. puts[i][1] \in DOMAIN r
        BY <1>2, <1>4
      <3>2. ASSUME puts[i][2] = "str" PROVE Utf8(Clip(r[puts[i][1]]))
        <4>1. puts[i][1] \in Texts
          BY <1>3, <3>2
        <4> QED
          BY <2>2, <3>1, <4>1 DEF TextsWhole
      <3> QED
        BY <3>2, Zenon DEF Readable
    <2> QED
      BY <2>1, <2>2, Zenon DEF TextsWhole, AllReadable
  <1> QED
    BY <1>2, <1>6, <1>7

-----------------------------------------------------------------------------
(* Displays                                                                  *)

LEMMA DisplayIs ==
  ASSUME NEW d, IsDisplay(d)
  PROVE  /\ Gotten(d, DisplayPuts) = ClipTexts(d)
         /\ AllReadable(d, DisplayPuts, 7) <=> TextsWhole(d)
         /\ \A i \in 1..7 : d[DisplayPuts[i][1]] \in Values[DisplayPuts[i][2]]
         /\ 0 \notin {ClipTexts(d).width, ClipTexts(d).height, ClipTexts(d).scale_percent}
  <1>1. HasShape(d, DisplayPuts, {}) /\ 0 \notin {d.width, d.height, d.scale_percent}
    BY DEF IsDisplay
  <1>2. Alike(DisplayPuts, DisplayGets, 7) /\ TextsNamed(DisplayPuts, 7)
    BY DisplayShape
  <1>3. {} \cap Texts = {}
    OBVIOUS
  <1>4. /\ Gotten(d, DisplayPuts) = [f \in Names(DisplayPuts) |-> IF f \in Texts THEN Clip(d[f]) ELSE d[f]]
        /\ AllReadable(d, DisplayPuts, 7) <=> TextsWhole(d)
        /\ \A i \in 1..7 : d[DisplayPuts[i][1]] \in Values[DisplayPuts[i][2]]
    BY <1>1, <1>2, <1>3, FieldsArrive
  <1>5. DOMAIN d = Names(DisplayPuts)
    BY <1>1 DEF HasShape
  <1>6. Gotten(d, DisplayPuts) = ClipTexts(d)
    BY <1>4, <1>5 DEF ClipTexts
  <1>7. {"width", "height", "scale_percent"} \subseteq Names(DisplayPuts)
    <2>1. DOMAIN DisplayPuts = 1..7
      BY <1>2 DEF Alike
    <2>2. /\ DisplayPuts[4][1] = "width" /\ DisplayPuts[5][1] = "height"
          /\ DisplayPuts[6][1] = "scale_percent"
      BY DEF DisplayPuts
    <2> QED
      BY <2>1, <2>2 DEF Names
  <1>8. \A f \in {"width", "height", "scale_percent"} : f \notin Texts
    BY DEF Texts
  <1>9. /\ ClipTexts(d).width = d.width
        /\ ClipTexts(d).height = d.height
        /\ ClipTexts(d).scale_percent = d.scale_percent
    BY <1>5, <1>7, <1>8 DEF ClipTexts
  <1> QED
    BY <1>1, <1>4, <1>6, <1>9

LEMMA DisplayBack ==
  ASSUME NEW d, IsDisplay(d), NEW buf \in Seq(Byte), Len(buf) <= MaxFrame, NEW at \in Nat,
         Lies(buf, at, PutFields(d, DisplayPuts))
  PROVE  GetDisplay(buf, at) = IF TextsWhole(d)
           THEN Ok(at + Len(PutFields(d, DisplayPuts)), ClipTexts(d)) ELSE Err("Utf8")
  <1>1. PICK e : e = at + Len(PutFields(d, DisplayPuts))
    OBVIOUS
  <1>2. GetFields(buf, at, DisplayGets) = IF TextsWhole(d) THEN Ok(e, ClipTexts(d)) ELSE Err("Utf8")
    <2>1. Alike(DisplayPuts, DisplayGets, 7)
      BY DisplayShape
    <2>2. \A i \in 1..7 : d[DisplayPuts[i][1]] \in Values[DisplayPuts[i][2]]
      BY DisplayIs
    <2>3. GetFields(buf, at, DisplayGets) =
            IF AllReadable(d, DisplayPuts, 7)
              THEN Ok(at + Len(PutFields(d, DisplayPuts)), Gotten(d, DisplayPuts)) ELSE Err("Utf8")
      BY <2>1, <2>2, FieldsBack
    <2> QED
      BY <1>1, <2>3, DisplayIs
  <1> DEFINE E(x) == IF x.err # "" THEN x
                     ELSE IF 0 \in {x.v.width, x.v.height, x.v.scale_percent}
                            THEN Err("Invalid") ELSE Ok(x.at, x.v)
  <1>3. GetDisplay(buf, at) = CHOOSE y \in {E(x) : x \in {GetFields(buf, at, DisplayGets)}} : TRUE
    BY DEF GetDisplay, Then
  <1>4. PICK x : x = GetFields(buf, at, DisplayGets)
    OBVIOUS
  <1>5. GetDisplay(buf, at) = E(x)
    <2> HIDE DEF E
    <2>1. {E(z) : z \in {x}} = {E(x)}
      OBVIOUS
    <2> QED
      BY <1>3, <1>4, <2>1, ChooseOnly
  <1>6. CASE TextsWhole(d)
    <2>1. x = Ok(e, ClipTexts(d))
      BY <1>2, <1>4, <1>6
    <2>2. PICK c : c = ClipTexts(d)
      OBVIOUS
    <2>3. x.err = "" /\ x.at = e /\ x.v = c
      <3>1. Ok(e, c).err = "" /\ Ok(e, c).at = e /\ Ok(e, c).v = c
        BY OkFields, Zenon
      <3> QED
        BY <2>1, <2>2, <3>1, Zenon
    <2>4. 0 \notin {c.width, c.height, c.scale_percent}
      BY <2>2, DisplayIs
    <2>5. E(x) = Ok(e, c)
      BY <2>3, <2>4, Zenon
    <2> QED
      BY <1>1, <1>5, <1>6, <2>2, <2>5
  <1>7. CASE ~ TextsWhole(d)
    <2>1. x = Err("Utf8")
      BY <1>2, <1>4, <1>7
    <2>2. x.err = "Utf8"
      BY <2>1, ErrIs
    <2>3. x.err # ""
      BY <2>2
    <2>4. E(x) = x
      BY <2>3, Zenon
    <2> QED
      BY <1>5, <1>7, <2>1, <2>4
  <1> QED
    BY <1>6, <1>7


LEMMA NextDisplay ==
  ASSUME NEW buf, NEW a, NEW values, NEW sofar
  PROVE  /\ sofar = Err("Utf8") => GetNextDisplay(buf, sofar) = Err("Utf8")
         /\ sofar = Ok(a, values) =>
              /\ GetDisplay(buf, a) = Err("Utf8") => GetNextDisplay(buf, sofar) = Err("Utf8")
              /\ \A e, x : GetDisplay(buf, a) = Ok(e, x) =>
                             GetNextDisplay(buf, sofar) = Ok(e, Append(values, x))
  <1> DEFINE F(z, vals) == IF z.err # "" THEN z ELSE Ok(z.at, Append(vals, z.v))
             C(t, vals) == CHOOSE y \in {F(z, vals) : z \in {t}} : TRUE
             E(x) == IF x.err # "" THEN x ELSE C(GetDisplay(buf, x.at), x.v)
  <1>1. GetNextDisplay(buf, sofar) = CHOOSE y \in {E(x) : x \in {sofar}} : TRUE
    BY DEF GetNextDisplay, Then
  <1>2. \A t, vals : C(t, vals) = F(t, vals)
    <2> TAKE t, vals
    <2> HIDE DEF F
    <2>1. {F(z, vals) : z \in {t}} = {F(t, vals)}
      OBVIOUS
    <2> QED
      BY <2>1, ChooseOnly
  <1> HIDE DEF C
  <1>3. GetNextDisplay(buf, sofar) = E(sofar)
    <2> HIDE DEF E
    <2>1. {E(x) : x \in {sofar}} = {E(sofar)}
      OBVIOUS
    <2> QED
      BY <1>1, <2>1, ChooseOnly
  <1>4. ASSUME sofar = Err("Utf8") PROVE E(sofar) = Err("Utf8")
    <2>1. sofar.err = "Utf8"
      BY <1>4, ErrIs
    <2>2. sofar.err # ""
      BY <2>1
    <2> QED
      BY <1>4, <2>2, Zenon
  <1>5. ASSUME sofar = Ok(a, values) PROVE E(sofar) = F(GetDisplay(buf, a), values)
    <2>1. sofar.err = "" /\ sofar.at = a /\ sofar.v = values
      <3>1. Ok(a, values).err = "" /\ Ok(a, values).at = a /\ Ok(a, values).v = values
        BY OkFields, Zenon
      <3> QED
        BY <1>5, <3>1, Zenon
    <2> HIDE DEF F
    <2> QED
      BY <1>2, <2>1, Zenon
  <1>6. ASSUME GetDisplay(buf, a) = Err("Utf8") PROVE F(GetDisplay(buf, a), values) = Err("Utf8")
    <2>1. PICK z : z = GetDisplay(buf, a)
      OBVIOUS
    <2>2. z = Err("Utf8")
      BY <1>6, <2>1
    <2>3. z.err = "Utf8"
      BY <2>2, ErrIs
    <2>4. z.err # ""
      BY <2>3
    <2> QED
      BY <2>1, <2>2, <2>4, Zenon
  <1>7. ASSUME NEW e, NEW x, GetDisplay(buf, a) = Ok(e, x)
        PROVE  F(GetDisplay(buf, a), values) = Ok(e, Append(values, x))
    <2>1. PICK z : z = GetDisplay(buf, a)
      OBVIOUS
    <2>2. z = Ok(e, x)
      BY <1>7, <2>1
    <2>3. z.err = "" /\ z.at = e /\ z.v = x
      <3>1. Ok(e, x).err = "" /\ Ok(e, x).at = e /\ Ok(e, x).v = x
        BY OkFields, Zenon
      <3> QED
        BY <2>2, <3>1, Zenon
    <2> QED
      BY <2>1, <2>3, Zenon
  <1> HIDE DEF E, F
  <1> QED
    BY <1>3, <1>4, <1>5, <1>6, <1>7

ReadsDisplays(buf, start, n, read) ==
    \A i \in 0..n : read[i] = IF i = 0 THEN Ok(start, <<>>) ELSE GetNextDisplay(buf, read[i - 1])

LEMMA ReadDisplaysOnce ==
  ASSUME NEW buf, NEW start, NEW n \in Nat, NEW f, ReadsDisplays(buf, start, n, f),
         NEW g, ReadsDisplays(buf, start, n, g)
  PROVE  f[n] = g[n]
  <1> DEFINE S == {i \in 0..n : f[i] = g[i]}
  <1>1. 0 \in S
    <2>1. 0 \in 0..n
      OBVIOUS
    <2> QED
      BY <2>1 DEF ReadsDisplays
  <1>2. ASSUME NEW i \in 1..n, i - 1 \in S PROVE i \in S
    <2>1. i \in 0..n /\ i # 0
      OBVIOUS
    <2>2. f[i - 1] = g[i - 1]
      BY <1>2
    <2>3. f[i] = GetNextDisplay(buf, f[i - 1]) /\ g[i] = GetNextDisplay(buf, g[i - 1])
      BY <2>1, Zenon DEF ReadsDisplays
    <2> QED
      BY <2>1, <2>2, <2>3
  <1> HIDE DEF S
  <1>3. 0..n \subseteq S
    BY <1>1, <1>2, Ascent
  <1>4. n \in S
    BY <1>3
  <1> QED
    BY <1>4 DEF S

\* A display takes some bytes.
LEMMA DisplayNotEmpty ==
  ASSUME NEW d, IsDisplay(d)
  PROVE  PutFields(d, DisplayPuts) \in Seq(Byte) /\ Len(PutFields(d, DisplayPuts)) > 0
  <1>1. Alike(DisplayPuts, DisplayGets, 7)
    BY DisplayShape
  <1>2. \A i \in 1..7 : d[DisplayPuts[i][1]] \in Values[DisplayPuts[i][2]]
    BY DisplayIs
  <1>3. PICK s \in Seq(Seq(Byte)) :
          /\ Len(s) = 7
          /\ \A i \in 1..7 : s[i] = Put(d[DisplayPuts[i][1]], DisplayPuts[i][2])
          /\ PutFields(d, DisplayPuts) = FlattenSeq(s)
          /\ PutFields(d, DisplayPuts) \in Seq(Byte)
    BY <1>1, <1>2, PutFieldsType
  <1>4. PICK v : v = d[DisplayPuts[1][1]]
    OBVIOUS
  <1>5. s[1] = Put(v, "u32")
    <2>1. DisplayPuts[1][2] = "u32"
      BY DEF DisplayPuts
    <2>2. 1 \in 1..7
      OBVIOUS
    <2> QED
      BY <1>3, <1>4, <2>1, <2>2
  <1>6. v \in Values["u32"]
    <2>1. DisplayPuts[1][2] = "u32"
      BY DEF DisplayPuts
    <2>2. 1 \in 1..7
      OBVIOUS
    <2> QED
      BY <1>2, <1>4, <2>1, <2>2
  <1>7. Put(v, "u32") = LittleEndian(v, 4)
    BY WidthIs DEF Put
  <1>8. v \in Int
    BY <1>6, ValueTop, WidthIs
  <1>9. PICK l : l = LittleEndian(v, 4)
    OBVIOUS
  <1>10. Len(l) = 4
    <2>1. PICK width \in Nat \ {0} : width = 4
      OBVIOUS
    <2>2. l = LittleEndian(v, width)
      BY <1>9, <2>1
    <2> QED
      BY <1>8, <2>1, <2>2, LittleEndianType
  <1>11. PICK t \in Seq(Seq(Byte)) : t = s
    BY <1>3
  <1>12. PICK lo : lo = Len(Joined(t)[1 - 1])
    OBVIOUS
  <1>13. PICK hi : hi = Len(Joined(t)[1])
    OBVIOUS
  <1>14. PICK w : w = FlattenSeq(t)
    OBVIOUS
  <1>15. lo \in Nat /\ hi = lo + Len(t[1]) /\ hi <= Len(w)
    <2>1. Len(t) = 7
      BY <1>3, <1>11, Zenon
    <2>2. 1 \in 1..Len(t)
      BY <2>1
    <2> QED
      BY <1>12, <1>13, <1>14, <2>2, PieceInPlace
  <1>16. Len(t[1]) = 4
    BY <1>5, <1>7, <1>9, <1>10, <1>11
  <1>17. w \in Seq(Byte)
    BY <1>14, FlattenType
  <1>18. Len(w) > 0
    BY <1>15, <1>16, <1>17
  <1> QED
    BY <1>3, <1>11, <1>14, <1>18

WholeUpTo(ds, n) == \A i \in 1..n : TextsWhole(ds[i])

ReadsEach(buf, start, ds, n, e, read) ==
    /\ read = [i \in 0..n |-> read[i]]
    /\ ReadsDisplays(buf, start, n, read)
    /\ read[n] = IF WholeUpTo(ds, n) THEN Ok(e, [i \in 1..n |-> ClipTexts(ds[i])]) ELSE Err("Utf8")

\* The first n displays are read one after the other, up to the first text
\* that is broken.
LEMMA ReadEach ==
  ASSUME NEW ds, NEW s \in Seq(Seq(Byte)), NEW n \in Nat, n <= Len(s),
         \A i \in 1..Len(s) : IsDisplay(ds[i]),
         \A i \in 1..Len(s) : s[i] = PutFields(ds[i], DisplayPuts),
         NEW buf \in Seq(Byte), Len(buf) <= MaxFrame, NEW start \in Nat,
         Lies(buf, start, FlattenSeq(s)), NEW e, e = start + Len(Joined(s)[n])
  PROVE  \E read : ReadsEach(buf, start, ds, n, e, read)
  <1>1. \A i \in 1..n : i \in 1..Len(s)
    OBVIOUS
  <1>3. PICK J : J = Joined(s)
    OBVIOUS
  <1>4. PICK D : D = Seq(Byte)
    OBVIOUS
  <1>5. J \in [0..Len(s) -> D] /\ J[0] = <<>>
    BY <1>3, <1>4, JoinedDef
  <1>6. ASSUME NEW i \in 0..n PROVE Len(J[i]) \in Nat
    <2>1. i \in 0..Len(s)
      OBVIOUS
    <2>2. J[i] \in D
      BY <1>5, <2>1
    <2> QED
      BY <1>4, <2>2
  <1>7. PICK off : off = [i \in 0..n |-> start + Len(J[i])]
    OBVIOUS
  <1>8. PICK V : V = [i \in 1..n |-> ClipTexts(ds[i])]
    OBVIOUS
  <1>9. PICK P : P = [i \in 0..n |-> [j \in 1..i |-> V[j]]]
    OBVIOUS
  <1>10. ASSUME NEW i \in 1..n
         PROVE  GetDisplay(buf, off[i - 1]) =
                  IF TextsWhole(ds[i]) THEN Ok(off[i], V[i]) ELSE Err("Utf8")
    <2>1. PICK d : d = ds[i] /\ IsDisplay(d)
      BY <1>1
    <2>2. PICK q : q = s[i]
      OBVIOUS
    <2>3. q = PutFields(d, DisplayPuts)
      BY <1>1, <2>1, <2>2
    <2>4. q \in Seq(Byte)
      BY <2>1, <2>3, DisplayNotEmpty
    <2>5. PICK lo : lo = Len(J[i - 1])
      OBVIOUS
    <2>6. PICK hi : hi = Len(J[i])
      OBVIOUS
    <2>7. i \in 1..Len(s) /\ i - 1 \in 0..n /\ i \in 0..n
      BY <1>1
    <2>8. InPlace(buf, start, q, lo, hi)
      <3>1. lo = Len(Joined(s)[i - 1]) /\ hi = Len(Joined(s)[i])
        BY <1>3, <2>5, <2>6
      <3> QED
        BY <2>2, <2>7, <3>1, PieceLies
    <2>9. PICK a \in Nat : a = start + lo
      BY <2>8 DEF InPlace
    <2>10. off[i - 1] = a
      BY <1>7, <2>5, <2>7, <2>9
    <2>11. off[i] = start + hi
      BY <1>7, <2>6, <2>7
    <2>12. off[i] = a + Len(q)
      BY <2>4, <2>8, <2>9, <2>11 DEF InPlace
    <2>13. Lies(buf, a, PutFields(d, DisplayPuts))
      BY <2>3, <2>8, <2>9 DEF InPlace
    <2>14. GetDisplay(buf, a) = IF TextsWhole(d) THEN Ok(a + Len(PutFields(d, DisplayPuts)), ClipTexts(d))
                                                 ELSE Err("Utf8")
      BY <2>1, <2>13, DisplayBack
    <2>15. V[i] = ClipTexts(d)
      BY <1>8, <2>1
    <2> QED
      BY <2>1, <2>3, <2>10, <2>12, <2>14, <2>15, Zenon
  <1> DEFINE R(i) == IF WholeUpTo(ds, i) THEN Ok(off[i], P[i]) ELSE Err("Utf8")
  <1>a. PICK read : read = [i \in 0..n |-> R(i)]
    OBVIOUS
  <1>b. \A i \in 0..n : read[i] = R(i)
    <2> HIDE DEF R
    <2> QED
      BY <1>a
  <1>11. read[0] = Ok(start, <<>>)
    <2>1. 0 \in 0..n /\ 0 \in 0..Len(s)
      OBVIOUS
    <2>2. WholeUpTo(ds, 0)
      BY DEF WholeUpTo
    <2>3. P[0] = <<>>
      <3>1. P[0] = [j \in 1..0 |-> V[j]]
        BY <1>9, <2>1
      <3>2. 1..0 = {}
        OBVIOUS
      <3> QED
        BY <3>1, <3>2
    <2>4. off[0] = start
      BY <1>5, <1>7, <2>1
    <2> QED
      BY <1>b, <2>1, <2>2, <2>3, <2>4, Zenon
  <1>12. ASSUME NEW i \in 1..n PROVE read[i] = GetNextDisplay(buf, read[i - 1])
    <2>1. i - 1 \in 0..n /\ i \in 0..n /\ i # 0
      OBVIOUS
    <2>2. read[i - 1] = R(i - 1) /\ read[i] = R(i)
      BY <1>b, <2>1
    <2>4. P[i] = Append(P[i - 1], V[i])
      <3>1. P[i] = [j \in 1..i |-> V[j]] /\ P[i - 1] = [j \in 1..(i - 1) |-> V[j]]
        BY <1>9, <2>1
      <3>2. PICK A : A = {V[j] : j \in 1..n}
        OBVIOUS
      <3>3. \A j \in 1..n : V[j] \in A
        BY <3>2
      <3>4. PICK p : p = P[i - 1]
        OBVIOUS
      <3>5. p \in Seq(A) /\ Len(p) = i - 1 /\ \A j \in 1..(i - 1) : p[j] = V[j]
        <4>1. PICK m \in Nat : m = i - 1 /\ m <= n
          OBVIOUS
        <4>2. p = [j \in 1..m |-> V[j]]
          BY <3>1, <3>4, <4>1
        <4>3. p \in [1..m -> A]
          BY <3>3, <4>1, <4>2
        <4> QED
          BY <4>1, <4>2, <4>3
      <3>6. PICK x \in A : x = V[i]
        BY <3>3
      <3>7. PICK q : q = Append(p, x)
        OBVIOUS
      <3>8. /\ q \in Seq(A) /\ Len(q) = i /\ \A j \in 1..(i - 1) : q[j] = V[j]
            /\ q[i] = V[i]
        BY <3>5, <3>6, <3>7
      <3>9. q = [j \in 1..i |-> q[j]]
        BY <3>8
      <3>10. \A j \in 1..i : q[j] = V[j]
        BY <3>8
      <3> QED
        BY <3>1, <3>4, <3>6, <3>7, <3>9, <3>10
    <2>5. CASE ~ WholeUpTo(ds, i - 1)
      <3>1. ~ WholeUpTo(ds, i)
        BY <2>5 DEF WholeUpTo
      <3>2. read[i - 1] = Err("Utf8")
        BY <2>2, <2>5
      <3>3. GetNextDisplay(buf, read[i - 1]) = Err("Utf8")
        BY <3>2, NextDisplay
      <3> QED
        BY <2>2, <3>1, <3>3
    <2>6. CASE WholeUpTo(ds, i - 1)
      <3>1. read[i - 1] = Ok(off[i - 1], P[i - 1])
        BY <2>2, <2>6
      <3>2. WholeUpTo(ds, i) <=> TextsWhole(ds[i])
        <4>1. \A j \in 1..i : j = i \/ j \in 1..(i - 1)
          OBVIOUS
        <4>2. \A j \in 1..(i - 1) : TextsWhole(ds[j])
          BY <2>6 DEF WholeUpTo
        <4>3. i \in 1..i
          OBVIOUS
        <4> QED
          BY <4>1, <4>2, <4>3, Zenon DEF WholeUpTo
      <3>3. CASE TextsWhole(ds[i])
        <4>1. GetDisplay(buf, off[i - 1]) = Ok(off[i], V[i])
          BY <1>10, <3>3
        <4>2. GetNextDisplay(buf, read[i - 1]) = Ok(off[i], Append(P[i - 1], V[i]))
          BY <3>1, <4>1, NextDisplay
        <4> QED
          BY <2>2, <2>4, <3>2, <3>3, <4>2
      <3>4. CASE ~ TextsWhole(ds[i])
        <4>1. GetDisplay(buf, off[i - 1]) = Err("Utf8")
          BY <1>10, <3>4
        <4>2. GetNextDisplay(buf, read[i - 1]) = Err("Utf8")
          BY <3>1, <4>1, NextDisplay
        <4> QED
          BY <2>2, <3>2, <3>4, <4>2
      <3> QED
        BY <3>3, <3>4
    <2> QED
      BY <2>5, <2>6
  <1>13. ReadsDisplays(buf, start, n, read)
    <2>1. ASSUME NEW i \in 0..n, i # 0 PROVE i \in 1..n
      BY <2>1
    <2> QED
      BY <1>11, <1>12, <2>1, Zenon DEF ReadsDisplays
  <1>14. n \in 0..n
    OBVIOUS
  <1>15. read[n] = R(n)
    BY <1>b, <1>14
  <1>16. off[n] = e
    BY <1>3, <1>7, <1>14
  <1>17. P[n] = [i \in 1..n |-> ClipTexts(ds[i])]
    BY <1>8, <1>9, <1>14
  <1>18. read = [i \in 0..n |-> read[i]]
    <2> HIDE DEF R
    <2> QED
      BY <1>a
  <1> QED
    BY <1>13, <1>15, <1>16, <1>17, <1>18, Zenon DEF ReadsEach

\* Only the two lowest bytes of a count are written.
LEMMA LowTwo ==
  ASSUME NEW n \in Nat
  PROVE  \E c \in Nat : /\ c \in U16
                        /\ c <= n
                        /\ LittleEndian(c, 2) = LittleEndian(n, 2)
                        /\ n \in U16 => c = n
  <1>1. PICK b \in Nat : b = n % 256 /\ b \in 0..255
    OBVIOUS
  <1>2. PICK h \in Nat : h = n \div 256
    OBVIOUS
  <1>3. n = 256 * h + b
    BY <1>1, <1>2
  <1>4. PICK a \in Nat : a = h % 256 /\ a \in 0..255 /\ a <= h
    BY <1>2
  <1>5. PICK c \in Nat : c = 256 * a + b
    OBVIOUS
  <1>6. c <= n
    BY <1>3, <1>4, <1>5
  <1>7. c % 256 = b /\ c \div 256 = a
    BY <1>1, <1>5
  <1>8. c \in U16
    BY <1>4, <1>7 DEF U16, Byte
  <1>9. a % 256 = a
    BY <1>4
  <1>10. ASSUME NEW v \in Nat, v % 256 = b, (v \div 256) % 256 = a
         PROVE  LittleEndian(v, 2) = <<b, a>>
    <2>1. PICK w \in Nat \ {0} : w = 2
      OBVIOUS
    <2>2. PICK l : l = LittleEndian(v, w)
      OBVIOUS
    <2>3. PICK g : g = Rests(v, w)
      OBVIOUS
    <2>4. l \in Seq(Byte) /\ Len(l) = w /\ \A i \in 1..w : l[i] = g[i] % 256
      BY <2>2, <2>3, LittleEndianBytes
    <2>5. /\ g[1] = v
          /\ \A i \in 2..w : g[i] = g[i - 1] \div 256
      <3>1. Divides(g, v, w)
        BY <2>3, RestsDef
      <3> QED
        BY <3>1 DEF Divides
    <2>6. l[1] = b
      BY <1>10, <2>1, <2>4, <2>5
    <2>7. g[2] = v \div 256
      <3>1. 2 \in 2..w
        BY <2>1
      <3>2. g[2] = g[2 - 1] \div 256
        BY <2>5, <3>1
      <3> QED
        BY <2>5, <3>2
    <2>8. l[2] = a
      BY <1>10, <2>1, <2>4, <2>7
    <2>9. l = <<b, a>>
      BY <2>1, <2>4, <2>6, <2>8
    <2> QED
      BY <2>1, <2>2, <2>9
  <1>11. LittleEndian(c, 2) = LittleEndian(n, 2)
    <2>1. LittleEndian(c, 2) = <<b, a>>
      BY <1>7, <1>9, <1>10
    <2>2. LittleEndian(n, 2) = <<b, a>>
      BY <1>1, <1>2, <1>4, <1>10
    <2> QED
      BY <2>1, <2>2
  <1>12. ASSUME n \in U16 PROVE c = n
    <2>1. h \in 0..255
      BY <1>2, <1>12 DEF U16, Byte
    <2>2. a = h
      BY <1>4, <2>1
    <2> QED
      BY <1>3, <1>5, <2>2
  <1> QED
    BY <1>6, <1>8, <1>11, <1>12

\* The count as it is read.
LEMMA CountRead ==
  ASSUME NEW buf \in Seq(Byte), NEW at \in Nat, NEW n \in Nat, Lies(buf, at, LittleEndian(n, 2))
  PROVE  \E c \in Nat : /\ GetNumber(buf, at, "u16") = Ok(at + 2, c)
                        /\ c <= n
                        /\ n \in U16 => c = n
  <1>1. PICK c \in Nat : /\ c \in U16
                         /\ c <= n
                         /\ LittleEndian(c, 2) = LittleEndian(n, 2)
                         /\ n \in U16 => c = n
    BY LowTwo
  <1>2. PICK kind \in DOMAIN Width : kind = "u16"
    BY WidthIs
  <1>3. Width[kind] = 2 /\ c \in Values[kind]
    BY <1>1, <1>2, WidthIs, ValuesAre
  <1>4. Lies(buf, at, LittleEndian(c, Width[kind]))
    BY <1>1, <1>3
  <1>5. GetNumber(buf, at, kind) = Ok(at + Width[kind], c)
    BY <1>3, <1>4, GetNumberBack
  <1> QED
    BY <1>1, <1>2, <1>3, <1>5

\* GetDisplays reads a count, and then that many displays.
LEMMA DisplaysRead ==
  ASSUME NEW buf, NEW start, NEW first, NEW c \in Nat,
         GetNumber(buf, start, "u16") = Ok(first, c)
  PROVE  /\ c > MaxDisplays => GetDisplays(buf, start) = Err("Invalid")
         /\ ~ (c > MaxDisplays) =>
              \A read : (read = [i \in 0..c |-> read[i]] /\ ReadsDisplays(buf, first, c, read))
                           => GetDisplays(buf, start) = read[c]
  <1> DEFINE G(at, h, i) == IF i = 0 THEN Ok(at, <<>>) ELSE GetNextDisplay(buf, h[i - 1])
             Final(at, n) == (CHOOSE h : h = [i \in 0..n |-> G(at, h, i)])[n]
             E(x) == IF x.err # "" THEN x
                     ELSE IF x.v > MaxDisplays THEN Err("Invalid") ELSE Final(x.at, x.v)
  <1>1. GetDisplays(buf, start) = CHOOSE y \in {E(x) : x \in {GetNumber(buf, start, "u16")}} : TRUE
    BY DEF GetDisplays, Then
  <1> HIDE DEF Final
  <1>2. PICK x : x = GetNumber(buf, start, "u16")
    OBVIOUS
  <1>3. GetDisplays(buf, start) = E(x)
    <2> HIDE DEF E
    <2>1. {E(z) : z \in {x}} = {E(x)}
      OBVIOUS
    <2> QED
      BY <1>1, <1>2, <2>1, ChooseOnly
  <1>4. x.err = "" /\ x.at = first /\ x.v = c
    BY <1>2, OkIs
  <1>5. E(x) = IF c > MaxDisplays THEN Err("Invalid") ELSE Final(first, c)
    BY <1>4, Zenon
  <1> HIDE DEF E
  <1>6. ASSUME NEW read, read = [i \in 0..c |-> read[i]], ReadsDisplays(buf, first, c, read)
        PROVE  Final(first, c) = read[c]
    <2> DEFINE g == CHOOSE h : h = [i \in 0..c |-> G(first, h, i)]
    <2>1. \A i \in 0..c : read[i] = G(first, read, i)
      BY <1>6 DEF ReadsDisplays
    <2>2. g = [i \in 0..c |-> G(first, g, i)]
      <3> HIDE DEF G
      <3>1. read = [i \in 0..c |-> G(first, read, i)]
        BY <1>6, <2>1
      <3> QED
        BY <3>1
    <2>3. Final(first, c) = g[c]
      BY DEF Final
    <2> HIDE DEF g
    <2>4. ReadsDisplays(buf, first, c, g)
      <3>1. \A i \in 0..c : g[i] = G(first, g, i)
        <4> HIDE DEF G
        <4> QED
          BY <2>2
      <3> QED
        BY <3>1 DEF ReadsDisplays
    <2> QED
      BY <1>6, <2>3, <2>4, ReadDisplaysOnce
  <1> QED
    BY <1>3, <1>5, <1>6

DisplaysCarried(ds) == Len(ds) <= MaxDisplays /\ \A i \in 1..Len(ds) : TextsWhole(ds[i])

\* Not read as it was written: an error, or bytes are left over.
Refused(r, end) == r.err # "" \/ (r.err = "" /\ r.at < end)

LEMMA DisplaysBack ==
  ASSUME NEW S, NEW ds \in Seq(S), \A i \in 1..Len(ds) : IsDisplay(ds[i]),
         NEW buf \in Seq(Byte), Len(buf) <= MaxFrame, NEW start \in Nat,
         NEW w, w = PutDisplays(ds), Lies(buf, start, w)
  PROVE  /\ w \in Seq(Byte)
         /\ DisplaysCarried(ds) =>
              GetDisplays(buf, start) = Ok(start + Len(w), [i \in 1..Len(ds) |-> ClipTexts(ds[i])])
         /\ ~ DisplaysCarried(ds) => Refused(GetDisplays(buf, start), start + Len(w))
  <1>1. PICK n \in Nat : n = Len(ds)
    OBVIOUS
  <1>2. PICK s : s = [i \in DOMAIN ds |-> PutFields(ds[i], DisplayPuts)]
    OBVIOUS
  <1>3. DOMAIN ds = 1..n
    BY <1>1
  <1>4. PICK D : D = Seq(Byte)
    OBVIOUS
  <1>5. \A i \in 1..n : s[i] = PutFields(ds[i], DisplayPuts) /\ s[i] \in D /\ Len(s[i]) > 0
    BY <1>1, <1>2, <1>3, <1>4, DisplayNotEmpty
  <1>6. s \in Seq(D) /\ Len(s) = n
    <2>1. s = [i \in 1..n |-> s[i]]
      BY <1>2, <1>3
    <2>2. s \in [1..n -> D]
      BY <1>5, <2>1
    <2> QED
      BY <2>2
  <1>7. s \in Seq(Seq(Byte))
    BY <1>4, <1>6
  <1>8. PICK f \in Seq(Byte) : f = FlattenSeq(s)
    BY <1>7, FlattenType
  <1>9. PICK l \in Seq(Byte) : l = LittleEndian(n, 2) /\ Len(l) = 2
    BY Lengths
  <1>10. w = l \o f
    BY <1>1, <1>2, <1>8, <1>9 DEF PutDisplays
  <1>11. w \in Seq(Byte) /\ Len(w) = 2 + Len(f)
    BY <1>9, <1>10, Concat
  <1>12. Lies(buf, start, l) /\ Lies(buf, start + 2, f)
    <2>1. Lies(buf, start, l \o f)
      BY <1>10
    <2>2. Lies(buf, start, l) /\ Lies(buf, start + Len(l), f)
      BY <2>1, LiesParts
    <2> QED
      BY <1>9, <2>2
  <1>13. PICK c \in Nat : /\ GetNumber(buf, start, "u16") = Ok(start + 2, c)
                          /\ c <= n
                          /\ n \in U16 => c = n
    BY <1>9, <1>12, CountRead
  <1>14. PICK first \in Nat : first = start + 2
    OBVIOUS
  <1>15. PICK e : e = first + Len(Joined(s)[c])
    OBVIOUS
  <1>16. PICK read : ReadsEach(buf, first, ds, c, e, read)
    <2>1. \A i \in 1..Len(s) : IsDisplay(ds[i]) /\ s[i] = PutFields(ds[i], DisplayPuts)
      BY <1>1, <1>5, <1>6
    <2>2. Lies(buf, first, FlattenSeq(s))
      BY <1>8, <1>12, <1>14
    <2>3. c <= Len(s)
      BY <1>6, <1>13
    <2> QED
      BY <1>7, <1>15, <2>1, <2>2, <2>3, ReadEach
  <1>17. /\ c > MaxDisplays => GetDisplays(buf, start) = Err("Invalid")
         /\ ~ (c > MaxDisplays) => GetDisplays(buf, start) = read[c]
    <2>1. GetNumber(buf, start, "u16") = Ok(first, c)
      BY <1>13, <1>14
    <2>2. read = [i \in 0..c |-> read[i]] /\ ReadsDisplays(buf, first, c, read)
      BY <1>16 DEF ReadsEach
    <2>3. c > MaxDisplays => GetDisplays(buf, start) = Err("Invalid")
      BY <2>1, DisplaysRead
    <2>4. ASSUME ~ (c > MaxDisplays) PROVE GetDisplays(buf, start) = read[c]
      <3>1. \A g : (g = [i \in 0..c |-> g[i]] /\ ReadsDisplays(buf, first, c, g))
                      => GetDisplays(buf, start) = g[c]
        BY <2>1, <2>4, DisplaysRead
      <3> QED
        BY <2>2, <3>1, Zenon
    <2> QED
      BY <2>3, <2>4
  <1>18. read[c] = IF WholeUpTo(ds, c) THEN Ok(e, [i \in 1..c |-> ClipTexts(ds[i])]) ELSE Err("Utf8")
    BY <1>16 DEF ReadsEach
  <1>19. MaxDisplays \in Nat /\ (n <= MaxDisplays => n \in U16)
    BY SmallLengths
  <1>20. FlattenSeq(s) = Joined(s)[n]
    BY <1>6, <1>7, FlattenIsJoined
  <1>21. ASSUME DisplaysCarried(ds)
         PROVE  GetDisplays(buf, start) = Ok(start + Len(w), [i \in 1..Len(ds) |-> ClipTexts(ds[i])])
    <2>1. n <= MaxDisplays /\ c = n
      BY <1>1, <1>13, <1>19, <1>21 DEF DisplaysCarried
    <2>2. WholeUpTo(ds, c)
      BY <1>1, <1>21, <2>1 DEF DisplaysCarried, WholeUpTo
    <2>3. ~ (c > MaxDisplays)
      BY <1>19, <2>1
    <2>4. GetDisplays(buf, start) = Ok(e, [i \in 1..c |-> ClipTexts(ds[i])])
      BY <1>17, <1>18, <2>2, <2>3
    <2>5. e = first + Len(f)
      BY <1>8, <1>15, <1>20, <2>1
    <2>6. e = start + Len(w)
      BY <1>8, <1>11, <1>14, <2>5
    <2> QED
      BY <1>1, <2>1, <2>4, <2>6
  <1>22. ASSUME ~ DisplaysCarried(ds)
         PROVE  Refused(GetDisplays(buf, start), start + Len(w))
    <2>1. PICK r : r = GetDisplays(buf, start)
      OBVIOUS
    <2>2. ASSUME NEW t, r = Err(t), t # "" PROVE r.err # ""
      BY <2>2, ErrIs
    <2>3. CASE c > MaxDisplays
      <3>1. r = Err("Invalid")
        BY <1>17, <2>1, <2>3
      <3>2. r.err # ""
        BY <2>2, <3>1
      <3> QED
        BY <2>1, <3>2 DEF Refused
    <2>4. CASE ~ (c > MaxDisplays) /\ ~ WholeUpTo(ds, c)
      <3>1. r = Err("Utf8")
        BY <1>17, <1>18, <2>1, <2>4
      <3>2. r.err # ""
        BY <2>2, <3>1
      <3> QED
        BY <2>1, <3>2 DEF Refused
    <2>5. CASE ~ (c > MaxDisplays) /\ WholeUpTo(ds, c)
      <3>0. PICK v : v = [i \in 1..c |-> ClipTexts(ds[i])]
        OBVIOUS
      <3>1. r = Ok(e, v)
        BY <1>17, <1>18, <2>1, <2>5, <3>0
      <3>2. r.err = "" /\ r.at = e
        BY <3>1, OkIs
      <3>3. c # n
        <4>1. SUFFICES ASSUME c = n PROVE FALSE
          OBVIOUS
        <4>2. n <= MaxDisplays
          BY <1>19, <2>5, <4>1
        <4> QED
          BY <1>1, <1>22, <2>5, <4>1, <4>2 DEF DisplaysCarried, WholeUpTo
      <3>4. PICK i \in 1..n : i = c + 1
        BY <1>13, <3>3
      <3>5. PICK lo : lo = Len(Joined(s)[i - 1])
        OBVIOUS
      <3>6. PICK hi : hi = Len(Joined(s)[i])
        OBVIOUS
      <3>7. lo \in Nat /\ hi = lo + Len(s[i]) /\ hi <= Len(f)
        <4>1. i \in 1..Len(s)
          BY <1>6, <3>4
        <4> QED
          BY <1>7, <1>8, <3>5, <3>6, <4>1, PieceInPlace
      <3>8. PICK q \in Seq(Byte) : q = s[i] /\ Len(q) > 0
        BY <1>4, <1>5, <3>4
      <3>9. lo < Len(f)
        BY <1>8, <3>7, <3>8
      <3>10. i - 1 = c
        BY <3>4
      <3>11. e = first + lo
        BY <1>15, <3>5, <3>10
      <3>12. r.at < start + Len(w)
        <4>1. PICK m \in Nat : m = Len(f)
          BY <1>8
        <4>2. lo < m /\ e = (start + 2) + lo /\ start + Len(w) = start + (2 + m)
          BY <1>11, <1>14, <3>9, <3>11, <4>1
        <4>3. PICK k \in Nat : k = lo
          BY <3>7
        <4>4. (start + 2) + k < start + (2 + m)
          BY <4>1, <4>2, <4>3
        <4>5. r.at = (start + 2) + k
          BY <3>2, <4>2, <4>3, Zenon
        <4> QED
          BY <4>2, <4>4, <4>5, Zenon
      <3> QED
        BY <2>1, <3>2, <3>12 DEF Refused
    <2> QED
      BY <2>3, <2>4, <2>5
  <1> QED
    BY <1>11, <1>21, <1>22

-----------------------------------------------------------------------------
(* Messages                                                                  *)

Types == {"Hello", "HelloAck", "Displays", "Video", "MouseMove", "MouseButton", "MouseWheel",
          "Key", "FileOffer", "FileAccept", "FileChunk", "FileAck", "FileComplete", "FileCancel",
          "Ping", "Pong", "Auth", "AuthConfirm", "AuthDenied"}

LEMMA TypesAre == DOMAIN Tag = Types /\ DOMAIN Puts = Types \ {"Displays"}
  BY DEF Tag, Types, Puts

\* The first byte of the tag and the second, 0 if there is none.
LEMMA TagIs ==
  ASSUME NEW type \in DOMAIN Tag
  PROVE  \/ \E a \in Byte \ {5} : Tag[type] = <<a>>
         \/ \E k \in Byte : Tag[type] = <<5, k>>
  <1>1. type \in Types
    BY TypesAre
  <1>2. \/ \E a \in {1, 2, 3, 4, 6, 7, 8, 9, 10, 11, 12, 13, 14, 15, 16} : Tag[type] = <<a>>
        \/ \E k \in {1, 2, 3, 4} : Tag[type] = <<5, k>>
    BY <1>1 DEF Tag, Types
  <1>3. /\ {1, 2, 3, 4, 6, 7, 8, 9, 10, 11, 12, 13, 14, 15, 16} \subseteq Byte \ {5}
        /\ {1, 2, 3, 4} \subseteq Byte
    BY DEF Byte
  <1> QED
    BY <1>2, <1>3, Zenon

LEMMA TagNames ==
  ASSUME NEW type \in DOMAIN Tag, NEW other \in DOMAIN Tag, Tag[type] = Tag[other]
  PROVE  type = other
  <1>1. type \in Types /\ other \in Types
    BY TypesAre
  <1> QED
    BY <1>1 DEF Tag, Types

LEMMA TypeNamed ==
  ASSUME NEW type \in DOMAIN Tag, NEW at, NEW err
  PROVE  TypeOf(at, Tag[type], err) = Ok(at, type)
  <1>1. PICK tag : tag = Tag[type]
    OBVIOUS
  <1>2. \A t \in DOMAIN Tag : Tag[t] = tag <=> t = type
    BY <1>1, TagNames
  <1>3. (CHOOSE t \in DOMAIN Tag : Tag[t] = tag) = type
    BY <1>2
  <1>4. \E t \in DOMAIN Tag : Tag[t] = tag
    BY <1>1
  <1>5. TypeOf(at, tag, err) = Ok(at, type)
    BY <1>3, <1>4, Zenon DEF TypeOf
  <1> QED
    BY <1>1, <1>5

LEMMA OneByte ==
  ASSUME NEW b \in Byte, NEW p, p = <<b>>
  PROVE  p \in Seq(Byte) /\ Len(p) = 1 /\ p[1] = b
  OBVIOUS

\* A byte that lies in the buffer is taken.
LEMMA TakeByte ==
  ASSUME NEW buf \in Seq(Byte), NEW at \in Nat, NEW b \in Byte, Lies(buf, at, <<b>>)
  PROVE  Take(buf, at, 1) = Ok(at + 1, <<b>>)
  <1>1. PICK p : p = <<b>>
    OBVIOUS
  <1>2. p \in Seq(Byte) /\ Len(p) = 1
    BY <1>1, OneByte
  <1>3. Take(buf, at, Len(p)) = Ok(at + Len(p), p)
    BY <1>1, <1>2, TakePiece
  <1> QED
    BY <1>1, <1>2, <1>3

\* The type comes back.
LEMMA TypeBack ==
  ASSUME NEW type \in DOMAIN Tag, NEW buf \in Seq(Byte), Lies(buf, 0, Tag[type])
  PROVE  GetType(buf) = Ok(Len(Tag[type]), type)
  <1> DEFINE F(kind, z) == IF z.err # "" THEN z ELSE TypeOf(z.at, kind \o z.v, "Invalid")
             C(kind, t) == CHOOSE y \in {F(kind, z) : z \in {t}} : TRUE
             E(x) == IF x.err # "" THEN x
                     ELSE IF x.v # <<5>> THEN TypeOf(x.at, x.v, "UnknownType")
                                         ELSE C(x.v, Take(buf, x.at, 1))
  <1>1. GetType(buf) = CHOOSE y \in {E(x) : x \in {Take(buf, 0, 1)}} : TRUE
    BY DEF GetType, Then
  <1>2. \A kind, t : C(kind, t) = F(kind, t)
    <2> TAKE kind, t
    <2> HIDE DEF F
    <2>1. {F(kind, z) : z \in {t}} = {F(kind, t)}
      OBVIOUS
    <2> QED
      BY <2>1, ChooseOnly
  <1> HIDE DEF C
  <1>3. PICK x : x = Take(buf, 0, 1)
    OBVIOUS
  <1>4. GetType(buf) = E(x)
    <2> HIDE DEF E
    <2>1. {E(z) : z \in {x}} = {E(x)}
      OBVIOUS
    <2> QED
      BY <1>1, <1>3, <2>1, ChooseOnly
  <1>5. ASSUME NEW a \in Byte \ {5}, Tag[type] = <<a>>
        PROVE  GetType(buf) = Ok(Len(Tag[type]), type)
    <2>1. Take(buf, 0, 1) = Ok(0 + 1, <<a>>)
      BY <1>5, TakeByte
    <2>3. PICK tag : tag = <<a>>
      OBVIOUS
    <2>2. PICK one \in Nat : one = 1 /\ x = Ok(one, tag)
      BY <1>3, <2>1, <2>3
    <2>4. x.err = "" /\ x.at = 1 /\ x.v = tag
      <3>1. Ok(one, tag).err = "" /\ Ok(one, tag).at = one /\ Ok(one, tag).v = tag
        BY OkFields, Zenon
      <3> QED
        BY <2>2, <3>1, Zenon
    <2>5. tag # <<5>>
      BY <1>5, <2>3
    <2>6. E(x) = TypeOf(1, tag, "UnknownType")
      BY <2>4, <2>5, Zenon
    <2>7. TypeOf(1, Tag[type], "UnknownType") = Ok(1, type)
      BY TypeNamed
    <2>8. Len(Tag[type]) = 1
      BY <1>5
    <2> HIDE DEF E
    <2> QED
      BY <1>4, <1>5, <2>3, <2>6, <2>7, <2>8
  <1>6. ASSUME NEW k \in Byte, Tag[type] = <<5, k>>
        PROVE  GetType(buf) = Ok(Len(Tag[type]), type)
    <2>0. PICK five \in Byte : five = 5
      BY DEF Byte
    <2>a. PICK pp : pp = <<five>>
      OBVIOUS
    <2>b. PICK qq : qq = <<k>>
      OBVIOUS
    <2>1. PICK p \in Seq(Byte) : p = <<5>> /\ Len(p) = 1 /\ p[1] = 5
      BY <2>0, <2>a, OneByte
    <2>2. PICK q \in Seq(Byte) : q = <<k>> /\ Len(q) = 1 /\ q[1] = k
      BY <2>b, OneByte
    <2>3. p \o q = Tag[type]
      <3>1. PICK w : w = p \o q
        OBVIOUS
      <3>2. w \in Seq(Byte) /\ Len(w) = 2 /\ w[1] = 5 /\ w[2] = k
        BY <2>1, <2>2, <3>1
      <3>3. w = <<5, k>>
        BY <3>2
      <3> QED
        BY <1>6, <3>1, <3>3
    <2>4. Lies(buf, 0, p) /\ Lies(buf, 0 + Len(p), q)
      <3>1. Lies(buf, 0, p \o q)
        BY <2>3
      <3> QED
        BY <3>1, LiesParts
    <2>5. Take(buf, 0, 1) = Ok(0 + 1, <<5>>)
      <3>1. 5 \in Byte
        BY DEF Byte
      <3> QED
        BY <2>1, <2>4, <3>1, TakeByte
    <2>6. PICK one \in Nat : one = 1 /\ x = Ok(one, p)
      BY <1>3, <2>1, <2>5
    <2>7. x.err = "" /\ x.at = 1 /\ x.v = p
      <3>1. Ok(one, p).err = "" /\ Ok(one, p).at = one /\ Ok(one, p).v = p
        BY OkFields, Zenon
      <3> QED
        BY <2>6, <3>1, Zenon
    <2>8. E(x) = C(p, Take(buf, 1, 1))
      BY <2>1, <2>7, Zenon
    <2>9. Take(buf, 1, 1) = Ok(1 + 1, <<k>>)
      <3>1. Lies(buf, 1, <<k>>)
        BY <2>1, <2>2, <2>4
      <3> QED
        BY <1>6, <3>1, TakeByte
    <2>10. PICK z : z = Take(buf, 1, 1)
      OBVIOUS
    <2>11. PICK two \in Nat : two = 2 /\ z = Ok(two, q)
      BY <2>2, <2>9, <2>10
    <2>12. z.err = "" /\ z.at = 2 /\ z.v = q
      <3>1. Ok(two, q).err = "" /\ Ok(two, q).at = two /\ Ok(two, q).v = q
        BY OkFields, Zenon
      <3> QED
        BY <2>11, <3>1, Zenon
    <2>13. F(p, z) = TypeOf(2, p \o q, "Invalid")
      BY <2>12, Zenon
    <2>14. TypeOf(2, Tag[type], "Invalid") = Ok(2, type)
      BY TypeNamed
    <2>15. Len(Tag[type]) = 2
      BY <1>6
    <2> HIDE DEF E, F
    <2> QED
      BY <1>2, <1>4, <2>3, <2>8, <2>10, <2>13, <2>14, <2>15
  <1> HIDE DEF E, F
  <1> QED
    BY <1>5, <1>6, TagIs

AsDisplays(q) == IF q.err # "" THEN q ELSE Ok(q.at, [displays |-> q.v])

Ended(buf, type, z) ==
    IF z.err # "" THEN z
    ELSE IF z.at < Len(buf) THEN Err("Invalid") ELSE Ok(z.at, OfType(type, z.v))

LEMMA DecodeIs ==
  ASSUME NEW buf, NEW p, NEW type, GetType(buf) = Ok(p, type)
  PROVE  Decode(buf) = Ended(buf, type, IF type = "Displays" THEN AsDisplays(GetDisplays(buf, p))
                                                             ELSE GetFields(buf, p, Gets[type]))
  <1> DEFINE D(t) == CHOOSE y \in {AsDisplays(q) : q \in {t}} : TRUE
             C(k, t) == CHOOSE y \in {Ended(buf, k, z) : z \in {t}} : TRUE
             E(x) == IF x.err # "" THEN x
                     ELSE C(x.v, IF x.v = "Displays" THEN D(GetDisplays(buf, x.at))
                                                     ELSE GetFields(buf, x.at, Gets[x.v]))
  <1>1. Decode(buf) = CHOOSE y \in {E(x) : x \in {GetType(buf)}} : TRUE
    BY DEF Decode, Then, AsDisplays, Ended
  <1>2. \A t : D(t) = AsDisplays(t)
    <2> TAKE t
    <2>1. {AsDisplays(q) : q \in {t}} = {AsDisplays(t)}
      OBVIOUS
    <2> QED
      BY <2>1, ChooseOnly
  <1>3. \A k, t : C(k, t) = Ended(buf, k, t)
    <2> TAKE k, t
    <2>1. {Ended(buf, k, z) : z \in {t}} = {Ended(buf, k, t)}
      OBVIOUS
    <2> QED
      BY <2>1, ChooseOnly
  <1> HIDE DEF C, D
  <1>4. PICK x : x = GetType(buf)
    OBVIOUS
  <1>5. Decode(buf) = E(x)
    <2> HIDE DEF E
    <2>1. {E(z) : z \in {x}} = {E(x)}
      OBVIOUS
    <2> QED
      BY <1>1, <1>4, <2>1, ChooseOnly
  <1>6. x.err = "" /\ x.at = p /\ x.v = type
    BY <1>4, OkIs
  <1>7. E(x) = C(type, IF type = "Displays" THEN D(GetDisplays(buf, p)) ELSE GetFields(buf, p, Gets[type]))
    BY <1>6, Zenon
  <1> HIDE DEF E
  <1> QED
    BY <1>2, <1>3, <1>5, <1>7, Zenon

\* The parts of an encoded message.
LEMMA Parts ==
  ASSUME NEW type \in DOMAIN Tag, NEW rest \in Seq(Byte), NEW buf, buf = Tag[type] \o rest
  PROVE  \E p \in Nat : /\ buf \in Seq(Byte)
                        /\ Len(buf) = p + Len(rest)
                        /\ Len(buf) > 0
                        /\ Lies(buf, p, rest)
                        /\ GetType(buf) = Ok(p, type)
  <1>1. PICK tag \in Seq(Byte) : tag = Tag[type] /\ Len(tag) > 0
    <2>1. ASSUME NEW a \in Byte, Tag[type] = <<a>> PROVE Tag[type] \in Seq(Byte) /\ Len(Tag[type]) > 0
      <3>1. PICK q : q = <<a>>
        OBVIOUS
      <3>2. q \in Seq(Byte) /\ Len(q) = 1
        BY <3>1, OneByte
      <3> QED
        BY <2>1, <3>1, <3>2
    <2>2. ASSUME NEW k \in Byte, Tag[type] = <<5, k>> PROVE Tag[type] \in Seq(Byte) /\ Len(Tag[type]) > 0
      <3>1. 5 \in Byte
        BY DEF Byte
      <3> QED
        BY <2>2, <3>1
    <2> QED
      BY <2>1, <2>2, TagIs
  <1>2. PICK p \in Nat : p = Len(tag) /\ p > 0
    BY <1>1
  <1>3. PICK n \in Nat : n = Len(rest)
    OBVIOUS
  <1>4. buf \in Seq(Byte) /\ Len(buf) = p + n
    BY <1>1, <1>2, <1>3, Concat
  <1>5. Lies(buf, 0, buf)
    BY <1>4, LiesSelf
  <1>6. Lies(buf, 0, tag) /\ Lies(buf, 0 + p, rest)
    <2>1. Lies(buf, 0, tag \o rest)
      BY <1>1, <1>5
    <2>2. Lies(buf, 0, tag) /\ Lies(buf, 0 + Len(tag), rest)
      BY <1>4, <2>1, LiesParts
    <2> QED
      BY <1>2, <2>2
  <1>7. GetType(buf) = Ok(p, type)
    BY <1>1, <1>2, <1>4, <1>6, TypeBack
  <1>8. 0 + p = p /\ p + n > 0
    BY <1>2
  <1> QED
    BY <1>3, <1>4, <1>6, <1>7, <1>8, Zenon

LEMMA EndedAt ==
  ASSUME NEW buf, NEW type, NEW z, NEW e, NEW v, z = Ok(e, v)
  PROVE  Ended(buf, type, z) = IF e < Len(buf) THEN Err("Invalid") ELSE Ok(e, OfType(type, v))
  <1>1. z.err = "" /\ z.at = e /\ z.v = v
    <2>1. Ok(e, v).err = "" /\ Ok(e, v).at = e /\ Ok(e, v).v = v
      BY OkFields, Zenon
    <2> QED
      BY <2>1, Zenon
  <1> QED
    BY <1>1, Zenon DEF Ended

LEMMA EndedEarly ==
  ASSUME NEW buf, NEW type, NEW z, z.err # ""
  PROVE  Ended(buf, type, z) = z
  BY Zenon DEF Ended

\* A message of displays comes back, unless it cannot be carried.
LEMMA DisplaysReturn ==
  ASSUME NEW m, IsMessage(m), m.type = "Displays",
         NEW buf, buf = Encode(m), Len(buf) <= MaxFrame
  PROVE  /\ buf \in Seq(Byte) /\ Len(buf) > 0
         /\ Carried(m) => Decode(buf) = Ok(Len(buf), Arriving(m))
         /\ ~ Carried(m) => Decode(buf).err # ""
  <1>1. PICK ds : ds = m.displays
    OBVIOUS
  <1>2. /\ m = [type |-> "Displays", displays |-> ds]
        /\ ds \in Seq(Range(ds))
        /\ \A i \in DOMAIN ds : IsDisplay(ds[i])
    BY <1>1, Zenon DEF IsMessage
  <1>3. PICK S : S = Range(ds)
    OBVIOUS
  <1>4. PICK n \in Nat : n = Len(ds) /\ DOMAIN ds = 1..n /\ ds \in Seq(S)
    BY <1>2, <1>3
  <1>5. \A i \in 1..Len(ds) : IsDisplay(ds[i])
    BY <1>2, <1>4
  <1>6. PICK rest : rest = PutDisplays(ds)
    OBVIOUS
  <1>7. buf = Tag["Displays"] \o rest /\ "Displays" \in DOMAIN Tag
    BY <1>1, <1>6, TypesAre DEF Encode, Types
  <1>8. rest \in Seq(Byte)
    <2>1. PICK s : s = [i \in DOMAIN ds |-> PutFields(ds[i], DisplayPuts)]
      OBVIOUS
    <2>2. PICK D : D = Seq(Byte)
      OBVIOUS
    <2>3. \A i \in 1..n : PutFields(ds[i], DisplayPuts) \in D
      BY <1>4, <1>5, <2>2, DisplayNotEmpty
    <2>4. s \in [1..n -> D]
      BY <1>4, <2>1, <2>3
    <2>5. s \in Seq(Seq(Byte))
      BY <2>2, <2>4
    <2>6. PICK f \in Seq(Byte) : f = FlattenSeq(s)
      BY <2>5, FlattenType
    <2>7. PICK l \in Seq(Byte) : l = LittleEndian(n, 2)
      BY Lengths
    <2>8. rest = l \o f
      BY <1>4, <1>6, <2>1, <2>6, <2>7 DEF PutDisplays
    <2> QED
      BY <2>8, Concat
  <1>9. PICK p \in Nat : /\ buf \in Seq(Byte)
                         /\ Len(buf) = p + Len(rest)
                         /\ Len(buf) > 0
                         /\ Lies(buf, p, rest)
                         /\ GetType(buf) = Ok(p, "Displays")
    <2>1. PICK type \in DOMAIN Tag : type = "Displays"
      BY <1>7
    <2>2. buf = Tag[type] \o rest
      BY <1>7, <2>1
    <2>3. PICK p \in Nat : /\ buf \in Seq(Byte)
                           /\ Len(buf) = p + Len(rest)
                           /\ Len(buf) > 0
                           /\ Lies(buf, p, rest)
                           /\ GetType(buf) = Ok(p, type)
      BY <1>8, <2>2, Parts
    <2> QED
      BY <2>1, <2>3
  <1>10. /\ DisplaysCarried(ds) =>
              GetDisplays(buf, p) = Ok(p + Len(rest), [i \in 1..Len(ds) |-> ClipTexts(ds[i])])
         /\ ~ DisplaysCarried(ds) => Refused(GetDisplays(buf, p), p + Len(rest))
    <2>1. buf \in Seq(Byte) /\ Lies(buf, p, rest)
      BY <1>9
    <2> QED
      BY <1>4, <1>5, <1>6, <2>1, DisplaysBack
  <1>11. Carried(m) <=> DisplaysCarried(ds)
    BY <1>1, <1>4, Zenon DEF Carried, DisplaysCarried
  <1>12. PICK r : r = GetDisplays(buf, p)
    OBVIOUS
  <1>13. Decode(buf) = Ended(buf, "Displays", AsDisplays(r))
    <2>1. GetType(buf) = Ok(p, "Displays")
      BY <1>9
    <2> QED
      BY <1>12, <2>1, DecodeIs, Zenon
  <1>14. PICK e \in Nat : e = Len(buf) /\ e = p + Len(rest)
    BY <1>9
  <1>15. PICK V : V = [i \in 1..n |-> ClipTexts(ds[i])]
    OBVIOUS
  <1>16. ASSUME NEW a, NEW v, r = Ok(a, v) PROVE AsDisplays(r) = Ok(a, [displays |-> v])
    <2>1. r.err = "" /\ r.at = a /\ r.v = v
      <3>1. Ok(a, v).err = "" /\ Ok(a, v).at = a /\ Ok(a, v).v = v
        BY OkFields, Zenon
      <3> QED
        BY <1>16, <3>1, Zenon
    <2> QED
      BY <2>1, Zenon DEF AsDisplays
  <1>17. OfType("Displays", [displays |-> V]) = Arriving(m)
    <2>1. Arriving(m) = [m EXCEPT !.displays = V]
      BY <1>1, <1>4, <1>15 DEF Arriving
    <2>2. Arriving(m) = [type |-> "Displays", displays |-> V]
      BY <1>2, <2>1
    <2>3. PICK g : g = [displays |-> V]
      OBVIOUS
    <2>4. DOMAIN g = {"displays"} /\ g["displays"] = V
      BY <2>3
    <2>5. OfType("Displays", g) = [f \in {"displays", "type"} |-> IF f = "type" THEN "Displays" ELSE g[f]]
      BY <2>4 DEF OfType
    <2> QED
      BY <2>2, <2>3, <2>4, <2>5
  <1>18. ASSUME Carried(m) PROVE Decode(buf) = Ok(Len(buf), Arriving(m))
    <2>1. r = Ok(e, V)
      BY <1>4, <1>10, <1>11, <1>12, <1>14, <1>15, <1>18
    <2>2. AsDisplays(r) = Ok(e, [displays |-> V])
      BY <1>16, <2>1
    <2>3. ~ (e < Len(buf))
      BY <1>14
    <2>5. PICK g : g = [displays |-> V]
      OBVIOUS
    <2>6. PICK z : z = AsDisplays(r)
      OBVIOUS
    <2>7. z = Ok(e, g)
      BY <2>2, <2>5, <2>6
    <2>8. Ended(buf, "Displays", z) = Ok(e, OfType("Displays", g))
      BY <2>3, <2>7, EndedAt
    <2>4. Decode(buf) = Ok(e, OfType("Displays", [displays |-> V]))
      BY <1>13, <2>5, <2>6, <2>8, Zenon
    <2> QED
      BY <1>14, <1>17, <2>4, Zenon
  <1>19. ASSUME ~ Carried(m) PROVE Decode(buf).err # ""
    <2>1. Refused(r, e)
      BY <1>10, <1>11, <1>12, <1>14, <1>19
    <2>2. CASE r.err # ""
      <3>1. AsDisplays(r) = r
        BY <2>2, Zenon DEF AsDisplays
      <3>2. Decode(buf) = r
        BY <1>13, <2>2, <3>1, EndedEarly, Zenon
      <3> QED
        BY <2>2, <3>2
    <2>3. CASE r.err = "" /\ r.at < e
      <3>1. AsDisplays(r) = Ok(r.at, [displays |-> r.v])
        BY <2>3, Zenon DEF AsDisplays
      <3>2. r.at < Len(buf)
        BY <1>14, <2>3, Zenon
      <3>7. PICK z : z = AsDisplays(r)
        OBVIOUS
      <3>8. PICK a : a = r.at
        OBVIOUS
      <3>9. PICK g : g = [displays |-> r.v]
        OBVIOUS
      <3>10. z = Ok(a, g) /\ a < Len(buf)
        BY <3>1, <3>2, <3>7, <3>8, <3>9
      <3>11. Ended(buf, "Displays", z) = Err("Invalid")
        BY <3>10, EndedAt
      <3>3. Decode(buf) = Err("Invalid")
        BY <1>13, <3>7, <3>11, Zenon
      <3>4. PICK x : x = Decode(buf)
        OBVIOUS
      <3>5. x.err = "Invalid"
        BY <3>3, <3>4, ErrIs
      <3>6. x.err # ""
        BY <3>5
      <3> QED
        BY <3>4, <3>6
    <2> QED
      BY <2>1, <2>2, <2>3 DEF Refused
  <1> QED
    BY <1>9, <1>18, <1>19

\* So does every other.
LEMMA FieldsReturn ==
  ASSUME NEW m, IsMessage(m), m.type # "Displays",
         NEW buf, buf = Encode(m), Len(buf) <= MaxFrame
  PROVE  /\ buf \in Seq(Byte) /\ Len(buf) > 0
         /\ Carried(m) => Decode(buf) = Ok(Len(buf), Arriving(m))
         /\ ~ Carried(m) => Decode(buf).err # ""
  <1>1. PICK type \in DOMAIN Tag : type = m.type
    BY DEF IsMessage
  <1>2. type \in DOMAIN Puts
    BY <1>1, TypesAre
  <1>3. PICK puts : puts = Puts[type]
    OBVIOUS
  <1>4. PICK gets : gets = Gets[type]
    OBVIOUS
  <1>5. HasShape(m, puts, {"type"})
    BY <1>1, <1>3, Zenon DEF IsMessage
  <1>6. PICK n : Alike(puts, gets, n) /\ TextsNamed(puts, n)
    BY <1>2, <1>3, <1>4, MessageShape
  <1>7. {"type"} \cap Texts = {}
    BY DEF Texts
  <1>8. /\ Gotten(m, puts) = [f \in Names(puts) |-> IF f \in Texts THEN Clip(m[f]) ELSE m[f]]
        /\ AllReadable(m, puts, n) <=> TextsWhole(m)
        /\ \A i \in 1..n : m[puts[i][1]] \in Values[puts[i][2]]
    BY <1>5, <1>6, <1>7, FieldsArrive
  <1>9. PICK rest : rest = PutFields(m, puts)
    OBVIOUS
  <1>10. rest \in Seq(Byte)
    BY <1>6, <1>8, <1>9, PutFieldsType
  <1>11. buf = Tag[type] \o rest
    BY <1>1, <1>3, <1>9, Zenon DEF Encode
  <1>12. PICK p \in Nat : /\ buf \in Seq(Byte)
                          /\ Len(buf) = p + Len(rest)
                          /\ Len(buf) > 0
                          /\ Lies(buf, p, rest)
                          /\ GetType(buf) = Ok(p, type)
    BY <1>10, <1>11, Parts
  <1>13. PICK e \in Nat : e = Len(buf) /\ e = p + Len(rest)
    BY <1>12
  <1>14. GetFields(buf, p, gets) =
            IF AllReadable(m, puts, n) THEN Ok(e, Gotten(m, puts)) ELSE Err("Utf8")
    <2>1. buf \in Seq(Byte) /\ Lies(buf, p, PutFields(m, puts))
      BY <1>9, <1>12
    <2>2. GetFields(buf, p, gets) =
            IF AllReadable(m, puts, n)
              THEN Ok(p + Len(PutFields(m, puts)), Gotten(m, puts)) ELSE Err("Utf8")
      BY <1>6, <1>8, <2>1, FieldsBack
    <2> QED
      BY <1>9, <1>13, <2>2
  <1>15. Decode(buf) = Ended(buf, type, GetFields(buf, p, gets))
    <2>1. GetType(buf) = Ok(p, type)
      BY <1>12
    <2>2. type # "Displays"
      BY <1>1
    <2> QED
      BY <1>4, <2>1, <2>2, DecodeIs, Zenon
  <1>16. Carried(m) <=> TextsWhole(m)
    BY Zenon DEF Carried
  <1>17. OfType(type, Gotten(m, puts)) = Arriving(m)
    <2>1. Arriving(m) = ClipTexts(m)
      BY Zenon DEF Arriving
    <2>2. PICK g : g = Gotten(m, puts)
      OBVIOUS
    <2>3. DOMAIN g = Names(puts) /\ \A f \in Names(puts) : g[f] = IF f \in Texts THEN Clip(m[f]) ELSE m[f]
      BY <1>8, <2>2
    <2>4. OfType(type, g) = [f \in Names(puts) \cup {"type"} |-> IF f = "type" THEN type ELSE g[f]]
      BY <2>3 DEF OfType
    <2>5. DOMAIN m = Names(puts) \cup {"type"}
      BY <1>5 DEF HasShape
    <2>6. \A f \in Names(puts) \cup {"type"} :
             (IF f = "type" THEN type ELSE g[f]) = IF f \in Texts THEN Clip(m[f]) ELSE m[f]
      <3> TAKE f \in Names(puts) \cup {"type"}
      <3>1. CASE f = "type"
        <4>1. m["type"] = type /\ f \notin Texts
          BY <1>1, <1>7, <3>1
        <4> QED
          BY <3>1, <4>1
      <3>2. CASE f # "type"
        BY <2>3, <3>2
      <3> QED
        BY <3>1, <3>2
    <2>7. OfType(type, g) = ClipTexts(m)
      BY <2>4, <2>5, <2>6 DEF ClipTexts
    <2> QED
      BY <2>1, <2>2, <2>7
  <1>18. ASSUME Carried(m) PROVE Decode(buf) = Ok(Len(buf), Arriving(m))
    <2>1. GetFields(buf, p, gets) = Ok(e, Gotten(m, puts))
      BY <1>8, <1>14, <1>16, <1>18
    <2>2. ~ (e < Len(buf))
      BY <1>13
    <2>3. Decode(buf) = Ok(e, OfType(type, Gotten(m, puts)))
      <3>1. PICK z : z = GetFields(buf, p, gets)
        OBVIOUS
      <3>2. PICK g : g = Gotten(m, puts)
        OBVIOUS
      <3>3. z = Ok(e, g)
        BY <2>1, <3>1, <3>2
      <3>4. Ended(buf, type, z) = Ok(e, OfType(type, g))
        BY <2>2, <3>3, EndedAt
      <3> QED
        BY <1>15, <3>1, <3>2, <3>4, Zenon
    <2> QED
      BY <1>13, <1>17, <2>3, Zenon
  <1>19. ASSUME ~ Carried(m) PROVE Decode(buf).err # ""
    <2>1. PICK x : x = Err("Utf8")
      OBVIOUS
    <2>2. x.err = "Utf8"
      BY <2>1, ErrIs
    <2>3. x.err # ""
      BY <2>2
    <2>4. GetFields(buf, p, gets) = x
      BY <1>8, <1>14, <1>16, <1>19, <2>1
    <2>5. Decode(buf) = x
      BY <1>15, <2>3, <2>4, EndedEarly, Zenon
    <2> QED
      BY <2>3, <2>5
  <1> QED
    BY <1>12, <1>18, <1>19

\* What Message::encode writes, Message::decode reads: the same message, its
\* texts cut to the limit, if each was cut between two characters and there
\* are no more displays than it reads, and otherwise an error.
THEOREM RoundTrip ==
  ASSUME NEW m, IsMessage(m), Fits(Encode(m))
  PROVE  /\ Encode(m) \in Seq(Byte)
         /\ Carried(m) => Decode(Encode(m)) = Ok(Len(Encode(m)), Arriving(m))
         /\ ~ Carried(m) => Decode(Encode(m)).err # ""
  <1>1. PICK buf : buf = Encode(m)
    OBVIOUS
  <1>2. Len(buf) <= MaxFrame
    BY <1>1, SmallLengths DEF Fits
  <1>3. CASE m.type = "Displays"
    BY <1>1, <1>2, <1>3, DisplaysReturn
  <1>4. CASE m.type # "Displays"
    BY <1>1, <1>2, <1>4, FieldsReturn
  <1> QED
    BY <1>3, <1>4

-----------------------------------------------------------------------------
(* The bytes of a connection: the frames of the messages written             *)

Corpus == UNION {Range(s) : s \in Scripts}

LEMMA CorpusIs ==
  /\ \A m \in Corpus : IsMessage(m)
  /\ \A s \in Scripts : s \in Seq(Corpus)
  <1>1. ASSUME NEW s \in Scripts PROVE s \in Seq(Corpus) /\ \A m \in Range(s) : IsMessage(m)
    <2>1. s \in Seq(Range(s)) /\ \A i \in DOMAIN s : IsMessage(s[i])
      BY ScriptsAssumption
    <2>2. PICK R : R = Range(s)
      OBVIOUS
    <2>3. R \subseteq Corpus
      BY <2>2 DEF Corpus
    <2>4. s \in Seq(Corpus)
      BY <2>1, <2>2, <2>3
    <2>5. \A m \in Range(s) : \E i \in DOMAIN s : m = s[i]
      BY DEF Range
    <2> QED
      BY <2>1, <2>4, <2>5
  <1> QED
    BY <1>1 DEF Corpus

Frame(m) == LittleEndian(Len(Encode(m)), 4) \o Encode(m)

Frames(w) == [i \in DOMAIN w |-> Frame(w[i])]

Sent(w) == FlattenSeq(Frames(w))

\* Where the frame after the first k begins.
Base(w, k) == Len(Joined(Frames(w))[k])

Writable(w) == w \in Seq(Corpus) /\ \A i \in 1..Len(w) : Fits(Encode(w[i]))

LEMMA FrameIs ==
  ASSUME NEW m, IsMessage(m), Fits(Encode(m)), NEW f, f = Frame(m), NEW e, e = Encode(m)
  PROVE  /\ e \in Seq(Byte) /\ Len(e) \in 1..MaxFrame
         /\ f \in Seq(Byte) /\ Len(f) = 4 + Len(e)
         /\ f = LittleEndian(Len(e), 4) \o e
  <1>1. e \in Seq(Byte)
    BY RoundTrip
  <1>2. Len(e) \in 1..MaxFrame
    BY DEF Fits
  <1>3. PICK n \in Nat : n = Len(e)
    BY <1>1
  <1>4. PICK l \in Seq(Byte) : l = LittleEndian(n, 4) /\ Len(l) = 4
    BY Lengths
  <1>5. f = l \o e
    BY <1>3, <1>4 DEF Frame
  <1>6. f \in Seq(Byte) /\ Len(f) = 4 + Len(e)
    <2>1. f \in Seq(Byte) /\ Len(f) = Len(l) + Len(e)
      BY <1>1, <1>5, Concat
    <2> QED
      BY <1>4, <2>1
  <1> QED
    BY <1>1, <1>2, <1>3, <1>4, <1>5, <1>6

LEMMA FramesType ==
  ASSUME NEW w, Writable(w), NEW s, s = Frames(w)
  PROVE  /\ s \in Seq(Seq(Byte)) /\ Len(s) = Len(w)
         /\ \A i \in 1..Len(w) : s[i] = Frame(w[i])
         /\ Sent(w) \in Seq(Byte)
  <1>1. w \in Seq(Corpus) /\ \A i \in 1..Len(w) : Fits(Encode(w[i]))
    BY DEF Writable
  <1>2. PICK n \in Nat : n = Len(w) /\ DOMAIN w = 1..n
    BY <1>1
  <1>3. PICK D : D = Seq(Byte)
    OBVIOUS
  <1>4. ASSUME NEW i \in 1..n PROVE Frame(w[i]) \in D
    <2>1. PICK m \in Corpus : m = w[i] /\ Fits(Encode(m))
      BY <1>1, <1>2
    <2>2. IsMessage(m)
      BY CorpusIs
    <2>3. Frame(m) \in Seq(Byte)
      BY <2>1, <2>2, FrameIs
    <2> QED
      BY <1>3, <2>1, <2>3
  <1>5. s = [i \in 1..n |-> Frame(w[i])]
    BY <1>2 DEF Frames
  <1>6. s \in [1..n -> D]
    BY <1>4, <1>5
  <1>7. s \in Seq(D) /\ Len(s) = n
    BY <1>6
  <1>8. s \in Seq(Seq(Byte))
    BY <1>3, <1>7
  <1>9. FlattenSeq(s) \in Seq(Byte)
    BY <1>8, FlattenType
  <1> QED
    BY <1>2, <1>5, <1>7, <1>8, <1>9 DEF Sent

LEMMA BaseIs ==
  ASSUME NEW w, Writable(w)
  PROVE  /\ Base(w, 0) = 0
         /\ Base(w, Len(w)) = Len(Sent(w))
  <1>1. PICK s : s = Frames(w)
    OBVIOUS
  <1>2. s \in Seq(Seq(Byte)) /\ Len(s) = Len(w)
    BY <1>1, FramesType
  <1>3. Joined(s)[0] = <<>>
    BY <1>2, JoinedDef
  <1>4. FlattenSeq(s) = Joined(s)[Len(s)]
    BY <1>2, FlattenIsJoined
  <1>5. Len(<<>>) = 0
    OBVIOUS
  <1> QED
    BY <1>1, <1>2, <1>3, <1>4, <1>5, Zenon DEF Base, Sent

\* The frame of the next message lies right behind those before it.
LEMMA NextFrame ==
  ASSUME NEW w, Writable(w), NEW k \in Nat, k < Len(w), NEW m, m = w[k + 1],
         NEW f, f = Sent(w), NEW lo, lo = Base(w, k), NEW hi, hi = Base(w, k + 1),
         NEW e, e = Encode(m), NEW l, l = LittleEndian(Len(e), 4)
  PROVE  /\ IsMessage(m) /\ Fits(Encode(m))
         /\ e \in Seq(Byte) /\ Len(e) \in 1..MaxFrame
         /\ l \in Seq(Byte) /\ Len(l) = 4
         /\ lo \in Nat /\ hi = (lo + 4) + Len(e)
         /\ Lies(f, lo, l) /\ Lies(f, lo + 4, e)
  <1>1. PICK s : s = Frames(w)
    OBVIOUS
  <1>2. /\ s \in Seq(Seq(Byte)) /\ Len(s) = Len(w)
        /\ \A i \in 1..Len(w) : s[i] = Frame(w[i])
        /\ f \in Seq(Byte)
    BY <1>1, FramesType
  <1>3. w \in Seq(Corpus) /\ \A i \in 1..Len(w) : Fits(Encode(w[i]))
    BY DEF Writable
  <1>4. PICK i \in 1..Len(s) : i = k + 1 /\ i - 1 = k /\ i \in 1..Len(w)
    BY <1>2, <1>3
  <1>5. m \in Corpus /\ Fits(Encode(m))
    BY <1>3, <1>4
  <1>6. IsMessage(m)
    BY <1>5, CorpusIs
  <1>7. PICK fr : fr = Frame(m)
    OBVIOUS
  <1>8. /\ e \in Seq(Byte) /\ Len(e) \in 1..MaxFrame
        /\ fr \in Seq(Byte) /\ Len(fr) = 4 + Len(e)
        /\ fr = l \o e
    BY <1>5, <1>6, <1>7, FrameIs
  <1>9. l \in Seq(Byte) /\ Len(l) = 4
    <2>1. PICK n \in Nat : n = Len(e)
      BY <1>8
    <2> QED
      BY <2>1, Lengths
  <1>10. s[i] = fr
    BY <1>2, <1>4, <1>7
  <1>11. lo = Len(Joined(s)[i - 1]) /\ hi = Len(Joined(s)[i])
    BY <1>1, <1>4 DEF Base
  <1>13. f = FlattenSeq(s)
    BY <1>1 DEF Sent
  <1>12. lo \in Nat /\ hi = lo + Len(fr) /\ Lies(f, 0 + lo, fr)
    <2>1. PICK at \in Nat : at = 0
      OBVIOUS
    <2>2. Lies(f, at, FlattenSeq(s))
      BY <1>2, <1>13, <2>1, LiesSelf
    <2>3. InPlace(f, at, fr, lo, hi)
      BY <1>2, <1>10, <1>11, <2>2, PieceLies
    <2> QED
      BY <2>1, <2>3 DEF InPlace
  <1>14. Lies(f, lo, fr)
    BY <1>12
  <1>15. Lies(f, lo, l) /\ Lies(f, lo + 4, e)
    <2>1. Lies(f, lo, l \o e)
      BY <1>8, <1>14
    <2>2. Lies(f, lo, l) /\ Lies(f, lo + Len(l), e)
      BY <1>2, <1>8, <1>9, <1>12, <2>1, LiesParts
    <2> QED
      BY <1>9, <2>2
  <1>16. hi = (lo + 4) + Len(e)
    <2>1. PICK n \in Nat : n = Len(e)
      BY <1>8
    <2> QED
      BY <1>8, <1>12, <2>1
  <1> QED
    BY <1>5, <1>6, <1>8, <1>9, <1>12, <1>15, <1>16

\* A message more.
IsOneMore(v, w, m) ==
    /\ Writable(v) /\ Len(v) = Len(w) + 1
    /\ \A i \in 1..Len(w) : v[i] = w[i]
    /\ v[Len(w) + 1] = m
    /\ Sent(v) = Sent(w) \o Frame(m)
    /\ \A k \in 0..Len(w) : Base(v, k) = Base(w, k)

LEMMA OneMore ==
  ASSUME NEW w, Writable(w), NEW m \in Corpus, Fits(Encode(m)), NEW v, v = Append(w, m)
  PROVE  IsOneMore(v, w, m)
  <1>1. w \in Seq(Corpus) /\ \A i \in 1..Len(w) : Fits(Encode(w[i]))
    BY DEF Writable
  <1>2. PICK n \in Nat : n = Len(w)
    BY <1>1
  <1>3. /\ v \in Seq(Corpus) /\ Len(v) = n + 1 /\ v[n + 1] = m
        /\ \A i \in 1..n : v[i] = w[i]
    BY <1>1, <1>2
  <1>4. \A i \in 1..(n + 1) : i \in 1..n \/ i = n + 1
    BY <1>2
  <1>5. Writable(v)
    <2>1. ASSUME NEW i \in 1..Len(v) PROVE Fits(Encode(v[i]))
      <3>1. CASE i \in 1..n
        BY <1>1, <1>2, <1>3, <3>1
      <3>2. CASE i = n + 1
        BY <1>3, <3>2
      <3> QED
        BY <1>3, <1>4, <3>1, <3>2
    <2> QED
      BY <1>3, <2>1 DEF Writable
  <1>6. PICK s : s = Frames(w)
    OBVIOUS
  <1>7. PICK t : t = Frames(v)
    OBVIOUS
  <1>8. PICK f \in Seq(Byte) : f = Frame(m)
    BY CorpusIs, FrameIs
  <1>9. /\ s \in Seq(Seq(Byte)) /\ Len(s) = n
        /\ \A i \in 1..n : s[i] = Frame(w[i])
    BY <1>2, <1>6, FramesType
  <1>10. /\ t \in Seq(Seq(Byte)) /\ Len(t) = n + 1
         /\ \A i \in 1..(n + 1) : t[i] = Frame(v[i])
    <2>1. /\ t \in Seq(Seq(Byte)) /\ Len(t) = Len(v)
          /\ \A i \in 1..Len(v) : t[i] = Frame(v[i])
      BY <1>5, <1>7, FramesType
    <2> QED
      BY <1>3, <2>1
  <1>11. t = Append(s, f)
    <2>1. PICK D : D = Seq(Byte)
      OBVIOUS
    <2>2. PICK q : q = Append(s, f)
      OBVIOUS
    <2>3. q \in Seq(D) /\ Len(q) = n + 1 /\ q[n + 1] = f /\ \A i \in 1..n : q[i] = s[i]
      BY <1>8, <1>9, <2>1, <2>2
    <2>4. t \in Seq(D)
      BY <1>10, <2>1
    <2>5. \A i \in 1..n : t[i] = s[i]
      <3> TAKE i \in 1..n
      <3>1. i \in 1..(n + 1)
        BY <1>2
      <3> QED
        BY <1>3, <1>9, <1>10, <3>1
    <2>6. t[n + 1] = f
      <3>1. n + 1 \in 1..(n + 1)
        BY <1>2
      <3> QED
        BY <1>3, <1>8, <1>10, <3>1
    <2>7. \A i \in 1..(n + 1) : t[i] = q[i]
      BY <1>4, <2>3, <2>5, <2>6
    <2>8. t = q
      BY <1>10, <2>3, <2>4, <2>7, SeqEqual
    <2> QED
      BY <2>2, <2>8
  <1>12. /\ \A i \in 0..Len(s) : Joined(Append(s, f))[i] = Joined(s)[i]
         /\ FlattenSeq(Append(s, f)) = FlattenSeq(s) \o f
    BY <1>8, <1>9, JoinedAppend
  <1>13. Sent(v) = Sent(w) \o Frame(m)
    BY <1>6, <1>7, <1>8, <1>11, <1>12 DEF Sent
  <1>14. \A k \in 0..n : Base(v, k) = Base(w, k)
    BY <1>6, <1>7, <1>9, <1>11, <1>12 DEF Base
  <1> QED
    BY <1>2, <1>3, <1>5, <1>13, <1>14 DEF IsOneMore

Ends(buf, at, q) == at + Len(q) = Len(buf)

LEMMA LiesJoin ==
  ASSUME NEW buf \in Seq(Byte), NEW at \in Nat, NEW q \in Seq(Byte), Lies(buf, at, q),
         Ends(buf, at, q), NEW f \in Seq(Byte),
         NEW all, all = buf \o f, NEW longer, longer = q \o f
  PROVE  Lies(all, at, longer) /\ Ends(all, at, longer)
  <1>1. PICK n \in Nat : n = Len(q)
    OBVIOUS
  <1>2. PICK l \in Nat : l = Len(f)
    OBVIOUS
  <1>3. PICK b \in Nat : b = Len(buf) /\ b = at + n
    BY <1>1 DEF Ends
  <1>4. \A k \in 1..n : buf[at + k] = q[k]
    BY <1>1 DEF Lies
  <1>5. Len(all) = b + l /\ \A k \in 1..(b + l) : all[k] = IF k <= b THEN buf[k] ELSE f[k - b]
    <2>1. PICK c \in Nat : c = Len(buf)
      OBVIOUS
    <2>2. Len(all) = c + l /\ \A k \in 1..(c + l) : all[k] = IF k <= c THEN buf[k] ELSE f[k - c]
      BY <1>2, <2>1
    <2>3. c = b
      BY <1>3, <2>1
    <2> QED
      BY <2>2, <2>3, Zenon
  <1>6. Len(longer) = n + l /\ \A k \in 1..(n + l) : longer[k] = IF k <= n THEN q[k] ELSE f[k - n]
    BY <1>1, <1>2
  <1>7. ASSUME NEW k \in 1..(n + l) PROVE all[at + k] = longer[k]
    <2>1. PICK j \in 1..(b + l) : j = at + k
      BY <1>3
    <2>2. CASE k <= n
      <3>1. j <= b /\ k \in 1..n
        BY <1>3, <2>1, <2>2
      <3> QED
        BY <1>4, <1>5, <1>6, <2>1, <2>2, <3>1
    <2>3. CASE ~ (k <= n)
      <3>1. ~ (j <= b) /\ j - b = k - n
        BY <1>3, <2>1, <2>3
      <3>2. all[j] = f[k - n]
        BY <1>5, <2>1, <3>1
      <3> QED
        BY <1>6, <2>1, <2>3, <3>2
    <2> QED
      BY <2>2, <2>3
  <1>8. at + (n + l) = b + l
    BY <1>3
  <1>9. Lies(all, at, longer)
    BY <1>5, <1>6, <1>7, <1>8 DEF Lies
  <1> QED
    BY <1>5, <1>6, <1>8, <1>9 DEF Ends

LEMMA LiesPrefix ==
  ASSUME NEW buf \in Seq(Byte), NEW at \in Nat, NEW q \in Seq(Byte), Lies(buf, at, q),
         NEW n \in 0..Len(q), NEW p, p = SubSeq(q, 1, n)
  PROVE  p \in Seq(Byte) /\ Len(p) = n /\ Lies(buf, at, p)
  <1>1. p \in Seq(Byte) /\ Len(p) = n /\ \A k \in 1..n : p[k] = q[k]
    OBVIOUS
  <1>2. n <= Len(q) /\ \A k \in 1..n : k \in 1..Len(q)
    OBVIOUS
  <1>3. at + Len(q) <= Len(buf) /\ \A k \in 1..Len(q) : buf[at + k] = q[k]
    BY DEF Lies
  <1>4. \A k \in 1..n : buf[at + k] = p[k]
    BY <1>1, <1>2, <1>3
  <1>5. at + n <= Len(buf)
    BY <1>2, <1>3
  <1> QED
    BY <1>1, <1>4, <1>5 DEF Lies

LEMMA LiesBoth ==
  ASSUME NEW buf \in Seq(Byte), NEW at \in Nat, NEW p \in Seq(Byte), NEW q \in Seq(Byte),
         Lies(buf, at, p), NEW next, next = at + Len(p), Lies(buf, next, q)
  PROVE  Lies(buf, at, p \o q)
  <1>1. PICK m \in Nat : m = Len(p)
    OBVIOUS
  <1>2. PICK n \in Nat : n = Len(q)
    OBVIOUS
  <1>3. PICK w : w = p \o q
    OBVIOUS
  <1>4. Len(w) = m + n /\ \A k \in 1..(m + n) : w[k] = IF k <= m THEN p[k] ELSE q[k - m]
    BY <1>1, <1>2, <1>3
  <1>5. \A k \in 1..m : buf[at + k] = p[k]
    BY <1>1 DEF Lies
  <1>6. PICK a \in Nat : a = next /\ a = at + m
    BY <1>1
  <1>7. a + n <= Len(buf) /\ \A k \in 1..n : buf[a + k] = q[k]
    BY <1>2, <1>6 DEF Lies
  <1>8. ASSUME NEW k \in 1..(m + n) PROVE buf[at + k] = w[k]
    <2>1. CASE k <= m
      <3>1. k \in 1..m
        BY <2>1
      <3> QED
        BY <1>4, <1>5, <2>1, <3>1
    <2>2. CASE ~ (k <= m)
      <3>1. PICK j \in 1..n : j = k - m /\ a + j = at + k
        BY <1>6, <2>2
      <3>2. buf[a + j] = q[j]
        BY <1>7
      <3> QED
        BY <1>4, <2>2, <3>1, <3>2
    <2> QED
      BY <2>1, <2>2
  <1>9. at + (m + n) <= Len(buf)
    BY <1>6, <1>7
  <1> QED
    BY <1>3, <1>4, <1>8, <1>9 DEF Lies

\* What lies at the same place is the same.
LEMMA LiesSame ==
  ASSUME NEW buf \in Seq(Byte), NEW at \in Nat, NEW p \in Seq(Byte), NEW q \in Seq(Byte),
         Lies(buf, at, p), Lies(buf, at, q), Len(p) = Len(q)
  PROVE  p = q
  <1>1. PICK n \in Nat : n = Len(p) /\ n = Len(q)
    OBVIOUS
  <1>2. \A k \in 1..n : p[k] = q[k]
    BY <1>1 DEF Lies
  <1> QED
    BY <1>1, <1>2, SeqEqual

LEMMA Reassociate ==
  ASSUME NEW p \in Seq(Byte), NEW q \in Seq(Byte), NEW t \in Seq(Byte)
  PROVE  p \o (q \o t) = (p \o q) \o t
  <1>1. PICK B : B = Byte
    OBVIOUS
  <1>2. p \in Seq(B) /\ q \in Seq(B) /\ t \in Seq(B)
    BY <1>1
  <1> QED
    BY <1>2, ConcatAssociative

Rejoins(h, p, q, n, first, rest) ==
    /\ first \in Seq(Byte) /\ Len(first) = n
    /\ rest \in Seq(Byte)
    /\ p \o first \in Seq(Byte) /\ Len(p \o first) = Len(p) + n
    /\ (h \o (p \o first)) \o rest = (h \o p) \o q

LEMMA Rejoin ==
  ASSUME NEW h \in Seq(Byte), NEW p \in Seq(Byte), NEW q \in Seq(Byte), NEW n \in 1..Len(q),
         NEW first, first = SubSeq(q, 1, n), NEW rest, rest = SubSeq(q, n + 1, Len(q))
  PROVE  Rejoins(h, p, q, n, first, rest)
  <1>1. PICK l \in Nat : l = Len(q)
    OBVIOUS
  <1>2. first \in Seq(Byte) /\ Len(first) = n /\ \A k \in 1..n : first[k] = q[k]
    OBVIOUS
  <1>3. rest \in Seq(Byte) /\ Len(rest) = l - n /\ \A k \in 1..(l - n) : rest[k] = q[n + k]
    BY <1>1
  <1>4. PICK w : w = first \o rest
    OBVIOUS
  <1>5. w \in Seq(Byte) /\ Len(w) = l
    BY <1>1, <1>2, <1>3, <1>4
  <1>6. \A k \in 1..l : w[k] = IF k <= n THEN first[k] ELSE rest[k - n]
    BY <1>1, <1>2, <1>3, <1>4
  <1>7. \A k \in 1..l : w[k] = q[k]
    <2> TAKE k \in 1..l
    <2>1. CASE k <= n
      BY <1>2, <1>6, <2>1
    <2>2. CASE ~ (k <= n)
      <3>1. PICK j \in 1..(l - n) : j = k - n /\ n + j = k
        BY <1>1, <2>2
      <3> QED
        BY <1>3, <1>6, <2>2, <3>1
    <2> QED
      BY <2>1, <2>2
  <1>8. w = q
    BY <1>1, <1>5, <1>7, SeqEqual
  <1>9. PICK pf : pf = p \o first
    OBVIOUS
  <1>10. pf \in Seq(Byte) /\ Len(pf) = Len(p) + n
    BY <1>2, <1>9, Concat
  <1>11. PICK hp : hp = h \o p
    OBVIOUS
  <1>12. h \o pf = hp \o first
    <2>1. h \o (p \o first) = (h \o p) \o first
      BY <1>2, Reassociate
    <2> QED
      BY <1>9, <1>11, <2>1
  <1>13. hp \in Seq(Byte)
    BY <1>11, Concat
  <1>14. (hp \o first) \o rest = hp \o w
    <2>1. hp \o (first \o rest) = (hp \o first) \o rest
      BY <1>2, <1>3, <1>13, Reassociate
    <2> QED
      BY <1>4, <2>1
  <1> QED
    BY <1>2, <1>3, <1>8, <1>9, <1>10, <1>11, <1>12, <1>14, Zenon DEF Rejoins

-----------------------------------------------------------------------------
(* The bytes under way: those read of a frame, and those in the pipe         *)

HeldOf(b, p) == (IF b = 0 THEN <<>> ELSE LittleEndian(b, 4)) \o p

WantedIn(b) == IF b = 0 THEN 4 ELSE b

\* With k messages of w read, a length or body b in part read as p, and q in
\* the pipe.
LinedUp(w, k, b, p, q, st) ==
    /\ Lies(Sent(w), Base(w, k), HeldOf(b, p) \o q)
    /\ st # "cut" => Ends(Sent(w), Base(w, k), HeldOf(b, p) \o q)

UnderWay(w, k, b, p, q, st) ==
    /\ LinedUp(w, k, b, p, q, st)
    /\ Len(p) < WantedIn(b)
    /\ b # 0 => k < Len(w) /\ b = Len(Encode(w[k + 1]))

LEMMA HeldIs ==
  ASSUME NEW b \in Nat, NEW p \in Seq(Byte), NEW h, h = HeldOf(b, p)
  PROVE  /\ h \in Seq(Byte)
         /\ b = 0 => h = p
         /\ b # 0 => h = LittleEndian(b, 4) \o p
  <1>1. CASE b = 0
    <2>1. h = <<>> \o p
      BY <1>1, Zenon DEF HeldOf
    <2>2. <<>> \o p = p
      <3>1. PICK B : B = Byte
        OBVIOUS
      <3> QED
        BY <3>1, ConcatEmptySeq
    <2> QED
      BY <1>1, <2>1, <2>2
  <1>2. CASE b # 0
    <2>1. h = LittleEndian(b, 4) \o p
      BY <1>2, Zenon DEF HeldOf
    <2>2. PICK l \in Seq(Byte) : l = LittleEndian(b, 4)
      BY Lengths
    <2>3. h \in Seq(Byte)
      BY <2>1, <2>2, Concat
    <2> QED
      BY <1>2, <2>1, <2>3
  <1> QED
    BY <1>1, <1>2

LEMMA BaseType ==
  ASSUME NEW w, Writable(w), NEW k \in 0..Len(w)
  PROVE  Base(w, k) \in Nat /\ k \in Nat /\ Sent(w) \in Seq(Byte)
  <1>1. PICK s : s = Frames(w)
    OBVIOUS
  <1>2. s \in Seq(Seq(Byte)) /\ Len(s) = Len(w) /\ Sent(w) \in Seq(Byte)
    BY <1>1, FramesType
  <1>3. PICK D : D = Seq(Byte)
    OBVIOUS
  <1>4. PICK J : J = Joined(s)
    OBVIOUS
  <1>5. J \in [0..Len(s) -> D]
    BY <1>2, <1>3, <1>4, JoinedDef
  <1>6. PICK x \in D : x = J[k]
    BY <1>2, <1>5
  <1>7. Len(x) \in Nat
    BY <1>3, <1>6
  <1>8. k \in Nat
    BY DEF Writable
  <1> QED
    BY <1>1, <1>2, <1>4, <1>6, <1>7, <1>8 DEF Base

\* A message is written.
LEMMA Writing ==
  ASSUME NEW w, Writable(w), NEW m \in Corpus, Fits(Encode(m)), NEW k \in 0..Len(w),
         NEW b \in Nat, NEW p \in Seq(Byte), NEW q \in Seq(Byte), UnderWay(w, k, b, p, q, "open"),
         NEW v, v = Append(w, m), NEW e, e = Encode(m), NEW l, l = LittleEndian(Len(e), 4),
         NEW more, more = (q \o l) \o e
  PROVE  more \in Seq(Byte) /\ UnderWay(v, k, b, p, more, "open")
  <1>1. PICK f : f = Frame(m)
    OBVIOUS
  <1>2. /\ e \in Seq(Byte) /\ f \in Seq(Byte) /\ f = l \o e
    BY <1>1, CorpusIs, FrameIs
  <1>3. l \in Seq(Byte)
    <2>1. PICK n \in Nat : n = Len(e)
      BY <1>2
    <2> QED
      BY <2>1, Lengths
  <1>4. more = q \o f
    <2>0. e \in Seq(Byte)
      BY <1>2
    <2>1. q \o (l \o e) = (q \o l) \o e
      BY <1>3, <2>0, Reassociate, Zenon
    <2> QED
      BY <1>2, <2>1
  <1>5. more \in Seq(Byte)
    BY <1>2, <1>4, Concat
  <1>6. PICK h \in Seq(Byte) : h = HeldOf(b, p)
    BY HeldIs
  <1>7. PICK u \in Seq(Byte) : u = h \o q
    BY Concat
  <1>8. h \o more = u \o f
    <2>0. f \in Seq(Byte) /\ h \in Seq(Byte)
      BY <1>2, <1>6
    <2>1. h \o (q \o f) = (h \o q) \o f
      BY <2>0, Reassociate, Zenon
    <2> QED
      BY <1>4, <1>7, <2>1
  <1>9. PICK s \in Seq(Byte) : s = Sent(w)
    BY BaseType
  <1>10. PICK at \in Nat : at = Base(w, k)
    BY BaseType
  <1>11. Lies(s, at, u) /\ Ends(s, at, u)
    BY <1>6, <1>7, <1>9, <1>10 DEF UnderWay, LinedUp
  <1>12. PICK longer : longer = u \o f
    OBVIOUS
  <1>13. PICK all : all = s \o f
    OBVIOUS
  <1>14. Lies(all, at, longer) /\ Ends(all, at, longer)
    <2>1. f \in Seq(Byte) /\ u \in Seq(Byte) /\ s \in Seq(Byte) /\ at \in Nat
      BY <1>2, <1>7, <1>9, <1>10
    <2> QED
      BY <2>1, <1>11, <1>12, <1>13, LiesJoin
  <1>15. /\ Len(v) = Len(w) + 1
         /\ \A i \in 1..Len(w) : v[i] = w[i]
         /\ Sent(v) = Sent(w) \o Frame(m)
         /\ \A i \in 0..Len(w) : Base(v, i) = Base(w, i)
    <2>1. IsOneMore(v, w, m)
      BY OneMore
    <2> QED
      BY <2>1 DEF IsOneMore
  <1>16. Sent(v) = all /\ Base(v, k) = at
    BY <1>1, <1>9, <1>10, <1>13, <1>15
  <1>17. Len(p) < WantedIn(b)
    BY DEF UnderWay, LinedUp
  <1>18. ASSUME b # 0 PROVE k < Len(v) /\ b = Len(Encode(v[k + 1]))
    <2>1. k < Len(w) /\ b = Len(Encode(w[k + 1]))
      BY <1>18 DEF UnderWay, LinedUp
    <2>2. Len(w) \in Nat /\ k \in Nat
      BY DEF Writable
    <2>3. k + 1 \in 1..Len(w)
      BY <2>1, <2>2
    <2> QED
      BY <1>15, <2>1, <2>2, <2>3
  <1> QED
    BY <1>5, <1>6, <1>8, <1>12, <1>14, <1>16, <1>17, <1>18 DEF UnderWay, LinedUp

\* The stream is cut.
LEMMA Cutting ==
  ASSUME NEW w, Writable(w), NEW k \in 0..Len(w), NEW b \in Nat, NEW p \in Seq(Byte),
         NEW q \in Seq(Byte), NEW st, UnderWay(w, k, b, p, q, st),
         NEW n \in 0..Len(q), NEW left, left = SubSeq(q, 1, n)
  PROVE  left \in Seq(Byte) /\ UnderWay(w, k, b, p, left, "cut")
  <1>1. PICK h \in Seq(Byte) : h = HeldOf(b, p)
    BY HeldIs
  <1>2. PICK s \in Seq(Byte) : s = Sent(w)
    BY BaseType
  <1>3. PICK at \in Nat : at = Base(w, k)
    BY BaseType
  <1>4. Lies(s, at, h \o q)
    BY <1>1, <1>2, <1>3 DEF UnderWay, LinedUp
  <1>5. Lies(s, at, h) /\ Lies(s, at + Len(h), q)
    BY <1>4, LiesParts
  <1>6. PICK at2 \in Nat : at2 = at + Len(h)
    OBVIOUS
  <1>7. left \in Seq(Byte) /\ Lies(s, at2, left)
    <2>1. Lies(s, at2, q)
      BY <1>5, <1>6, Zenon
    <2> QED
      BY <2>1, LiesPrefix, ZenonT(60)
  <1>8. Lies(s, at, h \o left)
    BY <1>5, <1>6, <1>7, LiesBoth
  <1>9. Len(p) < WantedIn(b) /\ (b # 0 => k < Len(w) /\ b = Len(Encode(w[k + 1])))
    BY DEF UnderWay, LinedUp
  <1> QED
    BY <1>1, <1>2, <1>3, <1>7, <1>8, <1>9 DEF UnderWay, LinedUp

LEMMA NoBytes == <<>> \in Seq(Byte) /\ Len(<<>>) = 0
  BY EmptySeq

\* A read of n bytes from a pipe q, and what is there after it.
Takes(p, q, n, bytes, rest) ==
    bytes = p \o SubSeq(q, 1, n) /\ rest = SubSeq(q, n + 1, Len(q))

StillLinedUp(w, k, b, p, n, st, bytes, rest) ==
    /\ bytes \in Seq(Byte) /\ Len(bytes) = Len(p) + n
    /\ rest \in Seq(Byte)
    /\ LinedUp(w, k, b, bytes, rest, st)

\* Some bytes are read.
LEMMA Reading ==
  ASSUME NEW w, Writable(w), NEW k \in 0..Len(w), NEW b \in Nat, NEW p \in Seq(Byte),
         NEW q \in Seq(Byte), NEW st, LinedUp(w, k, b, p, q, st), NEW n \in 1..Len(q),
         NEW bytes, NEW rest, Takes(p, q, n, bytes, rest)
  PROVE  StillLinedUp(w, k, b, p, n, st, bytes, rest)
  <1>0. bytes = p \o SubSeq(q, 1, n) /\ rest = SubSeq(q, n + 1, Len(q))
    BY DEF Takes
  <1>1. PICK first : first = SubSeq(q, 1, n)
    OBVIOUS
  <1>2. PICK t \in Seq(Byte) : t = IF b = 0 THEN <<>> ELSE LittleEndian(b, 4)
    <2>1. CASE b = 0
      BY <2>1, NoBytes
    <2>2. CASE b # 0
      <3>1. LittleEndian(b, 4) \in Seq(Byte)
        BY Lengths
      <3> QED
        BY <2>2, <3>1, Zenon
    <2> QED
      BY <2>1, <2>2
  <1>3. /\ first \in Seq(Byte) /\ Len(first) = n
        /\ rest \in Seq(Byte)
        /\ p \o first \in Seq(Byte) /\ Len(p \o first) = Len(p) + n
        /\ (t \o (p \o first)) \o rest = (t \o p) \o q
    <2>1. t \in Seq(Byte)
      BY <1>2
    <2>2. Rejoins(t, p, q, n, first, rest)
      BY <1>0, <1>1, <2>1, Rejoin
    <2> QED
      BY <2>2 DEF Rejoins
  <1>4. bytes = p \o first
    BY <1>0, <1>1
  <1>5. HeldOf(b, bytes) \o rest = HeldOf(b, p) \o q
    BY <1>2, <1>3, <1>4, Zenon DEF HeldOf
  <1>6. LinedUp(w, k, b, bytes, rest, st)
    BY <1>5, Zenon DEF LinedUp
  <1> QED
    BY <1>3, <1>4, <1>6 DEF StillLinedUp

LEMMA LengthBack ==
  ASSUME NEW n \in 1..MaxFrame, NEW l, l = LittleEndian(n, 4)
  PROVE  Number(l, FALSE) = n /\ l[4] = 0
  <1>1. n \in Nat /\ Above(n) = 0
    BY SmallLengths
  <1>2. PICK w \in Nat \ {0} : w = 4
    OBVIOUS
  <1>3. PICK v \in Int : v = n
    BY <1>1
  <1>4. Rests(v, w)[w] = 0
    BY <1>1, <1>2, <1>3, RestsByThree
  <1>5. PICK signed \in BOOLEAN : signed = FALSE
    OBVIOUS
  <1>6. Number(LittleEndian(v, w), signed) = v
    <2>1. Rests(v, w)[w] \in IF signed THEN -128..127 ELSE 0..255
      BY <1>4, <1>5
    <2> QED
      BY <2>1, NumberBack
  <1>7. l[w] = 0
    <2>1. LittleEndian(v, w)[w] = Rests(v, w)[w] % 256
      <3>1. w \in 1..w
        OBVIOUS
      <3> QED
        BY <3>1, LittleEndianBytes
    <2>2. 0 % 256 = 0
      OBVIOUS
    <2>3. l = LittleEndian(v, w)
      BY <1>2, <1>3
    <2> QED
      BY <1>4, <2>1, <2>2, <2>3
  <1> QED
    BY <1>2, <1>3, <1>5, <1>6, <1>7

\* A length is read: that of the next message.
LEMMA LengthIn ==
  ASSUME NEW w, Writable(w), NEW k \in 0..Len(w), NEW bytes \in Seq(Byte), Len(bytes) = 4,
         NEW rest \in Seq(Byte), NEW st, LinedUp(w, k, 0, bytes, rest, st),
         NEW n, n = Number(bytes, FALSE)
  PROVE  /\ n \in 1..MaxFrame /\ bytes[4] = 0
         /\ UnderWay(w, k, n, <<>>, rest, st)
  <1>1. PICK s \in Seq(Byte) : s = Sent(w)
    BY BaseType
  <1>2. PICK at \in Nat : at = Base(w, k)
    BY BaseType
  <1>3. k \in Nat /\ Len(w) \in Nat
    BY DEF Writable
  <1>4. HeldOf(0, bytes) = bytes
    BY HeldIs
  <1>5. Lies(s, at, bytes \o rest)
    BY <1>1, <1>2, <1>4 DEF LinedUp
  <1>6. Lies(s, at, bytes)
    BY <1>5, LiesParts
  <1>7. k < Len(w)
    <2>1. SUFFICES ASSUME k = Len(w) PROVE FALSE
      BY <1>3
    <2>2. at = Len(s)
      BY <1>1, <1>2, <2>1, BaseIs
    <2>3. at + 4 <= Len(s)
      BY <1>6 DEF Lies
    <2> QED
      BY <2>2, <2>3
  <1>8. PICK m : m = w[k + 1]
    OBVIOUS
  <1>9. PICK e : e = Encode(m)
    OBVIOUS
  <1>10. PICK l : l = LittleEndian(Len(e), 4)
    OBVIOUS
  <1>11. PICK hi : hi = Base(w, k + 1)
    OBVIOUS
  <1>12. /\ e \in Seq(Byte) /\ Len(e) \in 1..MaxFrame
         /\ l \in Seq(Byte) /\ Len(l) = 4
         /\ Lies(s, at, l)
    BY <1>1, <1>2, <1>3, <1>7, <1>8, <1>9, <1>10, <1>11, NextFrame
  <1>13. bytes = l
    <2>1. Len(bytes) = Len(l)
      BY <1>12
    <2> QED
      BY <1>6, <1>12, <2>1, LiesSame
  <1>14. n = Len(e) /\ bytes[4] = 0
    BY <1>10, <1>12, <1>13, LengthBack
  <1>15. n \in Nat /\ n # 0 /\ 0 < n
    <2>1. n \in 1..MaxFrame
      BY <1>12, <1>14
    <2>2. \A i \in 1..MaxFrame : i \in Nat /\ i # 0 /\ 0 < i
      BY SmallLengths
    <2> QED
      BY <2>1, <2>2, Zenon
  <1>16. HeldOf(n, <<>>) = bytes
    <2>1. PICK z \in Seq(Byte) : z = <<>>
      BY NoBytes
    <2>2. HeldOf(n, z) = l \o z
      BY <1>10, <1>14, <1>15, HeldIs
    <2>3. PICK B : B = Byte
      OBVIOUS
    <2>4. l \o <<>> = l
      BY <1>12, <2>3, ConcatEmptySeq
    <2> QED
      BY <1>13, <2>1, <2>2, <2>4
  <1>17. LinedUp(w, k, n, <<>>, rest, st)
    BY <1>4, <1>16, Zenon DEF LinedUp
  <1>18. Len(<<>>) < WantedIn(n)
    <2>1. Len(<<>>) = 0
      BY NoBytes
    <2>2. WantedIn(n) = n
      BY <1>15, Zenon DEF WantedIn
    <2> QED
      BY <1>15, <2>1, <2>2, Zenon
  <1> QED
    BY <1>7, <1>8, <1>9, <1>12, <1>14, <1>17, <1>18 DEF UnderWay

IsNext(w, k, m) == k < Len(w) /\ m = w[k + 1]

ReachesNext(w, k, m, bytes, rest, st) ==
    /\ IsMessage(m) /\ Fits(Encode(m)) /\ bytes = Encode(m)
    /\ UnderWay(w, k + 1, 0, <<>>, rest, st)

\* A body is read: the next message.
LEMMA BodyIn ==
  ASSUME NEW w, Writable(w), NEW k \in 0..Len(w), NEW m, IsNext(w, k, m),
         NEW e, e = Encode(m), NEW b \in Nat, b # 0, b = Len(e), NEW bytes \in Seq(Byte), Len(bytes) = b,
         NEW rest \in Seq(Byte), NEW st, LinedUp(w, k, b, bytes, rest, st)
  PROVE  ReachesNext(w, k, m, bytes, rest, st)
  <1>0. k < Len(w) /\ m = w[k + 1]
    BY DEF IsNext
  <1>1. PICK s \in Seq(Byte) : s = Sent(w)
    BY BaseType
  <1>2. PICK at \in Nat : at = Base(w, k)
    BY BaseType
  <1>3. k \in Nat /\ Len(w) \in Nat
    BY DEF Writable
  <1>4. PICK l \in Seq(Byte) : l = LittleEndian(b, 4) /\ Len(l) = 4
    BY Lengths
  <1>5. PICK hi : hi = Base(w, k + 1)
    OBVIOUS
  <1>6. /\ IsMessage(m) /\ Fits(e)
        /\ e \in Seq(Byte)
        /\ hi = (at + 4) + Len(e)
        /\ Lies(s, at + 4, e)
    BY <1>0, <1>1, <1>2, <1>3, <1>4, <1>5, NextFrame
  <1>7. PICK h \in Seq(Byte) : h = HeldOf(b, bytes) /\ h = l \o bytes
    BY <1>4, HeldIs
  <1>8. Lies(s, at, h \o rest)
    BY <1>1, <1>2, <1>7 DEF LinedUp
  <1>9. Lies(s, at, h) /\ Lies(s, at + Len(h), rest)
    BY <1>8, LiesParts
  <1>10. Lies(s, at + 4, bytes)
    <2>1. Lies(s, at, l \o bytes)
      BY <1>7, <1>9
    <2>2. Lies(s, at + Len(l), bytes)
      BY <2>1, LiesParts
    <2> QED
      BY <1>4, <2>2
  <1>11. bytes = e
    <2>1. PICK a \in Nat : a = at + 4
      OBVIOUS
    <2>2. Len(bytes) = Len(e)
      OBVIOUS
    <2> QED
      BY <1>6, <1>10, <2>1, <2>2, LiesSame
  <1>12. Len(h) = 4 + b
    <2>1. Len(h) = Len(l) + Len(bytes)
      BY <1>7, Concat
    <2> QED
      BY <1>4, <2>1
  <1>13. hi = at + Len(h)
    BY <1>6, <1>12
  <1>14. HeldOf(0, <<>>) \o rest = rest
    <2>1. PICK z \in Seq(Byte) : z = <<>>
      BY NoBytes
    <2>2. HeldOf(0, z) = z
      BY HeldIs
    <2>3. PICK B : B = Byte
      OBVIOUS
    <2>4. <<>> \o rest = rest
      BY <2>3, ConcatEmptySeq
    <2> QED
      BY <2>1, <2>2, <2>4
  <1>15. ASSUME st # "cut" PROVE Ends(s, hi, rest)
    <2>1. Ends(s, at, h \o rest)
      BY <1>1, <1>2, <1>7, <1>15 DEF LinedUp
    <2>2. at + Len(h \o rest) = Len(s)
      BY <2>1 DEF Ends
    <2>3. PICK u : u = h \o rest
      OBVIOUS
    <2>4. Len(u) = Len(h) + Len(rest)
      BY <1>7, <2>3, Concat
    <2>5. PICK x \in Nat : x = Len(h)
      BY <1>7
    <2>6. PICK y \in Nat : y = Len(rest)
      OBVIOUS
    <2>7. (at + x) + y = Len(s)
      BY <2>2, <2>3, <2>4, <2>5, <2>6
    <2> QED
      BY <1>13, <2>5, <2>6, <2>7 DEF Ends
  <1>16. Lies(s, hi, rest)
    BY <1>9, <1>13
  <1>17. LinedUp(w, k + 1, 0, <<>>, rest, st)
    BY <1>1, <1>5, <1>14, <1>15, <1>16, Zenon DEF LinedUp
  <1>18. Len(<<>>) < WantedIn(0)
    <2>1. Len(<<>>) = 0 /\ 0 < 4
      OBVIOUS
    <2> QED
      BY <2>1 DEF WantedIn
  <1> QED
    BY <1>6, <1>11, <1>17, <1>18 DEF UnderWay, ReachesNext

-----------------------------------------------------------------------------
(* The invariant of a connection                                             *)

Arrivals == {Arriving(m) : m \in Corpus}

WireType ==
    /\ Writable(wrote)
    /\ script \in Seq(Corpus)
    /\ pipe \in Seq(Byte) /\ part \in Seq(Byte)
    /\ body \in Nat
    /\ got \in Seq(Arrivals)
    /\ Len(got) \in 0..Len(wrote)

\* What was read is what was written.
Delivered == \A i \in 1..Len(got) : got[i] = Arriving(wrote[i]) /\ Carried(wrote[i])

\* A reader that is still reading finds the bytes of the next message next.
Coming == result = "" => UnderWay(wrote, Len(got), body, part, pipe, stream)

\* One that gave up was at a message that cannot be carried.
Refusing == result \in Refusals => Len(got) < Len(wrote) /\ ~ Carried(wrote[Len(got) + 1])

WireInv == WireType /\ Delivered /\ Coming /\ Refusing

\* The bytes of an empty connection.
LEMMA NothingSent ==
  /\ Writable(<<>>)
  /\ UnderWay(<<>>, 0, 0, <<>>, <<>>, "open")
  <1>1. PICK w : w = <<>>
    OBVIOUS
  <1>2. w \in Seq(Corpus) /\ Len(w) = 0
    <2>1. PICK C : C = Corpus
      OBVIOUS
    <2> QED
      BY <1>1, <2>1, EmptySeq
  <1>3. Writable(w)
    BY <1>2 DEF Writable
  <1>4. Base(w, 0) = 0 /\ Len(Sent(w)) = 0
    <2>1. Base(w, 0) = 0 /\ Base(w, Len(w)) = Len(Sent(w))
      BY <1>3, BaseIs
    <2> QED
      BY <1>2, <2>1
  <1>5. HeldOf(0, <<>>) \o <<>> = <<>>
    <2>1. PICK z \in Seq(Byte) : z = <<>>
      BY NoBytes
    <2>2. HeldOf(0, z) = z
      BY HeldIs
    <2>3. PICK B : B = Byte
      OBVIOUS
    <2>4. z \o <<>> = z
      BY <2>3, ConcatEmptySeq
    <2> QED
      BY <2>1, <2>2, <2>4
  <1>6. Lies(Sent(w), 0, <<>>) /\ Ends(Sent(w), 0, <<>>)
    <2>1. PICK z \in Seq(Byte) : z = <<>> /\ Len(z) = 0
      BY NoBytes
    <2>2. Lies(Sent(w), 0, z) /\ Ends(Sent(w), 0, z)
      BY <1>4, <2>1 DEF Lies, Ends
    <2> QED
      BY <2>1, <2>2
  <1>7. LinedUp(w, 0, 0, <<>>, <<>>, "open")
    BY <1>4, <1>5, <1>6, Zenon DEF LinedUp
  <1>8. Len(<<>>) < WantedIn(0)
    <2>1. Len(<<>>) = 0 /\ 0 < 4
      BY NoBytes
    <2> QED
      BY <2>1 DEF WantedIn
  <1>9. UnderWay(w, 0, 0, <<>>, <<>>, "open")
    BY <1>7, <1>8, Zenon DEF UnderWay
  <1> QED
    BY <1>1, <1>3, <1>9

LEMMA WireInit == StreamInit => WireInv
  <1> SUFFICES ASSUME StreamInit PROVE WireInv
    OBVIOUS
  <1>1. /\ script \in IF over = "connection" THEN Scripts ELSE {<<>>}
        /\ wrote = <<>> /\ pipe = <<>> /\ stream = "open" /\ part = <<>>
        /\ body = 0 /\ got = <<>> /\ result = ""
    BY DEF StreamInit, InitFor
  <1>2. script \in Seq(Corpus)
    <2>1. CASE script \in Scripts
      BY <2>1, CorpusIs
    <2>2. CASE script = <<>>
      <3>1. PICK C : C = Corpus
        OBVIOUS
      <3>2. <<>> \in Seq(C)
        BY EmptySeq
      <3> QED
        BY <2>2, <3>1, <3>2
    <2> QED
      BY <1>1, <2>1, <2>2
  <1>3. got \in Seq(Arrivals) /\ Len(got) = 0
    <2>1. PICK C : C = Arrivals
      OBVIOUS
    <2>2. <<>> \in Seq(C) /\ Len(<<>>) = 0
      BY EmptySeq
    <2> QED
      BY <1>1, <2>1, <2>2
  <1>4. WireType
    <2>1. Writable(wrote)
      BY <1>1, NothingSent
    <2>2. pipe \in Seq(Byte) /\ part \in Seq(Byte)
      BY <1>1, NoBytes
    <2>3. Len(wrote) = 0
      BY <1>1, NoBytes
    <2>4. body \in Nat /\ Len(got) \in 0..Len(wrote)
      <3>1. 0 \in Nat /\ 0 \in 0..0
        OBVIOUS
      <3> QED
        BY <1>1, <1>3, <2>3, <3>1, Zenon
    <2> QED
      BY <1>2, <1>3, <2>1, <2>2, <2>4, Zenon DEF WireType
  <1>5. Delivered
    BY <1>3 DEF Delivered
  <1>6. Coming
    <2>1. UnderWay(wrote, Len(got), body, part, pipe, stream)
      BY <1>1, <1>3, NothingSent
    <2> QED
      BY <2>1 DEF Coming
  <1>7. Refusing
    BY <1>1 DEF Refusing, Refusals
  <1> QED
    BY <1>4, <1>5, <1>6, <1>7 DEF WireInv

\* What the promise of MessageStream calls sent.
SentMessages(w) == [i \in DOMAIN w |-> Arriving(w[i])]

LEMMA WriteStep ==
  ASSUME WireInv, WriteMessage
  PROVE  WireInv' /\ Promise!Send
  <1>1. /\ stream = "open" /\ script # <<>> /\ Fits(Encode(Head(script)))
        /\ pipe' = pipe \o LittleEndian(Len(Encode(Head(script))), 4) \o Encode(Head(script))
        /\ wrote' = Append(wrote, Head(script))
        /\ script' = Tail(script)
        /\ stream' = stream /\ part' = part /\ body' = body /\ got' = got /\ result' = result
    BY DEF WriteMessage, readerVars
  <1>2. /\ Writable(wrote) /\ script \in Seq(Corpus)
        /\ pipe \in Seq(Byte) /\ part \in Seq(Byte) /\ body \in Nat
        /\ got \in Seq(Arrivals) /\ Len(got) \in 0..Len(wrote)
    BY DEF WireInv, WireType
  <1>3. PICK m \in Corpus : m = Head(script)
    <2>1. PICK C : C = Corpus
      OBVIOUS
    <2>2. Head(script) \in C
      BY <1>1, <1>2, <2>1
    <2> QED
      BY <2>1, <2>2
  <1>4. Fits(Encode(m)) /\ wrote' = Append(wrote, m)
    BY <1>1, <1>3
  <1>5. IsOneMore(wrote', wrote, m)
    BY <1>2, <1>4, OneMore
  <1>6. PICK n \in Nat : n = Len(wrote)
    BY <1>2 DEF Writable
  <1>7. /\ Writable(wrote') /\ Len(wrote') = n + 1
        /\ \A i \in 1..n : wrote'[i] = wrote[i]
    BY <1>5, <1>6 DEF IsOneMore
  <1>8. PICK e : e = Encode(m)
    OBVIOUS
  <1>9. PICK l : l = LittleEndian(Len(e), 4)
    OBVIOUS
  <1>10. pipe' = (pipe \o l) \o e
    BY <1>1, <1>3, <1>8, <1>9
  <1>11. e \in Seq(Byte) /\ l \in Seq(Byte)
    <2>1. e \in Seq(Byte)
      BY <1>4, <1>8, CorpusIs, RoundTrip
    <2>2. PICK x \in Nat : x = Len(e)
      BY <2>1
    <2> QED
      BY <1>9, <2>1, <2>2, Lengths
  <1>12. pipe' \in Seq(Byte)
    <2>1. PICK x \in Seq(Byte) : x = pipe \o l
      BY <1>2, <1>11, Concat
    <2> QED
      BY <1>10, <1>11, <2>1, Concat
  <1>13. script' \in Seq(Corpus)
    <2>1. PICK C : C = Corpus
      OBVIOUS
    <2>2. Tail(script) \in Seq(C)
      BY <1>1, <1>2, <2>1
    <2> QED
      BY <1>1, <2>1, <2>2
  <1>14. WireType'
    <2>1. Len(got') \in 0..Len(wrote')
      BY <1>1, <1>2, <1>6, <1>7
    <2> QED
      BY <1>1, <1>2, <1>7, <1>12, <1>13, <2>1 DEF WireType
  <1>15. \A i \in 1..Len(got) : i \in 1..n
    BY <1>2, <1>6
  <1>16. Delivered'
    <2>1. ASSUME NEW i \in 1..Len(got) PROVE got[i] = Arriving(wrote'[i]) /\ Carried(wrote'[i])
      <3>1. got[i] = Arriving(wrote[i]) /\ Carried(wrote[i])
        BY DEF WireInv, Delivered
      <3>2. wrote'[i] = wrote[i]
        BY <1>7, <1>15
      <3> QED
        BY <3>1, <3>2
    <2> QED
      BY <1>1, <2>1 DEF Delivered
  <1>17. Coming'
    <2>1. ASSUME result = "" PROVE UnderWay(wrote', Len(got), body, part, pipe', stream)
      <3>1. UnderWay(wrote, Len(got), body, part, pipe, "open")
        BY <1>1, <2>1 DEF WireInv, Coming
      <3>2. PICK k \in 0..Len(wrote) : k = Len(got)
        BY <1>2
      <3>3. UnderWay(wrote, k, body, part, pipe, "open")
        BY <3>1, <3>2
      <3>4. UnderWay(wrote', k, body, part, pipe', "open")
        BY <1>2, <1>4, <1>8, <1>9, <1>10, <3>3, Writing
      <3> QED
        BY <1>1, <3>2, <3>4
    <2> QED
      BY <1>1, <2>1 DEF Coming
  <1>18. Refusing'
    <2>1. ASSUME result \in Refusals
          PROVE  Len(got) < Len(wrote') /\ ~ Carried(wrote'[Len(got) + 1])
      <3>1. Len(got) < Len(wrote) /\ ~ Carried(wrote[Len(got) + 1])
        BY <2>1 DEF WireInv, Refusing
      <3>2. PICK k \in Nat : k = Len(got)
        BY <1>2
      <3>3. k + 1 \in 1..n /\ k < n + 1
        BY <1>6, <3>1, <3>2
      <3>4. wrote'[k + 1] = wrote[k + 1]
        BY <1>7, <3>3
      <3> QED
        BY <1>7, <3>1, <3>2, <3>3, <3>4
    <2> QED
      BY <1>1, <2>1 DEF Refusing
  <1>19. Promise!Send
    <2>1. PICK s : s = SentMessages(wrote)
      OBVIOUS
    <2>2. PICK t : t = SentMessages(wrote')
      OBVIOUS
    <2>3. wrote \in Seq(Corpus) /\ wrote' \in Seq(Corpus)
      BY <1>2, <1>7 DEF Writable
    <2>4. DOMAIN wrote = 1..n /\ DOMAIN wrote' = 1..(n + 1)
      BY <1>6, <1>7, <2>3
    <2>5. s = [i \in 1..n |-> Arriving(wrote[i])] /\ t = [i \in 1..(n + 1) |-> Arriving(wrote'[i])]
      BY <2>1, <2>2, <2>4 DEF SentMessages
    <2>6. PICK A : A = Arrivals
      OBVIOUS
    <2>7. s \in Seq(A) /\ Len(s) = n
      <3>1. \A i \in 1..n : Arriving(wrote[i]) \in A
        BY <1>6, <2>3, <2>6 DEF Arrivals
      <3>2. s \in [1..n -> A]
        BY <2>5, <3>1
      <3> QED
        BY <3>2
    <2>8. t \in Seq(A) /\ Len(t) = n + 1
      <3>1. \A i \in 1..(n + 1) : Arriving(wrote'[i]) \in A
        BY <1>7, <2>3, <2>6 DEF Arrivals
      <3>2. t \in [1..(n + 1) -> A]
        BY <2>5, <3>1
      <3> QED
        BY <3>2
    <2>9. \A i \in 1..n : t[i] = s[i]
      BY <1>7, <2>5
    <2>10. SubSeq(t, 1, n) = s
      <3>1. PICK u : u = SubSeq(t, 1, n)
        OBVIOUS
      <3>2. u \in Seq(A) /\ Len(u) = n /\ \A i \in 1..n : u[i] = t[i]
        BY <2>8, <3>1
      <3>3. u = s
        BY <2>7, <2>9, <3>2, SeqEqual
      <3> QED
        BY <3>1, <3>3
    <2>11. t # s
      <3>1. n + 1 # n
        OBVIOUS
      <3> QED
        BY <2>7, <2>8, <3>1
    <2> QED
      BY <1>1, <2>1, <2>2, <2>7, <2>8, <2>10, <2>11 DEF Promise!Send, SentMessages
  <1> QED
    BY <1>14, <1>16, <1>17, <1>18, <1>19 DEF WireInv

\* The steps that change neither what was written nor what was read, nor what
\* is under way.
LEMMA QuietStep ==
  ASSUME WireInv, UNCHANGED <<wrote, script, got>>,
         pipe' \in Seq(Byte), part' \in Seq(Byte), body' \in Nat,
         result' = "" => UnderWay(wrote, Len(got), body', part', pipe', stream'),
         result' \in Refusals => result \in Refusals
  PROVE  WireInv'
  <1>1. WireType'
    BY DEF WireInv, WireType
  <1>2. Delivered'
    BY DEF WireInv, Delivered
  <1>3. Coming'
    BY DEF Coming
  <1>4. Refusing'
    BY DEF WireInv, Refusing
  <1> QED
    BY <1>1, <1>2, <1>3, <1>4 DEF WireInv

LEMMA ShutdownStep ==
  ASSUME WireInv, Shutdown
  PROVE  WireInv' /\ UNCHANGED Promise!vars
  <1>1. /\ stream = "open" /\ stream' = "shut"
        /\ wrote' = wrote /\ script' = script /\ pipe' = pipe
        /\ part' = part /\ body' = body /\ got' = got /\ result' = result
    BY DEF Shutdown, writerVars, readerVars
  <1>2. pipe' \in Seq(Byte) /\ part' \in Seq(Byte) /\ body' \in Nat
    BY <1>1 DEF WireInv, WireType
  <1>3. ASSUME result' = "" PROVE UnderWay(wrote, Len(got), body', part', pipe', stream')
    <2>1. UnderWay(wrote, Len(got), body, part, pipe, stream)
      BY <1>1, <1>3 DEF WireInv, Coming
    <2>2. UnderWay(wrote, Len(got), body, part, pipe, "shut")
      BY <1>1, <2>1 DEF UnderWay, LinedUp
    <2> QED
      BY <1>1, <2>2
  <1>4. WireInv'
    BY <1>1, <1>2, <1>3, QuietStep
  <1> QED
    BY <1>1, <1>4 DEF Promise!vars

LEMMA CutStep ==
  ASSUME WireInv, Cut
  PROVE  WireInv' /\ UNCHANGED Promise!vars
  <1>1. /\ stream' = "cut"
        /\ wrote' = wrote /\ script' = script
        /\ part' = part /\ body' = body /\ got' = got /\ result' = result
    BY DEF Cut, writerVars, readerVars
  <1>2. PICK n \in 0..Len(pipe) : pipe' = SubSeq(pipe, 1, n)
    BY DEF Cut
  <1>3. /\ Writable(wrote) /\ pipe \in Seq(Byte) /\ part \in Seq(Byte) /\ body \in Nat
        /\ Len(got) \in 0..Len(wrote)
    BY DEF WireInv, WireType
  <1>4. PICK left : left = SubSeq(pipe, 1, n)
    OBVIOUS
  <1>5. left \in Seq(Byte)
    BY <1>2, <1>3, <1>4
  <1>6. ASSUME result' = "" PROVE UnderWay(wrote, Len(got), body', part', pipe', stream')
    <2>1. UnderWay(wrote, Len(got), body, part, pipe, stream)
      BY <1>1, <1>6 DEF WireInv, Coming
    <2>2. PICK k \in 0..Len(wrote) : k = Len(got)
      BY <1>3
    <2>3. UnderWay(wrote, k, body, part, pipe, stream)
      BY <2>1, <2>2
    <2>4. n \in 0..Len(pipe)
      BY <1>2
    <2>5. UnderWay(wrote, k, body, part, left, "cut")
      BY <1>3, <1>4, <2>3, <2>4, Cutting
    <2> QED
      BY <1>1, <1>2, <1>4, <2>2, <2>5
  <1>7. WireInv'
    BY <1>1, <1>2, <1>3, <1>4, <1>5, <1>6, QuietStep
  <1> QED
    BY <1>1, <1>7 DEF Promise!vars

\* The reader ends for another reason than a message.
LEMMA EofStep ==
  ASSUME WireInv, Eof
  PROVE  WireInv' /\ Promise!End
  <1>1. /\ result = "" /\ result' = IF body = 0 THEN "Closed" ELSE "Io"
        /\ wrote' = wrote /\ script' = script /\ pipe' = pipe
        /\ stream' = stream /\ part' = part /\ body' = body /\ got' = got
    BY DEF Eof, writerVars
  <1>2. result' # "" /\ result' \notin Refusals
    BY <1>1 DEF Refusals
  <1>3. pipe' \in Seq(Byte) /\ part' \in Seq(Byte) /\ body' \in Nat
    BY <1>1 DEF WireInv, WireType
  <1>4. WireInv'
    BY <1>1, <1>2, <1>3, QuietStep
  <1> QED
    BY <1>1, <1>2, <1>4 DEF Promise!End

LEMMA CancelStep ==
  ASSUME WireInv, Cancel
  PROVE  WireInv' /\ Promise!End
  <1>1. /\ result = "" /\ result' = "dropped" /\ part' = <<>> /\ body' = 0
        /\ wrote' = wrote /\ script' = script /\ pipe' = pipe
        /\ stream' = stream /\ got' = got
    BY DEF Cancel, writerVars
  <1>2. result' # "" /\ result' \notin Refusals
    BY <1>1 DEF Refusals
  <1>3. pipe' \in Seq(Byte) /\ part' \in Seq(Byte) /\ body' \in Nat
    BY <1>1, NoBytes DEF WireInv, WireType
  <1>4. WireInv'
    BY <1>1, <1>2, <1>3, QuietStep
  <1> QED
    BY <1>1, <1>2, <1>4 DEF Promise!End

\* A read that leaves something to wait for.
LEMMA PartRead ==
  ASSUME WireInv, NEW n \in 1..Len(pipe), result = "",
         NEW bytes, bytes = part \o SubSeq(pipe, 1, n), Len(part) + n < WantedIn(body),
         pipe' = SubSeq(pipe, n + 1, Len(pipe)), part' = bytes,
         UNCHANGED <<wrote, script, stream, body, got, result>>
  PROVE  WireInv'
  <1>1. /\ Writable(wrote) /\ pipe \in Seq(Byte) /\ part \in Seq(Byte) /\ body \in Nat
        /\ Len(got) \in 0..Len(wrote)
    BY DEF WireInv, WireType
  <1>2. UnderWay(wrote, Len(got), body, part, pipe, stream)
    BY DEF WireInv, Coming
  <1>3. PICK k \in 0..Len(wrote) : k = Len(got)
    BY <1>1
  <1>4. LinedUp(wrote, k, body, part, pipe, stream)
    BY <1>2, <1>3 DEF UnderWay
  <1>5. PICK rest : rest = SubSeq(pipe, n + 1, Len(pipe))
    OBVIOUS
  <1>6. /\ bytes \in Seq(Byte) /\ Len(bytes) = Len(part) + n /\ rest \in Seq(Byte)
        /\ LinedUp(wrote, k, body, bytes, rest, stream)
    <2>1. Takes(part, pipe, n, bytes, rest)
      BY <1>5 DEF Takes
    <2>2. k \in 0..Len(wrote)
      BY <1>3
    <2>3. StillLinedUp(wrote, k, body, part, n, stream, bytes, rest)
      BY <1>1, <1>4, <2>1, <2>2, Reading
    <2> QED
      BY <2>3 DEF StillLinedUp
  <1>7. Len(bytes) < WantedIn(body)
    BY <1>6
  <1>8. UnderWay(wrote, k, body, bytes, rest, stream)
    BY <1>2, <1>3, <1>6, <1>7 DEF UnderWay
  <1>9. pipe' \in Seq(Byte) /\ part' \in Seq(Byte) /\ body' \in Nat
    BY <1>1, <1>5, <1>6
  <1>10. UnderWay(wrote, Len(got), body', part', pipe', stream')
    BY <1>3, <1>5, <1>8
  <1> QED
    BY <1>9, <1>10, QuietStep

\* A read of n bytes of the pipe: bytes are what the reader then has.
ReadsBytes(n, bytes) ==
    /\ result = ""
    /\ n \in 1..Len(pipe)
    /\ bytes = part \o SubSeq(pipe, 1, n)
    /\ pipe' = SubSeq(pipe, n + 1, Len(pipe))
    /\ UNCHANGED <<wrote, script, stream>>

\* It is the last of a length, or of a body.
FillsLength(n) == body = 0 /\ Len(part) + n = 4

FillsBody(n) == body # 0 /\ Len(part) + n = body

\* A length: it is never refused.
LEMMA LengthRead ==
  ASSUME WireInv, NEW n, NEW bytes, ReadsBytes(n, bytes), FillsLength(n), GotLength(bytes)
  PROVE  WireInv' /\ UNCHANGED Promise!vars
  <1>0. /\ result = "" /\ n \in 1..Len(pipe) /\ bytes = part \o SubSeq(pipe, 1, n)
        /\ pipe' = SubSeq(pipe, n + 1, Len(pipe))
        /\ wrote' = wrote /\ script' = script /\ stream' = stream
    BY DEF ReadsBytes
  <1>1. /\ Writable(wrote) /\ pipe \in Seq(Byte) /\ part \in Seq(Byte) /\ body \in Nat
        /\ Len(got) \in 0..Len(wrote)
    BY DEF WireInv, WireType
  <1>2. UnderWay(wrote, Len(got), body, part, pipe, stream)
    BY <1>0 DEF WireInv, Coming
  <1>3. PICK k \in 0..Len(wrote) : k = Len(got)
    BY <1>1
  <1>4. LinedUp(wrote, k, body, part, pipe, stream)
    BY <1>2, <1>3 DEF UnderWay
  <1>5. PICK rest : rest = SubSeq(pipe, n + 1, Len(pipe))
    OBVIOUS
  <1>6. /\ bytes \in Seq(Byte) /\ Len(bytes) = Len(part) + n /\ rest \in Seq(Byte)
        /\ LinedUp(wrote, k, body, bytes, rest, stream)
    <2>1. Takes(part, pipe, n, bytes, rest)
      BY <1>0, <1>5 DEF Takes
    <2>2. k \in 0..Len(wrote) /\ n \in 1..Len(pipe)
      BY <1>0, <1>3
    <2>3. StillLinedUp(wrote, k, body, part, n, stream, bytes, rest)
      BY <1>1, <1>4, <2>1, <2>2, Reading
    <2> QED
      BY <2>3 DEF StillLinedUp
  <1>7. Len(bytes) = 4 /\ LinedUp(wrote, k, 0, bytes, rest, stream)
    BY <1>6 DEF FillsLength
  <1>8. PICK len : len = Number(bytes, FALSE)
    OBVIOUS
  <1>9. len \in 1..MaxFrame /\ bytes[4] = 0 /\ UnderWay(wrote, k, len, <<>>, rest, stream)
    BY <1>1, <1>3, <1>6, <1>7, <1>8, LengthIn
  <1>10. body' = len /\ result' = result /\ part' = <<>> /\ got' = got
    BY <1>8, <1>9 DEF GotLength
  <1>11. body' \in Nat
    <2>1. len \in 1..MaxFrame
      BY <1>9
    <2>2. \A i \in 1..MaxFrame : i \in Nat
      <3>1. MaxFrame \in Nat
        BY LimitsAssumption
      <3> QED
        BY <3>1
    <2>3. len \in Nat
      BY <2>1, <2>2, Zenon
    <2> QED
      BY <1>10, <2>3
  <1>12. pipe' \in Seq(Byte) /\ part' \in Seq(Byte)
    BY <1>0, <1>5, <1>6, <1>10, NoBytes
  <1>13. UnderWay(wrote, Len(got), body', part', pipe', stream')
    BY <1>0, <1>3, <1>5, <1>9, <1>10
  <1>14. WireInv'
    BY <1>0, <1>10, <1>11, <1>12, <1>13, QuietStep
  <1> QED
    BY <1>0, <1>10, <1>14 DEF Promise!vars

\* A body: a message that was written comes out, or it could not be carried.
LEMMA BodyRead ==
  ASSUME WireInv, NEW n, NEW bytes, ReadsBytes(n, bytes), FillsBody(n), GotBody(bytes)
  PROVE  WireInv' /\ (Promise!Receive \/ Promise!End)
  <1>0. /\ result = "" /\ n \in 1..Len(pipe) /\ bytes = part \o SubSeq(pipe, 1, n)
        /\ pipe' = SubSeq(pipe, n + 1, Len(pipe))
        /\ wrote' = wrote /\ script' = script /\ stream' = stream
    BY DEF ReadsBytes
  <1>1. /\ Writable(wrote) /\ pipe \in Seq(Byte) /\ part \in Seq(Byte) /\ body \in Nat
        /\ script \in Seq(Corpus) /\ got \in Seq(Arrivals)
        /\ Len(got) \in 0..Len(wrote)
    BY DEF WireInv, WireType
  <1>2. UnderWay(wrote, Len(got), body, part, pipe, stream)
    BY <1>0 DEF WireInv, Coming
  <1>3. PICK k \in 0..Len(wrote) : k = Len(got)
    BY <1>1
  <1>4. LinedUp(wrote, k, body, part, pipe, stream)
    BY <1>2, <1>3 DEF UnderWay
  <1>5. PICK rest : rest = SubSeq(pipe, n + 1, Len(pipe))
    OBVIOUS
  <1>6. /\ bytes \in Seq(Byte) /\ Len(bytes) = Len(part) + n /\ rest \in Seq(Byte)
        /\ LinedUp(wrote, k, body, bytes, rest, stream)
    <2>1. Takes(part, pipe, n, bytes, rest)
      BY <1>0, <1>5 DEF Takes
    <2>2. k \in 0..Len(wrote) /\ n \in 1..Len(pipe)
      BY <1>0, <1>3
    <2>3. StillLinedUp(wrote, k, body, part, n, stream, bytes, rest)
      BY <1>1, <1>4, <2>1, <2>2, Reading
    <2> QED
      BY <2>3 DEF StillLinedUp
  <1>7. PICK m : m = wrote[k + 1]
    OBVIOUS
  <1>8. PICK e : e = Encode(m)
    OBVIOUS
  <1>9. k < Len(wrote) /\ body = Len(e)
    BY <1>2, <1>3, <1>7, <1>8 DEF UnderWay, FillsBody
  <1>10. Len(bytes) = body
    BY <1>6 DEF FillsBody
  <1>11. /\ IsMessage(m) /\ Fits(e) /\ bytes = e
         /\ UnderWay(wrote, k + 1, 0, <<>>, rest, stream)
    <2>1. body # 0 /\ body \in Nat
      BY <1>1 DEF FillsBody
    <2>2. Writable(wrote) /\ k \in 0..Len(wrote) /\ k < Len(wrote)
      BY <1>1, <1>3, <1>9
    <2>3. bytes \in Seq(Byte) /\ rest \in Seq(Byte)
      BY <1>6
    <2>4. Len(bytes) = body /\ body = Len(e)
      BY <1>9, <1>10
    <2>5. LinedUp(wrote, k, body, bytes, rest, stream)
      BY <1>6
    <2>6. IsNext(wrote, k, m)
      BY <1>7, <2>2 DEF IsNext
    <2>7. ReachesNext(wrote, k, m, bytes, rest, stream)
      BY <1>8, <2>1, <2>2, <2>3, <2>4, <2>5, <2>6, BodyIn
    <2> QED
      BY <1>8, <2>7 DEF ReachesNext
  <1>12. PICK r : r = Decode(bytes)
    OBVIOUS
  <1>13. /\ IF r.err = "" THEN got' = Append(got, r.v) /\ result' = result
                          ELSE result' = r.err /\ got' = got
         /\ body' = 0 /\ part' = <<>>
    BY <1>12 DEF GotBody
  <1>14. /\ Carried(m) => r = Ok(Len(e), Arriving(m))
         /\ ~ Carried(m) => r.err # ""
    BY <1>8, <1>11, <1>12, RoundTrip
  <1>15. k \in Nat /\ Len(wrote) \in Nat /\ wrote \in Seq(Corpus) /\ k + 1 \in 1..Len(wrote)
    <2>1. wrote \in Seq(Corpus)
      BY <1>1 DEF Writable
    <2>2. PICK C : C = Corpus
      OBVIOUS
    <2>3. Len(wrote) \in Nat
      BY <2>1, <2>2
    <2>4. k \in 0..Len(wrote) /\ k < Len(wrote)
      BY <1>3, <1>9
    <2>5. PICK l \in Nat : l = Len(wrote)
      BY <2>3
    <2>6. k \in Nat /\ k + 1 \in 1..l
      BY <2>4, <2>5
    <2> QED
      BY <2>1, <2>3, <2>5, <2>6
  <1>16. pipe' \in Seq(Byte) /\ part' \in Seq(Byte) /\ body' \in Nat
    BY <1>0, <1>5, <1>6, <1>13, NoBytes
  <1>17. CASE ~ Carried(m)
    <2>1. result' = r.err /\ got' = got /\ result' # ""
      BY <1>13, <1>14, <1>17
    <2>2. WireType'
      BY <1>0, <1>1, <1>16, <2>1 DEF WireType
    <2>3. Delivered'
      BY <1>0, <2>1 DEF WireInv, Delivered
    <2>4. Coming'
      BY <2>1 DEF Coming
    <2>5. Refusing'
      BY <1>0, <1>3, <1>7, <1>9, <1>17, <2>1 DEF Refusing
    <2>6. Promise!End
      BY <1>0, <2>1 DEF Promise!End
    <2> QED
      BY <2>2, <2>3, <2>4, <2>5, <2>6 DEF WireInv
  <1>18. CASE Carried(m)
    <2>1. PICK v : v = Arriving(m)
      OBVIOUS
    <2>2. r.err = "" /\ r.v = v
      <3>1. PICK x : x = Len(e)
        OBVIOUS
      <3>2. r = Ok(x, v)
        BY <1>14, <1>18, <2>1, <3>1
      <3>3. Ok(x, v).err = "" /\ Ok(x, v).v = v
        BY OkFields, Zenon
      <3> QED
        BY <3>2, <3>3, Zenon
    <2>3. got' = Append(got, v) /\ result' = ""
      BY <1>0, <1>13, <2>2
    <2>4. v \in Arrivals
      <3>1. m \in Corpus
        BY <1>7, <1>15
      <3> QED
        BY <2>1, <3>1 DEF Arrivals
    <2>5. /\ got' \in Seq(Arrivals) /\ Len(got') = k + 1 /\ got'[k + 1] = v
          /\ \A i \in 1..k : got'[i] = got[i]
      <3>1. PICK A : A = Arrivals
        OBVIOUS
      <3>2. got \in Seq(A) /\ v \in A
        BY <1>1, <2>4, <3>1
      <3>3. PICK g \in Seq(A) : g = got /\ Len(g) = k
        BY <1>3, <3>2
      <3>4. PICK h : h = Append(g, v)
        OBVIOUS
      <3>5. h \in Seq(A) /\ Len(h) = Len(g) + 1 /\ h[Len(g) + 1] = v
        BY <3>2, <3>4
      <3>6. \A i \in 1..Len(g) : h[i] = g[i]
        BY <3>2, <3>4
      <3> QED
        BY <2>3, <3>1, <3>3, <3>4, <3>5, <3>6
    <2>6. WireType'
      <3>1. Len(got') \in 0..Len(wrote')
        <4>1. PICK l \in Nat : l = Len(wrote)
          BY <1>15
        <4>2. k + 1 \in 1..l
          BY <1>15, <4>1
        <4>3. k + 1 \in 0..l
          BY <1>15, <4>2
        <4> QED
          BY <1>0, <2>5, <4>1, <4>3
      <3> QED
        BY <1>0, <1>1, <1>16, <2>5, <3>1 DEF WireType
    <2>7. Delivered'
      <3>1. ASSUME NEW i \in 1..(k + 1) PROVE got'[i] = Arriving(wrote[i]) /\ Carried(wrote[i])
        <4>1. CASE i = k + 1
          BY <1>7, <1>18, <2>1, <2>5, <4>1
        <4>2. CASE i # k + 1
          <5>1. i \in 1..k
            BY <1>15, <4>2
          <5>2. got[i] = Arriving(wrote[i]) /\ Carried(wrote[i])
            BY <1>3, <5>1 DEF WireInv, Delivered
          <5> QED
            BY <2>5, <5>1, <5>2
        <4> QED
          BY <4>1, <4>2
      <3> QED
        BY <1>0, <2>5, <3>1 DEF Delivered
    <2>8. Coming'
      BY <1>0, <1>5, <1>11, <1>13, <2>3, <2>5 DEF Coming
    <2>9. Refusing'
      BY <2>3 DEF Refusing, Refusals
    <2>10. Promise!Receive
      <3>1. PICK s : s = SentMessages(wrote)
        OBVIOUS
      <3>2. PICK w : w = Len(wrote)
        OBVIOUS
      <3>3. s = [i \in 1..w |-> Arriving(wrote[i])]
        BY <1>15, <3>1, <3>2 DEF SentMessages
      <3>4. s[k + 1] = v
        BY <1>7, <1>15, <2>1, <3>2, <3>3
      <3>5. Len(s) = w
        <4>1. PICK A : A = Arrivals
          OBVIOUS
        <4>2. \A i \in 1..w : Arriving(wrote[i]) \in A
          BY <1>15, <3>2, <4>1 DEF Arrivals
        <4>3. s \in [1..w -> A]
          BY <3>3, <4>2
        <4> QED
          BY <1>15, <3>2, <4>3
      <3>6. got' = Append(got, s[Len(got) + 1]) /\ Len(got) < Len(s)
        BY <1>3, <1>9, <2>3, <3>2, <3>4, <3>5
      <3>7. wrote' = wrote /\ result = "" /\ result' = ""
        BY <1>0, <2>3
      <3> QED
        BY <3>1, <3>6, <3>7 DEF Promise!Receive, SentMessages
    <2> QED
      BY <2>6, <2>7, <2>8, <2>9, <2>10 DEF WireInv
  <1> QED
    BY <1>17, <1>18

LEMMA ReadStep ==
  ASSUME WireInv, NEW n \in 1..Len(pipe), Read(n)
  PROVE  WireInv' /\ (Promise!Receive \/ Promise!End \/ UNCHANGED Promise!vars)
  <1>1. PICK bytes : bytes = part \o SubSeq(pipe, 1, n)
    OBVIOUS
  <1>2. /\ result = "" /\ n \in 1..Wanted
        /\ pipe' = SubSeq(pipe, n + 1, Len(pipe))
        /\ IF n < Wanted THEN part' = bytes /\ body' = body /\ got' = got /\ result' = result
           ELSE IF body = 0 THEN GotLength(bytes) ELSE GotBody(bytes)
        /\ wrote' = wrote /\ script' = script /\ stream' = stream
    BY <1>1 DEF Read, writerVars
  <1>3. PICK p \in Nat : p = Len(part)
    BY DEF WireInv, WireType
  <1>4. PICK b \in Nat : b = WantedIn(body) /\ Wanted = b - p
    BY <1>3 DEF WireInv, WireType, WantedIn, Wanted
  <1>8. b \in Nat /\ p \in Nat /\ n \in 1..(b - p)
    BY <1>2, <1>3, <1>4
  <1>5. CASE n < Wanted
    <2>1. Len(part) + n < WantedIn(body)
      BY <1>3, <1>4, <1>5
    <2>2. part' = bytes /\ UNCHANGED <<wrote, script, stream, body, got, result>>
      BY <1>2, <1>5
    <2>3. WireInv'
      BY <1>1, <1>2, <2>1, <2>2, PartRead
    <2> QED
      BY <2>2, <2>3 DEF Promise!vars
  <1>6. CASE ~ (n < Wanted) /\ body = 0
    <2>1. Len(part) + n = 4
      <3>1. b = 4
        BY <1>4, <1>6 DEF WantedIn
      <3>2. n \in Nat /\ ~ (n < b - p)
        BY <1>4, <1>6, <1>8
      <3>3. p + n = b
        BY <1>8, <3>2
      <3> QED
        BY <1>3, <3>1, <3>3
    <2> QED
      BY <1>1, <1>2, <1>6, <2>1, LengthRead DEF ReadsBytes, FillsLength
  <1>7. CASE ~ (n < Wanted) /\ body # 0
    <2>1. Len(part) + n = body
      <3>1. b = body
        BY <1>4, <1>7 DEF WantedIn
      <3>2. n \in Nat /\ ~ (n < b - p)
        BY <1>4, <1>7, <1>8
      <3>3. p + n = b
        BY <1>8, <3>2
      <3> QED
        BY <1>3, <3>1, <3>3
    <2> QED
      BY <1>1, <1>2, <1>7, <2>1, BodyRead DEF ReadsBytes, FillsBody
  <1> QED
    BY <1>5, <1>6, <1>7

LEMMA SomeReadStep ==
  ASSUME WireInv, SomeRead
  PROVE  WireInv' /\ (Promise!Receive \/ Promise!End \/ UNCHANGED Promise!vars)
  <1>1. pipe # <<>>
    BY DEF SomeRead
  <1>2. PICK n \in {1, IF Wanted < Len(pipe) THEN Wanted ELSE Len(pipe)} : Read(n)
    BY DEF SomeRead
  <1>3. n \in 1..Wanted
    BY <1>2 DEF Read
  <1>4. n \in 1..Len(pipe)
    <2>1. PICK l \in Nat : l = Len(pipe) /\ l # 0
      BY <1>1, EmptySeq DEF WireInv, WireType
    <2>2. n \in {1, IF Wanted < l THEN Wanted ELSE l}
      BY <1>2, <2>1
    <2> QED
      BY <1>3, <2>1, <2>2
  <1> QED
    BY <1>2, <1>4, ReadStep

LEMMA WireStep ==
  ASSUME WireInv, [StreamNext]_streamVars
  PROVE  WireInv' /\ [Promise!Next]_(Promise!vars)
  <1>1. ASSUME UNCHANGED vars PROVE WireInv' /\ UNCHANGED Promise!vars
    <2>1. /\ wrote' = wrote /\ script' = script /\ pipe' = pipe /\ stream' = stream
          /\ part' = part /\ body' = body /\ got' = got /\ result' = result
      BY <1>1 DEF vars, writerVars, readerVars
    <2>2. WireInv'
      BY <2>1 DEF WireInv, WireType, Delivered, Coming, Refusing
    <2> QED
      BY <2>1, <2>2 DEF Promise!vars
  <1>2. CASE OnConnection(Next)
    <2>1. Next
      BY <1>2 DEF OnConnection
    <2>2. CASE WriteMessage
      BY <2>2, WriteStep DEF Promise!Next
    <2>3. CASE Shutdown
      BY <2>3, ShutdownStep
    <2>4. CASE Cut
      BY <2>4, CutStep
    <2>5. CASE SomeRead
      BY <2>5, SomeReadStep DEF Promise!Next
    <2>6. CASE Eof
      BY <2>6, EofStep DEF Promise!Next
    <2>7. CASE Cancel
      BY <2>7, CancelStep DEF Promise!Next
    <2> QED
      BY <2>1, <2>2, <2>3, <2>4, <2>5, <2>6, <2>7 DEF Next
  <1>3. CASE OnPipe
    BY <1>1, <1>3 DEF OnPipe
  <1>4. CASE UNCHANGED streamVars
    BY <1>1, <1>4 DEF streamVars
  <1> QED
    BY <1>2, <1>3, <1>4 DEF StreamNext

-----------------------------------------------------------------------------
(* The theorems about a connection                                           *)

\* Whatever the scripts, the cuts, the reads and the end of a connection: what
\* was read is what was written, and as long as the reader reads, the bytes it
\* has and those in the pipe lie in what was written from the first message on
\* that it does not have (write_message and read_message).
THEOREM WireInvariant == StreamSpec => []WireInv
  <1>1. WireInv /\ [StreamNext]_streamVars => WireInv'
    BY WireStep
  <1> QED
    BY WireInit, <1>1, PTL DEF StreamSpec

LEMMA NoRefusal == WireInv => OnlyOversizeIsRefused
  <1>1. SUFFICES ASSUME WireInv PROVE OnlyOversizeIsRefused
    OBVIOUS
  <1>2. result \in Refusals => ~ Carried(wrote[Len(got) + 1])
    BY <1>1 DEF WireInv, Refusing
  <1>3. DOMAIN got = 1..Len(got)
    <2>1. got \in Seq(Arrivals)
      BY <1>1 DEF WireInv, WireType
    <2>2. PICK A : A = Arrivals
      OBVIOUS
    <2> QED
      BY <2>1, <2>2
  <1>4. \A i \in DOMAIN got : Carried(wrote[i])
    BY <1>1, <1>3 DEF WireInv, Delivered
  <1> QED
    BY <1>2, <1>4 DEF OnlyOversizeIsRefused

\* No message makes its reader give up the connection but one whose text is cut
\* within a character or that has more than MaxDisplays displays, and such a
\* message always does (Message::encode and Message::decode).
THEOREM OnlyOversizeIsRefusedHolds == StreamSpec => []OnlyOversizeIsRefused
  BY WireInvariant, NoRefusal, PTL

LEMMA PromiseInit == StreamInit => Promise!Init
  <1>1. SUFFICES ASSUME StreamInit PROVE Promise!Init
    OBVIOUS
  <1>2. wrote = <<>> /\ got = <<>> /\ result = ""
    BY <1>1 DEF StreamInit, InitFor
  <1>3. SentMessages(<<>>) = <<>>
    BY DEF SentMessages
  <1>4. SentMessages(wrote) = <<>>
    BY <1>2, <1>3
  <1> QED
    BY <1>2, <1>4 DEF Promise!Init, SentMessages

\* A connection keeps the promise of MessageStream: what is read is the next of
\* the messages written, each as it arrives, until the reading is over
\* (write_message and read_message).
THEOREM StreamPromiseHolds == StreamSpec => StreamPromise
  <1>1. WireInv /\ [StreamNext]_streamVars => [Promise!Next]_(Promise!vars)
    BY WireStep
  <1> QED
    BY WireInvariant, PromiseInit, <1>1, PTL DEF StreamSpec, StreamPromise, Promise!Spec

=============================================================================
