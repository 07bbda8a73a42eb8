---------------------------- MODULE Client_proofs ----------------------------
(***************************************************************************)
(* Proofs about the two halves of the client.  ClientInput: the host's      *)
(* pointer lands on the monitor whose picture the user pointed at, in every *)
(* arrangement of monitors that do not overlap and at every mix of scales,  *)
(* and nothing stays pressed.  ClientSession: the inputs reach the host in  *)
(* the order the user made them.  The two share no variable.                *)
(*                                                                         *)
(* Placed is a recursive function, and so is Progress: that the equations   *)
(* which define them have a solution is proved here, by induction over sets *)
(* of naturals.                                                             *)
(***************************************************************************)
EXTENDS ClientInput, ClientSession, SequenceTheorems, WellFoundedInduction, TLAPS

-----------------------------------------------------------------------------
(* Induction, and the greatest member of a finite set *)

\* Every set of naturals that is not empty has a least member.
LEMMA LeastMember ==
  ASSUME NEW T, T \subseteq Nat, T # {}
  PROVE  \E x \in T : \A y \in T : x <= y
  <1>1. PICK R : R = OpToRel(<, Nat)
    OBVIOUS
  <1>2. IsWellFoundedOn(R, Nat)
    BY <1>1, NatLessThanWellFounded
  <1>3. \E x \in T : \A y \in T : <<y, x>> \notin R
    BY <1>2, WFMin
  <1>4. \A x, y \in Nat : x < y <=> <<x, y>> \in R
    BY <1>1 DEF OpToRel
  <1>5. PICK x \in T : \A y \in T : <<y, x>> \notin R
    BY <1>3
  <1>6. \A y \in T : ~ (y < x)
    BY <1>4, <1>5
  <1> QED
    BY <1>5, <1>6

\* Induction, for a property that is a set.
LEMMA Induction ==
  ASSUME NEW S, 0 \in S, \A n \in Nat : n \in S => n + 1 \in S
  PROVE  Nat \subseteq S
  <1> SUFFICES ASSUME Nat \ S # {} PROVE FALSE
    OBVIOUS
  <1>1. PICK x \in Nat \ S : \A y \in Nat \ S : x <= y
    BY LeastMember
  <1>2. x # 0 /\ x - 1 \in Nat
    OBVIOUS
  <1>3. x - 1 \in S
    BY <1>1, <1>2
  <1> QED
    BY <1>1, <1>2, <1>3

\* Among some of the places 1..n one has the greatest value.
LEMMA Greatest ==
  ASSUME NEW n \in Nat, NEW f, \A i \in 1..n : f[i] \in Int,
         NEW T, T \subseteq 1..n, T # {}
  PROVE  \E x \in T : \A y \in T : f[y] <= f[x]
  <1> DEFINE Has(U) == \E x \in U : \A y \in U : f[y] <= f[x]
             S == {k \in Nat : \A U \in SUBSET (1..k) : U \subseteq 1..n /\ U # {} => Has(U)}
  <1>1. 0 \in S
    <2>1. 1..0 = {}
      OBVIOUS
    <2>2. \A U \in SUBSET (1..0) : ~ (U # {})
      BY <2>1
    <2> QED
      BY <2>2
  <1>2. ASSUME NEW k \in Nat, k \in S PROVE k + 1 \in S
    <2> SUFFICES ASSUME NEW U \in SUBSET (1..(k + 1)), U \subseteq 1..n, U # {} PROVE Has(U)
      OBVIOUS
    <2> DEFINE V == U \ {k + 1}
    <2>1. V \in SUBSET (1..k) /\ V \subseteq 1..n
      OBVIOUS
    <2>2. CASE V = {}
      <3>1. U = {k + 1} /\ f[k + 1] \in Int
        BY <2>2
      <3> QED
        BY <3>1
    <2>3. CASE V # {}
      <3>1. PICK x \in V : \A y \in V : f[y] <= f[x]
        BY <1>2, <2>1, <2>3
      <3>2. CASE k + 1 \notin U
        BY <3>1, <3>2
      <3>3. CASE k + 1 \in U /\ f[k + 1] <= f[x]
        BY <3>1, <3>3
      <3>4. CASE k + 1 \in U /\ ~ (f[k + 1] <= f[x])
        <4>1. f[k + 1] \in Int /\ \A y \in U : f[y] \in Int
          BY <3>4
        <4>2. \A y \in U : f[y] <= f[k + 1]
          BY <3>1, <3>4, <4>1
        <4> QED
          BY <3>4, <4>2
      <3> QED
        BY <3>2, <3>3, <3>4
    <2> QED
      BY <2>2, <2>3
  <1> HIDE DEF S
  <1>3. n \in S
    BY <1>1, <1>2, Induction
  <1> QED
    BY <1>3 DEF S

LEMMA MaxIsGreatest ==
  ASSUME NEW n \in Nat, NEW f, \A i \in 1..n : f[i] \in Int,
         NEW T, T \subseteq 1..n, T # {},
         NEW S, S = {f[i] : i \in T}
  PROVE  Max(S) \in S /\ \A y \in S : y <= Max(S)
  <1>1. PICK x \in T : \A y \in T : f[y] <= f[x]
    BY Greatest
  <1>2. \A y \in S : y \in Int
    OBVIOUS
  <1>3. \E a \in S : \A b \in S : a >= b
    BY <1>1, <1>2
  <1>4. Max(S) \in S /\ \A b \in S : Max(S) >= b
    BY <1>3 DEF Max
  <1> QED
    BY <1>2, <1>4

LEMMA MinIsLeast ==
  ASSUME NEW n \in Nat, NEW f, \A i \in 1..n : f[i] \in Int,
         NEW T, T \subseteq 1..n, T # {},
         NEW S, S = {f[i] : i \in T}
  PROVE  Min(S) \in S /\ \A y \in S : Min(S) <= y
  <1> DEFINE g == [i \in 1..n |-> - f[i]]
  <1>1. \A i \in 1..n : g[i] = - f[i] /\ g[i] \in Int
    OBVIOUS
  <1> HIDE DEF g
  <1>2. PICK x \in T : \A y \in T : g[y] <= g[x]
    BY <1>1, Greatest
  <1>3. \A y \in T : f[x] <= f[y]
    BY <1>1, <1>2
  <1>4. \A y \in S : y \in Int
    OBVIOUS
  <1>5. \E a \in S : \A b \in S : a <= b
    BY <1>3
  <1>6. Min(S) \in S /\ \A b \in S : Min(S) <= b
    BY <1>5 DEF Min
  <1> QED
    BY <1>6

LEMMA OfTwo ==
  ASSUME NEW a \in Int, NEW b \in Int
  PROVE  /\ Max({a, b}) = IF a <= b THEN b ELSE a
         /\ Min({a, b}) = IF a <= b THEN a ELSE b
  <1>1. Max({a, b}) \in {a, b} /\ Max({a, b}) >= a /\ Max({a, b}) >= b
    <2>1. \E x \in {a, b} : \A y \in {a, b} : x >= y
      OBVIOUS
    <2> QED
      BY <2>1 DEF Max
  <1>2. Min({a, b}) \in {a, b} /\ Min({a, b}) <= a /\ Min({a, b}) <= b
    <2>1. \E x \in {a, b} : \A y \in {a, b} : x <= y
      OBVIOUS
    <2> QED
      BY <2>1 DEF Min
  <1> QED
    BY <1>1, <1>2

LEMMA OfOne ==
  ASSUME NEW a \in Int
  PROVE  Max({a}) = a /\ Min({a}) = a
  BY DEF Max, Min

\* Finitely many values have bounds.
LEMMA Bounds ==
  ASSUME NEW n \in Nat, NEW f, \A i \in 1..n : f[i] \in Int
  PROVE  \E low, high \in Int : \A i \in 1..n : low <= f[i] /\ f[i] <= high
  <1>1. CASE n = 0
    <2>1. 1..n = {}
      BY <1>1
    <2>2. PICK a \in Int : a = 0
      OBVIOUS
    <2>3. \A i \in 1..n : a <= f[i] /\ f[i] <= a
      BY <2>1
    <2> QED
      BY <2>3
  <1>2. CASE n # 0
    <2> DEFINE T == 1..n
               S == {f[i] : i \in T}
    <2>1. T \subseteq 1..n /\ T # {}
      BY <1>2
    <2>2. Max(S) \in S /\ \A y \in S : y <= Max(S)
      BY <2>1, MaxIsGreatest
    <2>3. Min(S) \in S /\ \A y \in S : Min(S) <= y
      BY <2>1, MinIsLeast
    <2>4. Max(S) \in Int /\ Min(S) \in Int
      BY <2>2, <2>3
    <2>5. \A i \in 1..n : Min(S) <= f[i] /\ f[i] <= Max(S)
      BY <2>2, <2>3
    <2>6. PICK a \in Int, b \in Int : a = Min(S) /\ b = Max(S)
      BY <2>4
    <2>7. \A i \in 1..n : a <= f[i] /\ f[i] <= b
      BY <2>5, <2>6
    <2> QED
      BY <2>7
  <1> QED
    BY <1>1, <1>2

-----------------------------------------------------------------------------
(* Where the overview places a picture *)

LEMMA RegionTypes ==
  ASSUME NEW plan \in Seq(Regions), NEW i \in DOMAIN plan, NEW axis \in Axes
  PROVE  /\ plan[i].at[axis] \in Int
         /\ plan[i].size[axis] \in Nat \ {0}
         /\ plan[i].pixels[axis] \in Nat \ {0}
  <1>1. plan[i] \in Regions
    OBVIOUS
  <1>2. axis = 1 \/ axis = 2
    BY DEF Axes
  <1> QED
    BY <1>1, <1>2 DEF Regions, Lengths

LEMMA RoundedIsInt ==
  ASSUME NEW a \in Int, NEW b \in Nat \ {0}
  PROVE  Rounded(a, b) \in Int
  <1>1. 2 * b \in Nat \ {0} /\ 2 * a + b \in Int /\ b - 2 * a \in Int
    OBVIOUS
  <1>2. \A x \in Int, y \in Nat \ {0} : x \div y \in Int
    OBVIOUS
  <1> QED
    BY <1>1, <1>2 DEF Rounded

\* The regions before one, and its place when f has theirs.
Before(plan, axis, i) == {k \in DOMAIN plan : IsBefore(plan[k], plan[i], axis)}
Ends(plan, axis, f, i) == {f[j] + plan[j].pixels[axis] : j \in Before(plan, axis, i)}
PlaceOf(plan, axis, f, i) ==
    IF Ends(plan, axis, f, i) = {}
      THEN Rounded(plan[i].at[axis] * plan[i].pixels[axis], plan[i].size[axis])
      ELSE Max(Ends(plan, axis, f, i))

LEMMA BeforeBegins ==
  ASSUME NEW plan \in Seq(Regions), NEW axis \in Axes,
         NEW i \in DOMAIN plan, NEW j \in Before(plan, axis, i)
  PROVE  j \in DOMAIN plan /\ plan[j].at[axis] < plan[i].at[axis]
  <1>1. j \in DOMAIN plan /\ plan[j].at[axis] + plan[j].size[axis] <= plan[i].at[axis]
    BY DEF Before, IsBefore
  <1>2. /\ plan[j].at[axis] \in Int /\ plan[j].size[axis] \in Nat \ {0}
        /\ plan[i].at[axis] \in Int
    BY <1>1, RegionTypes
  <1> QED
    BY <1>1, <1>2

\* Only the places of the regions before a region matter to its own.
LEMMA PlaceDepends ==
  ASSUME NEW plan, NEW axis, NEW i, NEW f, NEW g,
         \A j \in Before(plan, axis, i) : f[j] = g[j]
  PROVE  PlaceOf(plan, axis, f, i) = PlaceOf(plan, axis, g, i)
  <1>1. Ends(plan, axis, f, i) = Ends(plan, axis, g, i)
    BY DEF Ends
  <1> QED
    BY <1>1 DEF PlaceOf

\* Regions numbered by where they begin, from 0.
LEMMA Levels ==
  ASSUME NEW plan \in Seq(Regions), NEW axis \in Axes
  PROVE  \E level, top :
           /\ top \in Nat
           /\ \A i \in DOMAIN plan : level[i] \in Nat /\ level[i] < top
           /\ \A i \in DOMAIN plan : \A j \in Before(plan, axis, i) : level[j] < level[i]
  <1> DEFINE at == [i \in DOMAIN plan |-> plan[i].at[axis]]
  <1>1. DOMAIN plan = 1..Len(plan) /\ Len(plan) \in Nat
    OBVIOUS
  <1>2. \A i \in DOMAIN plan : at[i] = plan[i].at[axis] /\ at[i] \in Int
    BY RegionTypes
  <1>3. \A i \in DOMAIN plan : \A j \in Before(plan, axis, i) : j \in DOMAIN plan /\ at[j] < at[i]
    BY <1>2, BeforeBegins
  <1> HIDE DEF at
  <1>4. PICK n : n = Len(plan)
    OBVIOUS
  <1>5. PICK low \in Int, high \in Int : \A i \in 1..n : low <= at[i] /\ at[i] <= high
    BY <1>1, <1>2, <1>4, Bounds
  <1> DEFINE level == [i \in DOMAIN plan |-> at[i] - low]
             top == IF low <= high THEN high - low + 1 ELSE 0
  <1>6. \A i \in DOMAIN plan : level[i] = at[i] - low
    OBVIOUS
  <1>7. top \in Nat
    OBVIOUS
  <1>8. \A i \in DOMAIN plan : level[i] \in Nat /\ level[i] < top
    BY <1>1, <1>2, <1>4, <1>5, <1>6
  <1>9. \A i \in DOMAIN plan : \A j \in Before(plan, axis, i) : level[j] < level[i]
    BY <1>2, <1>3, <1>6
  <1> QED
    BY <1>7, <1>8, <1>9

LEMMA PlacesExist ==
  ASSUME NEW plan \in Seq(Regions), NEW axis \in Axes
  PROVE  \E f : f = [i \in DOMAIN plan |-> PlaceOf(plan, axis, f, i)]
  <1> DEFINE D == DOMAIN plan
             P(f, i) == PlaceOf(plan, axis, f, i)
  <1>1. PICK level, top :
          /\ top \in Nat
          /\ \A i \in D : level[i] \in Nat /\ level[i] < top
          /\ \A i \in D : \A j \in Before(plan, axis, i) : level[j] < level[i]
    BY Levels
  <1>2. \A i \in D : Before(plan, axis, i) \subseteq D
    BY DEF Before
  <1> DEFINE Right(f, n) == /\ f = [i \in D |-> f[i]]
                            /\ \A i \in D : level[i] < n => f[i] = P(f, i)
             S == {n \in Nat : \E f : Right(f, n)}
  <1>3. 0 \in S
    <2> DEFINE f == [i \in D |-> 0]
    <2>1. Right(f, 0)
      BY <1>1
    <2> QED
      BY <2>1
  <1>4. ASSUME NEW n \in Nat, n \in S PROVE n + 1 \in S
    <2>1. PICK f : Right(f, n)
      BY <1>4
    <2> DEFINE g == [i \in D |-> IF level[i] < n THEN f[i] ELSE P(f, i)]
    <2>2. \A i \in D : g[i] = IF level[i] < n THEN f[i] ELSE P(f, i)
      OBVIOUS
    <2>3. g = [i \in D |-> g[i]]
      OBVIOUS
    <2> HIDE DEF g
    <2>4. ASSUME NEW i \in D, level[i] < n + 1 PROVE g[i] = P(g, i)
      <3>1. \A j \in Before(plan, axis, i) : j \in D /\ level[j] < n
        BY <1>1, <1>2, <2>4
      <3>2. \A j \in Before(plan, axis, i) : f[j] = g[j]
        BY <2>2, <3>1
      <3>3. P(f, i) = P(g, i)
        BY <3>2, PlaceDepends
      <3>4. g[i] = P(f, i)
        BY <2>1, <2>2
      <3> QED
        BY <3>3, <3>4
    <2>5. Right(g, n + 1)
      BY <2>3, <2>4
    <2> QED
      BY <2>5
  <1> HIDE DEF S
  <1>5. top \in S
    BY <1>1, <1>3, <1>4, Induction
  <1>6. PICK f : Right(f, top)
    BY <1>5 DEF S
  <1>7. f = [i \in D |-> P(f, i)]
    BY <1>1, <1>6
  <1> QED
    BY <1>7

LEMMA PlacedIs ==
  ASSUME NEW plan \in Seq(Regions), NEW axis \in Axes
  PROVE  Placed(plan, axis) =
           [i \in DOMAIN plan |-> PlaceOf(plan, axis, Placed(plan, axis), i)]
  <1>1. Placed(plan, axis) = CHOOSE f : f = [i \in DOMAIN plan |-> PlaceOf(plan, axis, f, i)]
    BY DEF Placed, PlaceOf, Ends, Before
  <1> QED
    BY <1>1, PlacesExist

LEMMA EndsAreOfPlaces ==
  ASSUME NEW plan \in Seq(Regions), NEW axis \in Axes, NEW i \in DOMAIN plan,
         NEW f, \A j \in Before(plan, axis, i) : f[j] \in Int,
         Before(plan, axis, i) # {}
  PROVE  /\ PlaceOf(plan, axis, f, i) \in Int
         /\ \A j \in Before(plan, axis, i) :
              f[j] + plan[j].pixels[axis] <= PlaceOf(plan, axis, f, i)
  <1> DEFINE B == Before(plan, axis, i)
             n == Len(plan)
             g == [j \in 1..n |-> IF j \in B THEN f[j] + plan[j].pixels[axis] ELSE 0]
             S == {g[j] : j \in B}
  <1>1. n \in Nat /\ DOMAIN plan = 1..n
    OBVIOUS
  <1>2. B \subseteq 1..n
    BY <1>1 DEF Before
  <1>3. \A j \in B : plan[j].pixels[axis] \in Int
    BY <1>1, <1>2, RegionTypes
  <1>4. \A j \in B : g[j] = f[j] + plan[j].pixels[axis]
    BY <1>2
  <1>5. \A j \in 1..n : g[j] \in Int
    BY <1>3
  <1>6. S = Ends(plan, axis, f, i)
    BY <1>4 DEF Ends
  <1> HIDE DEF g, n
  <1>7. B # {}
    OBVIOUS
  <1> HIDE DEF B
  <1>8. Max(S) \in S /\ \A y \in S : y <= Max(S)
    BY <1>1, <1>2, <1>5, <1>7, MaxIsGreatest
  <1>9. S # {} /\ \A y \in S : y \in Int
    BY <1>2, <1>5, <1>7
  <1>10. PlaceOf(plan, axis, f, i) = Max(S)
    BY <1>6, <1>9 DEF PlaceOf
  <1>11. \A j \in B : f[j] + plan[j].pixels[axis] \in S
    BY <1>4
  <1> QED
    BY <1>8, <1>9, <1>10, <1>11 DEF B

LEMMA PlacedInInt ==
  ASSUME NEW plan \in Seq(Regions), NEW axis \in Axes, NEW i \in DOMAIN plan
  PROVE  Placed(plan, axis)[i] \in Int
  <1> DEFINE D == DOMAIN plan
  <1>1. PICK f : f = Placed(plan, axis)
    OBVIOUS
  <1>2. \A k \in D : f[k] = PlaceOf(plan, axis, f, k)
    BY <1>1, PlacedIs
  <1>3. PICK level, top :
          /\ top \in Nat
          /\ \A k \in D : level[k] \in Nat /\ level[k] < top
          /\ \A k \in D : \A j \in Before(plan, axis, k) : level[j] < level[k]
    BY Levels
  <1> DEFINE S == {n \in Nat : \A k \in D : level[k] < n => f[k] \in Int}
  <1>4. 0 \in S
    BY <1>3
  <1>5. ASSUME NEW n \in Nat, n \in S PROVE n + 1 \in S
    <2> SUFFICES ASSUME NEW k \in D, level[k] < n + 1 PROVE f[k] \in Int
      OBVIOUS
    <2>1. \A j \in Before(plan, axis, k) : j \in D
      BY DEF Before
    <2>2. \A j \in Before(plan, axis, k) : level[j] < n
      BY <1>3, <2>1
    <2>3. \A j \in Before(plan, axis, k) : f[j] \in Int
      BY <1>5, <2>1, <2>2
    <2>4. CASE Before(plan, axis, k) # {}
      BY <1>2, <2>3, <2>4, EndsAreOfPlaces
    <2>5. CASE Before(plan, axis, k) = {}
      <3>1. f[k] = Rounded(plan[k].at[axis] * plan[k].pixels[axis], plan[k].size[axis])
        BY <1>2, <2>5 DEF PlaceOf, Ends
      <3>2. /\ plan[k].at[axis] \in Int /\ plan[k].size[axis] \in Nat \ {0}
            /\ plan[k].pixels[axis] \in Int
        BY RegionTypes
      <3>3. plan[k].at[axis] * plan[k].pixels[axis] \in Int
        BY <3>2
      <3> QED
        BY <3>1, <3>2, <3>3, RoundedIsInt
    <2> QED
      BY <2>4, <2>5
  <1> HIDE DEF S
  <1>6. top \in S
    BY <1>3, <1>4, <1>5, Induction
  <1>7. f[i] \in Int
    BY <1>3, <1>6 DEF S
  <1> QED
    BY <1>1, <1>7

\* A picture begins where those before it have ended.
LEMMA PicturesInTurn ==
  ASSUME NEW plan \in Seq(Regions), NEW axis \in Axes,
         NEW i \in DOMAIN plan, NEW j \in DOMAIN plan,
         IsBefore(plan[i], plan[j], axis)
  PROVE  Placed(plan, axis)[i] + plan[i].pixels[axis] <= Placed(plan, axis)[j]
  <1>1. PICK f : f = Placed(plan, axis)
    OBVIOUS
  <1>2. \A k \in DOMAIN plan : f[k] = PlaceOf(plan, axis, f, k) /\ f[k] \in Int
    BY <1>1, PlacedIs, PlacedInInt
  <1>3. i \in Before(plan, axis, j)
    BY DEF Before
  <1>4. \A k \in Before(plan, axis, j) : f[k] \in Int
    BY <1>2 DEF Before
  <1>5. f[i] + plan[i].pixels[axis] <= PlaceOf(plan, axis, f, j)
    BY <1>3, <1>4, EndsAreOfPlaces
  <1> QED
    BY <1>1, <1>2, <1>5

\* A point of the overview, and the picture of monitor i.
InPicture(plan, i, p) ==
    \A axis \in Axes :
        p[axis] \in Placed(plan, axis)[i]..(Placed(plan, axis)[i] + plan[i].pixels[axis] - 1)

\* However monitors are arranged and scaled, as long as they do not overlap
\* their pictures in the overview do not either: no point of pixel_origins'
\* layout belongs to two of them.
THEOREM PicturesDoNotOverlap ==
  ASSUME NEW plan \in Seq(Regions), Apart(plan),
         NEW i \in DOMAIN plan, NEW j \in DOMAIN plan,
         NEW p, \A axis \in Axes : p[axis] \in Int,
         InPicture(plan, i, p), InPicture(plan, j, p)
  PROVE  i = j
  <1> SUFFICES ASSUME i # j PROVE FALSE
    OBVIOUS
  <1>1. PICK axis \in Axes : IsBefore(plan[i], plan[j], axis) \/ IsBefore(plan[j], plan[i], axis)
    BY DEF Apart
  <1>2. PICK f : f = Placed(plan, axis)
    OBVIOUS
  <1>3. f[i] \in Int /\ f[j] \in Int
    BY <1>2, PlacedInInt
  <1>4. plan[i].pixels[axis] \in Nat /\ plan[j].pixels[axis] \in Nat
    BY RegionTypes
  <1>5. /\ f[i] <= p[axis] /\ p[axis] <= f[i] + plan[i].pixels[axis] - 1
        /\ f[j] <= p[axis] /\ p[axis] <= f[j] + plan[j].pixels[axis] - 1
        /\ p[axis] \in Int
    BY <1>2, <1>3, <1>4 DEF InPicture
  <1>6. f[i] + plan[i].pixels[axis] <= f[j] \/ f[j] + plan[j].pixels[axis] <= f[i]
    BY <1>1, <1>2, PicturesInTurn
  <1>7. PICK a \in Int, b \in Int, m \in Nat, n \in Nat, x \in Int :
          /\ a = f[i] /\ b = f[j] /\ x = p[axis]
          /\ m = plan[i].pixels[axis] /\ n = plan[j].pixels[axis]
    BY <1>3, <1>4, <1>5
  <1>8. /\ a <= x /\ x <= a + m - 1
        /\ b <= x /\ x <= b + n - 1
        /\ a + m <= b \/ b + n <= a
    BY <1>5, <1>6, <1>7
  <1> QED
    BY <1>8

-----------------------------------------------------------------------------
(* Where the device puts the pointer *)

LEMMA Products ==
  ASSUME NEW a \in Nat, NEW b \in Nat, NEW c \in Nat, a <= b
  PROVE  a * c <= b * c /\ a * c \in Nat
  OBVIOUS

\* The whole part of a fraction below n is below n.
LEMMA Quotient ==
  ASSUME NEW x \in Nat, NEW d \in Nat \ {0}, NEW n \in Nat, x < n * d
  PROVE  x \div d \in 0..(n - 1)
  <1>1. PICK q \in Int : q = x \div d
    OBVIOUS
  <1>2. q * d <= x /\ x < (q + 1) * d
    BY <1>1
  <1>3. q < n
    <2> SUFFICES ASSUME n <= q PROVE FALSE
      BY <1>1
    <2>1. q \in Nat
      OBVIOUS
    <2>2. n * d <= q * d
      BY <2>1, Products
    <2>3. PICK u \in Int, v \in Int : u = n * d /\ v = q * d
      BY <2>1
    <2> QED
      BY <1>2, <2>2, <2>3
  <1>4. q >= 0
    <2> SUFFICES ASSUME q < 0 PROVE FALSE
      OBVIOUS
    <2>1. (q + 1) * d <= 0
      <3>1. PICK r \in Nat : r = - (q + 1)
        OBVIOUS
      <3>2. r * d \in Nat
        BY <3>1
      <3>3. (q + 1) * d = - (r * d)
        BY <3>1
      <3> QED
        BY <3>2, <3>3
    <2> QED
      BY <1>2, <2>1
  <1> QED
    BY <1>1, <1>3, <1>4

\* A pixel of a picture is a point of the region, in steps of the device.
LEMMA PixelInRegion ==
  ASSUME NEW plan \in Seq(Regions), NEW i \in DOMAIN plan, NEW axis \in Axes,
         NEW p, p[axis] \in 0..(plan[i].pixels[axis] - 1)
  PROVE  ToLayout(plan[i], p)[axis] \in
           (plan[i].at[axis] * SUBPIXEL)..((plan[i].at[axis] + plan[i].size[axis]) * SUBPIXEL - 1)
  <1>1. PICK x \in Int, s \in Nat \ {0}, d \in Nat \ {0}, v \in Nat :
          /\ x = plan[i].at[axis] /\ s = plan[i].size[axis]
          /\ d = plan[i].pixels[axis] /\ v = p[axis]
    <2>1. /\ plan[i].at[axis] \in Int
          /\ plan[i].size[axis] \in Nat \ {0}
          /\ plan[i].pixels[axis] \in Nat \ {0}
      BY RegionTypes
    <2>2. p[axis] \in Nat
      BY <2>1
    <2> QED
      BY <2>1, <2>2
  <1>2. v <= d - 1 /\ d - 1 \in Nat
    BY <1>1
  <1>3. PICK t \in Nat : t = v * s * 8
    OBVIOUS
  <1>4. t < (s * 8) * d
    <2>1. PICK m \in Nat : m = s * 8
      OBVIOUS
    <2>2. m > 0
      BY <2>1
    <2>3. t = v * m
      BY <1>3, <2>1
    <2>4. v * m <= (d - 1) * m
      BY <1>2, Products
    <2>5. (d - 1) * m = m * d - m
      OBVIOUS
    <2>6. PICK a \in Int, b \in Int : a = v * m /\ b = m * d
      OBVIOUS
    <2>7. a < b
      BY <2>2, <2>4, <2>5, <2>6
    <2> QED
      BY <2>1, <2>3, <2>6, <2>7
  <1>5. s * 8 \in Nat
    OBVIOUS
  <1>6. t \div d \in 0..(s * 8 - 1)
    BY <1>4, <1>5, Quotient
  <1>7. ToLayout(plan[i], p)[axis] = x * 8 + t \div d
    BY <1>1, <1>3 DEF ToLayout, SUBPIXEL
  <1>8. PICK q \in Int : q = t \div d
    BY <1>6
  <1>9. x * 8 + q \in (x * 8)..((x + s) * 8 - 1)
    BY <1>6, <1>8
  <1> QED
    BY <1>1, <1>7, <1>8, <1>9 DEF SUBPIXEL

LEMMA DeviceAxes ==
  ASSUME NEW plan \in Seq(Regions), NEW i \in DOMAIN plan, NEW axis \in Axes
  PROVE  /\ LowEnd(plan, axis) \in Int /\ HighEnd(plan, axis) \in Int
         /\ LowEnd(plan, axis) <= plan[i].at[axis] * SUBPIXEL
         /\ (plan[i].at[axis] + plan[i].size[axis]) * SUBPIXEL - 1 <= HighEnd(plan, axis)
         /\ LowEnd(plan, axis) <= HighEnd(plan, axis)
  <1> DEFINE n == Len(plan)
             T == 1..n
             f == [k \in 1..n |-> plan[k].at[axis] * SUBPIXEL]
             g == [k \in 1..n |-> (plan[k].at[axis] + plan[k].size[axis]) * SUBPIXEL - 1]
             F == {f[k] : k \in T}
             G == {g[k] : k \in T}
  <1>1. n \in Nat /\ DOMAIN plan = T /\ T \subseteq 1..n /\ i \in T
    OBVIOUS
  <1>2. \A k \in T : plan[k].at[axis] \in Int /\ plan[k].size[axis] \in Nat \ {0}
    BY <1>1, RegionTypes
  <1>3. \A k \in 1..n : f[k] \in Int /\ g[k] \in Int
    BY <1>2 DEF SUBPIXEL
  <1>4. F = {plan[k].at[axis] * SUBPIXEL : k \in DOMAIN plan}
    BY <1>1
  <1>5. G = {(plan[k].at[axis] + plan[k].size[axis]) * SUBPIXEL - 1 : k \in DOMAIN plan}
    BY <1>1
  <1>6. /\ f[i] = plan[i].at[axis] * SUBPIXEL
        /\ g[i] = (plan[i].at[axis] + plan[i].size[axis]) * SUBPIXEL - 1
        /\ f[i] <= g[i]
    BY <1>1, <1>2 DEF SUBPIXEL
  <1>7. f[i] \in F /\ g[i] \in G
    BY <1>1
  <1>8. T # {}
    BY <1>1
  <1> HIDE DEF f, g, n, T
  <1>9. Min(F) \in F /\ \A y \in F : Min(F) <= y
    BY <1>1, <1>3, <1>8, MinIsLeast
  <1>10. Max(G) \in G /\ \A y \in G : y <= Max(G)
    BY <1>1, <1>3, <1>8, MaxIsGreatest
  <1>11. Min(F) \in Int /\ Max(G) \in Int /\ f[i] \in Int /\ g[i] \in Int
    BY <1>1, <1>3, <1>9, <1>10
  <1>12. LowEnd(plan, axis) = Min(F) /\ HighEnd(plan, axis) = Max(G)
    BY <1>4, <1>5 DEF LowEnd, HighEnd
  <1> HIDE DEF F, G
  <1> QED
    BY <1>6, <1>7, <1>9, <1>10, <1>11, <1>12

LEMMA ClampedToAxes ==
  ASSUME NEW plan \in Seq(Regions), NEW i \in DOMAIN plan, NEW axis \in Axes,
         NEW p, p[axis] \in Int
  PROVE  /\ Clamped(plan, p)[axis] \in LowEnd(plan, axis)..HighEnd(plan, axis)
         /\ p[axis] \in LowEnd(plan, axis)..HighEnd(plan, axis) => Clamped(plan, p)[axis] = p[axis]
  <1>1. PICK low \in Int, high \in Int, x \in Int :
          /\ low = LowEnd(plan, axis) /\ high = HighEnd(plan, axis) /\ x = p[axis]
          /\ low <= high
    BY DeviceAxes
  <1>2. PICK y \in Int : y = Max({low, x}) /\ y = IF low <= x THEN x ELSE low
    BY OfTwo
  <1>3. Min({high, y}) = IF high <= y THEN high ELSE y
    BY OfTwo
  <1>4. Clamped(plan, p)[axis] = Min({high, y})
    BY <1>1, <1>2 DEF Clamped
  <1>5. PICK c : c = Clamped(plan, p)[axis]
    OBVIOUS
  <1>6. c = IF high <= y THEN high ELSE y
    BY <1>3, <1>4, <1>5
  <1>7. c \in low..high /\ (x \in low..high => c = x)
    BY <1>1, <1>2, <1>6
  <1> QED
    BY <1>1, <1>5, <1>7

LEMMA NatsAreInts == ASSUME NEW n \in Nat PROVE n \in Int
  OBVIOUS

\* Whatever a message says, the device's pointer stays on its axes.
LEMMA PointerOnAxes ==
  ASSUME NEW plan \in Seq(Regions), NEW i \in DOMAIN plan, NEW axis \in Axes,
         NEW d, NEW p, p[axis] \in Int
  PROVE  PointerAt(plan, d, p)[axis] \in LowEnd(plan, axis)..HighEnd(plan, axis)
  <1>1. CASE d \in DOMAIN plan
    <2>1. PICK q : q = ToLayout(plan[d], p)
      OBVIOUS
    <2>2. /\ plan[d].at[axis] \in Int /\ plan[d].size[axis] \in Nat \ {0}
          /\ plan[d].pixels[axis] \in Nat \ {0}
      BY <1>1, RegionTypes
    <2>3. (p[axis] * plan[d].size[axis] * SUBPIXEL) \div plan[d].pixels[axis] \in Int
      <3>1. PICK u \in Int, v \in Int, b \in Nat \ {0} :
              u = p[axis] /\ v = plan[d].size[axis] /\ b = plan[d].pixels[axis]
        BY <2>2, Zenon, NatsAreInts
      <3>2. PICK w \in Int : w = u * v
        OBVIOUS
      <3>3. PICK a \in Int : a = w * SUBPIXEL
        BY DEF SUBPIXEL
      <3>4. a \div b \in Int
        OBVIOUS
      <3>5. a = p[axis] * plan[d].size[axis] * SUBPIXEL
        BY <3>1, <3>2, <3>3, Zenon
      <3> QED
        BY <3>1, <3>4, <3>5, Zenon
    <2>4. q[axis] \in Int
      BY <2>1, <2>2, <2>3 DEF ToLayout, SUBPIXEL
    <2>5. PointerAt(plan, d, p) = Clamped(plan, q)
      BY <1>1, <2>1 DEF PointerAt
    <2> QED
      BY <2>4, <2>5, ClampedToAxes
  <1>2. CASE d \notin DOMAIN plan
    <2>1. PICK q : q = [a \in Axes |-> LowEnd(plan, a)]
      OBVIOUS
    <2>2. q[axis] \in Int
      BY <2>1, DeviceAxes
    <2>3. PointerAt(plan, d, p) = Clamped(plan, q)
      BY <1>2, <2>1 DEF PointerAt
    <2> QED
      BY <2>2, <2>3, ClampedToAxes
  <1> QED
    BY <1>1, <1>2

\* A pixel of a monitor's picture puts the pointer on that monitor.
LEMMA PointerInside ==
  ASSUME NEW plan \in Seq(Regions), NEW i \in DOMAIN plan,
         NEW p, \A axis \in Axes : p[axis] \in 0..(plan[i].pixels[axis] - 1)
  PROVE  Inside(plan[i], PointerAt(plan, i, p))
  <1> SUFFICES ASSUME NEW axis \in Axes
      PROVE PointerAt(plan, i, p)[axis] \in
              (plan[i].at[axis] * SUBPIXEL)..((plan[i].at[axis] + plan[i].size[axis]) * SUBPIXEL - 1)
    BY DEF Inside
  <1>1. PICK q : q = ToLayout(plan[i], p)
    OBVIOUS
  <1>2. PICK a, b : /\ a = plan[i].at[axis] * SUBPIXEL
                    /\ b = (plan[i].at[axis] + plan[i].size[axis]) * SUBPIXEL - 1
    OBVIOUS
  <1>3. q[axis] \in a..b
    BY <1>1, <1>2, PixelInRegion
  <1>4. a \in Int /\ b \in Int
    BY <1>2, RegionTypes DEF SUBPIXEL
  <1>5. /\ LowEnd(plan, axis) \in Int /\ HighEnd(plan, axis) \in Int
        /\ LowEnd(plan, axis) <= a /\ b <= HighEnd(plan, axis)
    BY <1>2, DeviceAxes
  <1>6. q[axis] \in Int /\ q[axis] \in LowEnd(plan, axis)..HighEnd(plan, axis)
    BY <1>3, <1>4, <1>5
  <1>7. Clamped(plan, q)[axis] = q[axis]
    BY <1>6, ClampedToAxes
  <1>8. PointerAt(plan, i, p) = Clamped(plan, q)
    BY <1>1 DEF PointerAt
  <1> QED
    BY <1>2, <1>3, <1>7, <1>8

-----------------------------------------------------------------------------
(* What is held after messages *)

Pointings == [type : {"move"}, display : Nat, at : [Axes -> Int], aim : Nat]
Presses == [type : {"key", "button"}, code : Physical, pressed : BOOLEAN]
Messages == Pointings \cup Presses

\* Nothing in s is about a key.
Silent(s, what) == \A i \in DOMAIN s : ~ IsAbout(s[i], what)

\* What is held after one message.
Applied(h, m) ==
    IF m.type = "move" THEN h
    ELSE IF m.pressed THEN h \cup {m.code} ELSE h \ {m.code}

LEMMA MessageTypes ==
  ASSUME NEW m \in Messages
  PROVE  m.type # "move" => m.pressed \in BOOLEAN /\ m.code \in Physical
  BY DEF Messages, Pointings, Presses

LEMMA HeldAfterNone ==
  ASSUME NEW h, NEW what
  PROVE  HeldAfter(h, <<>>, what) <=> what \in h
  BY DEF HeldAfter

\* The last message decides, if it is about the key.
LEMMA HeldAfterOneMore ==
  ASSUME NEW h, NEW s \in Seq(Messages), NEW m \in Messages, NEW what
  PROVE  HeldAfter(h, Append(s, m), what) <=>
           IF IsAbout(m, what) THEN m.pressed ELSE HeldAfter(h, s, what)
  <1> DEFINE t == Append(s, m)
             n == Len(s)
  <1>1. /\ n \in Nat /\ DOMAIN s = 1..n /\ DOMAIN t = 1..(n + 1) /\ Len(t) = n + 1
        /\ t[n + 1] = m /\ \A i \in 1..n : t[i] = s[i]
    OBVIOUS
  <1>2. IsAbout(m, what) => m.pressed \in BOOLEAN
    BY MessageTypes DEF IsAbout
  <1> HIDE DEF t, n
  <1>3. CASE IsAbout(m, what)
    <2>1. HeldAfter(h, t, what) => m.pressed
      <3>1. n + 1 \in DOMAIN t /\ IsAbout(t[n + 1], what)
        BY <1>1, <1>3
      <3>2. ASSUME NEW i \in DOMAIN t, t[i].pressed,
                   \A j \in (i + 1)..Len(t) : ~ IsAbout(t[j], what)
            PROVE  m.pressed
        <4>1. i \in 1..(n + 1)
          BY <1>1
        <4>2. i # n + 1 => n + 1 \in (i + 1)..Len(t)
          BY <1>1, <4>1
        <4>3. i = n + 1
          BY <4>2, <3>1, <3>2
        <4> QED
          BY <1>1, <3>2, <4>3
      <3> QED
        BY <3>1, <3>2 DEF HeldAfter
    <2>2. m.pressed => HeldAfter(h, t, what)
      <3>1. n + 1 \in DOMAIN t /\ IsAbout(t[n + 1], what) /\ t[n + 1] = m
        BY <1>1, <1>3
      <3>2. \A j \in ((n + 1) + 1)..Len(t) : FALSE
        BY <1>1
      <3> QED
        BY <3>1, <3>2 DEF HeldAfter
    <2> QED
      BY <2>1, <2>2, <1>2, <1>3 DEF t
  <1>4. CASE ~ IsAbout(m, what)
    <2>1. (\A i \in DOMAIN t : ~ IsAbout(t[i], what)) <=> (\A i \in DOMAIN s : ~ IsAbout(s[i], what))
      <3>1. \A i \in 1..(n + 1) : i \in 1..n \/ i = n + 1
        BY <1>1
      <3>2. \A i \in 1..n : i \in 1..(n + 1)
        BY <1>1
      <3> QED
        BY <1>1, <1>4, <3>1, <3>2
    <2>2. ASSUME NEW i \in DOMAIN s
          PROVE  (\A j \in (i + 1)..Len(t) : ~ IsAbout(t[j], what))
                   <=> (\A j \in (i + 1)..Len(s) : ~ IsAbout(s[j], what))
      <3>1. i \in 1..n /\ Len(s) = n
        BY <1>1 DEF n
      <3>2. \A j \in (i + 1)..(n + 1) : j \in (i + 1)..n \/ j = n + 1
        BY <1>1, <3>1
      <3>3. \A j \in (i + 1)..n : j \in (i + 1)..(n + 1) /\ j \in 1..n
        BY <1>1, <3>1
      <3> QED
        BY <1>1, <1>4, <3>1, <3>2, <3>3
    <2>3. \A i \in DOMAIN t : IsAbout(t[i], what) => i \in DOMAIN s
      <3>1. \A i \in 1..(n + 1) : i \in 1..n \/ i = n + 1
        BY <1>1
      <3> QED
        BY <1>1, <1>4, <3>1
    <2>4. \A i \in DOMAIN s : i \in DOMAIN t /\ t[i] = s[i]
      BY <1>1
    <2>5. HeldAfter(h, t, what) <=> HeldAfter(h, s, what)
      BY <2>1, <2>2, <2>3, <2>4 DEF HeldAfter
    <2> QED
      BY <1>4, <2>5 DEF t
  <1> QED
    BY <1>3, <1>4

\* The first message may as well be given at once.
LEMMA HeldAfterFirst ==
  ASSUME NEW h, NEW s \in Seq(Messages), s # <<>>, NEW what
  PROVE  HeldAfter(h, s, what) <=> HeldAfter(Applied(h, Head(s)), Tail(s), what)
  <1> DEFINE t == Tail(s)
             n == Len(s)
             m == Head(s)
             g == Applied(h, m)
  <1>1. /\ n \in Nat /\ n >= 1 /\ DOMAIN s = 1..n /\ DOMAIN t = 1..(n - 1) /\ Len(t) = n - 1
        /\ s[1] = m /\ \A i \in 1..(n - 1) : t[i] = s[i + 1]
    OBVIOUS
  <1>2. m \in Messages
    OBVIOUS
  <1>3. IsAbout(m, what) => (what \in g <=> m.pressed)
    BY <1>2, MessageTypes DEF IsAbout, Applied
  <1>4. ~ IsAbout(m, what) => (what \in g <=> what \in h)
    BY <1>2, MessageTypes DEF IsAbout, Applied
  <1>l. Len(s) = n
    OBVIOUS
  <1> HIDE DEF t, n, m, g
  <1>5. (\A i \in DOMAIN s : ~ IsAbout(s[i], what))
          <=> ~ IsAbout(m, what) /\ (\A i \in DOMAIN t : ~ IsAbout(t[i], what))
    <2>1. \A i \in 1..n : i = 1 \/ (i - 1 \in 1..(n - 1) /\ (i - 1) + 1 = i)
      BY <1>1
    <2>2. \A i \in 1..(n - 1) : i + 1 \in 1..n
      BY <1>1
    <2>3. 1 \in 1..n
      BY <1>1
    <2> QED
      BY <1>1, <2>1, <2>2, <2>3
  <1>6. (\A j \in (1 + 1)..n : ~ IsAbout(s[j], what)) <=> \A i \in DOMAIN t : ~ IsAbout(t[i], what)
    <2>1. \A j \in (1 + 1)..n : j - 1 \in 1..(n - 1) /\ (j - 1) + 1 = j
      BY <1>1
    <2>2. \A i \in 1..(n - 1) : i + 1 \in (1 + 1)..n
      BY <1>1
    <2> QED
      BY <1>1, <2>1, <2>2
  <1>7. ASSUME NEW i \in DOMAIN t
        PROVE  (\A j \in ((i + 1) + 1)..n : ~ IsAbout(s[j], what))
                 <=> (\A j \in (i + 1)..Len(t) : ~ IsAbout(t[j], what))
    <2>0. i \in 1..(n - 1) /\ Len(t) = n - 1
      BY <1>1
    <2>1. \A j \in ((i + 1) + 1)..n : /\ j - 1 \in (i + 1)..(n - 1) /\ j - 1 \in 1..(n - 1)
                                      /\ (j - 1) + 1 = j
      BY <1>1, <2>0
    <2>2. \A j \in (i + 1)..(n - 1) : j + 1 \in ((i + 1) + 1)..n /\ j \in 1..(n - 1)
      BY <1>1, <2>0
    <2> QED
      BY <1>1, <2>0, <2>1, <2>2
  <1> DEFINE Last(i) == /\ IsAbout(s[i], what) /\ s[i].pressed
                        /\ \A j \in (i + 1)..n : ~ IsAbout(s[j], what)
             LastOf(i) == /\ IsAbout(t[i], what) /\ t[i].pressed
                          /\ \A j \in (i + 1)..Len(t) : ~ IsAbout(t[j], what)
  <1>8. \A i \in DOMAIN t : LastOf(i) <=> Last(i + 1)
    BY <1>1, <1>7
  <1>9. Last(1) <=> IsAbout(m, what) /\ m.pressed /\ \A i \in DOMAIN t : ~ IsAbout(t[i], what)
    BY <1>1, <1>6
  <1>10. (\E i \in DOMAIN s : Last(i)) <=> Last(1) \/ \E i \in DOMAIN t : LastOf(i)
    <2>1. \A i \in 1..n : i = 1 \/ (i - 1 \in 1..(n - 1) /\ (i - 1) + 1 = i)
      BY <1>1
    <2>2. \A i \in 1..(n - 1) : i + 1 \in 1..n
      BY <1>1
    <2>3. 1 \in 1..n
      BY <1>1
    <2> HIDE DEF Last, LastOf
    <2>4. ASSUME NEW i \in DOMAIN s, Last(i) PROVE Last(1) \/ \E k \in DOMAIN t : LastOf(k)
      <3>1. CASE i = 1
        BY <2>4, <3>1
      <3>2. CASE i # 1
        <4>1. i - 1 \in DOMAIN t /\ (i - 1) + 1 = i
          BY <1>1, <2>1, <3>2
        <4>2. LastOf(i - 1)
          BY <1>8, <2>4, <4>1
        <4> QED
          BY <4>1, <4>2
      <3> QED
        BY <3>1, <3>2
    <2>5. ASSUME NEW k \in DOMAIN t, LastOf(k) PROVE \E i \in DOMAIN s : Last(i)
      <3>1. k + 1 \in DOMAIN s
        BY <1>1, <2>2
      <3>2. Last(k + 1)
        BY <1>8, <2>5
      <3> QED
        BY <3>1, <3>2
    <2>6. 1 \in DOMAIN s
      BY <1>1, <2>3
    <2> QED
      BY <2>4, <2>5, <2>6
  <1>11. HeldAfter(h, s, what) <=> \/ what \in h /\ \A i \in DOMAIN s : ~ IsAbout(s[i], what)
                                   \/ \E i \in DOMAIN s : Last(i)
    BY <1>l DEF HeldAfter
  <1>12. HeldAfter(g, t, what) <=> \/ what \in g /\ \A i \in DOMAIN t : ~ IsAbout(t[i], what)
                                   \/ \E i \in DOMAIN t : LastOf(i)
    BY DEF HeldAfter
  <1> HIDE DEF Last, LastOf
  <1>13. HeldAfter(h, s, what) <=> HeldAfter(g, t, what)
    BY <1>3, <1>4, <1>5, <1>9, <1>10, <1>11, <1>12
  <1> QED
    BY <1>13 DEF g, t, m

-----------------------------------------------------------------------------
(* The invariant *)

\* A message that points aims at the monitor it names, as long as no monitor
\* has changed its mode.
AimsWell(m) ==
    m.type = "move" =>
      /\ m.display \in Displays
      /\ resized = {} =>
           /\ m.aim = m.display
           /\ \A axis \in Axes : m.at[axis] \in 0..(layout[m.display].pixels[axis] - 1)

Types ==
    /\ layout \in Layouts
    /\ shown \in [Displays -> [at : [Axes -> Int], size : Lengths]]
    /\ focus \in {None, Main} \cup Displays
    /\ pointer = None \/ pointer \in [window : Nat, at : Int \X Int]
    /\ detached \in SUBSET Displays
    /\ fullscreen \in SUBSET Displays
    /\ cached \in SUBSET Modifiers
    /\ down \in SUBSET Physical
    /\ missed \in SUBSET Physical
    /\ held \in SUBSET Physical
    /\ queue \in Seq(Messages)
    /\ resized \in SUBSET Displays

\* The overview is laid out as the session found the monitors.
Overview ==
    \A d \in Displays : \A axis \in Axes :
        /\ shown[d].at[axis] = Placed(layout, axis)[d]
        /\ resized = {} => shown[d].size[axis] = layout[d].pixels[axis]

Aims == \A i \in DOMAIN queue : AimsWell(queue[i])

InputInv == Types /\ Overview /\ Aims /\ PointerOnTarget /\ ModifiersAgree /\ NothingStuck

LEMMA LayoutType ==
  ASSUME Types
  PROVE  /\ layout \in Seq(Regions) /\ Apart(layout)
         /\ Displays = 1..Len(layout) /\ Len(layout) \in Nat
         /\ Displays \subseteq Nat \ {0}
  <1>1. layout \in Seq(Regions) /\ Apart(layout)
    BY LayoutsAssumption, ApartAssumption DEF Types
  <1>2. DOMAIN layout = 1..Len(layout) /\ Len(layout) \in Nat
    BY <1>1
  <1> QED
    BY <1>1, <1>2 DEF Displays

\* What is delivered, key by key.
LEMMA DeliveredIs ==
  ASSUME NEW what \in Physical
  PROVE  what \in Delivered <=> HeldAfter(held, queue, what)
  BY DEF Delivered

LEMMA InitInv == InputInit => InputInv
  <1> SUFFICES ASSUME InputInit PROVE InputInv
    OBVIOUS
  <1> USE DEF InputInit
  <1>1. layout \in Seq(Regions)
    BY LayoutsAssumption
  <1>2. \A d \in Displays : /\ shown[d].at = PixelOrigins(layout)[d]
                            /\ shown[d].size = layout[d].pixels
    OBVIOUS
  <1>3. \A d \in Displays : PixelOrigins(layout)[d] = [axis \in Axes |-> Placed(layout, axis)[d]]
    BY DEF PixelOrigins, Displays
  <1>4. \A d \in Displays : \A axis \in Axes : Placed(layout, axis)[d] \in Int
    BY <1>1, PlacedInInt DEF Displays
  <1>5. ASSUME NEW d \in Displays PROVE PixelOrigins(layout)[d] \in [Axes -> Int]
    <2>1. [axis \in Axes |-> Placed(layout, axis)[d]] \in [Axes -> Int]
      BY <1>4
    <2> QED
      BY <1>3, <2>1
  <1>6. ASSUME NEW d \in Displays PROVE layout[d].pixels \in Lengths
    <2>1. layout[d] \in Regions
      BY <1>1 DEF Displays
    <2> QED
      BY <2>1 DEF Regions
  <1>7. shown \in [Displays -> [at : [Axes -> Int], size : Lengths]]
    BY <1>5, <1>6
  <1>8. <<>> \in Seq(Messages)
    OBVIOUS
  <1>9. Types
    BY <1>7, <1>8 DEF Types
  <1>10. Overview
    <2> SUFFICES ASSUME NEW d \in Displays, NEW axis \in Axes
        PROVE  /\ shown[d].at[axis] = Placed(layout, axis)[d]
               /\ shown[d].size[axis] = layout[d].pixels[axis]
      BY DEF Overview
    <2>1. shown[d].at = [a \in Axes |-> Placed(layout, a)[d]]
      BY <1>2, <1>3
    <2> QED
      BY <1>2, <2>1
  <1>11. Aims
    BY DEF Aims
  <1>12. PointerOnTarget
    BY DEF PointerOnTarget
  <1>13. \A what : ~ HeldAfter(held, queue, what)
    BY HeldAfterNone
  <1>14. Delivered = {}
    BY <1>13 DEF Delivered
  <1>15. ModifiersAgree /\ NothingStuck
    BY <1>14 DEF ModifiersAgree, NothingStuck
  <1> QED
    BY <1>9, <1>10, <1>11, <1>12, <1>15 DEF InputInv

-----------------------------------------------------------------------------
(* What is under the pointer *)

LEMMA UnderIsSome ==
  ASSUME Types, NEW w, NEW p, Visible(w) \subseteq Displays
  PROVE  /\ Under(w, p) \subseteq Displays
         /\ Under(w, p) # {} => Hit(w, p) \in Under(w, p) /\ Hovered(w, p) \in Under(w, p)
         /\ Under(w, p) = {} => Hit(w, p) = None /\ Hovered(w, p) = None
  <1>1. Under(w, p) \subseteq Displays
    BY DEF Under
  <1>2. ASSUME Under(w, p) # {}
        PROVE  Min(Under(w, p)) \in Under(w, p) /\ Max(Under(w, p)) \in Under(w, p)
    <2>1. PICK n \in Nat : n = Len(layout)
      BY LayoutType
    <2>2. PICK f : f = [i \in 1..n |-> i]
      OBVIOUS
    <2>3. \A i \in 1..n : f[i] \in Int
      BY <2>2
    <2>4. PICK T : T = Under(w, p)
      OBVIOUS
    <2>5. T \subseteq 1..n /\ T # {}
      BY <1>1, <1>2, <2>1, <2>4, LayoutType
    <2>6. PICK S : S = {f[i] : i \in T}
      OBVIOUS
    <2>7. S = T
      BY <2>2, <2>5, <2>6
    <2>8. Min(S) \in S
      BY <2>3, <2>5, <2>6, MinIsLeast
    <2>9. Max(S) \in S
      BY <2>3, <2>5, <2>6, MaxIsGreatest
    <2> QED
      BY <2>4, <2>7, <2>8, <2>9
  <1> QED
    BY <1>1, <1>2 DEF Hit, Hovered

\* Before any monitor has changed its mode, at most one picture is there.
LEMMA UnderIsOne ==
  ASSUME Types, Overview, resized = {}, NEW w \in {Main} \cup detached,
         NEW p \in Int \X Int, NEW d \in Under(w, p), NEW e \in Under(w, p)
  PROVE  d = e
  <1>1. CASE w # Main
    BY <1>1 DEF Under, Visible
  <1>2. CASE w = Main
    <2>1. d \in Displays /\ e \in Displays
      BY <1>2 DEF Under, Visible
    <2>2. \A axis \in Axes : p[axis] \in Int
      BY DEF Axes
    <2>3. ASSUME NEW k \in Under(w, p), k \in Displays PROVE InPicture(layout, k, p)
      <3> SUFFICES ASSUME NEW axis \in Axes
          PROVE p[axis] \in Placed(layout, axis)[k]..(Placed(layout, axis)[k] + layout[k].pixels[axis] - 1)
        BY DEF InPicture
      <3>1. p[axis] \in shown[k].at[axis]..(shown[k].at[axis] + shown[k].size[axis] - 1)
        BY <1>2 DEF Under, Origin
      <3>2. /\ shown[k].at[axis] = Placed(layout, axis)[k]
            /\ shown[k].size[axis] = layout[k].pixels[axis]
        BY <2>3 DEF Overview
      <3> QED
        BY <3>1, <3>2
    <2>4. InPicture(layout, d, p) /\ InPicture(layout, e, p)
      BY <2>1, <2>3
    <2> QED
      BY <2>1, <2>2, <2>4, LayoutType, PicturesDoNotOverlap DEF Displays
  <1> QED
    BY <1>1, <1>2

LEMMA MovesAimWell ==
  ASSUME Types, Overview, NEW w \in {Main} \cup detached, NEW p \in Int \X Int
  PROVE  \/ Moves(w, p) = <<>>
         \/ \E m \in Messages : Moves(w, p) = <<m>> /\ m.type = "move" /\ AimsWell(m)
  <1>1. Visible(w) \subseteq Displays
    BY LayoutType DEF Visible, Main, Types
  <1>2. CASE Hit(w, p) = None
    BY <1>2 DEF Moves
  <1>3. CASE Hit(w, p) # None
    <2>1. PICK d, e : d = Hit(w, p) /\ e = Hovered(w, p)
      OBVIOUS
    <2>2. Under(w, p) # {}
      BY <1>1, <1>3, UnderIsSome
    <2>3. d \in Under(w, p) /\ e \in Under(w, p) /\ Under(w, p) \subseteq Displays
      BY <1>1, <2>1, <2>2, UnderIsSome
    <2>4. d \in Displays /\ e \in Displays /\ d \in Nat /\ e \in Nat
      BY <2>3, LayoutType
    <2>5. \A axis \in Axes : /\ Origin(w, d)[axis] \in Int /\ p[axis] \in Int
                             /\ shown[d].size[axis] \in Int
      <3> TAKE axis \in Axes
      <3>1. axis = 1 \/ axis = 2
        BY DEF Axes
      <3>2. shown[d] \in [at : [Axes -> Int], size : Lengths]
        BY <2>4 DEF Types
      <3>3. shown[d].at[axis] \in Int /\ shown[d].size[axis] \in Int
        BY <3>1, <3>2 DEF Lengths
      <3> QED
        BY <3>1, <3>3 DEF Origin
    <2>6. PICK at : at = Pixel(w, d, p)
      OBVIOUS
    <2>7. at = [axis \in Axes |-> p[axis] - Origin(w, d)[axis]]
      BY <2>6 DEF Pixel
    <2>8. at \in [Axes -> Int] /\ \A axis \in Axes : at[axis] = p[axis] - Origin(w, d)[axis]
      BY <2>5, <2>7
    <2>9. PICK m : m = Move(d, at, e)
      OBVIOUS
    <2>10. /\ m \in Messages /\ m.type = "move" /\ m.display = d /\ m.at = at /\ m.aim = e
      BY <2>4, <2>8, <2>9 DEF Move, Messages, Pointings
    <2>11. Moves(w, p) = <<m>>
      BY <1>3, <2>1, <2>6, <2>9 DEF Moves
    <2>12. AimsWell(m)
      <3> SUFFICES ASSUME resized = {}
          PROVE e = d /\ \A axis \in Axes : at[axis] \in 0..(layout[d].pixels[axis] - 1)
        BY <2>4, <2>10 DEF AimsWell
      <3>1. e = d
        BY <2>3, UnderIsOne
      <3>2. ASSUME NEW axis \in Axes PROVE at[axis] \in 0..(layout[d].pixels[axis] - 1)
        <4>1. PICK x \in Int, o \in Int, s \in Int :
                x = p[axis] /\ o = Origin(w, d)[axis] /\ s = shown[d].size[axis]
          BY <2>5
        <4>2. x \in o..(o + s - 1)
          BY <2>3, <4>1 DEF Under
        <4>3. s = layout[d].pixels[axis]
          BY <2>4, <4>1 DEF Overview
        <4>4. at[axis] = x - o
          BY <2>8, <4>1
        <4>5. x - o \in 0..(s - 1)
          BY <4>2
        <4> QED
          BY <4>3, <4>4, <4>5
      <3> QED
        BY <3>1, <3>2
    <2> QED
      BY <2>10, <2>11, <2>12
  <1> QED
    BY <1>2, <1>3

LEMMA PointIsAPoint ==
  ASSUME Types, NEW w
  PROVE  PointIn(w) \in Int \X Int
  <1>1. OffScreen \in Int \X Int
    BY DEF OffScreen
  <1>2. pointer # None => pointer.at \in Int \X Int
    BY DEF Types
  <1> QED
    BY <1>1, <1>2 DEF PointIn

-----------------------------------------------------------------------------
(* What a batch does *)

BatchStates == [down : SUBSET Physical, missed : SUBSET Physical, out : Seq(Messages),
                detached : SUBSET Displays, fullscreen : SUBSET Displays]

\* After the messages of s no key and no button is held but those of d.
Kept(s, d) == \A k \in Keys \cup Buttons : HeldAfter(held, s, k) => k \in d

\* The modifiers that are held after s are those that are held after q.
SameModifiers(s, q) == \A k \in Modifiers : HeldAfter(held, s, k) <=> HeldAfter(held, q, k)

AllAimWell(s) == \A i \in DOMAIN s : AimsWell(s[i])

\* A batch so far, behind the messages of q.
BatchInv(q, b) ==
    /\ b \in BatchStates
    /\ AllAimWell(b.out)
    /\ Kept(q \o b.out, b.down \cup b.missed)
    /\ SameModifiers(q \o b.out, q)

LEMMA Apiece ==
  /\ \A k \in Keys : k \notin Modifiers /\ k \notin Buttons
  /\ \A k \in Buttons : k \notin Modifiers
  /\ Physical = Keys \cup Modifiers \cup Buttons
  BY KeysAssumption, ModifiersAssumption, ButtonsAssumption DEF Physical

\* Both characters of a key give its code.
LEMMA CodeOfKey ==
  ASSUME NEW what \in Keys, NEW shifted
  PROVE  EvdevCode(EguiKey(what, shifted)) = what
  <1>1. what = "equal" \/ what = "escape" \/ what = "f11"
    BY KeysAssumption
  <1>2. CASE what = "equal"
    BY <1>2 DEF EguiKey, EvdevCode
  <1>3. CASE what = "escape"
    BY <1>3 DEF EguiKey, EvdevCode
  <1>4. CASE what = "f11"
    BY <1>4 DEF EguiKey, EvdevCode
  <1> QED
    BY <1>1, <1>2, <1>3, <1>4

LEMMA OneMore ==
  ASSUME NEW q \in Seq(Messages), NEW s \in Seq(Messages), NEW m \in Messages
  PROVE  /\ q \o s \in Seq(Messages)
         /\ s \o <<m>> = Append(s, m) /\ Append(s, m) \in Seq(Messages)
         /\ q \o Append(s, m) = Append(q \o s, m)
         /\ AllAimWell(s) /\ AimsWell(m) => AllAimWell(Append(s, m))
  <1>1. q \o s \in Seq(Messages) /\ Append(s, m) \in Seq(Messages)
    OBVIOUS
  <1>2. s \o <<m>> = Append(s, m)
    OBVIOUS
  <1>3. q \o Append(s, m) = Append(q \o s, m)
    OBVIOUS
  <1>4. ASSUME AllAimWell(s), AimsWell(m) PROVE AllAimWell(Append(s, m))
    <2> SUFFICES ASSUME NEW i \in DOMAIN Append(s, m) PROVE AimsWell(Append(s, m)[i])
      BY DEF AllAimWell
    <2>1. i \in 1..Len(s) \/ i = Len(s) + 1
      OBVIOUS
    <2>2. CASE i \in 1..Len(s)
      <3>1. Append(s, m)[i] = s[i] /\ i \in DOMAIN s
        BY <2>2
      <3> QED
        BY <3>1, <1>4 DEF AllAimWell
    <2>3. CASE i = Len(s) + 1
      <3>1. Append(s, m)[i] = m
        BY <2>3
      <3> QED
        BY <3>1, <1>4
    <2> QED
      BY <2>1, <2>2, <2>3
  <1> QED
    BY <1>1, <1>2, <1>3, <1>4

\* A message that points changes nothing that is held.
LEMMA PointingKeeps ==
  ASSUME NEW q \in Seq(Messages), NEW s \in Seq(Messages), NEW m \in Messages,
         m.type = "move", NEW d
  PROVE  /\ Kept(q \o s, d) => Kept(q \o Append(s, m), d)
         /\ SameModifiers(q \o s, q) => SameModifiers(q \o Append(s, m), q)
  <1>1. q \o Append(s, m) = Append(q \o s, m) /\ q \o s \in Seq(Messages)
    BY OneMore
  <1>2. \A k : ~ IsAbout(m, k)
    BY DEF IsAbout
  <1>3. PICK t \in Seq(Messages) : t = q \o s
    BY <1>1
  <1>4. \A k : HeldAfter(held, Append(t, m), k) <=> HeldAfter(held, t, k)
    BY <1>2, HeldAfterOneMore
  <1> QED
    BY <1>1, <1>3, <1>4 DEF Kept, SameModifiers

\* A press of what is then down, or a release: nothing else is held for it.
LEMMA PressKeeps ==
  ASSUME NEW q \in Seq(Messages), NEW s \in Seq(Messages), NEW m \in Messages,
         NEW what \in Keys \cup Buttons, m.type # "move", m.code = what,
         NEW d, NEW e, Kept(q \o s, d), m.pressed => what \in e, d \ {what} \subseteq e
  PROVE  /\ Kept(q \o Append(s, m), e)
         /\ SameModifiers(q \o s, q) => SameModifiers(q \o Append(s, m), q)
  <1>1. q \o Append(s, m) = Append(q \o s, m) /\ q \o s \in Seq(Messages)
    BY OneMore
  <1>2. \A k : IsAbout(m, k) <=> k = what
    BY DEF IsAbout
  <1>3. PICK t \in Seq(Messages) : t = q \o s
    BY <1>1
  <1>4. \A k : HeldAfter(held, Append(t, m), k) <=>
                 IF k = what THEN m.pressed ELSE HeldAfter(held, t, k)
    BY <1>2, HeldAfterOneMore
  <1>5. what \notin Modifiers
    BY Apiece
  <1> QED
    BY <1>1, <1>3, <1>4, <1>5 DEF Kept, SameModifiers

\* A batch that forwards nothing for an event, and forgets nothing that is down.
LEMMA SilentTake ==
  ASSUME NEW q \in Seq(Messages), NEW b, BatchInv(q, b), NEW c \in BatchStates,
         c.out = b.out,
         \A k \in Keys \cup Buttons : k \in b.down \cup b.missed => k \in c.down \cup c.missed
  PROVE  BatchInv(q, c)
  BY DEF BatchInv, Kept

\* A key or a button is forwarded.
LEMMA ForwardingTake ==
  ASSUME NEW q \in Seq(Messages), NEW b, BatchInv(q, b), NEW c \in BatchStates,
         NEW s \in Seq(Messages), AllAimWell(s), Kept(q \o s, b.down \cup b.missed),
         SameModifiers(q \o s, q),
         NEW m \in Messages, NEW what \in Keys \cup Buttons, m.type # "move", m.code = what,
         c.out = Append(s, m), m.pressed => what \in c.down,
         (b.down \cup b.missed) \ {what} \subseteq c.down \cup c.missed
  PROVE  BatchInv(q, c)
  <1>1. AimsWell(m)
    BY DEF AimsWell
  <1>2. AllAimWell(c.out)
    BY <1>1, OneMore
  <1>3. PICK d, e : d = b.down \cup b.missed /\ e = c.down \cup c.missed
    OBVIOUS
  <1>4. Kept(q \o s, d) /\ (m.pressed => what \in e) /\ d \ {what} \subseteq e
    BY <1>3
  <1>5. Kept(q \o Append(s, m), e) /\ SameModifiers(q \o Append(s, m), q)
    BY <1>4, PressKeeps
  <1> QED
    BY <1>2, <1>3, <1>5 DEF BatchInv

LEMMA TakeKeeps ==
  ASSUME Types, Overview, NEW w \in {Main} \cup detached,
         NEW q \in Seq(Messages), NEW b, BatchInv(q, b), NEW what \in Physical
  PROVE  BatchInv(q, Take(w, b, what))
  <1>1. b \in BatchStates
    BY DEF BatchInv
  <1>2. PICK p \in Int \X Int : p = PointIn(w)
    BY PointIsAPoint
  <1>3. PICK pressed \in BOOLEAN : pressed <=> what \notin b.down
    OBVIOUS
  <1>4. PICK after : after = [b EXCEPT !.down = IF what \notin b.down THEN @ \cup {what} ELSE @ \ {what}]
    OBVIOUS
  <1>5. /\ after \in BatchStates /\ after.out = b.out /\ after.missed = b.missed
        /\ after.detached = b.detached /\ after.fullscreen = b.fullscreen
        /\ pressed => after.down = b.down \cup {what}
        /\ ~ pressed => after.down = b.down \ {what}
    BY <1>1, <1>3, <1>4 DEF BatchStates
  <1>6. PICK key, code : /\ key = EguiKey(what, "shift" \in b.down)
                         /\ code = EvdevCode(key)
    OBVIOUS
  <1>7. PICK c : c = Take(w, b, what)
    OBVIOUS
  <1>8. SUFFICES BatchInv(q, c)
    BY <1>7
  <1>9. c = CASE what \in Modifiers -> after
              [] what \in Buttons /\ Hit(w, p) = None ->
                   IF pressed THEN after ELSE [after EXCEPT !.missed = @ \cup {what}]
              [] what \in Buttons /\ Hit(w, p) # None ->
                   [after EXCEPT !.out = @ \o Moves(w, p) \o <<Button(what, pressed)>>,
                                 !.missed = @ \ {what}]
              [] what \in Keys /\ pressed /\ key = "F11" ->
                   IF Hovered(w, p) = None THEN after
                   ELSE [after EXCEPT !.detached = @ \cup {Hovered(w, p)},
                                      !.fullscreen = SymDiff(@, {Hovered(w, p)})]
              [] what \in Keys /\ pressed /\ key = "Escape" /\ Hovered(w, p) \in b.fullscreen ->
                   [after EXCEPT !.fullscreen = @ \ {Hovered(w, p)}]
              [] OTHER ->
                   IF code = None THEN after
                   ELSE [after EXCEPT !.out = Append(@, Key(code, pressed)),
                                      !.missed = @ \ {what}]
    BY <1>2, <1>3, <1>4, <1>6, <1>7 DEF Take
  <1>10. CASE what \in Modifiers
    <2>1. c = after
      BY <1>9, <1>10, Apiece
    <2> QED
      BY <1>5, <1>10, <2>1, Apiece, SilentTake
  <1>11. CASE what \in Buttons /\ Hit(w, p) = None
    <2>1. c = IF pressed THEN after ELSE [after EXCEPT !.missed = @ \cup {what}]
      BY <1>9, <1>11, Apiece
    <2>2. CASE pressed
      BY <1>5, <2>1, <2>2, SilentTake
    <2>3. CASE ~ pressed
      <3>1. c \in BatchStates /\ c.out = b.out /\ c.down = b.down \ {what}
            /\ c.missed = b.missed \cup {what}
        BY <1>5, <2>1, <2>3 DEF BatchStates
      <3> QED
        BY <3>1, SilentTake
    <2> QED
      BY <2>2, <2>3
  <1>12. CASE what \in Buttons /\ Hit(w, p) # None
    <2>1. c = [after EXCEPT !.out = @ \o Moves(w, p) \o <<Button(what, pressed)>>,
                            !.missed = @ \ {what}]
      BY <1>9, <1>12, Apiece
    <2>2. PICK m : m = Button(what, pressed)
      OBVIOUS
    <2>3. m \in Messages /\ m.type # "move" /\ m.code = what /\ m.pressed = pressed
      BY <2>2 DEF Button, Messages, Presses
    <2>4. PICK s \in Seq(Messages) :
            /\ s = b.out \o Moves(w, p) /\ AllAimWell(s)
            /\ Kept(q \o s, b.down \cup b.missed) /\ SameModifiers(q \o s, q)
      <3>1. b.out \in Seq(Messages)
        BY <1>1 DEF BatchStates
      <3>2. CASE Moves(w, p) = <<>>
        <4>1. b.out \o Moves(w, p) = b.out
          BY <3>1, <3>2
        <4> QED
          BY <3>1, <4>1 DEF BatchInv
      <3>3. CASE Moves(w, p) # <<>>
        <4>1. PICK n \in Messages : Moves(w, p) = <<n>> /\ n.type = "move" /\ AimsWell(n)
          BY <3>3, MovesAimWell
        <4>2. b.out \o Moves(w, p) = Append(b.out, n) /\ Append(b.out, n) \in Seq(Messages)
          BY <3>1, <4>1, OneMore
        <4>3. AllAimWell(Append(b.out, n))
          BY <3>1, <4>1, OneMore DEF BatchInv
        <4>4. PICK d : d = b.down \cup b.missed
          OBVIOUS
        <4>5. Kept(q \o Append(b.out, n), d) /\ SameModifiers(q \o Append(b.out, n), q)
          BY <3>1, <4>1, <4>4, PointingKeeps DEF BatchInv
        <4> QED
          BY <4>2, <4>3, <4>4, <4>5
      <3> QED
        BY <3>2, <3>3
    <2>5. c.out = Append(s, m)
      <3>1. s \o <<m>> = Append(s, m)
        BY <2>3, <2>4, OneMore
      <3> QED
        BY <1>5, <2>1, <2>2, <2>4, <3>1 DEF BatchStates
    <2>6. c \in BatchStates /\ c.down = after.down /\ c.missed = b.missed \ {what}
      <3>1. Append(s, m) \in Seq(Messages)
        BY <2>3, <2>4, OneMore
      <3> QED
        BY <1>5, <2>1, <2>5, <3>1 DEF BatchStates
    <2>7. m.pressed => what \in c.down
      BY <1>5, <2>3, <2>6
    <2>8. (b.down \cup b.missed) \ {what} \subseteq c.down \cup c.missed
      BY <1>5, <2>6
    <2> QED
      BY <1>12, <2>3, <2>4, <2>5, <2>6, <2>7, <2>8, ForwardingTake
  <1>13. CASE what \in Keys /\ pressed /\ key = "F11"
    <2>1. c = IF Hovered(w, p) = None THEN after
              ELSE [after EXCEPT !.detached = @ \cup {Hovered(w, p)},
                                 !.fullscreen = SymDiff(@, {Hovered(w, p)})]
      BY <1>9, <1>13, Apiece
    <2>2. CASE Hovered(w, p) = None
      BY <1>5, <1>13, <2>1, <2>2, SilentTake
    <2>3. CASE Hovered(w, p) # None
      <3>1. Visible(w) \subseteq Displays
        BY LayoutType DEF Visible, Main, Types
      <3>2. Hovered(w, p) \in Displays
        BY <2>3, <3>1, UnderIsSome
      <3>3. c \in BatchStates /\ c.out = b.out /\ c.down = after.down /\ c.missed = b.missed
        BY <1>5, <2>1, <2>3, <3>2 DEF BatchStates, SymDiff
      <3> QED
        BY <1>5, <1>13, <3>3, SilentTake
    <2> QED
      BY <2>2, <2>3
  <1>14. CASE what \in Keys /\ pressed /\ key = "Escape" /\ Hovered(w, p) \in b.fullscreen
    <2>1. c = [after EXCEPT !.fullscreen = @ \ {Hovered(w, p)}]
      BY <1>9, <1>14, Apiece
    <2>2. c \in BatchStates /\ c.out = b.out /\ c.down = after.down /\ c.missed = b.missed
      BY <1>5, <2>1 DEF BatchStates
    <2> QED
      BY <1>5, <1>14, <2>2, SilentTake
  <1>15. CASE /\ what \in Keys
              /\ ~ (pressed /\ key = "F11")
              /\ ~ (pressed /\ key = "Escape" /\ Hovered(w, p) \in b.fullscreen)
    <2>1. code = what /\ code # None
      BY <1>6, <1>15, CodeOfKey, NoneAssumption
    <2>2. c = [after EXCEPT !.out = Append(@, Key(code, pressed)), !.missed = @ \ {what}]
      BY <1>9, <1>15, <2>1, Apiece
    <2>3. PICK m : m = Key(what, pressed)
      OBVIOUS
    <2>4. m \in Messages /\ m.type # "move" /\ m.code = what /\ m.pressed = pressed
      BY <2>3 DEF Key, Messages, Presses
    <2>5. b.out \in Seq(Messages) /\ Append(b.out, m) \in Seq(Messages)
      BY <1>1, <2>4, OneMore DEF BatchStates
    <2>6. /\ c \in BatchStates /\ c.out = Append(b.out, m) /\ c.down = after.down
          /\ c.missed = b.missed \ {what}
      BY <1>5, <2>1, <2>2, <2>3, <2>5 DEF BatchStates
    <2>7. m.pressed => what \in c.down
      BY <1>5, <2>4, <2>6
    <2>8. (b.down \cup b.missed) \ {what} \subseteq c.down \cup c.missed
      BY <1>5, <2>6
    <2>9. /\ AllAimWell(b.out) /\ Kept(q \o b.out, b.down \cup b.missed)
          /\ SameModifiers(q \o b.out, q)
      BY DEF BatchInv
    <2> QED
      BY <1>15, <2>4, <2>5, <2>6, <2>7, <2>8, <2>9, ForwardingTake
  <1> QED
    BY <1>10, <1>11, <1>12, <1>13, <1>14, <1>15, Apiece

-----------------------------------------------------------------------------
(* A whole batch *)

Start == [down |-> down, missed |-> missed \ Modifiers, out |-> <<>>,
          detached |-> detached, fullscreen |-> fullscreen]

After(w, batch, f, n) == IF n = 0 THEN Start ELSE Take(w, f[n - 1], batch[n])

LEMMA ProgressExists ==
  ASSUME NEW w, NEW batch, NEW top \in Nat
  PROVE  \E f : f = [n \in 0..top |-> After(w, batch, f, n)]
  <1> DEFINE D == 0..top
             Right(f, m) == /\ f = [n \in D |-> f[n]]
                            /\ \A n \in D : n < m => f[n] = After(w, batch, f, n)
             S == {m \in Nat : \E f : Right(f, m)}
  <1>1. 0 \in S
    <2> DEFINE f == [n \in D |-> 0]
    <2>1. Right(f, 0)
      OBVIOUS
    <2> QED
      BY <2>1
  <1>2. ASSUME NEW m \in Nat, m \in S PROVE m + 1 \in S
    <2>1. PICK f : Right(f, m)
      BY <1>2
    <2> DEFINE g == [n \in D |-> IF n < m THEN f[n] ELSE After(w, batch, f, n)]
    <2>2. \A n \in D : g[n] = IF n < m THEN f[n] ELSE After(w, batch, f, n)
      OBVIOUS
    <2>3. g = [n \in D |-> g[n]]
      OBVIOUS
    <2> HIDE DEF g
    <2>4. ASSUME NEW n \in D, n < m + 1 PROVE g[n] = After(w, batch, g, n)
      <3>1. g[n] = After(w, batch, f, n)
        BY <2>1, <2>2
      <3>2. CASE n = 0
        BY <3>1, <3>2 DEF After
      <3>3. CASE n # 0
        <4>1. n - 1 \in D /\ n - 1 < m
          BY <2>4, <3>3
        <4>2. g[n - 1] = f[n - 1]
          BY <2>2, <4>1
        <4> QED
          BY <3>1, <4>2 DEF After
      <3> QED
        BY <3>2, <3>3
    <2>5. Right(g, m + 1)
      BY <2>3, <2>4
    <2> QED
      BY <2>5
  <1> HIDE DEF S
  <1>3. top + 1 \in S
    BY <1>1, <1>2, Induction
  <1>4. PICK f : Right(f, top + 1)
    BY <1>3 DEF S
  <1>5. f = [n \in D |-> After(w, batch, f, n)]
    BY <1>4
  <1> QED
    BY <1>5

LEMMA ProgressIs ==
  ASSUME NEW w, NEW batch, Len(batch) \in Nat
  PROVE  Progress(w, batch) = [n \in 0..Len(batch) |-> After(w, batch, Progress(w, batch), n)]
  <1>1. Progress(w, batch) = CHOOSE f : f = [n \in 0..Len(batch) |-> After(w, batch, f, n)]
    BY DEF Progress, After, Start
  <1> QED
    BY <1>1, ProgressExists

\* What holds before a batch, and through each of its events, holds after it.
LEMMA BatchKeeps ==
  ASSUME Types, Overview, NEW w \in {Main} \cup detached, NEW batch \in Batches,
         NEW q \in Seq(Messages), Kept(q, down \cup (missed \ Modifiers))
  PROVE  BatchInv(q, Progress(w, batch)[Len(batch)])
  <1>1. PICK top \in Nat : batch \in [1..top -> Physical]
    BY MaxBatchAssumption DEF Batches
  <1>2. Len(batch) = top /\ \A n \in 1..top : batch[n] \in Physical
    BY <1>1
  <1>3. PICK f : f = Progress(w, batch)
    OBVIOUS
  <1>4. f = [n \in 0..top |-> After(w, batch, f, n)]
    BY <1>2, <1>3, ProgressIs
  <1>5. \A n \in 0..top : f[n] = After(w, batch, f, n)
    BY <1>4
  <1> DEFINE S == {n \in Nat : n <= top => BatchInv(q, f[n])}
  <1>6. 0 \in S
    <2>1. 0 \in 0..top
      OBVIOUS
    <2>2. f[0] = Start
      BY <1>5, <2>1 DEF After
    <2>3. Start \in BatchStates
      <3>1. <<>> \in Seq(Messages)
        OBVIOUS
      <3> QED
        BY <3>1 DEF Start, BatchStates, Types
    <2>4. Start.out = <<>> /\ Start.down = down /\ Start.missed = missed \ Modifiers
      BY DEF Start
    <2>5. q \o <<>> = q
      OBVIOUS
    <2>6. AllAimWell(<<>>)
      BY DEF AllAimWell
    <2>7. SameModifiers(q, q)
      BY DEF SameModifiers
    <2>8. BatchInv(q, Start)
      BY <2>3, <2>4, <2>5, <2>6, <2>7 DEF BatchInv
    <2> QED
      BY <2>2, <2>8
  <1>7. ASSUME NEW n \in Nat, n \in S PROVE n + 1 \in S
    <2> SUFFICES ASSUME n + 1 <= top PROVE BatchInv(q, f[n + 1])
      OBVIOUS
    <2>1. n + 1 \in 0..top /\ n + 1 \in 1..top /\ n + 1 # 0 /\ (n + 1) - 1 = n
      OBVIOUS
    <2>2. f[n + 1] = Take(w, f[n], batch[n + 1])
      BY <1>5, <2>1 DEF After
    <2>3. BatchInv(q, f[n])
      BY <1>7
    <2>4. PICK b : b = f[n]
      OBVIOUS
    <2>5. PICK what \in Physical : what = batch[n + 1]
      BY <1>2, <2>1
    <2> QED
      BY <2>2, <2>3, <2>4, <2>5, TakeKeeps
  <1> HIDE DEF S
  <1>8. top \in S
    BY <1>6, <1>7, Induction
  <1> QED
    BY <1>2, <1>3, <1>8 DEF S

-----------------------------------------------------------------------------
(* A frame *)

\* Pointing appends nothing that presses or releases.
LEMMA MovesKeep ==
  ASSUME Types, Overview, NEW w \in {Main} \cup detached, NEW p \in Int \X Int,
         NEW s \in Seq(Messages), AllAimWell(s)
  PROVE  /\ s \o Moves(w, p) \in Seq(Messages)
         /\ AllAimWell(s \o Moves(w, p))
         /\ \A k : HeldAfter(held, s \o Moves(w, p), k) <=> HeldAfter(held, s, k)
  <1>1. CASE Moves(w, p) = <<>>
    <2>1. s \o Moves(w, p) = s
      BY <1>1
    <2> QED
      BY <2>1
  <1>2. CASE Moves(w, p) # <<>>
    <2>1. PICK m \in Messages : Moves(w, p) = <<m>> /\ m.type = "move" /\ AimsWell(m)
      BY <1>2, MovesAimWell
    <2>2. /\ s \o Moves(w, p) = Append(s, m) /\ Append(s, m) \in Seq(Messages)
          /\ AllAimWell(Append(s, m))
      BY <2>1, OneMore
    <2>3. \A k : ~ IsAbout(m, k)
      BY <2>1 DEF IsAbout
    <2>4. \A k : HeldAfter(held, Append(s, m), k) <=> HeldAfter(held, s, k)
      BY <2>3, HeldAfterOneMore
    <2> QED
      BY <2>2, <2>4
  <1> QED
    BY <1>1, <1>2

LEMMA Associative ==
  ASSUME NEW a \in Seq(Messages), NEW b \in Seq(Messages), NEW c \in Seq(Messages)
  PROVE  a \o b \in Seq(Messages) /\ a \o (b \o c) = (a \o b) \o c
  <1>1. a \o b \in Seq(Messages)
    OBVIOUS
  <1> QED
    BY <1>1, ConcatAssociative

\* One call of sync_mod.
LEMMA SyncOne ==
  ASSUME Types, NEW s \in Seq(Messages), AllAimWell(s),
         NEW m \in {"shift", "ctrl", "alt"}, NEW now \in SUBSET Modifiers
  PROVE  /\ SyncMod(m, now) \in Seq(Messages)
         /\ s \o SyncMod(m, now) \in Seq(Messages)
         /\ AllAimWell(s \o SyncMod(m, now))
         /\ \A k : HeldAfter(held, s \o SyncMod(m, now), k) <=>
                     IF k = m /\ ~ (m \in cached <=> m \in now)
                       THEN m \in now ELSE HeldAfter(held, s, k)
  <1>1. CASE m \in cached <=> m \in now
    <2>1. SyncMod(m, now) = <<>>
      BY <1>1 DEF SyncMod
    <2>2. <<>> \in Seq(Messages) /\ s \o <<>> = s
      OBVIOUS
    <2> QED
      BY <1>1, <2>1, <2>2
  <1>2. CASE ~ (m \in cached <=> m \in now)
    <2>1. m \in Modifiers
      BY <1>2 DEF Types
    <2>2. PICK pressed \in BOOLEAN : pressed = (m \in now)
      <3>1. (m \in now) \in BOOLEAN
        OBVIOUS
      <3> QED
        BY <3>1
    <2>3. PICK x : x = Key(m, pressed)
      OBVIOUS
    <2>4. x \in Messages /\ x.type # "move" /\ x.code = m /\ x.pressed = pressed
      BY <2>1, <2>3 DEF Key, Messages, Presses, Physical
    <2>5. SyncMod(m, now) = <<x>>
      BY <1>2, <2>2, <2>3 DEF SyncMod
    <2>6. AimsWell(x)
      BY <2>4 DEF AimsWell
    <2>7. /\ s \o <<x>> = Append(s, x) /\ Append(s, x) \in Seq(Messages)
          /\ AllAimWell(Append(s, x))
      BY <2>4, <2>6, OneMore
    <2>8. \A k : IsAbout(x, k) <=> k = m
      BY <2>4 DEF IsAbout
    <2>9. \A k : HeldAfter(held, Append(s, x), k) <=> IF k = m THEN pressed ELSE HeldAfter(held, s, k)
      BY <2>4, <2>8, HeldAfterOneMore
    <2>10. <<x>> \in Seq(Messages)
      BY <2>4
    <2> QED
      BY <1>2, <2>2, <2>5, <2>7, <2>9, <2>10
  <1> QED
    BY <1>1, <1>2

\* The modifiers are put right behind messages that leave the cached ones held.
LEMMA SyncPutsRight ==
  ASSUME Types, NEW s \in Seq(Messages), AllAimWell(s), NEW now \in SUBSET Modifiers,
         \A k \in Modifiers : HeldAfter(held, s, k) <=> k \in cached
  PROVE  /\ s \o SyncMods(now) \in Seq(Messages)
         /\ AllAimWell(s \o SyncMods(now))
         /\ \A k \in Modifiers : HeldAfter(held, s \o SyncMods(now), k) <=> k \in now
         /\ \A k \in Keys \cup Buttons :
              HeldAfter(held, s \o SyncMods(now), k) <=> HeldAfter(held, s, k)
  <1>1. PICK a, b, c : a = SyncMod("shift", now) /\ b = SyncMod("ctrl", now) /\ c = SyncMod("alt", now)
    OBVIOUS
  <1>2. PICK s1 : s1 = s \o a
    OBVIOUS
  <1>3. /\ a \in Seq(Messages) /\ s1 \in Seq(Messages) /\ AllAimWell(s1)
        /\ \A k : HeldAfter(held, s1, k) <=>
                    IF k = "shift" /\ ~ ("shift" \in cached <=> "shift" \in now)
                      THEN "shift" \in now ELSE HeldAfter(held, s, k)
    BY <1>1, <1>2, SyncOne
  <1>4. PICK s2 : s2 = s1 \o b
    OBVIOUS
  <1>5. /\ b \in Seq(Messages) /\ s2 \in Seq(Messages) /\ AllAimWell(s2)
        /\ \A k : HeldAfter(held, s2, k) <=>
                    IF k = "ctrl" /\ ~ ("ctrl" \in cached <=> "ctrl" \in now)
                      THEN "ctrl" \in now ELSE HeldAfter(held, s1, k)
    BY <1>1, <1>3, <1>4, SyncOne
  <1>6. PICK s3 : s3 = s2 \o c
    OBVIOUS
  <1>7. /\ c \in Seq(Messages) /\ s3 \in Seq(Messages) /\ AllAimWell(s3)
        /\ \A k : HeldAfter(held, s3, k) <=>
                    IF k = "alt" /\ ~ ("alt" \in cached <=> "alt" \in now)
                      THEN "alt" \in now ELSE HeldAfter(held, s2, k)
    BY <1>1, <1>5, <1>6, SyncOne
  <1>8. s \o SyncMods(now) = s3
    <2>1. PICK ab \in Seq(Messages) : ab = a \o b
      BY <1>3, <1>5, Associative
    <2>2. s \o (ab \o c) = (s \o ab) \o c
      <3>1. c \in Seq(Messages)
        BY <1>7
      <3>2. ab \in Seq(Messages)
        BY <2>1
      <3> QED
        BY <3>1, <3>2, Associative
    <2>3. s \o ab = s1 \o b
      BY <1>2, <1>3, <1>5, <2>1, Associative
    <2> QED
      BY <1>1, <1>4, <1>6, <2>1, <2>2, <2>3 DEF SyncMods
  <1>9. \A k \in Modifiers : HeldAfter(held, s3, k) <=> k \in now
    <2> SUFFICES ASSUME NEW k \in Modifiers PROVE HeldAfter(held, s3, k) <=> k \in now
      OBVIOUS
    <2>1. k = "shift" \/ k = "ctrl" \/ k = "alt"
      BY ModifiersAssumption
    <2>2. HeldAfter(held, s, k) <=> k \in cached
      OBVIOUS
    <2> QED
      BY <1>3, <1>5, <1>7, <2>1, <2>2
  <1>10. \A k \in Keys \cup Buttons : HeldAfter(held, s3, k) <=> HeldAfter(held, s, k)
    <2> SUFFICES ASSUME NEW k \in Keys \cup Buttons PROVE HeldAfter(held, s3, k) <=> HeldAfter(held, s, k)
      OBVIOUS
    <2>1. k \notin Modifiers
      BY Apiece
    <2>2. k \notin cached /\ k \notin now
      BY <2>1 DEF Types
    <2> QED
      BY <1>3, <1>5, <1>7, <2>2
  <1> QED
    BY <1>7, <1>8, <1>9, <1>10

\* What the invariant says of what will be held.
LEMMA NowHeld ==
  ASSUME InputInv
  PROVE  /\ queue \in Seq(Messages) /\ AllAimWell(queue)
         /\ \A k \in Modifiers : HeldAfter(held, queue, k) <=> k \in cached
         /\ \A k \in Keys \cup Buttons : HeldAfter(held, queue, k) => k \in down \cup missed
         /\ cached \subseteq down \cup missed
  <1>1. \A k \in Physical : k \in Delivered <=> HeldAfter(held, queue, k)
    BY DeliveredIs
  <1>2. \A k \in Modifiers : k \in Delivered <=> k \in cached
    BY DEF InputInv, ModifiersAgree
  <1>3. \A k \in Delivered : k \in down \cup missed
    BY DEF InputInv, NothingStuck
  <1>4. queue \in Seq(Messages) /\ AllAimWell(queue) /\ cached \subseteq Modifiers
    BY DEF InputInv, Types, Aims, AllAimWell
  <1> QED
    BY <1>1, <1>2, <1>3, <1>4, Apiece

\* A step of the client keeps the invariant if it keeps to this.
LEMMA ClientKeeps ==
  ASSUME Types, Overview, PointerOnTarget, UNCHANGED <<monitors, device>>,
         queue' \in Seq(Messages), AllAimWell(queue'),
         \A k \in Modifiers : HeldAfter(held, queue', k) <=> k \in cached',
         \A k \in Keys \cup Buttons : HeldAfter(held, queue', k) => k \in down' \cup missed',
         cached' \subseteq down' \cup missed',
         focus' \in {None, Main} \cup Displays,
         pointer' = None \/ pointer' \in [window : Nat, at : Int \X Int],
         detached' \in SUBSET Displays, fullscreen' \in SUBSET Displays,
         cached' \in SUBSET Modifiers, down' \in SUBSET Physical, missed' \in SUBSET Physical
  PROVE  InputInv'
  <1>1. /\ layout' = layout /\ shown' = shown /\ resized' = resized
        /\ held' = held /\ spot' = spot
    BY DEF monitors, device
  <1>2. Displays' = Displays
    BY <1>1 DEF Displays
  <1>3. Types'
    BY <1>1, <1>2 DEF Types
  <1>4. Overview'
    BY <1>1, <1>2 DEF Overview
  <1>5. Aims'
    BY <1>1, <1>2 DEF Aims, AllAimWell, AimsWell
  <1>6. PointerOnTarget'
    BY <1>1 DEF PointerOnTarget
  <1>7. \A k \in Physical : k \in Delivered' <=> HeldAfter(held, queue', k)
    BY <1>1 DEF Delivered
  <1>8. Delivered' \subseteq Physical
    BY DEF Delivered
  <1>9. ModifiersAgree'
    BY <1>7, <1>8, Apiece DEF ModifiersAgree
  <1>10. NothingStuck'
    BY <1>7, <1>8, Apiece DEF NothingStuck
  <1> QED
    BY <1>3, <1>4, <1>5, <1>6, <1>9, <1>10 DEF InputInv

\* A sequence of messages that aim well behind another.
LEMMA AimsJoined ==
  ASSUME NEW s \in Seq(Messages), NEW t \in Seq(Messages), AllAimWell(s), AllAimWell(t)
  PROVE  AllAimWell(s \o t)
  <1> SUFFICES ASSUME NEW i \in DOMAIN (s \o t) PROVE AimsWell((s \o t)[i])
    BY DEF AllAimWell
  <1>1. CASE i \in 1..Len(s)
    <2>1. (s \o t)[i] = s[i] /\ i \in DOMAIN s
      BY <1>1
    <2> QED
      BY <2>1 DEF AllAimWell
  <1>2. CASE i \notin 1..Len(s)
    <2>1. (s \o t)[i] = t[i - Len(s)] /\ i - Len(s) \in DOMAIN t
      BY <1>2
    <2> QED
      BY <2>1 DEF AllAimWell
  <1> QED
    BY <1>1, <1>2

LEMMA FrameKeeps ==
  ASSUME InputInv, NEW w \in {Main} \cup detached, NEW batch \in Batches, Frame(w, batch)
  PROVE  InputInv'
  <1>1. Types /\ Overview /\ PointerOnTarget
    BY DEF InputInv
  <1>2. PICK end : end = Progress(w, batch)[Len(batch)]
    OBVIOUS
  <1>3. PICK now : now = end.down \cap Modifiers
    OBVIOUS
  <1>4. PICK p \in Int \X Int : p = PointIn(w)
    BY <1>1, PointIsAPoint
  <1>5. PICK s : s = queue \o Moves(w, p)
    OBVIOUS
  <1>6. /\ s \in Seq(Messages) /\ AllAimWell(s)
        /\ \A k : HeldAfter(held, s, k) <=> HeldAfter(held, queue, k)
    BY <1>1, <1>5, NowHeld, MovesKeep
  <1>7. PICK q : q = s \o SyncMods(now)
    OBVIOUS
  <1>8. now \in SUBSET Modifiers
    BY <1>3
  <1>9. \A k \in Modifiers : HeldAfter(held, s, k) <=> k \in cached
    BY <1>6, NowHeld
  <1>10. /\ q \in Seq(Messages) /\ AllAimWell(q)
         /\ \A k \in Modifiers : HeldAfter(held, q, k) <=> k \in now
         /\ \A k \in Keys \cup Buttons : HeldAfter(held, q, k) <=> HeldAfter(held, s, k)
    BY <1>1, <1>6, <1>7, <1>8, <1>9, SyncPutsRight
  <1>11. Kept(q, down \cup (missed \ Modifiers))
    <2> SUFFICES ASSUME NEW k \in Keys \cup Buttons, HeldAfter(held, q, k)
        PROVE k \in down \cup (missed \ Modifiers)
      BY DEF Kept
    <2>1. HeldAfter(held, queue, k)
      BY <1>6, <1>10
    <2>2. k \in down \cup missed
      BY <2>1, NowHeld
    <2> QED
      BY <2>2, Apiece
  <1>12. BatchInv(q, end)
    BY <1>1, <1>2, <1>10, <1>11, BatchKeeps
  <1>13. end \in BatchStates /\ AllAimWell(end.out)
    BY <1>12 DEF BatchInv
  <1>14. PICK out \in Seq(Messages) : out = end.out
    BY <1>13 DEF BatchStates
  <1>15. PICK t : t = q \o out
    OBVIOUS
  <1>16. /\ queue' = t /\ cached' = now
         /\ down' = end.down /\ missed' = end.missed
         /\ detached' = end.detached /\ fullscreen' = end.fullscreen
         /\ focus' = focus /\ pointer' = pointer /\ UNCHANGED <<monitors, device>>
    BY <1>2, <1>3, <1>4, <1>5, <1>7, <1>14, <1>15 DEF Frame
  <1>17. t \in Seq(Messages) /\ AllAimWell(t)
    BY <1>10, <1>13, <1>14, <1>15, AimsJoined
  <1>18. \A k \in Modifiers : HeldAfter(held, t, k) <=> k \in now
    BY <1>10, <1>12, <1>14, <1>15 DEF BatchInv, SameModifiers
  <1>19. \A k \in Keys \cup Buttons : HeldAfter(held, t, k) => k \in end.down \cup end.missed
    BY <1>12, <1>14, <1>15 DEF BatchInv, Kept
  <1>20. /\ detached' \in SUBSET Displays /\ fullscreen' \in SUBSET Displays
         /\ down' \in SUBSET Physical /\ missed' \in SUBSET Physical
    BY <1>13, <1>16 DEF BatchStates
  <1>21. /\ cached' \in SUBSET Modifiers /\ cached' \subseteq down' \cup missed'
    BY <1>3, <1>16
  <1>22. /\ focus' \in {None, Main} \cup Displays
         /\ pointer' = None \/ pointer' \in [window : Nat, at : Int \X Int]
    BY <1>1, <1>16 DEF Types
  <1> QED
    BY <1>1, <1>16, <1>17, <1>18, <1>19, <1>20, <1>21, <1>22, ClientKeeps

-----------------------------------------------------------------------------
(* The other steps *)

LEMMA PointsArePoints ==
  ASSUME Types, NEW w \in {Main} \cup detached, NEW p \in Points(w) \cup {OffScreen}
  PROVE  p \in Int \X Int
  <1>1. CASE p = OffScreen
    BY <1>1 DEF OffScreen
  <1>2. CASE p \in Points(w)
    <2>1. PICK d \in Visible(w) :
            p \in {<<Origin(w, d)[1] + x, Origin(w, d)[2] + y>> :
                     x \in 0..(shown[d].size[1] - 1), y \in 0..(shown[d].size[2] - 1)}
      BY <1>2 DEF Points
    <2>2. PICK x \in 0..(shown[d].size[1] - 1), y \in 0..(shown[d].size[2] - 1) :
            p = <<Origin(w, d)[1] + x, Origin(w, d)[2] + y>>
      BY <2>1
    <2>3. d \in Displays
      BY <2>1, LayoutType DEF Visible, Main, Types
    <2>4. shown[d] \in [at : [Axes -> Int], size : Lengths]
      BY <2>3 DEF Types
    <2>5. Origin(w, d)[1] \in Int /\ Origin(w, d)[2] \in Int
      BY <2>4 DEF Origin, Axes
    <2>6. x \in Int /\ y \in Int
      BY <2>4 DEF Lengths
    <2> QED
      BY <2>2, <2>5, <2>6
  <1> QED
    BY <1>1, <1>2

LEMMA PointKeeps ==
  ASSUME InputInv, NEW w \in {Main} \cup detached, NEW p \in Points(w) \cup {OffScreen},
         Point(w, p)
  PROVE  InputInv'
  <1>1. Types /\ Overview /\ PointerOnTarget
    BY DEF InputInv
  <1>2. p \in Int \X Int
    BY <1>1, PointsArePoints
  <1>3. PICK s : s = queue \o Moves(w, p)
    OBVIOUS
  <1>4. /\ s \in Seq(Messages) /\ AllAimWell(s)
        /\ \A k : HeldAfter(held, s, k) <=> HeldAfter(held, queue, k)
    BY <1>1, <1>2, <1>3, NowHeld, MovesKeep
  <1>5. queue' = queue \/ queue' = s
    BY <1>3 DEF Point
  <1>6. /\ queue' \in Seq(Messages) /\ AllAimWell(queue')
        /\ \A k : HeldAfter(held, queue', k) <=> HeldAfter(held, queue, k)
    BY <1>4, <1>5, NowHeld
  <1>7. /\ cached' = cached /\ down' = down /\ missed' = missed
        /\ focus' = focus /\ detached' = detached /\ fullscreen' = fullscreen
        /\ UNCHANGED <<monitors, device>>
    BY DEF Point, hands
  <1>8. pointer' \in [window : Nat, at : Int \X Int]
    <2>1. w \in Nat
      BY <1>1, LayoutType DEF Main, Types
    <2> QED
      BY <1>2, <2>1 DEF Point
  <1>9. /\ \A k \in Modifiers : HeldAfter(held, queue', k) <=> k \in cached'
        /\ \A k \in Keys \cup Buttons : HeldAfter(held, queue', k) => k \in down' \cup missed'
        /\ cached' \subseteq down' \cup missed'
    BY <1>6, <1>7, NowHeld
  <1>10. /\ focus' \in {None, Main} \cup Displays
         /\ detached' \in SUBSET Displays /\ fullscreen' \in SUBSET Displays
         /\ cached' \in SUBSET Modifiers
         /\ down' \in SUBSET Physical /\ missed' \in SUBSET Physical
    BY <1>1, <1>7 DEF Types
  <1> QED
    BY <1>1, <1>6, <1>7, <1>8, <1>9, <1>10, ClientKeeps

\* What nobody sees is down, or was released out of sight.
LEMMA UnseenKeeps ==
  ASSUME InputInv, NEW what \in Physical, Unseen(what)
  PROVE  InputInv'
  <1>1. Types /\ Overview /\ PointerOnTarget
    BY DEF InputInv
  <1>2. /\ queue' = queue /\ cached' = cached
        /\ focus' = focus /\ pointer' = pointer /\ detached' = detached
        /\ fullscreen' = fullscreen /\ UNCHANGED <<monitors, device>>
    BY DEF Unseen, windows
  <1>3. /\ down \cup missed \subseteq down' \cup missed'
        /\ down' \in SUBSET Physical /\ missed' \in SUBSET Physical
    BY <1>1 DEF Unseen, Types
  <1>4. queue' \in Seq(Messages) /\ AllAimWell(queue')
    BY <1>2, NowHeld
  <1>5. /\ \A k \in Modifiers : HeldAfter(held, queue', k) <=> k \in cached'
        /\ \A k \in Keys \cup Buttons : HeldAfter(held, queue', k) => k \in down' \cup missed'
        /\ cached' \subseteq down' \cup missed'
    BY <1>2, <1>3, NowHeld
  <1>6. /\ focus' \in {None, Main} \cup Displays
        /\ pointer' = None \/ pointer' \in [window : Nat, at : Int \X Int]
        /\ detached' \in SUBSET Displays /\ fullscreen' \in SUBSET Displays
        /\ cached' \in SUBSET Modifiers
    BY <1>1, <1>2 DEF Types
  <1> QED
    BY <1>1, <1>2, <1>3, <1>4, <1>5, <1>6, ClientKeeps

\* Steps that only rearrange windows.
LEMMA WindowsKeep ==
  ASSUME InputInv, UNCHANGED <<hands, monitors, device, cached, queue>>,
         focus' \in {None, Main} \cup Displays,
         pointer' = pointer \/ pointer' = None,
         detached' \in SUBSET Displays, fullscreen' \in SUBSET Displays
  PROVE  InputInv'
  <1>1. Types /\ Overview /\ PointerOnTarget
    BY DEF InputInv
  <1>2. /\ queue' = queue /\ cached' = cached /\ down' = down /\ missed' = missed
        /\ UNCHANGED <<monitors, device>>
    BY DEF hands
  <1>3. queue' \in Seq(Messages) /\ AllAimWell(queue')
    BY <1>2, NowHeld
  <1>4. /\ \A k \in Modifiers : HeldAfter(held, queue', k) <=> k \in cached'
        /\ \A k \in Keys \cup Buttons : HeldAfter(held, queue', k) => k \in down' \cup missed'
        /\ cached' \subseteq down' \cup missed'
    BY <1>2, NowHeld
  <1>5. /\ pointer' = None \/ pointer' \in [window : Nat, at : Int \X Int]
        /\ cached' \in SUBSET Modifiers
        /\ down' \in SUBSET Physical /\ missed' \in SUBSET Physical
    BY <1>1, <1>2 DEF Types
  <1> QED
    BY <1>1, <1>2, <1>3, <1>4, <1>5, ClientKeeps

LEMMA RearrangingKeeps ==
  ASSUME InputInv,
         \/ \E w \in {None, Main} \cup detached : FocusMoves(w)
         \/ FieldFocus
         \/ \E d \in Displays : \/ \E full \in BOOLEAN : Separate(d, full)
                                \/ ToggleFull(d)
                                \/ Dock(d)
  PROVE  InputInv'
  <1>1. /\ focus \in {None, Main} \cup Displays
        /\ detached \in SUBSET Displays /\ fullscreen \in SUBSET Displays
    BY DEF InputInv, Types
  <1>2. ASSUME NEW w \in {None, Main} \cup detached, FocusMoves(w) PROVE InputInv'
    <2>1. /\ UNCHANGED <<hands, monitors, device, cached, queue>>
          /\ focus' = w /\ pointer' = pointer /\ detached' = detached /\ fullscreen' = fullscreen
      BY <1>2 DEF FocusMoves
    <2> QED
      BY <1>1, <2>1, WindowsKeep
  <1>3. ASSUME FieldFocus PROVE InputInv'
    <2>1. /\ UNCHANGED <<hands, monitors, device, cached, queue>>
          /\ focus' = focus /\ pointer' = pointer /\ detached' = detached
          /\ fullscreen' = fullscreen
      BY <1>3 DEF FieldFocus
    <2> QED
      BY <1>1, <2>1, WindowsKeep
  <1>4. ASSUME NEW d \in Displays, NEW full \in BOOLEAN, Separate(d, full) PROVE InputInv'
    <2>1. /\ UNCHANGED <<hands, monitors, device, cached, queue>>
          /\ focus' = focus /\ pointer' = pointer
      BY <1>4 DEF Separate
    <2>2. detached' \in SUBSET Displays /\ fullscreen' \in SUBSET Displays
      BY <1>1, <1>4 DEF Separate
    <2> QED
      BY <1>1, <2>1, <2>2, WindowsKeep
  <1>5. ASSUME NEW d \in Displays, ToggleFull(d) PROVE InputInv'
    <2>1. /\ UNCHANGED <<hands, monitors, device, cached, queue>>
          /\ focus' = focus /\ pointer' = pointer /\ detached' = detached
      BY <1>5 DEF ToggleFull
    <2>2. fullscreen' \in SUBSET Displays
      BY <1>1, <1>5 DEF ToggleFull, SymDiff
    <2> QED
      BY <1>1, <2>1, <2>2, WindowsKeep
  <1>6. ASSUME NEW d \in Displays, Dock(d) PROVE InputInv'
    <2>1. /\ UNCHANGED <<hands, monitors, device, cached, queue>>
          /\ pointer' = pointer \/ pointer' = None
      BY <1>6 DEF Dock
    <2>2. /\ detached' \in SUBSET Displays /\ fullscreen' \in SUBSET Displays
          /\ focus' \in {None, Main} \cup Displays
      BY <1>1, <1>6 DEF Dock
    <2> QED
      BY <2>1, <2>2, WindowsKeep
  <1> QED
    BY <1>2, <1>3, <1>4, <1>5, <1>6

\* A monitor that changes its mode frees the host of aiming.
LEMMA ResizeKeeps ==
  ASSUME InputInv, NEW d \in Displays, NEW size \in NewSizes, Resize(d, size)
  PROVE  InputInv'
  <1>1. Types /\ Overview /\ PointerOnTarget
    BY DEF InputInv
  <1>2. /\ layout' = layout /\ held' = held /\ spot' = spot /\ cached' = cached
        /\ queue' = queue /\ down' = down /\ missed' = missed
        /\ focus' = focus /\ pointer' = pointer /\ detached' = detached
        /\ fullscreen' = fullscreen
    BY DEF Resize, hands, windows, device
  <1>3. Displays' = Displays
    BY <1>2 DEF Displays
  <1>4. resized' # {} /\ resized' \in SUBSET Displays
    BY <1>1 DEF Resize, Types
  <1>5. /\ shown' \in [Displays -> [at : [Axes -> Int], size : Lengths]]
        /\ \A e \in Displays : shown'[e].at = shown[e].at
    <2>1. shown \in [Displays -> [at : [Axes -> Int], size : Lengths]]
      BY <1>1 DEF Types
    <2>2. size \in Lengths
      BY NewSizesAssumption
    <2>3. shown' = [shown EXCEPT ![d].size = size]
      BY DEF Resize
    <2> QED
      BY <2>1, <2>2, <2>3
  <1>6. Types'
    BY <1>1, <1>2, <1>3, <1>4, <1>5 DEF Types
  <1>7. Overview'
    BY <1>1, <1>2, <1>3, <1>4, <1>5 DEF Overview
  <1>8. Aims'
    <2> SUFFICES ASSUME NEW i \in DOMAIN queue', AimsWell(queue[i])
        PROVE AimsWell(queue[i])'
      BY <1>2 DEF InputInv, Aims
    <2> QED
      BY <1>2, <1>3, <1>4 DEF AimsWell
  <1>9. PointerOnTarget'
    BY <1>1, <1>2, <1>4 DEF PointerOnTarget
  <1>10. Delivered' = Delivered
    BY <1>2 DEF Delivered
  <1>11. ModifiersAgree' /\ NothingStuck'
    BY <1>2, <1>10 DEF InputInv, ModifiersAgree, NothingStuck
  <1> QED
    BY <1>6, <1>7, <1>8, <1>9, <1>11 DEF InputInv

LEMMA HostKeeps ==
  ASSUME InputInv, HostApplies
  PROVE  InputInv'
  <1>1. Types /\ Overview /\ Aims /\ PointerOnTarget
    BY DEF InputInv
  <1>2. /\ layout' = layout /\ shown' = shown /\ resized' = resized /\ cached' = cached
        /\ down' = down /\ missed' = missed /\ focus' = focus /\ pointer' = pointer
        /\ detached' = detached /\ fullscreen' = fullscreen
    BY DEF HostApplies, hands, windows, monitors
  <1>3. Displays' = Displays
    BY <1>2 DEF Displays
  <1>4. PICK s : s = queue
    OBVIOUS
  <1>5. s \in Seq(Messages) /\ s # <<>>
    BY <1>1, <1>4 DEF Types, HostApplies
  <1>6. PICK m \in Messages : m = Head(s)
    BY <1>5
  <1>7. 1 \in DOMAIN s /\ s[1] = m
    BY <1>5, <1>6
  <1>8. /\ held' = Applied(held, m)
        /\ IF m.type = "move"
             THEN spot' = [at |-> PointerAt(layout, m.display, m.at), aim |-> m.aim]
             ELSE spot' = spot
        /\ queue' = Tail(s)
    BY <1>4, <1>6 DEF HostApplies, Applied
  <1>9. /\ Tail(s) \in Seq(Messages)
        /\ \A i \in DOMAIN Tail(s) : i + 1 \in DOMAIN s /\ Tail(s)[i] = s[i + 1]
    BY <1>5
  <1>10. held' \in SUBSET Physical
    BY <1>1, <1>8, MessageTypes DEF Types, Applied
  <1>11. Types'
    BY <1>1, <1>2, <1>3, <1>8, <1>9, <1>10 DEF Types
  <1>12. Overview'
    BY <1>1, <1>2, <1>3 DEF Overview
  <1>13. Aims'
    <2> SUFFICES ASSUME NEW i \in DOMAIN Tail(s) PROVE AimsWell(Tail(s)[i])'
      BY <1>8 DEF Aims
    <2>1. PICK n \in Messages : n = s[i + 1] /\ AimsWell(n)
      BY <1>1, <1>4, <1>5, <1>9 DEF Aims
    <2>2. (AimsWell(Tail(s)[i])' <=> AimsWell(n))
      BY <1>2, <1>3, <1>9, <2>1 DEF AimsWell
    <2> QED
      BY <2>1, <2>2
  <1>14. PointerOnTarget'
    <2>1. CASE m.type = "move"
      <3>1. AimsWell(m)
        BY <1>1, <1>4, <1>7 DEF Aims
      <3>2. PICK d, at, aim : d = m.display /\ at = m.at /\ aim = m.aim
        OBVIOUS
      <3>3. spot' = [at |-> PointerAt(layout, d, at), aim |-> aim]
        BY <1>8, <2>1, <3>2
      <3>4. /\ d \in Displays
            /\ resized = {} =>
                 aim = d /\ \A axis \in Axes : at[axis] \in 0..(layout[d].pixels[axis] - 1)
        BY <2>1, <3>1, <3>2 DEF AimsWell
      <3>5. layout \in Seq(Regions)
        BY <1>1, LayoutType
      <3>6. at \in [Axes -> Int]
        BY <2>1, <3>2 DEF Messages, Pointings, Presses
      <3>7. ASSUME NEW axis \in Axes
            PROVE PointerAt(layout, d, at)[axis] \in LowEnd(layout, axis)..HighEnd(layout, axis)
        BY <3>4, <3>5, <3>6, PointerOnAxes DEF Displays
      <3>8. ASSUME resized = {}
            PROVE Inside(layout[aim], PointerAt(layout, d, at))
        BY <3>4, <3>5, <3>8, PointerInside DEF Displays
      <3> QED
        BY <1>2, <3>3, <3>7, <3>8 DEF PointerOnTarget
    <2>2. CASE m.type # "move"
      BY <1>1, <1>2, <1>8, <2>2 DEF PointerOnTarget
    <2> QED
      BY <2>1, <2>2
  <1>15. \A k : HeldAfter(held', queue', k) <=> HeldAfter(held, queue, k)
    BY <1>4, <1>5, <1>6, <1>8, HeldAfterFirst
  <1>16. Delivered' = Delivered
    BY <1>15 DEF Delivered
  <1>17. ModifiersAgree' /\ NothingStuck'
    BY <1>2, <1>16 DEF InputInv, ModifiersAgree, NothingStuck
  <1> QED
    BY <1>11, <1>12, <1>13, <1>14, <1>17 DEF InputInv

LEMMA StepInv == InputInv /\ [InputNext]_inputVars => InputInv'
  <1> SUFFICES ASSUME InputInv, [InputNext]_inputVars PROVE InputInv'
    OBVIOUS
  <1>1. ASSUME NEW w \in {Main} \cup detached, NEW batch \in Batches, Frame(w, batch)
        PROVE  InputInv'
    BY <1>1, FrameKeeps
  <1>2. ASSUME NEW w \in {Main} \cup detached, NEW p \in Points(w) \cup {OffScreen}, Point(w, p)
        PROVE  InputInv'
    BY <1>2, PointKeeps
  <1>3. ASSUME NEW what \in Physical, Unseen(what)
        PROVE  InputInv'
    BY <1>3, UnseenKeeps
  <1>4. CASE \/ \E w \in {None, Main} \cup detached : FocusMoves(w)
             \/ FieldFocus
             \/ \E d \in Displays : \/ \E full \in BOOLEAN : Separate(d, full)
                                    \/ ToggleFull(d)
                                    \/ Dock(d)
    BY <1>4, RearrangingKeeps
  <1>5. ASSUME NEW d \in Displays, NEW size \in NewSizes, Resize(d, size)
        PROVE  InputInv'
    BY <1>5, ResizeKeeps
  <1>6. CASE HostApplies
    BY <1>6, HostKeeps
  <1>7. CASE UNCHANGED inputVars
    <2>1. /\ layout' = layout /\ shown' = shown /\ resized' = resized /\ cached' = cached
          /\ down' = down /\ missed' = missed /\ focus' = focus /\ pointer' = pointer
          /\ detached' = detached /\ fullscreen' = fullscreen
          /\ held' = held /\ spot' = spot /\ queue' = queue
      BY <1>7 DEF inputVars, hands, windows, monitors, device
    <2>2. Displays' = Displays /\ Delivered' = Delivered
      BY <2>1 DEF Displays, Delivered
    <2>3. Types' /\ Overview'
      BY <2>1, <2>2 DEF InputInv, Types, Overview
    <2>4. Aims' /\ PointerOnTarget'
      BY <2>1, <2>2 DEF InputInv, Aims, AimsWell, PointerOnTarget
    <2>5. ModifiersAgree' /\ NothingStuck'
      BY <2>1, <2>2 DEF InputInv, ModifiersAgree, NothingStuck
    <2> QED
      BY <2>3, <2>4, <2>5 DEF InputInv
  <1> QED
    BY <1>1, <1>2, <1>3, <1>4, <1>5, <1>6, <1>7 DEF InputNext

LEMMA Invariant == InputSpec => []InputInv
  BY InitInv, StepInv, PTL DEF InputSpec

-----------------------------------------------------------------------------
(* Theorems *)

\* However the focus moves between the windows, the path field and other
\* programs, and whatever is still under way, the modifiers the host ends up
\* holding are those the window remembers to have sent: apply_input and
\* sync_mod of crates/client/src/app.rs never lose track of the host.
THEOREM ModifiersStayInStep == InputSpec => []ModifiersAgree
  <1>1. InputInv => ModifiersAgree
    BY DEF InputInv
  <1> QED
    BY <1>1, Invariant, PTL

\* A key or a button the user let go of in sight of a window is let go of on
\* the host, whichever character it was pressed as and whatever the window
\* made of the press: evdev_code and apply_input of crates/client/src/app.rs.
THEOREM NothingStaysPressed == InputSpec => []NothingStuck
  <1>1. InputInv => NothingStuck
    BY DEF InputInv
  <1> QED
    BY <1>1, Invariant, PTL

\* For all monitors that do not overlap, at all scales, a point of a picture
\* becomes a position on that picture's monitor: hit of
\* crates/client/src/app.rs, pixel_origins of
\* crates/host/src/capture/screencopy.rs and UinputDevice of
\* crates/host/src/input.rs agree.  A monitor that changed its mode leaves the
\* pointer at least on the axes of the device.
THEOREM PointerLandsOnTarget == InputSpec => []PointerOnTarget
  <1>1. InputInv => PointerOnTarget
    BY DEF InputInv
  <1> QED
    BY <1>1, Invariant, PTL

-----------------------------------------------------------------------------
(* ClientSession: the user's inputs reach the host in order, through three   *)
(* queues and two tasks, however they interleave with files, with the end of *)
(* the session and with the end of the connection.                           *)
(*                                                                           *)
(* The invariant is about the four queues one by one: each carries a run of  *)
(* consecutive inputs, and a run begins where the one before it ends.  What  *)
(* follows holds for every value of the constants of ClientSession.          *)

Files == {"offer", "accept", "complete", "echo", "cancel"}
Inputs == [type : {"input"}, n : Nat]
SessionMessages == [type : Files \cup {"send", "disconnect"}] \cup Inputs
Commands == [type : {"send", "disconnect"}] \cup Inputs
FromHost == [type : Files \cup {"displays", "video", "end"}]

SessionTypes ==
    /\ loop \in {"select", "sending", "over"}
    /\ duty \in {"input", "offer", "reply"}
    /\ outbox \in Seq(SessionMessages)
    /\ commands \in Seq(Commands)
    /\ ctrl \in Seq(SessionMessages)
    /\ toHost \in Seq(SessionMessages)
    /\ toClient \in Seq(FromHost)
    /\ incoming \in Seq(FromHost)
    /\ owed \in Seq(FromHost)
    /\ applied \in Nat
    /\ inputs \in Nat

\* The places of a commands that hold inputs.
InputsOf(s) == {i \in DOMAIN s : s[i].type = "input"}

\* The inputs of a commands are those after lo up to hi, in order.
Run(s, lo, hi) ==
    /\ \A i, j \in InputsOf(s) : i < j => s[i].n < s[j].n
    /\ {s[i].n : i \in InputsOf(s)} = (lo + 1)..hi

\* The loop holds messages only while it sends them, and inputs only when the
\* user's input is what it sends.
Outbox ==
    /\ loop = "sending" <=> outbox # <<>>
    /\ duty # "input" => InputsOf(outbox) = {}

\* The writer ends with the connection, or with the session.
WriterStays ==
    writer = "writing" \/ host = "closed" \/ (loop = "over" /\ writer = "gone")

\* The runs of the queues follow each other.
Chain ==
    host # "closed" =>
      \E a, b, c, d \in Nat :
        /\ applied <= a /\ a <= b /\ b <= c /\ c <= d /\ d <= inputs
        /\ Run(toHost, applied, a)
        /\ Run(ctrl, a, b)
        /\ Run(outbox, b, c)
        /\ Run(commands, c, d)
        /\ loop # "over" => d = inputs

SessionInv == SessionTypes /\ Outbox /\ WriterStays /\ Chain

-----------------------------------------------------------------------------
(* Runs *)

LEMMA NoRun ==
  ASSUME NEW s, InputsOf(s) = {}, NEW lo \in Nat
  PROVE  Run(s, lo, lo)
  BY DEF Run

LEMMA NoRunIsEmpty ==
  ASSUME NEW s, InputsOf(s) = {}, NEW lo \in Nat, NEW hi \in Nat,
         lo <= hi, Run(s, lo, hi)
  PROVE  hi = lo
  <1>1. (lo + 1)..hi = {}
    BY DEF Run
  <1>2. hi \notin (lo + 1)..hi
    BY <1>1
  <1> QED
    BY <1>2

LEMMA EmptyOrLonger ==
  ASSUME NEW s \in Seq(SessionMessages)
  PROVE  s = <<>> <=> Len(s) = 0
  OBVIOUS

LEMMA Empty == InputsOf(<<>>) = {}
  BY DEF InputsOf

LEMMA InputsAppended ==
  ASSUME NEW s \in Seq(SessionMessages), NEW m \in SessionMessages
  PROVE  InputsOf(Append(s, m)) =
           IF m.type = "input" THEN InputsOf(s) \cup {Len(s) + 1} ELSE InputsOf(s)
  <1>1. DOMAIN Append(s, m) = 1..(Len(s) + 1) /\ DOMAIN s = 1..Len(s)
    OBVIOUS
  <1>2. Append(s, m)[Len(s) + 1] = m /\ \A i \in 1..Len(s) : Append(s, m)[i] = s[i]
    OBVIOUS
  <1>3. 1..(Len(s) + 1) = 1..Len(s) \cup {Len(s) + 1}
    OBVIOUS
  <1> QED
    BY <1>1, <1>2, <1>3 DEF InputsOf

LEMMA RunGoesOn ==
  ASSUME NEW s \in Seq(SessionMessages), NEW m \in SessionMessages,
         NEW lo \in Nat, NEW hi \in Nat, lo <= hi, Run(s, lo, hi),
         m.type = "input", m.n = hi + 1
  PROVE  Run(Append(s, m), lo, hi + 1)
  <1> DEFINE t == Append(s, m)
  <1>1. InputsOf(t) = InputsOf(s) \cup {Len(s) + 1}
    BY InputsAppended
  <1>2. InputsOf(s) \subseteq 1..Len(s)
    BY DEF InputsOf
  <1>3. t[Len(s) + 1] = m /\ \A i \in InputsOf(s) : t[i] = s[i]
    BY <1>2
  <1>4. \A i \in InputsOf(s) : s[i].n \in (lo + 1)..hi
    BY DEF Run
  <1>5. \A i, j \in InputsOf(s) : i < j => s[i].n < s[j].n
    BY DEF Run
  <1>6. {s[i].n : i \in InputsOf(s)} = (lo + 1)..hi
    BY DEF Run
  <1> HIDE DEF t
  <1>7. {t[i].n : i \in InputsOf(t)} = {s[i].n : i \in InputsOf(s)} \cup {hi + 1}
    BY <1>1, <1>3
  <1>8. (lo + 1)..(hi + 1) = ((lo + 1)..hi) \cup {hi + 1}
    OBVIOUS
  <1>9. ASSUME NEW i \in InputsOf(t), NEW j \in InputsOf(t), i < j PROVE t[i].n < t[j].n
    <2>1. i \in InputsOf(s)
      BY <1>1, <1>2, <1>9
    <2>2. CASE j \in InputsOf(s)
      BY <2>1, <2>2, <1>3, <1>5, <1>9
    <2>3. CASE j = Len(s) + 1
      <3>1. t[j] = m /\ t[i] = s[i]
        BY <2>1, <2>3, <1>3
      <3>2. s[i].n \in (lo + 1)..hi
        BY <2>1, <1>4
      <3> QED
        BY <3>1, <3>2
    <2> QED
      BY <2>2, <2>3, <1>1
  <1>10. Run(t, lo, hi + 1)
    BY <1>6, <1>7, <1>8, <1>9 DEF Run
  <1> QED
    BY <1>10 DEF t

LEMMA RunIsLeft ==
  ASSUME NEW s \in Seq(SessionMessages), NEW m \in SessionMessages,
         NEW lo, NEW hi, Run(s, lo, hi), m.type # "input"
  PROVE  Run(Append(s, m), lo, hi)
  <1> DEFINE t == Append(s, m)
  <1>1. InputsOf(t) = InputsOf(s)
    BY InputsAppended
  <1>2. \A i \in InputsOf(s) : t[i] = s[i]
    BY DEF InputsOf
  <1> HIDE DEF t
  <1>3. Run(t, lo, hi)
    BY <1>1, <1>2 DEF Run
  <1> QED
    BY <1>3 DEF t

\* The first place aside, the inputs of a commands are those of its tail.
LEMMA InputsOfTail ==
  ASSUME NEW s \in Seq(SessionMessages), s # <<>>
  PROVE  /\ \A i \in InputsOf(Tail(s)) : i + 1 \in InputsOf(s) /\ Tail(s)[i] = s[i + 1]
         /\ \A i \in InputsOf(s) : i # 1 => i - 1 \in InputsOf(Tail(s))
         /\ 1 \in InputsOf(s) <=> Head(s).type = "input"
         /\ InputsOf(s) \subseteq Nat \ {0}
         /\ InputsOf(Tail(s)) \subseteq Nat \ {0}
  <1>1. Len(s) \in Nat /\ Len(s) >= 1 /\ DOMAIN s = 1..Len(s) /\ Head(s) = s[1]
    OBVIOUS
  <1>2. DOMAIN Tail(s) = 1..(Len(s) - 1)
    OBVIOUS
  <1>3. \A i \in 1..(Len(s) - 1) : Tail(s)[i] = s[i + 1]
    OBVIOUS
  <1> QED
    BY <1>1, <1>2, <1>3 DEF InputsOf

LEMMA RunLosesItsFirst ==
  ASSUME NEW s \in Seq(SessionMessages), s # <<>>, NEW lo \in Nat, NEW hi \in Nat, lo <= hi,
         Run(s, lo, hi), Head(s).type = "input"
  PROVE  Head(s).n = lo + 1 /\ lo + 1 <= hi /\ Run(Tail(s), lo + 1, hi)
  <1> DEFINE t == Tail(s)
             I == InputsOf(s)
             J == InputsOf(t)
  <1>1. /\ \A i \in J : i + 1 \in I /\ t[i] = s[i + 1]
        /\ \A i \in I : i # 1 => i - 1 \in J
        /\ 1 \in I
        /\ I \subseteq Nat \ {0}
        /\ J \subseteq Nat \ {0}
    BY InputsOfTail
  <1>2. \A i, j \in I : i < j => s[i].n < s[j].n
    BY DEF Run
  <1>3. {s[i].n : i \in I} = (lo + 1)..hi
    BY DEF Run
  <1>h. Head(s) = s[1]
    OBVIOUS
  <1> HIDE DEF t, I, J
  <1>4. s[1].n \in (lo + 1)..hi
    BY <1>1, <1>3
  <1>5. lo + 1 \in (lo + 1)..hi
    BY <1>4
  <1>6. PICK k \in I : s[k].n = lo + 1
    BY <1>3, <1>5
  <1>7. k = 1
    BY <1>1, <1>2, <1>4, <1>6
  <1>8. s[1].n = lo + 1
    BY <1>6, <1>7
  <1>9. ASSUME NEW i \in J, NEW j \in J, i < j PROVE t[i].n < t[j].n
    <2>1. i + 1 \in I /\ j + 1 \in I /\ i + 1 < j + 1
      BY <1>1, <1>9
    <2> QED
      BY <2>1, <1>1, <1>2
  <1>10. \A i \in J : t[i].n \in (lo + 2)..hi
    <2> TAKE i \in J
    <2>1. i + 1 \in I /\ 1 < i + 1 /\ t[i] = s[i + 1]
      BY <1>1
    <2>2. s[1].n < s[i + 1].n /\ s[i + 1].n \in (lo + 1)..hi
      BY <2>1, <1>1, <1>2, <1>3
    <2> QED
      BY <2>1, <2>2, <1>8
  <1>11. \A x \in (lo + 2)..hi : \E i \in J : t[i].n = x
    <2> TAKE x \in (lo + 2)..hi
    <2>1. x \in (lo + 1)..hi
      OBVIOUS
    <2>2. PICK i \in I : s[i].n = x
      BY <2>1, <1>3
    <2>3. i # 1
      BY <2>2, <1>8
    <2>4. i - 1 \in J /\ t[i - 1] = s[i]
      BY <2>3, <1>1
    <2> QED
      BY <2>2, <2>4
  <1>12. {t[i].n : i \in J} = (lo + 2)..hi
    BY <1>10, <1>11
  <1>13. lo + 1 + 1 = lo + 2
    OBVIOUS
  <1>14. Run(t, lo + 1, hi)
    BY <1>9, <1>12, <1>13 DEF Run, J
  <1> QED
    BY <1>14, <1>8, <1>4, <1>h DEF t

LEMMA RunLosesNone ==
  ASSUME NEW s \in Seq(SessionMessages), s # <<>>, NEW lo, NEW hi,
         Run(s, lo, hi), Head(s).type # "input"
  PROVE  Run(Tail(s), lo, hi)
  <1> DEFINE t == Tail(s)
             I == InputsOf(s)
             J == InputsOf(t)
  <1>1. /\ \A i \in J : i + 1 \in I /\ t[i] = s[i + 1]
        /\ \A i \in I : i - 1 \in J
        /\ I \subseteq Nat \ {0}
        /\ J \subseteq Nat \ {0}
    BY InputsOfTail
  <1>2. \A i, j \in I : i < j => s[i].n < s[j].n
    BY DEF Run
  <1>3. {s[i].n : i \in I} = (lo + 1)..hi
    BY DEF Run
  <1> HIDE DEF t, I, J
  <1>4. ASSUME NEW i \in J, NEW j \in J, i < j PROVE t[i].n < t[j].n
    <2>1. i + 1 \in I /\ j + 1 \in I /\ i + 1 < j + 1
      BY <1>1, <1>4
    <2> QED
      BY <2>1, <1>1, <1>2
  <1>5. \A i \in I : i - 1 \in J /\ t[i - 1] = s[i]
    BY <1>1
  <1>6. {t[i].n : i \in J} = {s[i].n : i \in I}
    BY <1>1, <1>5
  <1>7. Run(t, lo, hi)
    BY <1>3, <1>4, <1>6 DEF Run, J
  <1> QED
    BY <1>7 DEF t

\* Two runs that meet are one.
LEMMA RunsMeet ==
  ASSUME NEW s \in Seq(SessionMessages), NEW t \in Seq(SessionMessages),
         NEW lo \in Nat, NEW mid \in Nat, NEW hi \in Nat, lo <= mid, mid <= hi,
         Run(s, lo, mid), Run(t, mid, hi)
  PROVE  Run(s \o t, lo, hi)
  <1> DEFINE u == s \o t
             I == InputsOf(s)
             J == InputsOf(t)
             K == InputsOf(u)
             n == Len(s)
  <1>1. n \in Nat /\ I \subseteq 1..n /\ J \subseteq Nat \ {0}
    BY DEF InputsOf
  <1>2. DOMAIN u = 1..(n + Len(t))
    OBVIOUS
  <1>3. \A i \in 1..n : u[i] = s[i]
    OBVIOUS
  <1>4. \A i \in 1..Len(t) : u[n + i] = t[i]
    OBVIOUS
  <1>5. /\ \A i \in I : i \in K /\ u[i] = s[i]
        /\ \A j \in J : n + j \in K /\ u[n + j] = t[j]
    BY <1>2, <1>3, <1>4 DEF InputsOf
  <1>6. \A k \in K : k \in Nat /\ (k \in I \/ (k > n /\ k - n \in J))
    BY <1>2, <1>3, <1>4 DEF InputsOf
  <1>7. /\ \A i, j \in I : i < j => s[i].n < s[j].n
        /\ \A i, j \in J : i < j => t[i].n < t[j].n
    BY DEF Run
  <1>8. {s[i].n : i \in I} = (lo + 1)..mid /\ {t[i].n : i \in J} = (mid + 1)..hi
    BY DEF Run
  <1> HIDE DEF u, I, J, K, n
  <1>9. /\ \A i \in I : s[i].n \in (lo + 1)..mid
        /\ \A j \in J : t[j].n \in (mid + 1)..hi
    BY <1>8
  <1>10. ASSUME NEW k \in K PROVE u[k].n \in (lo + 1)..hi
    <2>1. CASE k \in I
      BY <2>1, <1>5, <1>9
    <2>2. CASE k > n /\ k - n \in J
      <3>1. k = n + (k - n)
        BY <1>1, <1>6
      <3>2. u[k] = t[k - n]
        BY <3>1, <2>2, <1>5
      <3> QED
        BY <3>2, <2>2, <1>9
    <2> QED
      BY <2>1, <2>2, <1>6
  <1>11. ASSUME NEW x \in (lo + 1)..hi PROVE \E k \in K : u[k].n = x
    <2>1. CASE x <= mid
      <3>1. x \in (lo + 1)..mid
        BY <2>1
      <3>2. PICK i \in I : s[i].n = x
        BY <3>1, <1>8
      <3> QED
        BY <3>2, <1>5
    <2>2. CASE x > mid
      <3>1. x \in (mid + 1)..hi
        BY <2>2
      <3>2. PICK j \in J : t[j].n = x
        BY <3>1, <1>8
      <3> QED
        BY <3>2, <1>5
    <2> QED
      BY <2>1, <2>2
  <1>12. {u[k].n : k \in K} = (lo + 1)..hi
    BY <1>10, <1>11
  <1>13. ASSUME NEW i \in K, NEW j \in K, i < j PROVE u[i].n < u[j].n
    <2>1. CASE i \in I /\ j \in I
      BY <2>1, <1>5, <1>7, <1>13
    <2>2. CASE i \in I /\ j > n /\ j - n \in J
      <3>1. j = n + (j - n)
        BY <1>1, <1>6
      <3>2. u[j] = t[j - n]
        BY <3>1, <2>2, <1>5
      <3> QED
        BY <3>2, <2>2, <1>5, <1>9
    <2>3. CASE i > n /\ i - n \in J /\ j > n /\ j - n \in J
      <3>1. i = n + (i - n) /\ j = n + (j - n) /\ i - n < j - n
        BY <1>1, <1>6, <1>13
      <3>2. u[j] = t[j - n] /\ u[i] = t[i - n]
        BY <3>1, <2>3, <1>5
      <3> QED
        BY <3>1, <3>2, <2>3, <1>7
    <2>4. CASE i > n /\ j \in I
      <3>1. j \in 1..n
        BY <2>4, <1>1
      <3>2. i \in Nat
        BY <1>6
      <3> QED
        BY <3>1, <3>2, <2>4, <1>1, <1>13
    <2> QED
      BY <2>1, <2>2, <2>3, <2>4, <1>6
  <1>14. Run(u, lo, hi)
    BY <1>12, <1>13 DEF Run, K
  <1> QED
    BY <1>14 DEF u

-----------------------------------------------------------------------------
(* The invariant at the start *)

LEMMA SessionInitInv == Init => SessionInv
  <1> SUFFICES ASSUME Init PROVE SessionInv
    OBVIOUS
  <1> USE DEF Init
  <1>1. <<>> \in Seq(SessionMessages) /\ <<>> \in Seq(Commands) /\ <<>> \in Seq(FromHost)
    OBVIOUS
  <1>2. Msg("offer") \in SessionMessages /\ Msg("displays") \in FromHost
    BY DEF Msg, SessionMessages, FromHost, Files
  <1>3. <<Msg("offer")>> \in Seq(SessionMessages) /\ <<Msg("displays")>> \in Seq(FromHost)
    BY <1>2
  <1>4. SessionTypes
    BY <1>1, <1>3 DEF SessionTypes
  <1>5. Outbox /\ WriterStays
    BY Empty DEF Outbox, WriterStays
  <1>6. InputsOf(ctrl) = {}
    <2>1. CASE sendFile
      <3>1. ctrl = <<Msg("offer")>>
        BY <2>1
      <3>2. DOMAIN ctrl = {1} /\ ctrl[1] = Msg("offer")
        BY <3>1
      <3>3. ctrl[1].type # "input"
        BY <3>2 DEF Msg
      <3> QED
        BY <3>2, <3>3 DEF InputsOf
    <2>2. CASE ~ sendFile
      BY <2>2, Empty
    <2> QED
      BY <2>1, <2>2
  <1>7. Run(<<>>, 0, 0) /\ Run(ctrl, 0, 0)
    BY <1>6, Empty, NoRun
  <1>8. Chain
    BY <1>7 DEF Chain
  <1> QED
    BY <1>4, <1>5, <1>8 DEF SessionInv

-----------------------------------------------------------------------------
(* The pieces the loop's branches are made of *)

LEMMA OneMessage ==
  ASSUME NEW m \in SessionMessages
  PROVE  /\ <<m>> \in Seq(SessionMessages)
         /\ m.type # "input" => InputsOf(<<m>>) = {}
         /\ \A lo \in Nat : m.type = "input" /\ m.n = lo + 1 => Run(<<m>>, lo, lo + 1)
  <1>1. <<>> \in Seq(SessionMessages) /\ Append(<<>>, m) = <<m>> /\ <<m>> \in Seq(SessionMessages)
    OBVIOUS
  <1>2. DOMAIN <<m>> = {1} /\ <<m>>[1] = m
    OBVIOUS
  <1>3. m.type # "input" => InputsOf(<<m>>) = {}
    BY <1>2 DEF InputsOf
  <1>4. ASSUME NEW lo \in Nat, m.type = "input", m.n = lo + 1 PROVE Run(<<m>>, lo, lo + 1)
    <2>1. PICK e \in Seq(SessionMessages) : e = <<>>
      BY <1>1
    <2>2. Run(e, lo, lo) /\ lo <= lo
      BY <2>1, Empty, NoRun
    <2>3. Run(Append(e, m), lo, lo + 1)
      BY <1>4, <2>2, RunGoesOn
    <2> QED
      BY <1>1, <2>1, <2>3
  <1> QED
    BY <1>1, <1>3, <1>4

LEMMA FileMessage ==
  ASSUME NEW t \in Files
  PROVE  Msg(t) \in SessionMessages /\ Msg(t) \in FromHost /\ Msg(t).type = t /\ t # "input"
  BY DEF Msg, SessionMessages, FromHost, Files

\* A commands of commands is a commands of messages.
LEMMA CommandsAreMessages ==
  ASSUME NEW s \in Seq(Commands)
  PROVE  s \in Seq(SessionMessages)
  BY DEF Commands, SessionMessages

LEMMA LeaveInv ==
  ASSUME SessionInv, Leave, UNCHANGED <<toHost, toClient, hostVars, inputs>>
  PROVE  SessionInv'
  <1> USE DEF SessionInv, Leave, hostVars
  <1>1. <<>> \in Seq(SessionMessages) /\ <<>> \in Seq(Commands) /\ <<>> \in Seq(FromHost)
    OBVIOUS
  <1>2. SessionTypes'
    BY <1>1 DEF SessionTypes
  <1>3. Outbox' /\ WriterStays'
    BY Empty DEF Outbox, WriterStays
  <1>4. Chain'
    <2> SUFFICES ASSUME host # "closed" PROVE Chain'
      BY DEF Chain
    <2>1. PICK a \in Nat : applied <= a /\ a <= inputs /\ Run(toHost, applied, a)
      BY DEF Chain, SessionTypes
    <2>2. Run(<<>>, a, a)
      BY Empty, NoRun
    <2>3. /\ applied' = applied /\ inputs' = inputs /\ toHost' = toHost
          /\ ctrl' = <<>> /\ outbox' = <<>> /\ commands' = <<>> /\ loop' = "over"
      OBVIOUS
    <2> QED
      BY <2>1, <2>2, <2>3 DEF Chain
  <1> QED
    BY <1>2, <1>3, <1>4

LEMMA IterateInv ==
  ASSUME SessionInv, NEW l, Iterate(l), InputsOf(outbox) = {}, loop # "over",
         UNCHANGED <<toHost, toClient, hostVars, inputs>>,
         commands' \in Seq(Commands), incoming' \in Seq(FromHost),
         \A x, y \in Nat : Run(commands, x, y) => Run(commands', x, y)
  PROVE  SessionInv'
  <1>1. CASE Finished(l)
    BY <1>1, LeaveInv DEF Iterate
  <1>2. CASE ~ Finished(l)
    <2> USE DEF SessionInv, hostVars
    <2>1. /\ loop' = "select" /\ outbox' = <<>>
          /\ UNCHANGED <<duty, ctrl, writer, reader, open>>
      BY <1>2 DEF Iterate
    <2>2. <<>> \in Seq(SessionMessages)
      OBVIOUS
    <2>3. SessionTypes'
      BY <2>1, <2>2 DEF SessionTypes
    <2>4. Outbox' /\ WriterStays'
      BY <2>1, Empty DEF Outbox, WriterStays
    <2>5. Chain'
      <3> SUFFICES ASSUME host # "closed" PROVE Chain'
        BY DEF Chain
      <3>1. PICK a, b, c, d \in Nat :
              /\ applied <= a /\ a <= b /\ b <= c /\ c <= d /\ d <= inputs
              /\ Run(toHost, applied, a)
              /\ Run(ctrl, a, b)
              /\ Run(outbox, b, c)
              /\ Run(commands, c, d)
              /\ loop # "over" => d = inputs
        BY DEF Chain
      <3>2. c = b
        BY <3>1, NoRunIsEmpty
      <3>3. Run(outbox', b, b)
        BY <2>1, Empty, NoRun
      <3>4. Run(commands', b, d)
        BY <3>1, <3>2
      <3> QED
        BY <2>1, <3>1, <3>2, <3>3, <3>4 DEF Chain
    <2> QED
      BY <2>3, <2>4, <2>5
  <1> QED
    BY <1>1, <1>2

LEMMA SendAllInv ==
  ASSUME SessionInv, NEW l, NEW ms \in Seq(SessionMessages), NEW d \in {"offer", "reply"},
         SendAll(d, ms, l), InputsOf(outbox) = {}, InputsOf(ms) = {}, loop # "over",
         UNCHANGED <<toHost, toClient, hostVars, inputs>>,
         commands' \in Seq(Commands), incoming' \in Seq(FromHost),
         \A x, y \in Nat : Run(commands, x, y) => Run(commands', x, y)
  PROVE  SessionInv'
  <1>1. CASE ms = <<>>
    BY <1>1, IterateInv DEF SendAll
  <1>2. CASE ms # <<>>
    <2> USE DEF SessionInv, hostVars
    <2>1. /\ loop' = "sending" /\ duty' = d /\ outbox' = ms
          /\ UNCHANGED <<ctrl, writer, reader, open>>
      BY <1>2 DEF SendAll
    <2>2. SessionTypes'
      BY <2>1 DEF SessionTypes
    <2>3. Outbox' /\ WriterStays'
      BY <2>1, <1>2 DEF Outbox, WriterStays
    <2>4. Chain'
      <3> SUFFICES ASSUME host # "closed" PROVE Chain'
        BY DEF Chain
      <3>1. PICK a, b, c, e \in Nat :
              /\ applied <= a /\ a <= b /\ b <= c /\ c <= e /\ e <= inputs
              /\ Run(toHost, applied, a)
              /\ Run(ctrl, a, b)
              /\ Run(outbox, b, c)
              /\ Run(commands, c, e)
              /\ loop # "over" => e = inputs
        BY DEF Chain
      <3>2. c = b
        BY <3>1, NoRunIsEmpty
      <3>3. Run(outbox', b, b)
        BY <2>1, NoRun
      <3>4. Run(commands', b, e)
        BY <3>1, <3>2
      <3> QED
        BY <2>1, <3>1, <3>2, <3>3, <3>4 DEF Chain
    <2> QED
      BY <2>2, <2>3, <2>4
  <1> QED
    BY <1>1, <1>2

\* What the session answers is about files.
LEMMA Answers ==
  ASSUME NEW m, NEW h \in Handle(m)
  PROVE  h[2] \in Seq(SessionMessages) /\ InputsOf(h[2]) = {}
  <1>1. h[2] = <<>> \/ \E t \in Files : h[2] = <<Msg(t)>>
    <2>w. ASSUME NEW l, NEW ms PROVE Well(l, ms)[2] = ms /\ Ill(l)[2] = <<>>
      BY DEF Well, Ill
    <2>f. ASSUME NEW l, NEW k \in MayFail(l) PROVE k[2] = <<>>
      BY <2>f, <2>w DEF MayFail
    <2>1. CASE m.type = "displays"
      BY <2>1, <2>w DEF Handle
    <2>2. CASE m.type = "video"
      BY <2>2, <2>w DEF Handle
    <2>3. CASE m.type \notin {"displays", "video"}
      <3>1. h \in TakeFile(m)
        BY <2>3 DEF Handle
      <3>2. CASE m.type = "offer"
        <4>1. \/ h = Well([live EXCEPT !.sawOffer = TRUE, !.incoming = TRUE], <<Msg("accept")>>)
              \/ h \in MayFail([live EXCEPT !.sawOffer = TRUE])
          BY <3>1, <3>2 DEF TakeFile
        <4> QED
          BY <4>1, <2>w, <2>f DEF Files
      <3>3. CASE m.type = "complete" /\ live.incoming
        <4>1. \/ h = Well([live EXCEPT !.incoming = FALSE, !.received = TRUE], <<Msg("echo")>>)
              \/ h \in MayFail([live EXCEPT !.incoming = FALSE])
          BY <3>1, <3>3 DEF TakeFile
        <4> QED
          BY <4>1, <2>w, <2>f DEF Files
      <3>4. CASE m.type = "accept" /\ live.outgoing
        <4>1. h = Well(live, <<Msg("complete")>>) \/ h \in MayFail(live)
          BY <3>1, <3>4 DEF TakeFile
        <4> QED
          BY <4>1, <2>w, <2>f DEF Files
      <3>5. CASE m.type = "echo" /\ live.outgoing
        BY <3>1, <3>5, <2>w DEF TakeFile
      <3>6. CASE m.type = "cancel" /\ live.outgoing
        BY <3>1, <3>6, <2>w DEF TakeFile
      <3>7. CASE /\ m.type # "offer"
                 /\ ~ (m.type = "complete" /\ live.incoming)
                 /\ ~ (m.type = "accept" /\ live.outgoing)
                 /\ ~ (m.type = "echo" /\ live.outgoing)
                 /\ ~ (m.type = "cancel" /\ live.outgoing)
        BY <3>1, <3>7, <2>w DEF TakeFile
      <3> QED
        BY <3>2, <3>3, <3>4, <3>5, <3>6, <3>7
    <2> QED
      BY <2>1, <2>2, <2>3
  <1>2. CASE h[2] = <<>>
    <2>1. <<>> \in Seq(SessionMessages)
      OBVIOUS
    <2> QED
      BY <1>2, <2>1, Empty
  <1>3. CASE \E t \in Files : h[2] = <<Msg(t)>>
    <2>1. PICK t \in Files : h[2] = <<Msg(t)>>
      BY <1>3
    <2> QED
      BY <2>1, FileMessage, OneMessage
  <1> QED
    BY <1>1, <1>2, <1>3

-----------------------------------------------------------------------------
(* The steps of the loop *)

LEMMA TakeIncomingInv ==
  ASSUME SessionInv, TakeIncoming
  PROVE  SessionInv'
  <1> USE DEF SessionInv
  <1>1. /\ loop = "select" /\ outbox = <<>>
        /\ UNCHANGED <<toHost, toClient, hostVars, inputs>>
    BY DEF TakeIncoming, Outbox
  <1>2. CASE Head(incoming).type = "end"
    BY <1>1, <1>2, LeaveInv DEF TakeIncoming
  <1>3. CASE Head(incoming).type # "end"
    <2>1. incoming' = <<>>
      BY <1>3 DEF TakeIncoming
    <2>2. PICK h \in Handle(Head(incoming)) :
            IF h[2] = <<>> /\ Finished(h[1])
              THEN Leave
              ELSE SendAll("reply", h[2], h[1]) /\ UNCHANGED commands
      BY <1>3 DEF TakeIncoming
    <2>3. h[2] \in Seq(SessionMessages) /\ InputsOf(h[2]) = {}
      BY Answers
    <2>4. CASE h[2] = <<>> /\ Finished(h[1])
      BY <1>1, <2>2, <2>4, LeaveInv
    <2>5. CASE ~ (h[2] = <<>> /\ Finished(h[1]))
      <3>1. SendAll("reply", h[2], h[1]) /\ commands' = commands
        BY <2>2, <2>5
      <3>2. commands' \in Seq(Commands) /\ incoming' \in Seq(FromHost)
        BY <3>1, <2>1 DEF SessionTypes
      <3>3. InputsOf(outbox) = {}
        BY <1>1, Empty
      <3>4. \A x, y \in Nat : Run(commands, x, y) => Run(commands', x, y)
        BY <3>1
      <3> QED
        BY <1>1, <2>3, <3>1, <3>2, <3>3, <3>4, SendAllInv
    <2> QED
      BY <2>4, <2>5
  <1> QED
    BY <1>2, <1>3

\* The user's input goes from the window's commands to the outbox.
LEMMA InputTaken ==
  ASSUME SessionInv, loop = "select", incoming = <<>>, commands # <<>>,
         Head(commands).type = "input", OnCommand(Head(commands)),
         UNCHANGED <<config, toHost, toClient, hostVars, inputs>>
  PROVE  SessionInv'
  <1> USE DEF SessionInv, hostVars
  <1> DEFINE m == Head(commands)
  <1>1. commands \in Seq(Commands) /\ commands \in Seq(SessionMessages)
    BY CommandsAreMessages DEF SessionTypes
  <1>2. m \in Commands /\ m \in SessionMessages /\ Tail(commands) \in Seq(Commands)
    BY <1>1
  <1>3. /\ loop' = "sending" /\ duty' = "input" /\ outbox' = <<m>>
        /\ UNCHANGED <<ctrl, writer, reader, open, incoming>>
        /\ commands' = Tail(commands)
    <2>1. SendAll("input", <<m>>, live) /\ commands' = Tail(commands) /\ UNCHANGED <<live, incoming>>
      BY DEF OnCommand
    <2>2. <<m>> # <<>>
      OBVIOUS
    <2> QED
      BY <2>1, <2>2 DEF SendAll
  <1>4. <<m>> \in Seq(SessionMessages)
    BY <1>2, OneMessage
  <1>5. SessionTypes'
    BY <1>2, <1>3, <1>4 DEF SessionTypes
  <1>6. Outbox' /\ WriterStays'
    BY <1>3 DEF Outbox, WriterStays
  <1>7. Chain'
    <2> SUFFICES ASSUME host # "closed" PROVE Chain'
      BY DEF Chain
    <2>1. PICK a, b, c, d \in Nat :
            /\ applied <= a /\ a <= b /\ b <= c /\ c <= d /\ d <= inputs
            /\ Run(toHost, applied, a)
            /\ Run(ctrl, a, b)
            /\ Run(outbox, b, c)
            /\ Run(commands, c, d)
            /\ loop # "over" => d = inputs
      BY DEF Chain
    <2>2. c = b
      BY <2>1, Empty, NoRunIsEmpty DEF Outbox
    <2>3. Run(commands, b, d)
      BY <2>1, <2>2
    <2>4. m.n = b + 1 /\ b + 1 <= d /\ Run(Tail(commands), b + 1, d)
      BY <1>1, <2>1, <2>2, <2>3, RunLosesItsFirst
    <2>5. Run(<<m>>, b, b + 1)
      BY <1>2, <2>4, OneMessage
    <2>6. b + 1 \in Nat /\ b <= b + 1
      OBVIOUS
    <2>7. Run(outbox', b, b + 1) /\ Run(commands', b + 1, d)
      BY <1>3, <2>4, <2>5
    <2> QED
      BY <1>3, <2>1, <2>4, <2>6, <2>7 DEF Chain
  <1> QED
    BY <1>5, <1>6, <1>7

LEMMA TakeCommandInv ==
  ASSUME SessionInv, TakeCommand
  PROVE  SessionInv'
  <1> USE DEF SessionInv
  <1>1. /\ loop = "select" /\ outbox = <<>> /\ incoming = <<>>
        /\ UNCHANGED <<config, toHost, toClient, hostVars, inputs>>
    BY DEF TakeCommand, Outbox
  <1>2. CASE commands = <<>>
    BY <1>1, <1>2, LeaveInv DEF TakeCommand
  <1>3. CASE commands # <<>>
    <2> DEFINE m == Head(commands)
    <2>1. OnCommand(m)
      BY <1>3 DEF TakeCommand
    <2>2. commands \in Seq(Commands) /\ commands \in Seq(SessionMessages)
      BY CommandsAreMessages DEF SessionTypes
    <2>3. m \in Commands /\ Tail(commands) \in Seq(Commands)
      BY <1>3, <2>2
    <2>4. m.type \in {"send", "disconnect", "input"}
      BY <2>3 DEF Commands, Inputs
    <2>5. CASE m.type = "input"
      BY <1>1, <1>3, <2>1, <2>5, InputTaken
    <2>6. CASE m.type = "disconnect"
      BY <1>1, <2>1, <2>6, LeaveInv DEF OnCommand
    <2>7. CASE m.type = "send"
      <3>1. /\ Iterate(live) \/ SendAll("offer", <<Msg("offer")>>, live')
            /\ commands' = Tail(commands)
            /\ UNCHANGED incoming
        BY <2>1, <2>7 DEF OnCommand
      <3>2. \A x, y \in Nat : Run(commands, x, y) => Run(commands', x, y)
        BY <1>3, <2>2, <2>7, <3>1, RunLosesNone
      <3>3. commands' \in Seq(Commands) /\ incoming' \in Seq(FromHost)
        BY <2>3, <3>1 DEF SessionTypes
      <3>4. InputsOf(outbox) = {}
        BY <1>1, Empty
      <3>5. <<Msg("offer")>> \in Seq(SessionMessages) /\ InputsOf(<<Msg("offer")>>) = {}
        BY FileMessage, OneMessage DEF Files
      <3>6. CASE Iterate(live)
        BY <1>1, <3>1, <3>2, <3>3, <3>4, <3>6, IterateInv
      <3>7. CASE SendAll("offer", <<Msg("offer")>>, live')
        <4>1. PICK l : l = live'
          OBVIOUS
        <4>2. SendAll("offer", <<Msg("offer")>>, l)
          BY <3>1, <3>7, <4>1
        <4> QED
          BY <1>1, <4>2, <3>2, <3>3, <3>4, <3>5, SendAllInv
      <3> QED
        BY <3>1, <3>6, <3>7
    <2> QED
      BY <2>4, <2>5, <2>6, <2>7
  <1> QED
    BY <1>2, <1>3

LEMMA SendInv ==
  ASSUME SessionInv, Send
  PROVE  SessionInv'
  <1> USE DEF SessionInv, hostVars
  <1>1. loop = "sending" /\ outbox # <<>> /\ UNCHANGED <<toHost, toClient, hostVars, inputs>>
    BY DEF Send, Outbox
  <1>2. CASE Len(outbox) = 1 /\ Finished(live)
    BY <1>1, <1>2, LeaveInv DEF Send
  <1>3. CASE ~ (Len(outbox) = 1 /\ Finished(live))
    <2> DEFINE m == Head(outbox)
    <2>1. /\ ctrl' = Append(ctrl, m)
          /\ outbox' = Tail(outbox)
          /\ loop' = IF Len(outbox) = 1 THEN "select" ELSE "sending"
          /\ UNCHANGED <<duty, commands, open, writer, reader, incoming>>
      BY <1>3 DEF Send
    <2>2. outbox \in Seq(SessionMessages) /\ ctrl \in Seq(SessionMessages)
      BY DEF SessionTypes
    <2>3. m \in SessionMessages /\ Tail(outbox) \in Seq(SessionMessages) /\ Append(ctrl, m) \in Seq(SessionMessages)
      BY <1>1, <2>2
    <2>4. Tail(outbox) = <<>> <=> Len(outbox) = 1
      <3>1. Len(Tail(outbox)) = Len(outbox) - 1 /\ Len(outbox) \in Nat
        BY <1>1, <2>2
      <3>2. Tail(outbox) = <<>> <=> Len(Tail(outbox)) = 0
        BY <2>3, EmptyOrLonger
      <3> QED
        BY <3>1, <3>2
    <2>5. SessionTypes'
      BY <1>1, <2>1, <2>3 DEF SessionTypes
    <2>6. InputsOf(outbox) = {} => InputsOf(Tail(outbox)) = {}
      BY <1>1, <2>2, InputsOfTail
    <2>7. Outbox' /\ WriterStays'
      BY <1>1, <2>1, <2>4, <2>6 DEF Outbox, WriterStays
    <2>8. Chain'
      <3> SUFFICES ASSUME host # "closed" PROVE Chain'
        BY <1>1 DEF Chain
      <3>1. PICK a, b, c, d \in Nat :
              /\ applied <= a /\ a <= b /\ b <= c /\ c <= d /\ d <= inputs
              /\ Run(toHost, applied, a)
              /\ Run(ctrl, a, b)
              /\ Run(outbox, b, c)
              /\ Run(commands, c, d)
              /\ loop # "over" => d = inputs
        BY DEF Chain
      <3>2. CASE m.type = "input"
        <4>1. m.n = b + 1 /\ b + 1 <= c /\ Run(Tail(outbox), b + 1, c)
          BY <1>1, <2>2, <3>1, <3>2, RunLosesItsFirst
        <4>2. Run(Append(ctrl, m), a, b + 1)
          BY <2>2, <2>3, <3>1, <3>2, <4>1, RunGoesOn
        <4>3. b + 1 \in Nat /\ a <= b + 1
          BY <3>1
        <4>4. Run(ctrl', a, b + 1) /\ Run(outbox', b + 1, c)
          BY <2>1, <4>1, <4>2
        <4> QED
          BY <1>1, <2>1, <3>1, <4>1, <4>3, <4>4 DEF Chain
      <3>3. CASE m.type # "input"
        <4>1. Run(Tail(outbox), b, c) /\ Run(Append(ctrl, m), a, b)
          BY <1>1, <2>2, <2>3, <3>1, <3>3, RunLosesNone, RunIsLeft
        <4>2. Run(ctrl', a, b) /\ Run(outbox', b, c)
          BY <2>1, <4>1
        <4> QED
          BY <1>1, <2>1, <3>1, <4>2 DEF Chain
      <3> QED
        BY <3>2, <3>3
    <2> QED
      BY <2>5, <2>7, <2>8
  <1> QED
    BY <1>2, <1>3

LEMMA SendFailsInv ==
  ASSUME SessionInv, SendFails
  PROVE  SessionInv'
  <1> USE DEF SessionInv
  <1>1. loop = "sending" /\ UNCHANGED <<toHost, toClient, hostVars, inputs>>
    BY DEF SendFails
  <1>2. CASE duty = "offer"
    <2>1. Iterate(live) /\ UNCHANGED <<commands, incoming>>
      BY <1>2 DEF SendFails
    <2>2. InputsOf(outbox) = {}
      BY <1>2 DEF Outbox
    <2>3. commands' \in Seq(Commands) /\ incoming' \in Seq(FromHost)
      BY <2>1 DEF SessionTypes
    <2>4. \A x, y \in Nat : Run(commands, x, y) => Run(commands', x, y)
      BY <2>1
    <2> QED
      BY <1>1, <2>1, <2>2, <2>3, <2>4, IterateInv
  <1>3. CASE duty # "offer"
    BY <1>1, <1>3, LeaveInv DEF SendFails
  <1> QED
    BY <1>2, <1>3

-----------------------------------------------------------------------------
(* The other tasks, the user and the host *)

\* Nothing that matters to the order of inputs changes.
LEMMA Elsewhere ==
  ASSUME SessionInv,
         UNCHANGED <<loop, duty, outbox, commands, ctrl, writer, toHost, applied, inputs>>,
         host' = host \/ host' = "closed" \/ (host # "closed" /\ host' # "closed"),
         toClient' \in Seq(FromHost), incoming' \in Seq(FromHost), owed' \in Seq(FromHost)
  PROVE  SessionInv'
  <1> USE DEF SessionInv
  <1>1. SessionTypes'
    BY DEF SessionTypes
  <1>2. Outbox'
    BY DEF Outbox
  <1>3. WriterStays'
    BY DEF WriterStays
  <1>4. Chain'
    <2> SUFFICES ASSUME host # "closed" PROVE Chain'
      BY DEF Chain
    <2> QED
      BY DEF Chain
  <1> QED
    BY <1>1, <1>2, <1>3, <1>4

LEMMA ReadInv ==
  ASSUME SessionInv, Read
  PROVE  SessionInv'
  <1> USE DEF SessionInv, loopVars, hostVars
  <1>1. /\ UNCHANGED <<loop, duty, outbox, commands, ctrl, writer, toHost, applied, inputs>>
        /\ host' = host /\ owed' = owed
    BY DEF Read
  <1>2. toClient \in Seq(FromHost) /\ incoming \in Seq(FromHost) /\ owed \in Seq(FromHost)
    BY DEF SessionTypes
  <1>3. CASE toClient # <<>> /\ incoming' = <<Head(toClient)>> /\ toClient' = Tail(toClient)
    <2>1. Head(toClient) \in FromHost /\ Tail(toClient) \in Seq(FromHost)
      BY <1>2, <1>3
    <2>2. <<Head(toClient)>> \in Seq(FromHost)
      BY <2>1
    <2> QED
      BY <1>1, <1>2, <1>3, <2>1, <2>2, Elsewhere
  <1>4. CASE incoming' = <<Msg("end")>> /\ toClient' = toClient
    <2>1. Msg("end") \in FromHost
      BY DEF Msg, FromHost
    <2>2. <<Msg("end")>> \in Seq(FromHost)
      BY <2>1
    <2> QED
      BY <1>1, <1>2, <1>4, <2>2, Elsewhere
  <1> QED
    BY <1>3, <1>4 DEF Read

LEMMA WriteInv ==
  ASSUME SessionInv, Write
  PROVE  SessionInv'
  <1> USE DEF SessionInv, loopVars, hostVars
  <1>1. /\ ctrl # <<>> /\ ctrl' = Tail(ctrl)
        /\ UNCHANGED <<loop, duty, outbox, commands, writer, host, owed, applied,
                       inputs, incoming, toClient>>
    BY DEF Write
  <1>2. ctrl \in Seq(SessionMessages) /\ toHost \in Seq(SessionMessages)
    BY DEF SessionTypes
  <1>3. Head(ctrl) \in SessionMessages /\ Tail(ctrl) \in Seq(SessionMessages)
    BY <1>1, <1>2
  <1>4. toHost' \in Seq(SessionMessages)
    BY <1>2, <1>3 DEF Write
  <1>5. SessionTypes'
    BY <1>1, <1>3, <1>4 DEF SessionTypes
  <1>6. Outbox' /\ WriterStays'
    BY <1>1 DEF Outbox, WriterStays
  <1>7. Chain'
    <2> SUFFICES ASSUME host # "closed" PROVE Chain'
      BY <1>1 DEF Chain
    <2>1. PICK a, b, c, d \in Nat :
            /\ applied <= a /\ a <= b /\ b <= c /\ c <= d /\ d <= inputs
            /\ Run(toHost, applied, a)
            /\ Run(ctrl, a, b)
            /\ Run(outbox, b, c)
            /\ Run(commands, c, d)
            /\ loop # "over" => d = inputs
      BY DEF Chain
    <2>2. toHost' = Append(toHost, Head(ctrl)) /\ applied \in Nat
      BY DEF Write, SessionTypes
    <2>3. CASE Head(ctrl).type = "input"
      <3>1. Head(ctrl).n = a + 1 /\ a + 1 <= b /\ Run(Tail(ctrl), a + 1, b)
        BY <1>1, <1>2, <2>1, <2>3, RunLosesItsFirst
      <3>2. Run(Append(toHost, Head(ctrl)), applied, a + 1)
        BY <1>2, <1>3, <2>1, <2>2, <2>3, <3>1, RunGoesOn
      <3>3. a + 1 \in Nat /\ applied <= a + 1
        BY <2>1, <2>2
      <3>4. Run(toHost', applied, a + 1) /\ Run(ctrl', a + 1, b)
        BY <1>1, <2>2, <3>1, <3>2
      <3> QED
        BY <1>1, <2>1, <3>1, <3>3, <3>4 DEF Chain
    <2>4. CASE Head(ctrl).type # "input"
      <3>1. Run(Tail(ctrl), a, b) /\ Run(Append(toHost, Head(ctrl)), applied, a)
        BY <1>1, <1>2, <1>3, <2>1, <2>4, RunLosesNone, RunIsLeft
      <3>2. Run(toHost', applied, a) /\ Run(ctrl', a, b)
        BY <1>1, <2>2, <3>1
      <3> QED
        BY <1>1, <2>1, <3>2 DEF Chain
    <2> QED
      BY <2>3, <2>4
  <1> QED
    BY <1>5, <1>6, <1>7

\* With the connection closed nothing is promised of what is left.
LEMMA WriterGivesUp ==
  ASSUME SessionInv, WriteFails \/ WriterEnds
  PROVE  SessionInv'
  <1> USE DEF SessionInv, loopVars, hostVars
  <1>1. /\ UNCHANGED <<loop, duty, outbox, commands, host, owed, applied, inputs,
                       incoming, toClient, toHost>>
        /\ ctrl' = <<>> \/ (ctrl # <<>> /\ ctrl' = Tail(ctrl))
    BY DEF WriteFails, WriterEnds
  <1>2. ctrl' \in Seq(SessionMessages)
    <2>1. <<>> \in Seq(SessionMessages)
      OBVIOUS
    <2>2. CASE ctrl # <<>> /\ ctrl' = Tail(ctrl)
      BY <2>2 DEF SessionTypes
    <2> QED
      BY <1>1, <2>1, <2>2
  <1>3. SessionTypes'
    BY <1>1, <1>2 DEF SessionTypes
  <1>4. Outbox'
    BY <1>1 DEF Outbox
  <1>5. host = "closed"
    BY DEF WriterStays, WriteFails, WriterEnds
  <1>6. WriterStays'
    BY <1>1, <1>5 DEF WriterStays
  <1>7. Chain'
    BY <1>1, <1>5 DEF Chain
  <1> QED
    BY <1>3, <1>4, <1>6, <1>7

LEMMA UserInputInv ==
  ASSUME SessionInv, UserInput
  PROVE  SessionInv'
  <1> USE DEF SessionInv, loopVars, hostVars
  <1> DEFINE m == Input(inputs + 1)
  <1>1. /\ commands' = Append(commands, m) /\ inputs' = inputs + 1 /\ loop # "over"
        /\ UNCHANGED <<loop, duty, outbox, ctrl, writer, host, owed, applied,
                       incoming, toClient, toHost>>
    BY DEF UserInput, Command
  <1>2. inputs \in Nat /\ commands \in Seq(Commands) /\ commands \in Seq(SessionMessages)
    BY CommandsAreMessages DEF SessionTypes
  <1>3. m \in Commands /\ m \in SessionMessages /\ m.type = "input" /\ m.n = inputs + 1
    BY <1>2 DEF Input, Inputs, Commands, SessionMessages
  <1>4. Append(commands, m) \in Seq(Commands)
    BY <1>2, <1>3
  <1>5. SessionTypes'
    BY <1>1, <1>2, <1>4 DEF SessionTypes
  <1>6. Outbox' /\ WriterStays'
    BY <1>1 DEF Outbox, WriterStays
  <1>7. Chain'
    <2> SUFFICES ASSUME host # "closed" PROVE Chain'
      BY <1>1 DEF Chain
    <2>1. PICK a, b, c, d \in Nat :
            /\ applied <= a /\ a <= b /\ b <= c /\ c <= d /\ d <= inputs
            /\ Run(toHost, applied, a)
            /\ Run(ctrl, a, b)
            /\ Run(outbox, b, c)
            /\ Run(commands, c, d)
            /\ loop # "over" => d = inputs
      BY DEF Chain
    <2>2. d = inputs /\ m.n = d + 1
      BY <1>1, <1>3, <2>1
    <2> HIDE DEF m
    <2>3. Run(Append(commands, m), c, d + 1)
      BY <1>2, <1>3, <2>1, <2>2, RunGoesOn
    <2>4. Run(commands', c, d + 1) /\ d + 1 \in Nat /\ c <= d + 1 /\ d + 1 = inputs'
      BY <1>1, <2>1, <2>2, <2>3
    <2> QED
      BY <1>1, <2>1, <2>4 DEF Chain
  <1> QED
    BY <1>5, <1>6, <1>7

\* A command that is not an input.
LEMMA OtherCommand ==
  ASSUME SessionInv, UserSends \/ UserLeaves
  PROVE  SessionInv'
  <1> USE DEF SessionInv, loopVars, hostVars
  <1>1. PICK m \in {Msg("send"), Msg("disconnect")} : Command(m) /\ inputs' = inputs
    BY DEF UserSends, UserLeaves
  <1>2. /\ commands' = Append(commands, m)
        /\ UNCHANGED <<loop, duty, outbox, ctrl, writer, host, owed, applied, inputs,
                       incoming, toClient, toHost>>
    BY <1>1 DEF Command
  <1>3. commands \in Seq(Commands) /\ commands \in Seq(SessionMessages)
    BY CommandsAreMessages DEF SessionTypes
  <1>4. m \in Commands /\ m \in SessionMessages /\ m.type # "input"
    BY DEF Msg, Commands, SessionMessages
  <1>5. Append(commands, m) \in Seq(Commands)
    BY <1>3, <1>4
  <1>6. SessionTypes'
    BY <1>2, <1>5 DEF SessionTypes
  <1>7. Outbox' /\ WriterStays'
    BY <1>2 DEF Outbox, WriterStays
  <1>8. \A x, y \in Nat : Run(commands, x, y) => Run(commands', x, y)
    BY <1>2, <1>3, <1>4, RunIsLeft
  <1>9. Chain'
    BY <1>2, <1>8 DEF Chain
  <1> QED
    BY <1>6, <1>7, <1>9

LEMMA HostReadsInv ==
  ASSUME SessionInv, HostReads
  PROVE  SessionInv'
  <1> USE DEF SessionInv, loopVars
  <1> DEFINE m == Head(toHost)
  <1>1. /\ host # "closed" /\ toHost # <<>> /\ toHost' = Tail(toHost)
        /\ applied' = IF m.type = "input" THEN m.n ELSE applied
        /\ UNCHANGED <<loop, duty, outbox, commands, ctrl, writer, host, inputs,
                       incoming, toClient>>
    BY DEF HostReads
  <1>2. toHost \in Seq(SessionMessages) /\ applied \in Nat
    BY DEF SessionTypes
  <1>3. m \in SessionMessages /\ Tail(toHost) \in Seq(SessionMessages)
    BY <1>1, <1>2
  <1>4. m.type = "input" => m.n \in Nat
    BY <1>3 DEF SessionMessages, Inputs, Files
  <1>5. owed' \in Seq(FromHost)
    <2>1. \A t \in Files : Msg(t) \in FromHost
      BY FileMessage
    <2>2. owed \in Seq(FromHost)
      BY DEF SessionTypes
    <2>3. Answer(m) = <<>> \/ \E t \in Files : Answer(m) = <<Msg(t)>>
      BY DEF Answer, Files
    <2>4. owed' = owed \o Answer(m) \/ owed' = owed \/ owed' = Append(owed, Msg("cancel"))
      BY DEF HostReads
    <2>5. Answer(m) \in Seq(FromHost)
      <3>1. <<>> \in Seq(FromHost)
        OBVIOUS
      <3>2. CASE \E t \in Files : Answer(m) = <<Msg(t)>>
        <4>1. PICK t \in Files : Answer(m) = <<Msg(t)>>
          BY <3>2
        <4>2. Msg(t) \in FromHost
          BY <2>1
        <4>3. <<Msg(t)>> \in Seq(FromHost)
          BY <4>2
        <4> QED
          BY <4>1, <4>3
      <3> QED
        BY <2>3, <3>1, <3>2
    <2>6. Msg("cancel") \in FromHost
      BY <2>1 DEF Files
    <2> HIDE DEF m
    <2>7. owed \o Answer(m) \in Seq(FromHost) /\ Append(owed, Msg("cancel")) \in Seq(FromHost)
      BY <2>2, <2>5, <2>6
    <2> QED
      BY <2>2, <2>4, <2>7, Zenon
  <1>6. SessionTypes'
    BY <1>1, <1>2, <1>3, <1>4, <1>5 DEF SessionTypes
  <1>7. Outbox' /\ WriterStays'
    BY <1>1 DEF Outbox, WriterStays
  <1>8. Chain'
    <2>1. PICK a, b, c, d \in Nat :
            /\ applied <= a /\ a <= b /\ b <= c /\ c <= d /\ d <= inputs
            /\ Run(toHost, applied, a)
            /\ Run(ctrl, a, b)
            /\ Run(outbox, b, c)
            /\ Run(commands, c, d)
            /\ loop # "over" => d = inputs
      BY <1>1 DEF Chain
    <2>2. CASE m.type = "input"
      <3>1. m.n = applied + 1 /\ applied + 1 <= a /\ Run(Tail(toHost), applied + 1, a)
        BY <1>1, <1>2, <2>1, <2>2, RunLosesItsFirst
      <3>2. applied' = applied + 1
        BY <1>1, <2>2, <3>1
      <3>3. Run(toHost', applied', a) /\ applied' <= a
        BY <1>1, <3>1, <3>2
      <3> QED
        BY <1>1, <2>1, <3>3 DEF Chain
    <2>3. CASE m.type # "input"
      <3>1. Run(Tail(toHost), applied, a)
        BY <1>1, <1>2, <2>1, <2>3, RunLosesNone
      <3>2. Run(toHost', applied', a) /\ applied' = applied
        BY <1>1, <2>3, <3>1
      <3> QED
        BY <1>1, <2>1, <3>2 DEF Chain
    <2> QED
      BY <2>2, <2>3
  <1> QED
    BY <1>6, <1>7, <1>8

LEMMA HostWritesInv ==
  ASSUME SessionInv, NEW video \in BOOLEAN, HostWrites(video)
  PROVE  SessionInv'
  <1> USE DEF SessionInv, loopVars
  <1>1. /\ UNCHANGED <<loop, duty, outbox, commands, ctrl, writer, toHost, applied, inputs>>
        /\ host' = host /\ incoming' = incoming
    BY DEF HostWrites
  <1>2. toClient \in Seq(FromHost) /\ incoming \in Seq(FromHost) /\ owed \in Seq(FromHost)
    BY DEF SessionTypes
  <1>3. Msg("video") \in FromHost
    BY DEF Msg, FromHost
  <1>4. toClient' \in Seq(FromHost) /\ owed' \in Seq(FromHost)
    <2>1. CASE video
      <3>1. toClient' = Append(toClient, Msg("video")) /\ owed' = owed
        BY <2>1 DEF HostWrites
      <3>2. Append(toClient, Msg("video")) \in Seq(FromHost)
        BY <1>2, <1>3
      <3> QED
        BY <3>1, <3>2, <1>2
    <2>2. CASE ~ video
      <3>1. owed # <<>> /\ toClient' = Append(toClient, Head(owed)) /\ owed' = Tail(owed)
        BY <2>2 DEF HostWrites
      <3>2. Head(owed) \in FromHost /\ Tail(owed) \in Seq(FromHost)
        BY <3>1, <1>2
      <3>3. Append(toClient, Head(owed)) \in Seq(FromHost)
        BY <3>2, <1>2
      <3> QED
        BY <3>1, <3>2, <3>3, Zenon
    <2> QED
      BY <2>1, <2>2
  <1> QED
    BY <1>1, <1>2, <1>4, Elsewhere

LEMMA HostOffersInv ==
  ASSUME SessionInv, HostOffers
  PROVE  SessionInv'
  <1> USE DEF SessionInv, loopVars
  <1>1. /\ UNCHANGED <<loop, duty, outbox, commands, ctrl, writer, toHost, applied, inputs>>
        /\ host' = host /\ incoming' = incoming /\ toClient' = toClient
        /\ owed' = Append(owed, Msg("offer"))
    BY DEF HostOffers
  <1>2. toClient \in Seq(FromHost) /\ incoming \in Seq(FromHost) /\ owed \in Seq(FromHost)
    BY DEF SessionTypes
  <1>3. Msg("offer") \in FromHost
    BY DEF Msg, FromHost, Files
  <1>4. owed' \in Seq(FromHost)
    BY <1>1, <1>2, <1>3
  <1> QED
    BY <1>1, <1>2, <1>4, Elsewhere

LEMMA HostStopsInv ==
  ASSUME SessionInv, HostStops
  PROVE  SessionInv'
  <1> USE DEF SessionInv, loopVars
  <1>1. /\ UNCHANGED <<loop, duty, outbox, commands, ctrl, writer, toHost, applied, inputs>>
        /\ UNCHANGED <<incoming, toClient, owed>>
        /\ host # "closed" /\ host' \in {"stalled", "closed"}
    BY DEF HostStops
  <1>2. toClient \in Seq(FromHost) /\ incoming \in Seq(FromHost) /\ owed \in Seq(FromHost)
    BY DEF SessionTypes
  <1> QED
    BY <1>1, <1>2, Elsewhere

-----------------------------------------------------------------------------
(* The theorem *)

LEMMA SessionStepInv == SessionInv /\ [Next]_vars => SessionInv'
  <1> SUFFICES ASSUME SessionInv, [Next]_vars PROVE SessionInv'
    OBVIOUS
  <1>1. CASE Loop
    BY <1>1, TakeIncomingInv, TakeCommandInv, SendInv, SendFailsInv DEF Loop
  <1>2. CASE Read
    BY <1>2, ReadInv
  <1>3. CASE Writer
    BY <1>3, WriteInv, WriterGivesUp DEF Writer
  <1>4. CASE UserInput
    BY <1>4, UserInputInv
  <1>5. CASE UserSends \/ UserLeaves
    BY <1>5, OtherCommand
  <1>6. CASE HostReads
    BY <1>6, HostReadsInv
  <1>7. CASE HostOffers
    BY <1>7, HostOffersInv
  <1>8. CASE HostStops
    BY <1>8, HostStopsInv
  <1>9. CASE \E video \in BOOLEAN : HostWrites(video)
    BY <1>9, HostWritesInv
  <1>10. CASE UNCHANGED vars
    BY <1>10, Elsewhere DEF vars, loopVars, hostVars, SessionInv, SessionTypes
  <1> QED
    BY <1>1, <1>2, <1>3, <1>4, <1>5, <1>6, <1>7, <1>8, <1>9, <1>10 DEF Next

LEMMA InvIsOrder == SessionInv => InputsInOrder
  <1> SUFFICES ASSUME SessionInv, host # "closed" PROVE InputsInOrder
    BY DEF InputsInOrder
  <1> USE DEF SessionInv
  <1> DEFINE way == toHost \o ctrl \o outbox \o commands
  <1>1. /\ toHost \in Seq(SessionMessages) /\ ctrl \in Seq(SessionMessages) /\ outbox \in Seq(SessionMessages)
        /\ commands \in Seq(SessionMessages) /\ applied \in Nat /\ inputs \in Nat
    BY CommandsAreMessages DEF SessionTypes
  <1>2. PICK a, b, c, d \in Nat :
          /\ applied <= a /\ a <= b /\ b <= c /\ c <= d /\ d <= inputs
          /\ Run(toHost, applied, a)
          /\ Run(ctrl, a, b)
          /\ Run(outbox, b, c)
          /\ Run(commands, c, d)
          /\ loop # "over" => d = inputs
    BY DEF Chain
  <1>c. \A p, q \in Seq(SessionMessages) : p \o q \in Seq(SessionMessages)
    OBVIOUS
  <1>3. PICK s \in Seq(SessionMessages) : s = toHost \o ctrl
    BY <1>1, <1>c, Zenon
  <1>4. Run(s, applied, b) /\ applied <= b
    BY <1>1, <1>2, <1>3, RunsMeet
  <1>5. PICK t \in Seq(SessionMessages) : t = s \o outbox
    BY <1>1, <1>3, <1>c, Zenon
  <1>6. Run(t, applied, c) /\ applied <= c
    BY <1>1, <1>2, <1>4, <1>5, RunsMeet
  <1>7. Run(t \o commands, applied, d) /\ applied <= d
    BY <1>1, <1>2, <1>6, RunsMeet
  <1>8. way = t \o commands
    BY <1>3, <1>5
  <1>9. Run(way, applied, d)
    BY <1>7, <1>8
  <1>10. d \in applied..inputs
    BY <1>1, <1>2, <1>7
  <1> HIDE DEF way
  <1>11. /\ \A i, j \in InputsOf(way) : i < j => way[i].n < way[j].n
         /\ {way[i].n : i \in InputsOf(way)} = (applied + 1)..d
    BY <1>9 DEF Run
  <1>12. InputsOf(way) = {i \in DOMAIN way : way[i].type = "input"}
    BY DEF InputsOf
  <1> QED
    BY <1>2, <1>10, <1>11, <1>12 DEF InputsInOrder, way

\* However the loop, its two tasks, the window and the host take their turns,
\* what the user does reaches the host in the order it was done, nothing lost,
\* doubled or overtaken, as long as the connection lasts; what the end of the
\* session cuts off is a tail.  For every capacity of the control channel and of
\* the connection, and any number of inputs and files.
THEOREM InputsStayInOrder == Spec => []InputsInOrder
  <1>1. Spec => []SessionInv
    BY SessionInitInv, SessionStepInv, PTL DEF Spec
  <1> QED
    BY <1>1, InvIsOrder, PTL

=============================================================================
