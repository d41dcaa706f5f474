--------------------------- MODULE ExplorerProofs ---------------------------
(***************************************************************************)
(* Theorems about Explorer, for every database, catalogue, set of URLs,    *)
(* presets, limits and bounds.                                             *)
(***************************************************************************)
EXTENDS Explorer, FiniteSetTheorems, SequenceTheorems, WellFoundedInduction, TLAPS

-----------------------------------------------------------------------------
(* Least elements, and what stands on them.                                *)

\* A set of numbers that has an element has a least one.
LEMMA LeastNumber ==
  ASSUME NEW T \in SUBSET Nat, T # {}
  PROVE  \E x \in T : \A y \in T : x <= y
<1> DEFINE R == OpToRel(<, Nat)
<1>1. IsWellFoundedOn(R, Nat)
  BY NatLessThanWellFounded
<1> HIDE DEF R
<1>2. PICK x \in T : \A y \in T : ~ (<<y, x>> \in R)
  BY <1>1, WFMin
<1>3. \A y \in T : ~ (y < x)
  BY <1>2 DEF R, OpToRel
<1> QED
  BY <1>3

HasBounds(S) == /\ \E x \in S : \A y \in S : x <= y
                /\ \E x \in S : \A y \in S : y <= x

\* A finite set of times has an earliest and a latest, if any.
LEMMA FiniteHasBounds ==
  ASSUME NEW S \in SUBSET Int, IsFiniteSet(S), S # {}
  PROVE  HasBounds(S)
<1> DEFINE Bad(n) == \E U \in SUBSET Int : /\ IsFiniteSet(U) /\ U # {}
                                            /\ Cardinality(U) = n /\ ~HasBounds(U)
           T == {n \in Nat : Bad(n)}
<1>1. SUFFICES ASSUME T # {} PROVE FALSE
  BY FS_CardinalityType
<1>2. PICK n \in T : \A k \in T : n <= k
  <2> HIDE DEF T
  <2>1. T \in SUBSET Nat
    BY DEF T
  <2> QED
    BY <1>1, <2>1, LeastNumber
<1>3. PICK U \in SUBSET Int : IsFiniteSet(U) /\ U # {} /\ Cardinality(U) = n /\ ~HasBounds(U)
  BY <1>2
<1>4. PICK x \in U : TRUE
  BY <1>3
<1> DEFINE V == U \ {x}
<1>5. IsFiniteSet(V) /\ Cardinality(V) = n - 1 /\ V \in SUBSET Int /\ n \in Nat /\ x \in Int
  BY <1>2, <1>3, <1>4, FS_RemoveElement
<1>6. CASE V = {}
  <2>1. U = {x}
    BY <1>4, <1>6
  <2> QED
    BY <1>3, <1>5, <2>1 DEF HasBounds
<1>7. CASE V # {}
  <2>1. Cardinality(V) \in Nat
    BY <1>5, FS_CardinalityType
  <2>2. HasBounds(V)
    BY <1>2, <1>5, <1>7, <2>1
  <2>3. PICK lo \in V : \A y \in V : lo <= y
    BY <2>2 DEF HasBounds
  <2>4. PICK hi \in V : \A y \in V : y <= hi
    BY <2>2 DEF HasBounds
  <2>5. \A y \in U : y = x \/ y \in V
    OBVIOUS
  <2>6. \E l \in U : \A y \in U : l <= y
    <3>1. CASE lo <= x
      BY <1>5, <2>3, <2>5, <3>1
    <3>2. CASE x < lo
      BY <1>4, <1>5, <2>3, <2>5, <3>2
    <3> QED
      BY <1>5, <2>3, <3>1, <3>2
  <2>7. \E l \in U : \A y \in U : y <= l
    <3>1. CASE x <= hi
      BY <1>5, <2>4, <2>5, <3>1
    <3>2. CASE hi < x
      BY <1>4, <1>5, <2>4, <2>5, <3>2
    <3> QED
      BY <1>5, <2>4, <3>1, <3>2
  <2> QED
    BY <1>3, <2>6, <2>7 DEF HasBounds
<1> QED
  BY <1>6, <1>7

\* Least and Greatest are what their names say, for a finite set that has an element.
LEMMA LeastOf ==
  ASSUME NEW S \in SUBSET Int, IsFiniteSet(S), S # {}
  PROVE  Least(S) \in S /\ \A y \in S : Least(S) <= y
BY FiniteHasBounds DEF HasBounds, Least
LEMMA GreatestOf ==
  ASSUME NEW S \in SUBSET Int, IsFiniteSet(S), S # {}
  PROVE  Greatest(S) \in S /\ \A y \in S : y <= Greatest(S)
BY FiniteHasBounds DEF HasBounds, Greatest

-----------------------------------------------------------------------------
(* ORDER BY: what Ranked makes of a finite set and a strict total order on it. *)

StrictOrder(S, R) ==
  /\ \A x \in S : <<x, x>> \notin R
  /\ \A x, y, z \in S : <<x, y>> \in R /\ <<y, z>> \in R => <<x, z>> \in R
  /\ \A x, y \in S : x # y => <<x, y>> \in R \/ <<y, x>> \in R
Ahead(S, R, x) == {y \in S : <<y, x>> \in R}

\* One that is further back has more ahead of it.
LEMMA AheadGrows ==
  ASSUME NEW S, IsFiniteSet(S), NEW R, StrictOrder(S, R),
         NEW x \in S, NEW y \in S, <<x, y>> \in R
  PROVE  /\ Cardinality(Ahead(S, R, x)) \in Nat /\ Cardinality(Ahead(S, R, y)) \in Nat
         /\ Cardinality(Ahead(S, R, x)) < Cardinality(Ahead(S, R, y))
<1> DEFINE A == Ahead(S, R, x)
           B == Ahead(S, R, y)
<1>1. A \in SUBSET S /\ B \in SUBSET S
  BY DEF Ahead
<1>2. IsFiniteSet(A) /\ IsFiniteSet(B)
  BY <1>1, FS_Subset
<1>3. x \notin A /\ A \cup {x} \in SUBSET B
  BY DEF Ahead, StrictOrder
<1>4. Cardinality(A \cup {x}) = Cardinality(A) + 1
  BY <1>2, <1>3, FS_AddElement
<1>5. Cardinality(A \cup {x}) <= Cardinality(B)
  BY <1>2, <1>3, FS_Subset
<1>6. Cardinality(A) \in Nat /\ Cardinality(B) \in Nat
  BY <1>2, FS_CardinalityType
<1> QED
  BY <1>4, <1>5, <1>6

\* Every place is some element's, so CHOOSE finds it.
LEMMA PlaceTaken ==
  ASSUME NEW S, IsFiniteSet(S), NEW R, StrictOrder(S, R)
  PROVE  /\ Cardinality(S) \in Nat
         /\ \A x \in S : Cardinality(Ahead(S, R, x)) \in 0..Cardinality(S) - 1
         /\ \A i \in 1..Cardinality(S) : \E x \in S : Cardinality(Ahead(S, R, x)) = i - 1
<1> DEFINE n == Cardinality(S)
           place == [x \in S |-> Cardinality(Ahead(S, R, x))]
           T == 0..n - 1
<1>1. n \in Nat
  BY FS_CardinalityType
<1>2. \A x \in S : Cardinality(Ahead(S, R, x)) \in T
  <2> TAKE x \in S
  <2>1. Ahead(S, R, x) \in SUBSET S /\ Ahead(S, R, x) # S
    BY DEF Ahead, StrictOrder
  <2>2. Cardinality(Ahead(S, R, x)) <= n /\ Cardinality(Ahead(S, R, x)) # n
    BY <2>1, FS_Subset
  <2>3. Cardinality(Ahead(S, R, x)) \in Nat
    BY <2>1, FS_Subset, FS_CardinalityType
  <2> QED
    BY <1>1, <2>2, <2>3
<1>3. place \in Injection(S, T)
  <2>1. place \in [S -> T]
    BY <1>2
  <2>2. ASSUME NEW x \in S, NEW y \in S, x # y PROVE place[x] # place[y]
    <3>1. <<x, y>> \in R \/ <<y, x>> \in R
      BY <2>2 DEF StrictOrder
    <3> QED
      BY <3>1, AheadGrows
  <2> QED
    BY <2>1, <2>2 DEF Injection, IsInjective
<1>4. IsFiniteSet(T) /\ Cardinality(T) = n
  BY <1>1, FS_Interval
<1>5. place \in Surjection(S, T)
  BY <1>3, <1>4, FS_Injection
<1>6. \A i \in 1..n : \E x \in S : place[x] = i - 1
  <2> TAKE i \in 1..n
  <2>1. i - 1 \in T
    BY <1>1
  <2> HIDE DEF T, place
  <2> QED
    BY <1>5, <2>1 DEF Surjection
<1> QED
  BY <1>1, <1>2, <1>6

\* A list in an order: what Ranked gives, by whatever way it was written.
Lists(r, S, R) ==
  /\ r = [i \in 1..Cardinality(S) |-> r[i]]
  /\ \A i \in 1..Cardinality(S) : r[i] \in S /\ Cardinality(Ahead(S, R, r[i])) = i - 1

\* A list with each element at its place is sorted, and misses none.
LEMMA ListIsSorted ==
  ASSUME NEW S, IsFiniteSet(S), NEW R, StrictOrder(S, R), NEW r, Lists(r, S, R)
  PROVE  /\ r \in Seq(S) /\ Len(r) = Cardinality(S)
         /\ \A i, j \in 1..Len(r) : i < j => <<r[i], r[j]>> \in R
         /\ \A x \in S : \E i \in 1..Len(r) : r[i] = x
<1> DEFINE n == Cardinality(S)
<1>1. n \in Nat
  BY FS_CardinalityType
<1>2. r \in [1..n -> S]
  BY DEF Lists
<1>3. r \in Seq(S) /\ Len(r) = n
  BY <1>1, <1>2
<1>4. ASSUME NEW i \in 1..n, NEW j \in 1..n, i < j PROVE <<r[i], r[j]>> \in R
  <2>1. r[i] \in S /\ r[j] \in S
    BY DEF Lists
  <2>2. Cardinality(Ahead(S, R, r[i])) = i - 1 /\ Cardinality(Ahead(S, R, r[j])) = j - 1
    BY DEF Lists
  <2>3. r[i] # r[j] 
    BY <1>1, <1>4, <2>2
  <2>4. <<r[i], r[j]>> \in R \/ <<r[j], r[i]>> \in R
    BY <2>1, <2>3 DEF StrictOrder
  <2>5. ~(<<r[j], r[i]>> \in R)
    BY <1>1, <1>4, <2>1, <2>2, AheadGrows
  <2> QED
    BY <2>4, <2>5
<1>5. ASSUME NEW x \in S PROVE \E i \in 1..n : r[i] = x
  <2> DEFINE i == Cardinality(Ahead(S, R, x)) + 1
  <2>1. i \in 1..n
    BY <1>1, PlaceTaken
  <2>2. r[i] \in S /\ Cardinality(Ahead(S, R, r[i])) = Cardinality(Ahead(S, R, x))
    BY <1>1, <2>1, PlaceTaken DEF Lists
  <2>3. r[i] = x
    <3>1. SUFFICES ASSUME r[i] # x PROVE FALSE
      OBVIOUS
    <3>2. <<r[i], x>> \in R \/ <<x, r[i]>> \in R
      BY <2>2, <3>1 DEF StrictOrder
    <3> QED
      BY <2>2, <3>2, AheadGrows
  <2> QED
    BY <2>1, <2>3
<1> QED
  BY <1>3, <1>4, <1>5

-----------------------------------------------------------------------------
(* The links over a plot.                                                  *)

\* The pieces z of [a, b) are in order, apart, and leave nothing of it out.
Cover(z, n, a, b) ==
  /\ \A i \in 1..n : /\ z[i][1] \in Int /\ z[i][2] \in Int
                     /\ a <= z[i][1] /\ z[i][1] < z[i][2] /\ z[i][2] <= b
  /\ \A i, j \in 1..n : i < j => z[i][2] <= z[j][1]
  /\ \A t \in Int : a <= t /\ t < b => \E i \in 1..n : z[i][1] <= t /\ t < z[i][2]
Tiles(z, a, b) == z \in Seq(Int \X Int) /\ Cover(z, Len(z), a, b)

\* A first element put before a sequence.
LEMMA ConsOf ==
  ASSUME NEW S, NEW x \in S, NEW z \in Seq(S)
  PROVE  /\ <<x>> \o z \in Seq(S) /\ Len(<<x>> \o z) = Len(z) + 1 /\ Len(z) \in Nat
         /\ (<<x>> \o z)[1] = x
         /\ \A i \in 1..Len(z) : (<<x>> \o z)[i + 1] = z[i]
<1> DEFINE u == <<x>>
<1>1. u \in Seq(S) /\ Len(u) = 1 /\ u[1] = x
  OBVIOUS
<1> HIDE DEF u
<1>2. /\ u \o z \in Seq(S) /\ Len(u \o z) = 1 + Len(z)
      /\ \A i \in 1..1 + Len(z) : (u \o z)[i] = IF i <= 1 THEN u[i] ELSE z[i - 1]
  <2>1. /\ u \o z \in Seq(S) /\ Len(u \o z) = Len(u) + Len(z)
        /\ \A i \in 1..Len(u) + Len(z) : (u \o z)[i] = IF i <= Len(u) THEN u[i] ELSE z[i - Len(u)]
    BY <1>1, ConcatProperties
  <2> QED
    BY <1>1, <2>1
<1>3. Len(z) \in Nat
  OBVIOUS
<1> DEFINE w == u \o z
           n == Len(z)
<1> HIDE DEF w, n
<1>4. /\ n \in Nat
      /\ \A i \in 1..1 + n : w[i] = IF i <= 1 THEN u[i] ELSE z[i - 1]
  BY <1>2, <1>3 DEF w, n
<1>5. w[1] = x
  BY <1>1, <1>4
<1>6. \A i \in 1..n : w[i + 1] = z[i]
  <2> TAKE i \in 1..n
  <2>1. i + 1 \in 1..1 + n /\ ~(i + 1 <= 1) /\ i + 1 - 1 = i
    BY <1>4
  <2>2. w[i + 1] = z[i + 1 - 1]
    BY <1>4, <2>1
  <2> QED
    BY <2>1, <2>2
<1>7. Len(w) = n + 1 /\ w \in Seq(S)
  BY <1>2, <1>3 DEF w, n
<1> QED
  BY <1>3, <1>5, <1>6, <1>7 DEF w, n, u

\* One more piece in front.
LEMMA CoverInFront ==
  ASSUME NEW s \in Int, NEW e \in Int, NEW b \in Int, s < e, e <= b,
         NEW n \in Nat, NEW z, Cover(z, n, e, b),
         NEW w, w[1] = <<s, e>>, \A i \in 1..n : w[i + 1] = z[i]
  PROVE  Cover(w, n + 1, s, b)
<1>1. \A i \in 1..n + 1 : i = 1 \/ (i - 1 \in 1..n /\ w[i] = z[i - 1])
  <2> TAKE i \in 1..n + 1
  <2>1. CASE i = 1
    BY <2>1
  <2>2. CASE i # 1
    <3>1. i - 1 \in 1..n /\ (i - 1) + 1 = i
      BY <2>2
    <3> QED
      BY <3>1
  <2> QED
    BY <2>1, <2>2
<1>2. w[1][1] = s /\ w[1][2] = e
  OBVIOUS
<1>3. \A i \in 1..n : /\ z[i][1] \in Int /\ z[i][2] \in Int
                      /\ e <= z[i][1] /\ z[i][1] < z[i][2] /\ z[i][2] <= b
  BY DEF Cover
<1>4. \A i \in 1..n + 1 : /\ w[i][1] \in Int /\ w[i][2] \in Int
                          /\ s <= w[i][1] /\ w[i][1] < w[i][2] /\ w[i][2] <= b
  BY <1>1, <1>2, <1>3
<1>5. ASSUME NEW i \in 1..n + 1, NEW j \in 1..n + 1, i < j PROVE w[i][2] <= w[j][1]
  <2>1. j - 1 \in 1..n /\ w[j] = z[j - 1]
    BY <1>1, <1>5
  <2>2. CASE i = 1
    BY <1>2, <1>3, <2>1, <2>2
  <2>3. CASE i # 1
    <3>1. i - 1 \in 1..n /\ w[i] = z[i - 1] /\ i - 1 < j - 1
      BY <1>1, <1>5, <2>3
    <3> QED
      BY <2>1, <3>1 DEF Cover
  <2> QED
    BY <2>2, <2>3
<1>6. ASSUME NEW t \in Int, s <= t, t < b
      PROVE  \E i \in 1..n + 1 : w[i][1] <= t /\ t < w[i][2]
  <2>1. CASE t < e
    <3>1. 1 \in 1..n + 1
      OBVIOUS
    <3> QED
      BY <1>2, <1>6, <2>1, <3>1
  <2>2. CASE e <= t
    <3>1. PICK i \in 1..n : z[i][1] <= t /\ t < z[i][2]
      BY <1>6, <2>2 DEF Cover
    <3>2. i + 1 \in 1..n + 1 /\ w[i + 1] = z[i]
      BY <3>1
    <3> QED
      BY <3>1, <3>2
  <2> QED
    BY <1>6, <2>1, <2>2
<1> QED
  BY <1>4, <1>5, <1>6 DEF Cover

\* One more tile in front.
LEMMA TilesInFront ==
  ASSUME NEW s \in Int, NEW e \in Int, NEW b \in Int, s < e, e <= b,
         NEW z, Tiles(z, e, b)
  PROVE  Tiles(<<<<s, e>>>> \o z, s, b)
<1> DEFINE w == <<<<s, e>>>> \o z
<1>1. /\ w \in Seq(Int \X Int) /\ Len(w) = Len(z) + 1 /\ Len(z) \in Nat
      /\ w[1] = <<s, e>> /\ \A i \in 1..Len(z) : w[i + 1] = z[i]
  <2>1. <<s, e>> \in Int \X Int /\ z \in Seq(Int \X Int)
    BY DEF Tiles
  <2> QED
    BY <2>1, ConsOf
<1> HIDE DEF w
<1>2. Cover(z, Len(z), e, b)
  BY DEF Tiles
<1>3. Cover(w, Len(z) + 1, s, b)
  BY <1>1, <1>2, CoverInFront
<1>4. Tiles(w, s, b)
  BY <1>1, <1>3 DEF Tiles
<1> QED
  BY <1>4 DEF w

LEMMA NothingToTile == \A a, b \in Int : a >= b => Tiles(<<>>, a, b)
BY DEF Tiles, Cover

\* A loop that goes from each place to a later one comes to an end.
LEMMA LoopDefined ==
  ASSUME NEW from \in Int, NEW to \in Int, from <= to, NEW End \in [from..to -> from..to],
         \A s \in from..to : s < to => s < End[s]
  PROVE  \E g : g = [s \in from..to |-> IF s >= to THEN <<>> ELSE <<<<s, End[s]>>>> \o g[End[s]]]
<1> DEFINE F(g, s) == IF s >= to THEN <<>> ELSE <<<<s, End[s]>>>> \o g[End[s]]
           Defined(k) == \E g : g = [s \in to - k..to |-> F(g, s)]
           Bad == {k \in 0..to - from : ~Defined(k)}
<1>1. Bad = {}
  <2>1. SUFFICES ASSUME Bad # {} PROVE FALSE
    OBVIOUS
  <2>2. PICK k \in Bad : \A l \in Bad : k <= l
    <3>1. Bad \in SUBSET Nat
      OBVIOUS
    <3> HIDE DEF Bad
    <3> QED
      BY <2>1, <3>1, LeastNumber
  <2>3. k \in 0..to - from /\ ~Defined(k)
    BY <2>2
  <2>4. CASE k = 0
    <3> DEFINE g == [s \in to..to |-> <<>>]
    <3>1. \A s \in to..to : F(g, s) = <<>>
      OBVIOUS
    <3>2. g = [s \in to - k..to |-> F(g, s)]
      BY <2>4, <3>1
    <3> QED
      BY <2>3, <3>2
  <2>5. CASE k # 0
    <3>1. k - 1 \in 0..to - from /\ Defined(k - 1)
      <4>1. k - 1 \in 0..to - from
        BY <2>3, <2>5
      <4>2. k - 1 \notin Bad
        <5> HIDE DEF Bad
        <5> QED
          BY <2>2, <2>3, <4>1
      <4> HIDE DEF Defined
      <4> QED
        BY <4>1, <4>2
    <3>2. PICK g : g = [s \in to - (k - 1)..to |-> F(g, s)]
      BY <3>1
    <3> DEFINE first == to - k
               h == [s \in first..to |-> IF s = first THEN F(g, s) ELSE g[s]]
    <3>3. first \in from..to /\ first < to /\ to - (k - 1) = first + 1 /\ first \in Int
      BY <2>3, <2>5
    <3> HIDE DEF first
    <3>4. \A s \in first..to : s \in from..to /\ (s < to => End[s] \in first + 1..to)
      BY <3>3
    <3>5. \A s \in first + 1..to : h[s] = g[s] /\ g[s] = F(g, s)
      <4>1. \A s \in first + 1..to : s \in first..to /\ s # first
        BY <3>3
      <4> HIDE DEF F
      <4> QED
        BY <3>2, <3>3, <4>1
    <3>6. \A s \in first..to : F(h, s) = F(g, s)
      <4> TAKE s \in first..to
      <4>1. CASE s >= to
        BY <4>1
      <4>2. CASE s < to
        <5>1. h[End[s]] = g[End[s]]
          BY <3>4, <3>5, <4>2
        <5> HIDE DEF h
        <5> QED
          BY <5>1
      <4> QED
        BY <3>3, <4>1, <4>2
    <3>7. \A s \in first..to : h[s] = F(h, s)
      <4> HIDE DEF F
      <4>1. \A s \in first..to : s = first \/ s \in first + 1..to
        BY <3>3
      <4>2. first \in first..to /\ h[first] = F(g, first)
        BY <3>3
      <4> HIDE DEF h
      <4> QED
        BY <3>5, <3>6, <4>1, <4>2
    <3>8. h = [s \in first..to |-> F(h, s)]
      <4> HIDE DEF F
      <4>1. h = [s \in first..to |-> h[s]]
        OBVIOUS
      <4> HIDE DEF h
      <4> QED
        BY <3>7, <4>1
    <3>9. Defined(k)
      BY <3>8 DEF first
    <3> QED
      BY <2>3, <3>9
  <2> QED
    BY <2>4, <2>5
<1>2. Defined(to - from)
  <2>1. to - from \in 0..to - from
    OBVIOUS
  <2> HIDE DEF Defined
  <2> QED
    BY <1>1, <2>1
<1>3. to - (to - from) = from
  OBVIOUS
<1> QED
  BY <1>2, <1>3

\* What it made are tiles of what was left.
LEMMA LoopTiles ==
  ASSUME NEW from \in Int, NEW to \in Int, from <= to, NEW End \in [from..to -> from..to],
         \A s \in from..to : s < to => s < End[s],
         NEW Loop, Loop = [s \in from..to |->
                             IF s >= to THEN <<>> ELSE <<<<s, End[s]>>>> \o Loop[End[s]]]
  PROVE  \A s \in from..to : Tiles(Loop[s], s, to)
<1> DEFINE Bad == {k \in 0..to - from : ~Tiles(Loop[to - k], to - k, to)}
<1>1. Bad = {}
  <2>1. SUFFICES ASSUME Bad # {} PROVE FALSE
    OBVIOUS
  <2>2. PICK k \in Bad : \A l \in Bad : k <= l
    <3>1. Bad \in SUBSET Nat
      OBVIOUS
    <3> HIDE DEF Bad
    <3> QED
      BY <2>1, <3>1, LeastNumber
  <2> DEFINE s == to - k
  <2>3. s \in from..to /\ ~Tiles(Loop[s], s, to) /\ k = to - s /\ s \in Int
    BY <2>2
  <2> HIDE DEF s
  <2>4. s < to
    <3>1. SUFFICES ASSUME s >= to PROVE FALSE
      BY <2>3
    <3>2. Loop[s] = <<>>
      BY <2>3, <3>1
    <3> QED
      BY <2>3, <3>1, <3>2, NothingToTile
  <2>5. End[s] \in from..to /\ s < End[s] /\ End[s] <= to
    BY <2>3, <2>4
  <2>6. Tiles(Loop[End[s]], End[s], to)
    <3>1. to - End[s] \in 0..to - from /\ to - (to - End[s]) = End[s] /\ to - End[s] < k
      <4> DEFINE e == End[s]
      <4>1. e \in from..to /\ s < e /\ k = to - s /\ s \in Int
        BY <2>3, <2>5
      <4> HIDE DEF e, Bad
      <4>2. to - e \in 0..to - from /\ to - (to - e) = e /\ to - e < k
        BY <4>1
      <4> QED
        BY <4>2 DEF e
    <3>2. to - End[s] \notin Bad
      <4> HIDE DEF Bad
      <4> QED
        BY <2>2, <2>3, <3>1
    <3> QED
      BY <3>1, <3>2
  <2>7. Loop[s] = <<<<s, End[s]>>>> \o Loop[End[s]]
    <3> DEFINE F(x) == IF x >= to THEN <<>> ELSE <<<<x, End[x]>>>> \o Loop[End[x]]
    <3>1. F(s) = <<<<s, End[s]>>>> \o Loop[End[s]]
      <4>1. ~(s >= to)
        BY <2>3, <2>4
      <4> QED
        BY <4>1, Zenon
    <3>2. Loop = [x \in from..to |-> F(x)]
      OBVIOUS
    <3> HIDE DEF F
    <3>3. Loop[s] = F(s)
      BY <2>3, <3>2
    <3> QED
      BY <3>1, <3>3
  <2>8. Tiles(<<<<s, End[s]>>>> \o Loop[End[s]], s, to)
    BY <2>3, <2>5, <2>6, TilesInFront
  <2> QED
    BY <2>3, <2>7, <2>8
<1> TAKE s \in from..to
<1>2. to - s \in 0..to - from /\ to - (to - s) = s
  OBVIOUS
<1> QED
  BY <1>1, <1>2

-----------------------------------------------------------------------------
NumberOrder == OpToRel(<, Int)
LEMMA NumbersAreOrdered ==
  ASSUME NEW S \in SUBSET Int
  PROVE  StrictOrder(S, NumberOrder) /\ \A x \in S : Ahead(S, NumberOrder, x) = {y \in S : y < x}
<1>1. \A x, y \in S : x \in Int /\ y \in Int /\ (<<x, y>> \in NumberOrder <=> x < y)
  BY DEF NumberOrder, OpToRel
<1>2. StrictOrder(S, NumberOrder)
  BY <1>1 DEF StrictOrder
<1>3. \A x \in S : Ahead(S, NumberOrder, x) = {y \in S : y < x}
  BY <1>1 DEF Ahead
<1> QED
  BY <1>2, <1>3

\* ORDER BY over numbers, as a special case of ListIsSorted.
LEMMA NumbersRanked ==
  ASSUME NEW S \in SUBSET Int, IsFiniteSet(S)
  PROVE  Lists(Ranked(S, <), S, NumberOrder)
<1> DEFINE n == Cardinality(S)
           P(i, x) == Cardinality({y \in S : y < x}) = i - 1
<1>1. StrictOrder(S, NumberOrder) /\ \A x \in S : Ahead(S, NumberOrder, x) = {y \in S : y < x}
  BY NumbersAreOrdered
<1>2. \A i \in 1..n : \E x \in S : Cardinality(Ahead(S, NumberOrder, x)) = i - 1
  BY <1>1, PlaceTaken
<1>3. \A i \in 1..n : \E x \in S : P(i, x)
  BY <1>1, <1>2
<1> DEFINE r == [i \in 1..n |-> CHOOSE x \in S : P(i, x)]
<1>4. \A i \in 1..n : r[i] \in S /\ P(i, r[i])
  <2> HIDE DEF P, n
  <2> TAKE i \in 1..n
  <2>1. PICK x \in S : P(i, x)
    BY <1>3
  <2> QED
    BY <2>1
<1>5. r = Ranked(S, <)
  BY DEF Ranked
<1>6. r = [i \in 1..n |-> r[i]]
  <2> HIDE DEF P
  <2> QED
    OBVIOUS
<1> HIDE DEF r
<1>7. Lists(r, S, NumberOrder)
  BY <1>1, <1>4, <1>6 DEF Lists
<1> QED
  BY <1>5, <1>7

\* The zones of hit_layer, however many buckets go into one and whatever is merged at the end.
LEMMA HitLayerTiles ==
  ASSUME NEW from \in Int, NEW to \in Int, from < to, NEW bucket \in Int,
         NEW geo, PlotWidth(geo) \in Nat \ {0}
  PROVE  Tiles(hit_layer(from, to, bucket, geo), from, to)
<1> DEFINE span == Greater(to - from, 1)
           per == IF PlotWidth(geo) * bucket >= MIN_HIT_WIDTH * span THEN 1
                  ELSE UpTo(100 * MIN_HIT_WIDTH * span, Greater(100 * PlotWidth(geo) * bucket, span))
           zone == Greater(bucket * per, 1)
           Thin(rest) == rest > 0 /\ PlotWidth(geo) * rest < MIN_HIT_WIDTH * span
           plain(s) == Lesser(s + zone, to)
           Stop(s) == IF Thin(to - plain(s)) THEN to ELSE plain(s)
           Piece(g, s) == IF s >= to THEN <<>> ELSE <<<<s, Stop(s)>>>> \o g[Stop(s)]
           Loop == CHOOSE g : g = [s \in from..to |-> Piece(g, s)]
<1>1. hit_layer(from, to, bucket, geo) = Loop[from]
  BY DEF hit_layer
<1>2. zone \in Int /\ 1 <= zone
  <2>1. span \in Int /\ span >= 1
    BY DEF Greater
  <2>2. PlotWidth(geo) * bucket \in Int
    OBVIOUS
  <2>3. per \in Int
    <3> DEFINE a == 100 * MIN_HIT_WIDTH * span
               b == Greater(100 * PlotWidth(geo) * bucket, span)
    <3>1. a \in Int
      BY <2>1 DEF MIN_HIT_WIDTH
    <3>2. 100 * PlotWidth(geo) * bucket \in Int
      OBVIOUS
    <3> HIDE DEF span
    <3>3. b \in Int /\ b > 0
      BY <2>1, <3>2 DEF Greater
    <3> HIDE DEF a, b
    <3>4. UpTo(a, b) \in Int
      BY <3>1, <3>3 DEF UpTo
    <3> QED
      BY <3>4 DEF a, b
  <2> HIDE DEF per
  <2> QED
    BY <2>3 DEF Greater
<1> HIDE DEF span, per, zone
<1>3. \A s \in from..to : Stop(s) \in from..to /\ (s < to => s < Stop(s))
  BY <1>2 DEF Lesser
<1> HIDE DEF Stop
<1> DEFINE End == [s \in from..to |-> Stop(s)]
<1>4. End \in [from..to -> from..to] /\ \A s \in from..to : s < to => s < End[s]
  BY <1>3
<1> DEFINE Looped(g) == g = [s \in from..to |-> IF s >= to THEN <<>> ELSE <<<<s, End[s]>>>> \o g[End[s]]]
<1>5. \E g : Looped(g)
  <2>1. from <= to
    OBVIOUS
  <2> HIDE DEF End
  <2> QED
    BY <1>4, <2>1, LoopDefined, Zenon
<1>6. \A g : Looped(g) <=> g = [s \in from..to |-> Piece(g, s)]
  <2> TAKE g
  <2>1. \A s \in from..to : End[s] = Stop(s)
    OBVIOUS
  <2> HIDE DEF End
  <2>2. \A s \in from..to : Piece(g, s) = IF s >= to THEN <<>> ELSE <<<<s, End[s]>>>> \o g[End[s]]
    BY <2>1
  <2> HIDE DEF Piece
  <2> QED
    BY <2>2
<1>7. \E g : g = [s \in from..to |-> Piece(g, s)]
  <2> HIDE DEF Piece, Looped
  <2> QED
    BY <1>5, <1>6
<1>8. Looped(Loop)
  <2>1. Loop = [s \in from..to |-> Piece(Loop, s)]
    <3> HIDE DEF Piece
    <3> QED
      BY <1>7
  <2> HIDE DEF Loop, Looped, Piece
  <2> QED
    BY <1>6, <2>1
<1>9. Tiles(Loop[from], from, to)
  <2>1. from \in from..to /\ from <= to
    OBVIOUS
  <2> HIDE DEF Loop, End
  <2>2. \A s \in from..to : Tiles(Loop[s], s, to)
    BY <1>4, <1>8, <2>1, LoopTiles
  <2> QED
    BY <2>1, <2>2
<1> QED
  BY <1>1, <1>9

-----------------------------------------------------------------------------
IsList(s) == \E n \in Nat : s = [i \in 1..n |-> s[i]]

\* A list has a length, and is a sequence of what is in it.
LEMMA ListOf ==
  ASSUME NEW s, IsList(s)
  PROVE  /\ s \in Seq({s[i] : i \in DOMAIN s}) /\ Len(s) \in Nat /\ DOMAIN s = 1..Len(s)
         /\ IsFiniteSet(DOMAIN s) /\ DOMAIN s \in SUBSET Int
<1>1. PICK n \in Nat : s = [i \in 1..n |-> s[i]]
  BY DEF IsList
<1>2. DOMAIN s = 1..n
  BY <1>1
<1>3. s \in [1..n -> {s[i] : i \in DOMAIN s}]
  BY <1>1, <1>2
<1>4. s \in Seq({s[i] : i \in DOMAIN s}) /\ Len(s) = n
  BY <1>3
<1> QED
  BY <1>2, <1>4, FS_Interval

\* Two lists, one after the other, are a list of the elements of both.
LEMMA ConcatIsList ==
  ASSUME NEW s, IsList(s), NEW u, IsList(u)
  PROVE  /\ IsList(s \o u)
         /\ \A i \in DOMAIN (s \o u) : \/ \E j \in DOMAIN s : (s \o u)[i] = s[j]
                                       \/ \E j \in DOMAIN u : (s \o u)[i] = u[j]
<1> DEFINE A == {s[i] : i \in DOMAIN s}
           B == {u[i] : i \in DOMAIN u}
           C == A \cup B
<1>1. s \in Seq(A) /\ u \in Seq(B)
  BY ListOf
<1>2. s \in Seq(C) /\ u \in Seq(C)
  <2>1. A \subseteq C /\ B \subseteq C
    OBVIOUS
  <2> HIDE DEF A, B, C
  <2> QED
    BY <1>1, <2>1, SeqMonotonic
<1> HIDE DEF A, B
<1>3. s \o u \in Seq(C)
  <2> HIDE DEF C
  <2> QED
    BY <1>2, ConcatProperties
<1> DEFINE v == s \o u
<1> HIDE DEF v, C
<1>4. v \in [1..Len(v) -> C] /\ Len(v) \in Nat
  BY <1>3, LenProperties DEF v
<1>5. IsList(v)
  BY <1>4 DEF IsList
<1>6. \A i \in DOMAIN v : v[i] \in C
  BY <1>4
<1> QED
  BY <1>5, <1>6 DEF A, B, C, v

\* A function takes a finite set to a finite set.
LEMMA ImageFinite ==
  ASSUME NEW S, IsFiniteSet(S), NEW f
  PROVE  IsFiniteSet({f[x] : x \in S})
<1> DEFINE T == {f[x] : x \in S}
           g == [x \in S |-> f[x]]
<1>1. g \in Surjection(S, T)
  BY DEF Surjection
<1> QED
  BY <1>1, FS_Surjection

\* An ordered list of a finite set, in whatever order.
LEMMA RankingIsList ==
  ASSUME NEW S, IsFiniteSet(S), NEW r, r = [i \in 1..Cardinality(S) |-> r[i]]
  PROVE  IsList(r)
BY FS_CardinalityType DEF IsList

\* A finite set of numbers in order.
LEMMA NumbersInOrder ==
  ASSUME NEW S \in SUBSET Int, IsFiniteSet(S)
  PROVE  LET r == Ranked(S, <) IN
         /\ IsList(r) /\ r \in Seq(S) /\ Len(r) = Cardinality(S) /\ DOMAIN r = 1..Len(r)
         /\ \A i, j \in DOMAIN r : i < j => r[i] < r[j]
         /\ \A i \in DOMAIN r : r[i] \in S
         /\ \A x \in S : \E i \in DOMAIN r : r[i] = x
<1> DEFINE r == Ranked(S, <)
<1>1. Lists(r, S, NumberOrder) /\ StrictOrder(S, NumberOrder)
  BY NumbersRanked, NumbersAreOrdered
<1> HIDE DEF r
<1>2. /\ r \in Seq(S) /\ Len(r) = Cardinality(S)
      /\ \A i, j \in 1..Len(r) : i < j => <<r[i], r[j]>> \in NumberOrder
      /\ \A x \in S : \E i \in 1..Len(r) : r[i] = x
  BY <1>1, ListIsSorted
<1>3. IsList(r)
  BY <1>1, FS_CardinalityType DEF Lists, IsList
<1>4. DOMAIN r = 1..Len(r) /\ \A i \in DOMAIN r : r[i] \in S
  BY <1>2
<1>5. \A i, j \in DOMAIN r : i < j => r[i] < r[j]
  BY <1>2, <1>4 DEF NumberOrder, OpToRel
<1> QED
  BY <1>2, <1>3, <1>4, <1>5 DEF r

\* Some of a list, in its order, is a list of what it keeps.
LEMMA KeepIsList ==
  ASSUME NEW s, IsFiniteSet(DOMAIN s), DOMAIN s \in SUBSET Int, NEW S
  PROVE  IsList(Keep(s, S)) /\ \A i \in DOMAIN Keep(s, S) : Keep(s, S)[i] \in S
<1> DEFINE T == {i \in DOMAIN s : s[i] \in S}
           places == Ranked(T, <)
           kept == [n \in DOMAIN places |-> s[places[n]]]
<1>1. T \in SUBSET Int /\ IsFiniteSet(T)
  BY FS_Subset
<1>2. /\ Len(places) = Cardinality(T) /\ DOMAIN places = 1..Len(places)
      /\ \A n \in DOMAIN places : places[n] \in T
  <2> HIDE DEF T
  <2> QED
    BY <1>1, NumbersInOrder
<1>3. Cardinality(T) \in Nat
  BY <1>1, FS_CardinalityType
<1>4. Keep(s, S) = kept
  BY DEF Keep
<1>5. IsList(kept)
  <2> HIDE DEF places, T
  <2> QED
    BY <1>2, <1>3 DEF IsList
<1>6. \A n \in DOMAIN kept : kept[n] \in S
  <2> HIDE DEF places
  <2> QED
    BY <1>2
<1> QED
  BY <1>4, <1>5, <1>6
-----------------------------------------------------------------------------
(* The rows.                                                               *)
Rows == Stored \cup Arriving
IsDatabase(d) == /\ DOMAIN d = {"series", "rows"} /\ d = [x \in DOMAIN d |-> d[x]]
                 /\ d.series = Catalogue /\ d.rows \in SUBSET Rows

\* What the assumptions say of a row.
LEMMA RowsAreRows ==
  /\ IsFiniteSet(Rows)
  /\ \A m \in Rows : m.time \in Int /\ m.id \in Int /\ m.series \in DOMAIN Catalogue
  /\ \A m, n \in Rows : m.time = n.time /\ m.id = n.id => m = n
BY RowsAssumption DEF Rows, IsRow, Instants

\* The times of some rows.
LEMMA TimesFinite ==
  ASSUME NEW S \in SUBSET Rows
  PROVE  /\ IsFiniteSet(Times(S)) /\ Times(S) \in SUBSET Int /\ (Times(S) = {} <=> S = {})
         /\ \A m \in S : m.time \in Times(S)
<1> DEFINE f == [m \in Rows |-> m.time]
<1>1. IsFiniteSet({f[m] : m \in S})
  <2>1. IsFiniteSet(S)
    BY RowsAreRows, FS_Subset
  <2> QED
    BY <2>1, ImageFinite
<1>2. Times(S) = {f[m] : m \in S}
  BY DEF Times
<1>3. \A m \in S : m.time \in Int
  BY RowsAreRows
<1> QED
  BY <1>1, <1>2, <1>3 DEF Times

\* Between: a pair of instants that holds every row's time of a set, or None for none.
Between(b, S) ==
  /\ b = None => S = {}
  /\ b # None => /\ b \in Int \X Int /\ b[1] <= b[2]
                 /\ \A m \in S : b[1] <= m.time /\ m.time <= b[2]

\* min and max over some rows.
LEMMA BoundsOf ==
  ASSUME NEW S \in SUBSET Rows
  PROVE  /\ Between(Bounds(Times(S)), S)
         /\ Bounds(Times(S)) = None <=> S = {}
<1> DEFINE T == Times(S)
<1>1. IsFiniteSet(T) /\ T \in SUBSET Int /\ (T = {} <=> S = {}) /\ \A m \in S : m.time \in T
  BY TimesFinite
<1> HIDE DEF T
<1>2. CASE T = {}
  BY <1>1, <1>2 DEF Between, Bounds, T
<1>3. CASE T # {}
  <2> DEFINE lo == Least(T)
             hi == Greatest(T)
  <2>1. lo \in T /\ hi \in T /\ \A t \in T : lo <= t /\ t <= hi
    BY <1>1, <1>3, LeastOf, GreatestOf
  <2>2. Bounds(T) = <<lo, hi>>
    BY <1>3 DEF Bounds
  <2> HIDE DEF lo, hi
  <2>3. lo \in Int /\ hi \in Int /\ lo <= hi
    BY <1>1, <2>1
  <2>4. <<lo, hi>> \in Int \X Int /\ <<lo, hi>>[1] = lo /\ <<lo, hi>>[2] = hi
    BY <2>3
  <2>5. <<lo, hi>> # None
    BY <2>4, NoneAssumption DEF Cursors, Instants
  <2>6. \A m \in S : lo <= m.time /\ m.time <= hi
    BY <1>1, <2>1
  <2>7. Between(<<lo, hi>>, S)
    BY <2>3, <2>4, <2>5, <2>6 DEF Between
  <2> QED
    BY <1>1, <1>3, <2>2, <2>5, <2>7 DEF T
<1> QED
  BY <1>2, <1>3

\* Either way of asking for the extent of a slice gives bounds around all its rows.
LEMMA ExtentBounds ==
  ASSUME NEW d, IsDatabase(d), NEW q
  PROVE  Between(extent(d, q), Matching(d, q))
<1> DEFINE M == Matching(d, q)
<1>1. M \in SUBSET Rows
  BY DEF Matching, IsDatabase
<1>2. CASE q.body # {} \/ (q.types = {} /\ q.attrs = {})
  BY <1>1, <1>2, BoundsOf DEF extent
<1>3. CASE ~(q.body # {} \/ (q.types = {} /\ q.attrs = {}))
  <2> DEFINE of == [s \in DOMAIN Catalogue |-> Bounds(Times(RowsOf(d, q, s)))]
             bounds == {of[s] : s \in SeriesOf(d, q)} \ {None}
             starts == {b[1] : b \in bounds}
             ends == {b[2] : b \in bounds}
  <2>1. SeriesOf(d, q) \in SUBSET DOMAIN Catalogue /\ IsFiniteSet(SeriesOf(d, q))
    <3>1. SeriesOf(d, q) \in SUBSET DOMAIN Catalogue
      BY DEF SeriesOf, IsDatabase
    <3> QED
      BY <3>1, RowsAssumption, FS_Subset
  <2>2. \A s \in SeriesOf(d, q) : of[s] = Bounds(Times(RowsOf(d, q, s)))
    BY <2>1
  <2>3. extent(d, q) = IF bounds = {} THEN None ELSE <<Least(starts), Greatest(ends)>>
    <3>1. {Bounds(Times(RowsOf(d, q, s))) : s \in SeriesOf(d, q)} = {of[s] : s \in SeriesOf(d, q)}
      BY <2>2
    <3> QED
      BY <1>3, <3>1, Zenon DEF extent
  <2>4. \A s \in SeriesOf(d, q) : Between(of[s], RowsOf(d, q, s))
    <3>1. \A s \in SeriesOf(d, q) : RowsOf(d, q, s) \in SUBSET Rows
      BY DEF RowsOf, IsDatabase
    <3> QED
      BY <2>2, <3>1, BoundsOf
  <2>5. \A m \in M : m.series \in SeriesOf(d, q) /\ m \in RowsOf(d, q, m.series)
    BY RowsAreRows DEF Matching, SeriesOf, RowsOf, IsDatabase
  <2>6. \A b \in bounds : b \in Int \X Int /\ b[1] <= b[2]
    <3> HIDE DEF of
    <3> QED
      BY <2>4 DEF Between
  <2>7. IsFiniteSet(bounds)
    <3>1. IsFiniteSet({of[s] : s \in SeriesOf(d, q)})
      BY <2>1, ImageFinite
    <3> QED
      BY <3>1, FS_Subset
  <2> HIDE DEF of, bounds
  <2>8. IsFiniteSet(starts) /\ IsFiniteSet(ends)
    <3> DEFINE f == [b \in bounds |-> b[1]]
               g == [b \in bounds |-> b[2]]
    <3>1. IsFiniteSet({f[b] : b \in bounds}) /\ IsFiniteSet({g[b] : b \in bounds})
      BY <2>7, ImageFinite
    <3> QED
      BY <3>1
  <2>9. starts \in SUBSET Int /\ ends \in SUBSET Int
    BY <2>6
  <2>10. CASE bounds = {}
    <3>1. \A m \in M : of[m.series] = None
      BY <2>5, <2>10 DEF bounds
    <3>2. M = {}
      BY <2>4, <2>5, <3>1 DEF Between
    <3> QED
      BY <2>3, <2>10, <3>2 DEF Between
  <2>11. CASE bounds # {}
    <3> DEFINE lo == Least(starts)
               hi == Greatest(ends)
    <3>1. PICK b \in bounds : TRUE
      BY <2>11
    <3>2. b[1] \in starts /\ b[2] \in ends /\ b[1] <= b[2]
      BY <2>6, <3>1
    <3>3. lo \in starts /\ \A x \in starts : lo <= x
      BY <2>8, <2>9, <3>2, LeastOf
    <3>4. hi \in ends /\ \A x \in ends : x <= hi
      BY <2>8, <2>9, <3>2, GreatestOf
    <3>5. extent(d, q) = <<lo, hi>>
      BY <2>3, <2>11
    <3> HIDE DEF lo, hi, starts, ends
    <3>6. lo \in Int /\ hi \in Int /\ lo <= hi
      <4>1. b[1] \in Int /\ b[2] \in Int /\ lo \in Int /\ hi \in Int
        BY <2>6, <2>9, <3>3, <3>4 DEF starts, ends
      <4>2. lo <= b[1] /\ b[2] <= hi
        BY <3>2, <3>3, <3>4
      <4> QED
        BY <3>2, <4>1, <4>2
    <3>7. <<lo, hi>> \in Int \X Int /\ <<lo, hi>>[1] = lo /\ <<lo, hi>>[2] = hi
      BY <3>6
    <3>8. \A m \in M : lo <= m.time /\ m.time <= hi
      <4> TAKE m \in M
      <4>1. Between(of[m.series], RowsOf(d, q, m.series)) /\ m \in RowsOf(d, q, m.series)
        BY <2>4, <2>5
      <4>2. of[m.series] \in bounds
        BY <2>5, <4>1 DEF Between, bounds
      <4>3. of[m.series][1] \in starts /\ of[m.series][2] \in ends
        BY <4>2 DEF starts, ends
      <4>4. of[m.series][1] <= m.time /\ m.time <= of[m.series][2] /\ of[m.series] \in Int \X Int
        BY <4>1 DEF Between
      <4>5. m.time \in Int
        BY <1>1, RowsAreRows
      <4>6. lo <= of[m.series][1] /\ of[m.series][2] <= hi
        BY <3>3, <3>4, <4>3
      <4> QED
        BY <3>6, <4>4, <4>5, <4>6
    <3>9. <<lo, hi>> # None
      BY <3>7, NoneAssumption DEF Cursors, Instants
    <3>10. Between(<<lo, hi>>, M)
      BY <3>6, <3>7, <3>8, <3>9 DEF Between
    <3> QED
      BY <3>5, <3>10
  <2> QED
    BY <2>10, <2>11
<1> QED
  BY <1>2, <1>3

-----------------------------------------------------------------------------
(* Pages of rows, newest first.                                            *)
NewerOrder == {p \in Rows \X Rows : Newer(p[1], p[2])}

\* Newest first is a strict total order, as time and id are those of one row.
LEMMA RowsAreOrdered ==
  ASSUME NEW S \in SUBSET Rows
  PROVE  StrictOrder(S, NewerOrder) /\ \A x \in S : Ahead(S, NewerOrder, x) = {y \in S : Newer(y, x)}
<1>1. \A x, y \in S : /\ x \in Rows /\ y \in Rows
                      /\ (<<x, y>> \in NewerOrder <=> Newer(x, y))
  BY DEF NewerOrder
<1>2. \A x \in S : x.time \in Int /\ x.id \in Int
  BY RowsAreRows
<1>3. \A x, y \in S : x # y => x.time # y.time \/ x.id # y.id
  BY RowsAreRows
<1>4. \A x \in S : ~Newer(x, x)
  BY <1>2 DEF Newer
<1>5. \A x, y, z \in S : Newer(x, y) /\ Newer(y, z) => Newer(x, z)
  BY <1>2 DEF Newer
<1>6. \A x, y \in S : x # y => Newer(x, y) \/ Newer(y, x)
  BY <1>2, <1>3 DEF Newer
<1>7. StrictOrder(S, NewerOrder)
  BY <1>1, <1>4, <1>5, <1>6 DEF StrictOrder
<1>8. \A x \in S : Ahead(S, NewerOrder, x) = {y \in S : Newer(y, x)}
  BY <1>1 DEF Ahead
<1> QED
  BY <1>7, <1>8

\* A list of rows of S, newest first, with every row of S that it leaves out behind it.
Top(r, S) ==
  /\ r \in Seq(S)
  /\ \A i, j \in 1..Len(r) : i < j => Newer(r[i], r[j])
  /\ \A m \in S : \/ \E i \in 1..Len(r) : r[i] = m
                  \/ \A i \in 1..Len(r) : Newer(r[i], m)

\* Without a limit, every row of S is listed.
LEMMA RowsRanked ==
  ASSUME NEW S \in SUBSET Rows
  PROVE  LET r == Ranked(S, Newer) IN Top(r, S) /\ \A m \in S : \E i \in 1..Len(r) : r[i] = m
<1> DEFINE n == Cardinality(S)
           P(i, x) == Cardinality({y \in S : Newer(y, x)}) = i - 1
<1>1. IsFiniteSet(S)
  BY RowsAreRows, FS_Subset
<1>2. StrictOrder(S, NewerOrder) /\ \A x \in S : Ahead(S, NewerOrder, x) = {y \in S : Newer(y, x)}
  BY RowsAreOrdered
<1>3. \A i \in 1..n : \E x \in S : Cardinality(Ahead(S, NewerOrder, x)) = i - 1
  BY <1>1, <1>2, PlaceTaken
<1>4. \A i \in 1..n : \E x \in S : P(i, x)
  BY <1>2, <1>3
<1> DEFINE r == [i \in 1..n |-> CHOOSE x \in S : P(i, x)]
<1>5. \A i \in 1..n : r[i] \in S /\ P(i, r[i])
  <2> HIDE DEF P, n
  <2> TAKE i \in 1..n
  <2>1. PICK x \in S : P(i, x)
    BY <1>4
  <2> QED
    BY <2>1
<1>6. r = Ranked(S, Newer)
  BY DEF Ranked
<1>7. r = [i \in 1..n |-> r[i]]
  <2> HIDE DEF P
  <2> QED
    OBVIOUS
<1> HIDE DEF r
<1>8. Lists(r, S, NewerOrder)
  BY <1>2, <1>5, <1>7 DEF Lists
<1>9. /\ r \in Seq(S)
      /\ \A i, j \in 1..Len(r) : i < j => <<r[i], r[j]>> \in NewerOrder
      /\ \A x \in S : \E i \in 1..Len(r) : r[i] = x
  BY <1>1, <1>2, <1>8, ListIsSorted
<1>10. \A i, j \in 1..Len(r) : i < j => Newer(r[i], r[j])
  BY <1>9 DEF NewerOrder
<1>11. Top(r, S)
  BY <1>9, <1>10 DEF Top
<1> QED
  BY <1>6, <1>9, <1>11

\* LIMIT leaves the newest.
LEMMA FirstTop ==
  ASSUME NEW S, NEW s, Top(s, S), NEW k \in Nat
  PROVE  /\ Top(First(s, k), S) /\ Len(s) \in Nat
         /\ Len(First(s, k)) = Lesser(k, Len(s))
         /\ Len(s) <= k => First(s, k) = s
<1> DEFINE n == Lesser(k, Len(s))
           r == SubSeq(s, 1, n)
<1>1. s \in Seq(S) /\ Len(s) \in Nat
  BY DEF Top
<1>2. n \in Nat /\ n <= Len(s) /\ n <= k /\ (Len(s) <= k => n = Len(s))
  BY <1>1 DEF Lesser
<1>3. \A i \in 1..n : s[i] \in S
  <2> HIDE DEF n
  <2> QED
    BY <1>1, <1>2, ElementOfSeq
<1>4. r \in Seq(S) /\ Len(r) = n /\ \A i \in 1..n : r[i] = s[i]
  <2> HIDE DEF n
  <2>1. /\ SubSeq(s, 1, n) \in Seq(S)
        /\ Len(SubSeq(s, 1, n)) = IF 1 <= n THEN n - 1 + 1 ELSE 0
        /\ \A i \in 1..n - 1 + 1 : SubSeq(s, 1, n)[i] = s[1 + i - 1]
    BY <1>2, <1>3, SubSeqProperties
  <2>2. \A i \in 1..n : i \in 1..n - 1 + 1 /\ 1 + i - 1 = i
    BY <1>2
  <2>3. (IF 1 <= n THEN n - 1 + 1 ELSE 0) = n
    BY <1>2
  <2> QED
    BY <2>1, <2>2, <2>3
<1>5. First(s, k) = r
  BY DEF First
<1>6. Len(s) <= k => r = s
  BY <1>1, <1>2, SubSeqFull
<1> HIDE DEF n, r
<1>7. \A i \in 1..n : i \in 1..Len(s)
  BY <1>1, <1>2
<1>8. \A i, j \in 1..Len(r) : i < j => Newer(r[i], r[j])
  BY <1>4, <1>7 DEF Top
<1>9. ASSUME NEW m \in S PROVE \/ \E i \in 1..Len(r) : r[i] = m
                               \/ \A i \in 1..Len(r) : Newer(r[i], m)
  <2>1. CASE \A i \in 1..Len(s) : Newer(s[i], m)
    BY <1>4, <1>7, <2>1
  <2>2. CASE \E i \in 1..Len(s) : s[i] = m
    <3>1. PICK i \in 1..Len(s) : s[i] = m
      BY <2>2
    <3>2. CASE i <= n
      <4>1. i \in 1..Len(r) /\ r[i] = m
        BY <1>2, <1>4, <3>1, <3>2
      <4> QED
        BY <4>1
    <3>3. CASE n < i
      <4>1. \A j \in 1..n : j < i
        BY <1>2, <3>3
      <4> QED
        BY <1>4, <1>7, <3>1, <4>1 DEF Top
    <3> QED
      BY <1>1, <1>2, <3>2, <3>3
  <2> QED
    BY <2>1, <2>2 DEF Top
<1> QED
  BY <1>1, <1>4, <1>5, <1>6, <1>8, <1>9 DEF Top, n

\* What a statement returns: the newest of the rows past the cursor, at most limit of them,
\* and all of them where there are fewer.
Asked(d, q) == {m \in Matching(d, q) : PastCursor(q, m)}
LEMMA QueryTop ==
  ASSUME NEW d, IsDatabase(d), NEW q, q.limit \in Nat, 1 <= q.limit, q.limit <= MAX_LIMIT
  PROVE  /\ Top(query(d, q), Asked(d, q)) /\ Asked(d, q) \in SUBSET Rows
         /\ Len(query(d, q)) \in Nat /\ Len(query(d, q)) <= q.limit
         /\ Len(query(d, q)) < q.limit =>
              \A m \in Asked(d, q) : \E i \in 1..Len(query(d, q)) : query(d, q)[i] = m
<1> DEFINE S == Asked(d, q)
           all == Ranked(S, Newer)
<1>1. S \in SUBSET Rows
  BY DEF Asked, Matching, IsDatabase
<1>2. Lesser(Greater(q.limit, 1), MAX_LIMIT) = q.limit
  BY LimitsAssumption DEF Lesser, Greater
<1>3. query(d, q) = First(all, q.limit)
  BY <1>2 DEF query, Asked
<1>4. Top(all, S) /\ \A m \in S : \E i \in 1..Len(all) : all[i] = m
  BY <1>1, RowsRanked
<1> HIDE DEF S, all
<1>5. /\ Top(First(all, q.limit), S) /\ Len(all) \in Nat
      /\ Len(First(all, q.limit)) = Lesser(q.limit, Len(all))
      /\ Len(all) <= q.limit => First(all, q.limit) = all
  BY <1>4, FirstTop
<1>6. Len(query(d, q)) \in Nat /\ Len(query(d, q)) <= q.limit
  BY <1>3, <1>5 DEF Lesser
<1>7. Len(query(d, q)) < q.limit => query(d, q) = all
  BY <1>3, <1>5 DEF Lesser
<1> QED
  BY <1>1, <1>3, <1>4, <1>5, <1>6, <1>7 DEF S

-----------------------------------------------------------------------------
Bound == Int \cup {None}
\* A view as parse_explore leaves one.
IsView(p) ==
  /\ p.from \in Bound /\ p.to \in Bound /\ p.cursor \in Cursors \cup {None}
  /\ p.range # None
  /\ p.range # "custom" => p.from = None
  /\ p.range = "all" => p.to = None

\* What parse_explore makes of any URL.
LEMMA ParsedIsView ==
  ASSUME NEW u, IsPageUrl(u)
  PROVE  IsView(parse_explore(u))
<1> DEFINE range == IF u.range # None THEN u.range
                    ELSE IF u.from # None THEN "custom" ELSE DEFAULT_RANGE
           changed == u.t0 # None /\ u.t0 # u.kind
           p == parse_explore(u)
<1>1. range # None
  BY NoneAssumption
<1>2. /\ p.range = range
      /\ p.from = IF range = "custom" THEN u.from ELSE None
      /\ p.to = IF range = "all" THEN None ELSE u.to
      /\ p.cursor = IF changed THEN None ELSE u.cursor
  BY DEF parse_explore, FrontPage
<1>3. u.from \in Bound /\ u.to \in Bound /\ u.cursor \in Cursors \cup {None} /\ None \in Bound
  BY DEF IsPageUrl, Bound, Instants
<1> HIDE DEF range, p, changed
<1> QED
  BY <1>1, <1>2, <1>3 DEF IsView, p

\* A link that names its type as the one it comes from keeps what it says.
LEMMA LinkKeepsView ==
  ASSUME NEW u, u.t0 = u.kind
  PROVE  LET q == parse_explore(u) IN
         /\ q.cursor = u.cursor /\ q.kind = u.kind /\ q.attrs = u.attrs /\ q.body = u.body
         /\ u.range # None =>
              /\ q.range = u.range
              /\ q.from = IF u.range = "custom" THEN u.from ELSE None
              /\ q.to = IF u.range = "all" THEN None ELSE u.to
BY DEF parse_explore

-----------------------------------------------------------------------------
\* What is known of a window that was read for the view p at the time t.
WindowRead(p, w, t) ==
  /\ w \in Int \X Int /\ w[1] < w[2]
  /\ p.from = None /\ SpanOf(p) # 0 =>
       w[2] = (IF p.to = None THEN t ELSE p.to) /\ w[1] = w[2] - SpanOf(p)
  /\ p.from # None /\ p.to # None /\ p.from < p.to => w = <<p.from, p.to>>

LEMMA SpanIsNatural == \A p : SpanOf(p) \in Nat
BY RangesAssumption DEF SpanOf

\* Of "all", the window is around the data, or a day where there is none.
LEMMA ExtentIsWindow ==
  ASSUME NEW d, IsDatabase(d), NEW p, NEW t \in Int
  PROVE  Extent(d, p, t) \in Int \X Int /\ Extent(d, p, t)[1] < Extent(d, p, t)[2]
<1> DEFINE q == [filter(p, <<None, None>>, PAGE_LIMIT) EXCEPT !.attrs = {}, !.body = {}]
           found == extent(d, q)
<1>1. Between(found, Matching(d, q))
  BY ExtentBounds
<1>2. Extent(d, p, t) = IF found = None THEN <<t - DAY, t>> ELSE <<found[1], found[2] + 1>>
  BY DEF Extent
<1> HIDE DEF found
<1>3. CASE found = None
  BY <1>2, <1>3, RangesAssumption
<1>4. CASE found # None
  BY <1>1, <1>2, <1>4 DEF Between
<1> QED
  BY <1>3, <1>4

\* Of every view the window is one that is not empty.
LEMMA WindowIsRead ==
  ASSUME NEW d, IsDatabase(d), NEW p, p.from \in Bound, p.to \in Bound, NEW t \in Int
  PROVE  WindowRead(p, Window(d, p, t), t)
<1> DEFINE end == IF p.to = None THEN t ELSE p.to
           asked == IF p.from # None THEN <<p.from, end>>
                    ELSE IF SpanOf(p) = 0 THEN Extent(d, p, t)
                    ELSE <<end - SpanOf(p), end>>
           w == IF asked[2] > asked[1] THEN asked ELSE <<asked[1], asked[1] + SEC>>
<1>1. Window(d, p, t) = w
  BY DEF Window
<1>2. end \in Int /\ SpanOf(p) \in Nat /\ SEC \in Nat \ {0} /\ (p.from # None => p.from \in Int)
  BY SpanIsNatural, RangesAssumption DEF Bound
<1> HIDE DEF end
<1>3. CASE p.from # None
  <2>1. asked = <<p.from, end>> /\ asked[1] = p.from /\ asked[2] = end
    BY <1>3
  <2>2. w \in Int \X Int /\ w[1] < w[2] /\ (p.from < end => w = <<p.from, end>>)
    <3> HIDE DEF asked
    <3> QED
      BY <1>2, <1>3, <2>1
  <2> HIDE DEF w
  <2> QED
    BY <1>1, <1>3, <2>2 DEF WindowRead, end
<1>4. CASE p.from = None /\ SpanOf(p) = 0
  <2>1. asked = Extent(d, p, t)
    BY <1>4
  <2>2. asked \in Int \X Int /\ asked[1] < asked[2]
    BY <2>1, ExtentIsWindow
  <2> HIDE DEF asked
  <2>3. w = asked
    BY <2>2
  <2> HIDE DEF w
  <2> QED
    BY <1>1, <1>4, <2>2, <2>3 DEF WindowRead
<1>5. CASE p.from = None /\ SpanOf(p) # 0
  <2>1. asked = <<end - SpanOf(p), end>> /\ asked[1] = end - SpanOf(p) /\ asked[2] = end
    BY <1>5
  <2> HIDE DEF asked
  <2>2. w = <<end - SpanOf(p), end>>
    BY <1>2, <1>5, <2>1
  <2>3. w \in Int \X Int /\ w[1] = end - SpanOf(p) /\ w[2] = end
    BY <1>2, <2>2
  <2>4. w[1] < w[2]
    BY <1>2, <1>5, <2>3
  <2> HIDE DEF w
  <2> QED
    BY <1>1, <1>2, <1>5, <2>2, <2>3, <2>4 DEF WindowRead, end
<1> QED
  BY <1>3, <1>4, <1>5

\* The window of a fixed pair of bounds is that pair, whatever the rows and the time.
LEMMA FixedWindow ==
  ASSUME NEW d, NEW p, NEW t, p.from \in Int, p.to \in Int, p.from < p.to
  PROVE  Window(d, p, t) = <<p.from, p.to>>
BY NoneAssumption DEF Window, Instants
\* That of a preset ends at `to`, or at the present.
LEMMA PresetWindow ==
  ASSUME NEW d, NEW p, NEW t \in Int, p.from = None, SpanOf(p) # 0, p.to \in Bound
  PROVE  LET end == IF p.to = None THEN t ELSE p.to
         IN Window(d, p, t) = <<end - SpanOf(p), end>>
<1> DEFINE end == IF p.to = None THEN t ELSE p.to
<1>1. end \in Int /\ SpanOf(p) \in Nat
  BY SpanIsNatural DEF Bound
<1>2. Window(d, p, t) = IF <<end - SpanOf(p), end>>[2] > <<end - SpanOf(p), end>>[1]
                        THEN <<end - SpanOf(p), end>>
                        ELSE <<<<end - SpanOf(p), end>>[1], <<end - SpanOf(p), end>>[1] + SEC>>
  BY DEF Window
<1> HIDE DEF end
<1>3. <<end - SpanOf(p), end>>[2] > <<end - SpanOf(p), end>>[1]
  BY <1>1
<1>4. Window(d, p, t) = <<end - SpanOf(p), end>>
  BY <1>2, <1>3
<1> QED
  BY <1>4 DEF end

-----------------------------------------------------------------------------
\* Where a link with both bounds leads.
LEMMA LeadsToFixed ==
  ASSUME NEW p, p.range = "custom", p.from \in Int, p.to \in Int, p.from < p.to
  PROVE  LeadsTo(p) = <<p.from, p.to>>
<1> DEFINE u == current_params(p)
           q == parse_explore(u)
<1>1. u.t0 = u.kind /\ u.range = "custom" /\ u.from = p.from /\ u.to = p.to /\ u.range # None
  BY NoneAssumption DEF current_params
<1> HIDE DEF u
<1>2. q.from = p.from /\ q.to = p.to
  BY <1>1, LinkKeepsView
<1> HIDE DEF q
<1>3. Window(db, q, got.now) = <<p.from, p.to>>
  BY <1>2, FixedWindow
<1> QED
  BY <1>3 DEF LeadsTo, q, u

\* Where a link to a preset leads.
LEMMA LeadsToPreset ==
  ASSUME NEW p, p.range \notin {"custom", None}, p.to \in Bound, SpanOf(p) # 0, got.now \in Int
  PROVE  LET end == IF p.to = None THEN got.now ELSE p.to
         IN LeadsTo(p) = <<end - SpanOf(p), end>>
<1> DEFINE u == current_params(p)
           q == parse_explore(u)
<1>1. u.t0 = u.kind /\ u.range = p.range /\ u.to = p.to
  BY DEF current_params
<1>2. p.range # "all"
  BY RangesAssumption DEF SpanOf
<1> HIDE DEF u
<1>3. q.range = p.range /\ q.from = None /\ q.to = p.to
  BY <1>1, <1>2, LinkKeepsView
<1> HIDE DEF q
<1>4. SpanOf(q) = SpanOf(p)
  BY <1>3 DEF SpanOf
<1>5. LET end == IF q.to = None THEN got.now ELSE q.to
      IN Window(db, q, got.now) = <<end - SpanOf(q), end>>
  BY <1>3, <1>4, PresetWindow
<1> QED
  BY <1>3, <1>4, <1>5 DEF LeadsTo, q, u

\* What StepsTile asks of the links `there` beside a window w.
Tiled(there, w) ==
  /\ there.earlier # NoStep =>
       /\ LeadsTo(there.earlier)[2] = w[1]
       /\ LeadsTo(there.earlier)[2] - LeadsTo(there.earlier)[1] = w[2] - w[1]
  /\ there.later # NoStep =>
       /\ LeadsTo(there.later)[1] <= w[2]
       /\ w[2] < LeadsTo(there.later)[2] \/ LeadsTo(there.later)[2] = got.now
  /\ there.later = NoStep /\ there.earlier # NoStep => w[2] >= got.now
  /\ there.latest # NoStep => LeadsTo(there.latest)[2] = got.now

\* A step is to a view that parse_explore would leave.
LEMMA AtIsView ==
  ASSUME NEW u, NEW from, NEW to
  PROVE  LET p == At(parse_explore(u), from, to) IN
         /\ p.from = from /\ p.to = to /\ p.range = parse_explore(u).range /\ p # NoStep
         /\ SpanOf(p) = SpanOf(parse_explore(u))
<1> DEFINE v == parse_explore(u)
           p == At(v, from, to)
<1>1. DOMAIN v = {"range", "from", "to", "kind", "attrs", "body", "fields", "group", "hidden", "cursor"}
  BY DEF parse_explore
<1> HIDE DEF v
<1>2. p.from = from /\ p.to = to /\ p.range = v.range /\ DOMAIN p = DOMAIN v
  BY <1>1 DEF At
<1> HIDE DEF p
<1>3. p # NoStep
  <2>1. DOMAIN NoStep = {}
    BY DEF NoStep
  <2> QED
    BY <1>1, <1>2, <2>1
<1>4. SpanOf(p) = SpanOf(v)
  BY <1>2 DEF SpanOf
<1> QED
  BY <1>2, <1>3, <1>4 DEF p, v

\* The arithmetic of steps, for every shape of a window.
LEMMA StepsAreTiled ==
  ASSUME IsView(view), NEW w, WindowRead(view, w, got.now), got.now \in Int
  PROVE  Tiled(steps(view, w, got.now), w)
<1> DEFINE p == view
           t == got.now
           width == w[2] - w[1]
           next == w[2] + SpanOf(p)
           there == steps(p, w, t)
<1>1. /\ p.range # None /\ p.from \in Bound /\ p.to \in Bound /\ (p.range # "custom" => p.from = None)
      /\ w[1] \in Int /\ w[2] \in Int /\ w[1] < w[2] /\ t \in Int /\ SpanOf(p) \in Nat
  BY SpanIsNatural DEF IsView, WindowRead
<1>2. \A from, to : LET q == At(p, from, to) IN
        q.from = from /\ q.to = to /\ q.range = p.range /\ q # NoStep /\ SpanOf(q) = SpanOf(p)
  BY AtIsView DEF view
<1>3. CASE p.range = "custom"
  <2> DEFINE earlier == At(p, w[1] - width, w[1])
             later == At(p, w[2], w[2] + width)
  <2>1. /\ there.earlier = earlier
        /\ there.later = IF w[2] < t THEN later ELSE NoStep
        /\ there.latest = NoStep
    BY <1>3 DEF steps
  <2>2. /\ earlier.range = "custom" /\ earlier.from = w[1] - width /\ earlier.to = w[1]
        /\ later.range = "custom" /\ later.from = w[2] /\ later.to = w[2] + width
        /\ earlier # NoStep /\ later # NoStep
    BY <1>2, <1>3
  <2> HIDE DEF earlier, later, p, there
  <2>3. LeadsTo(earlier) = <<w[1] - width, w[1]>> /\ LeadsTo(later) = <<w[2], w[2] + width>>
    BY <1>1, <2>2, LeadsToFixed
  <2>4. /\ LeadsTo(earlier)[2] = w[1] /\ LeadsTo(earlier)[2] - LeadsTo(earlier)[1] = w[2] - w[1]
        /\ LeadsTo(later)[1] <= w[2] /\ w[2] < LeadsTo(later)[2]
    BY <1>1, <2>3
  <2>5. Tiled(there, w)
    BY <1>1, <2>1, <2>2, <2>4 DEF Tiled
  <2> QED
    BY <2>5 DEF there, p
<1>4. CASE p.range # "custom" /\ SpanOf(p) = 0
  <2>1. there.earlier = NoStep /\ there.later = NoStep /\ there.latest = NoStep
    BY <1>4 DEF steps
  <2> HIDE DEF there
  <2>2. Tiled(there, w)
    BY <2>1 DEF Tiled
  <2> QED
    BY <2>2 DEF there
<1>5. CASE p.range # "custom" /\ SpanOf(p) # 0
  <2> DEFINE span == SpanOf(p)
             earlier == At(p, None, w[1])
             moved == At(p, None, next)
             live == At(p, None, None)
  <2>1. /\ there.earlier = earlier
        /\ there.later = IF p.to = None THEN NoStep ELSE IF next < t THEN moved ELSE live
        /\ there.latest = IF p.to # None /\ next < t THEN live ELSE NoStep
    BY <1>5 DEF steps
  <2>2. /\ earlier.to = w[1] /\ moved.to = next /\ live.to = None
        /\ earlier # NoStep /\ moved # NoStep /\ live # NoStep
        /\ \A q \in {earlier, moved, live} : q.range = p.range /\ SpanOf(q) = span
    BY <1>2
  <2>3. w[2] = (IF p.to = None THEN t ELSE p.to) /\ w[1] = w[2] - span
    BY <1>1, <1>5 DEF WindowRead
  <2>4. span \in Nat \ {0} /\ next = w[2] + span /\ next \in Int
    BY <1>1, <1>5
  <2>5. None \notin Int /\ None \in Bound /\ next \in Bound /\ w[1] \in Bound
    BY <1>1, <2>4, NoneAssumption DEF Bound, Instants
  <2> HIDE DEF span, next, earlier, moved, live, there
  <2>6. LeadsTo(earlier) = <<w[1] - span, w[1]>>
    BY <1>1, <1>5, <2>2, <2>4, <2>5, LeadsToPreset
  <2>7. LeadsTo(moved) = <<next - span, next>>
    BY <1>1, <1>5, <2>2, <2>4, <2>5, LeadsToPreset
  <2>8. LeadsTo(live) = <<t - span, t>>
    BY <1>1, <1>5, <2>2, <2>4, <2>5, LeadsToPreset
  <2>9. /\ LeadsTo(earlier)[2] = w[1] /\ LeadsTo(earlier)[2] - LeadsTo(earlier)[1] = w[2] - w[1]
        /\ LeadsTo(moved)[1] <= w[2] /\ w[2] < LeadsTo(moved)[2]
        /\ LeadsTo(live)[2] = t /\ (~(next < t) => LeadsTo(live)[1] <= w[2])
    <3>1. LeadsTo(earlier)[1] = w[1] - span /\ LeadsTo(earlier)[2] = w[1]
      BY <2>6
    <3>2. LeadsTo(moved)[1] = next - span /\ LeadsTo(moved)[2] = next
      BY <2>7
    <3>3. LeadsTo(live)[1] = t - span /\ LeadsTo(live)[2] = t
      BY <2>8
    <3> HIDE DEF p, t
    <3>4. w[1] \in Int /\ w[2] \in Int /\ t \in Int /\ w[1] = w[2] - span
      BY <1>1, <2>3
    <3> QED
      BY <2>4, <3>1, <3>2, <3>3, <3>4
  <2>10. p.to = None => w[2] >= t
    BY <1>1, <2>3
  <2>11. Tiled(there, w)
    BY <2>1, <2>2, <2>9, <2>10 DEF Tiled
  <2> QED
    BY <2>11 DEF there
<1> QED
  BY <1>3, <1>4, <1>5

-----------------------------------------------------------------------------
LEMMA SeqIsList == ASSUME NEW S, NEW s \in Seq(S) PROVE IsList(s)
<1>1. Len(s) \in Nat /\ s \in [1..Len(s) -> S]
  BY LenProperties
<1> QED
  BY <1>1 DEF IsList

\* LIMIT leaves a list.
LEMMA FirstIsList ==
  ASSUME NEW s, IsList(s), NEW n \in Nat
  PROVE  /\ IsList(First(s, n)) /\ Len(First(s, n)) = Lesser(n, Len(s))
         /\ \A i \in DOMAIN First(s, n) : i \in DOMAIN s /\ First(s, n)[i] = s[i]
         /\ Len(s) <= n => First(s, n) = s
<1> DEFINE k == Lesser(n, Len(s))
           S == {s[i] : i \in DOMAIN s}
<1>1. s \in Seq(S) /\ Len(s) \in Nat /\ DOMAIN s = 1..Len(s)
  BY ListOf
<1>2. k \in Nat /\ k <= Len(s) /\ (Len(s) <= n => k = Len(s))
  <2>1. Len(s) \in Nat
    BY <1>1
  <2> QED
    BY <2>1 DEF Lesser
<1> HIDE DEF k
<1>3. \A i \in 1..k : s[i] \in S
  <2>1. Len(s) \in Nat /\ DOMAIN s = 1..Len(s)
    BY <1>1
  <2> DEFINE l == Len(s)
  <2> HIDE DEF l
  <2>2. \A i \in 1..k : i \in 1..l
    <3>1. l \in Nat /\ k \in Nat /\ k <= l
      BY <1>2, <2>1 DEF l
    <3> QED
      BY <3>1
  <2>3. \A i \in 1..k : i \in DOMAIN s
    BY <2>1, <2>2 DEF l
  <2> QED
    BY <2>3
<1> HIDE DEF S
<1>4. /\ SubSeq(s, 1, k) \in Seq(S)
      /\ Len(SubSeq(s, 1, k)) = IF 1 <= k THEN k - 1 + 1 ELSE 0
      /\ \A i \in 1..k - 1 + 1 : SubSeq(s, 1, k)[i] = s[1 + i - 1]
  BY <1>2, <1>3, SubSeqProperties
<1>5. First(s, n) = SubSeq(s, 1, k)
  BY DEF First, k
<1>6. Len(First(s, n)) = k /\ First(s, n) \in Seq(S)
  BY <1>2, <1>4, <1>5
<1>7. DOMAIN First(s, n) = 1..k
  BY <1>6, LenProperties
<1>8. \A i \in 1..k : i \in 1..Len(s) /\ First(s, n)[i] = s[i]
  <2> TAKE i \in 1..k
  <2>1. i \in 1..k - 1 + 1 /\ 1 + i - 1 = i /\ i \in 1..Len(s)
    <3>1. Len(s) \in Nat
      BY <1>1
    <3> QED
      BY <1>2, <3>1
  <2> QED
    BY <1>4, <1>5, <2>1
<1>9. Len(s) <= n => First(s, n) = s
  BY <1>1, <1>2, <1>5, SubSeqFull
<1> QED
  BY <1>1, <1>6, <1>7, <1>8, <1>9, SeqIsList DEF k

LEMMA TextsRankedIsList ==
  ASSUME NEW S, IsFiniteSet(S)
  PROVE  IsList(Ranked(S, TextBefore))
<1> DEFINE P(i, x) == Cardinality({y \in S : TextBefore(y, x)}) = i - 1
           r == [i \in 1..Cardinality(S) |-> CHOOSE x \in S : P(i, x)]
<1>1. Ranked(S, TextBefore) = r
  BY DEF Ranked
<1> HIDE DEF P
<1>2. r = [i \in 1..Cardinality(S) |-> r[i]]
  OBVIOUS
<1> HIDE DEF r
<1>3. IsList(r)
  BY <1>2, RankingIsList
<1> QED
  BY <1>1, <1>3

\* One facet as it is read: a record with a list of values.
IsFacet(x) == x = [f \in DOMAIN x |-> x[f]] /\ "values" \in DOMAIN x /\ IsList(x.values)

\* What `offer` leaves of the values of a key.
LEMMA OfferIsFacet ==
  ASSUME NEW texts, IsFiniteSet(texts)
  PROVE  IsFacet(Offer(texts))
<1> DEFINE S == texts \ {None}
           r == Ranked(S, TextBefore)
<1>1. IsFiniteSet(S)
  BY FS_Subset
<1>2. IsList(r)
  BY <1>1, TextsRankedIsList
<1> HIDE DEF r
<1>4. IsList(First(r, MAX_FACET_VALUES))
  BY <1>2, FirstIsList, LimitsAssumption
<1>5. Offer(texts) = [values |-> First(r, MAX_FACET_VALUES), truncated |-> Len(r) > MAX_FACET_VALUES]
  BY DEF Offer, r
<1> QED
  BY <1>4, <1>5 DEF IsFacet

\* The texts under a key, of finitely many objects.
LEMMA TextsFinite ==
  ASSUME NEW objects, IsFiniteSet(objects), NEW key
  PROVE  IsFiniteSet(TextsIn(objects, key))
<1> DEFINE O == {p \in objects : key \in DOMAIN p /\ ~Nested(p, key)}
           f == [o \in O |-> TextOf(o, key)]
<1>1. IsFiniteSet(O)
  BY FS_Subset
<1> HIDE DEF O
<1>2. IsFiniteSet({f[o] : o \in O})
  BY <1>1, ImageFinite
<1>3. TextsIn(objects, key) = {f[o] : o \in O}
  BY DEF TextsIn, O
<1> QED
  BY <1>2, <1>3

\* The attributes and bodies that are read are finitely many.
LEMMA ObjectsFinite ==
  ASSUME NEW d, IsDatabase(d), NEW q
  PROVE  /\ IsFiniteSet(AttributesInSlice(d, q))
         /\ IsFiniteSet(BodiesIn(BodySample(d, q)))
<1>1. IsFiniteSet(AttributesInSlice(d, q))
  <2> DEFINE T == {t \in SeriesOf(d, q) : RowsOf(d, q, t) # {}}
             f == [s \in T |-> d.series[s].attrs]
  <2>1. T \in SUBSET DOMAIN Catalogue
    BY DEF SeriesOf, IsDatabase
  <2>2. IsFiniteSet(T)
    BY <2>1, RowsAssumption, FS_Subset
  <2> HIDE DEF T
  <2>3. IsFiniteSet({f[s] : s \in T})
    BY <2>2, ImageFinite
  <2>4. AttributesInSlice(d, q) = {f[s] : s \in T}
    BY DEF AttributesInSlice, T
  <2> QED
    BY <2>3, <2>4
<1>2. IsFiniteSet(BodiesIn(BodySample(d, q)))
  <2> DEFINE M == Matching(d, q)
             sample == BodySample(d, q)
             f == [i \in DOMAIN sample |-> sample[i].body]
  <2>1. M \in SUBSET Rows
    BY DEF Matching, IsDatabase
  <2>2. Top(sample, M)
    BY <2>1, RowsRanked, FirstTop, LimitsAssumption DEF BodySample
  <2> HIDE DEF sample, M
  <2>3. IsFiniteSet(DOMAIN sample)
    BY <2>2, LenProperties, FS_Interval DEF Top
  <2>4. IsFiniteSet({f[i] : i \in DOMAIN sample})
    BY <2>3, ImageFinite
  <2>5. BodiesIn(sample) = {f[i] : i \in DOMAIN sample}
    BY DEF BodiesIn
  <2> QED
    BY <2>4, <2>5 DEF sample
<1> QED
  BY <1>1, <1>2

\* Sorted as numbers or as texts, the values are a list.
LEMMA SortedIsList ==
  ASSUME NEW values, IsList(values)
  PROVE  IsList(sort_facet_values(values))
<1> DEFINE all == {values[i] : i \in DOMAIN values}
           r == sort_facet_values(values)
<1>1. IsFiniteSet(all)
  BY ListOf, ImageFinite
<1>2. CASE all \subseteq DOMAIN NumberOf
  <2>1. r = Ranked(all, NumberBefore)
    BY <1>2 DEF sort_facet_values
  <2>2. r = [i \in 1..Cardinality(all) |-> r[i]]
    BY <2>1 DEF Ranked
  <2> HIDE DEF all, r
  <2> QED
    BY <1>1, <2>2, RankingIsList DEF r
<1>3. CASE ~(all \subseteq DOMAIN NumberOf)
  <2>1. r = Ranked(all, TextBefore)
    BY <1>3 DEF sort_facet_values
  <2>2. r = [i \in 1..Cardinality(all) |-> r[i]]
    BY <2>1 DEF Ranked
  <2> HIDE DEF all, r
  <2> QED
    BY <1>1, <2>2, RankingIsList DEF r
<1> QED
  BY <1>2, <1>3

\* The facets of a page: every list of values in them is a list.
FacetsRead(found) ==
  /\ \A k \in DOMAIN found.attrs : IsList(found.attrs[k].values)
  /\ \A k \in DOMAIN found.fields : IsList(found.fields[k].values)

\* What discover_facets hands on: lists of values under each key.
LEMMA FacetsAreRead ==
  ASSUME NEW d, IsDatabase(d), NEW q
  PROVE  FacetsRead(discover_facets(d, q))
<1> DEFINE found == facets(d, q)
           Keys(filters) == {f[1] : f \in filters}
           Sorted(facet) == [facet EXCEPT !.values = sort_facet_values(@)]
           Others(half, k) == facet_values_excluding(d, q, [half |-> half, key |-> k])
           attrs == [k \in DOMAIN found.attrs \cup Keys(q.attrs) |->
                       IF k \in Keys(q.attrs) THEN Others("attribute", k) ELSE found.attrs[k]]
           fields == [k \in DOMAIN found.fields |->
                        IF k \in Keys(q.body)
                        THEN [numeric |-> found.fields[k].numeric,
                              values |-> Others("body", k).values,
                              truncated |-> Others("body", k).truncated]
                        ELSE found.fields[k]]
<1>1. discover_facets(d, q) = [attrs |-> [k \in DOMAIN attrs |-> Sorted(attrs[k])],
                               fields |-> [k \in DOMAIN fields |-> Sorted(fields[k])],
                               scanned |-> found.scanned, capped |-> found.capped]
  BY DEF discover_facets
<1>2. \A x : IsFacet(x) => IsList(Sorted(x).values)
  BY SortedIsList DEF IsFacet
<1>3. \A half, k : IsFacet(Others(half, k))
  <2> TAKE half, k
  <2> DEFINE field == [half |-> half, key |-> k]
             wide == Widened(q, field)
             objects == IF field.half = "attribute" THEN AttributesInSlice(d, wide)
                        ELSE BodiesIn(BodySample(d, wide))
  <2>1. IsFiniteSet(objects)
    BY ObjectsFinite
  <2>2. facet_values_excluding(d, q, field) = Offer(TextsIn(objects, field.key))
    BY DEF facet_values_excluding
  <2> HIDE DEF objects
  <2> QED
    BY <2>1, <2>2, TextsFinite, OfferIsFacet
<1>4. \A k \in DOMAIN found.attrs : IsFacet(found.attrs[k])
  <2> DEFINE slice == AttributesInSlice(d, q)
  <2>1. found.attrs = [k \in KeysIn(slice) |-> Offer(TextsIn(slice, k))]
    BY DEF facets, attribute_facets
  <2>2. IsFiniteSet(slice)
    BY ObjectsFinite
  <2> HIDE DEF slice, found
  <2> QED
    BY <2>1, <2>2, TextsFinite, OfferIsFacet
<1>5. \A k \in DOMAIN found.fields : IsFacet(found.fields[k])
  <2> DEFINE bodies == BodiesIn(BodySample(d, q))
  <2>1. found.fields = [k \in KeysIn(bodies) |->
          [numeric |-> \E b \in bodies : Numeric(b, k),
           values |-> Offer(TextsIn(bodies, k)).values,
           truncated |-> Offer(TextsIn(bodies, k)).truncated]]
    BY DEF facets, BodyFacets
  <2>2. IsFiniteSet(bodies)
    BY ObjectsFinite
  <2> HIDE DEF bodies, found
  <2>3. \A k : IsList(Offer(TextsIn(bodies, k)).values)
    BY <2>2, TextsFinite, OfferIsFacet DEF IsFacet
  <2> QED
    BY <2>1, <2>3 DEF IsFacet
<1> HIDE DEF found, Keys, Others
<1>6. \A k \in DOMAIN attrs : IsFacet(attrs[k])
  BY <1>3, <1>4
<1>7. \A k \in DOMAIN fields : IsFacet(fields[k])
  BY <1>3, <1>5 DEF IsFacet
<1> HIDE DEF attrs, fields, Sorted
<1> QED
  BY <1>1, <1>2, <1>6, <1>7 DEF FacetsRead

-----------------------------------------------------------------------------
\* The points of a line: a list, each of a later bucket than the one before.
IsPoints(points) ==
  /\ IsList(points)
  /\ \A i \in DOMAIN points : points[i].start \in Int
  /\ \A i, j \in DOMAIN points : i < j => points[i].start < points[j].start
\* The series of a chart.
IsSeries(all) ==
  /\ IsFiniteSet(DOMAIN all) /\ DOMAIN all \in SUBSET Int
  /\ \A i \in DOMAIN all : IsPoints(all[i].points)

\* The buckets of a line are in order of time, one each.
LEMMA PointsArePoints ==
  ASSUME NEW rows \in SUBSET Rows, NEW field, NEW width \in Nat \ {0}
  PROVE  IsPoints(Points(rows, field, width))
<1> DEFINE f == [m \in rows |-> BucketStart(m.time, width)]
           B == {BucketStart(m.time, width) : m \in rows}
           starts == Ranked(B, <)
           P(i) == Point({m \in rows : BucketStart(m.time, width) = starts[i]}, field, starts[i])
           points == [i \in DOMAIN starts |-> P(i)]
<1>1. Points(rows, field, width) = points
  BY DEF Points
<1>2. B \in SUBSET Int
  <2>1. \A m \in rows : m.time \in Int
    BY RowsAreRows
  <2>2. \A t \in Int : BucketStart(t, width) \in Int
    <3> TAKE t \in Int
    <3>1. t \div width \in Int /\ (-t) \div width \in Int
      OBVIOUS
    <3>2. (t \div width) * width \in Int /\ ((-t) \div width) * width \in Int
      BY <3>1
    <3> QED
      BY <3>2 DEF BucketStart
  <2> QED
    BY <2>1, <2>2
<1>3. IsFiniteSet(B)
  <2>1. IsFiniteSet(rows)
    BY RowsAreRows, FS_Subset
  <2>2. IsFiniteSet({f[m] : m \in rows})
    BY <2>1, ImageFinite
  <2> QED
    BY <2>2
<1> HIDE DEF B
<1>4. /\ IsList(starts)
      /\ \A i, j \in DOMAIN starts : i < j => starts[i] < starts[j]
      /\ \A i \in DOMAIN starts : starts[i] \in B
  BY <1>2, <1>3, NumbersInOrder
<1>5. \A i : P(i).start = starts[i]
  BY DEF Point
<1> HIDE DEF P, starts
<1>6. IsList(points)
  <2>1. PICK n \in Nat : starts = [i \in 1..n |-> starts[i]]
    BY <1>4 DEF IsList
  <2>2. DOMAIN starts = 1..n
    BY <2>1
  <2>3. points = [i \in 1..n |-> points[i]]
    BY <2>2
  <2> HIDE DEF points
  <2> QED
    BY <2>3 DEF IsList
<1>7. \A i \in DOMAIN points : i \in DOMAIN starts /\ points[i].start = starts[i] /\ starts[i] \in Int
  BY <1>2, <1>4, <1>5
<1> HIDE DEF points
<1>8. IsPoints(points)
  BY <1>4, <1>6, <1>7 DEF IsPoints
<1> QED
  BY <1>1, <1>8

\* What store::read::series returns.
LEMMA SeriesAreSeries ==
  ASSUME NEW d, IsDatabase(d), NEW q, NEW field, NEW group,
         NEW groups, IsList(groups), NEW width \in Nat \ {0}
  PROVE  IsSeries(series(d, q, field, group, groups, width))
<1> DEFINE rows == {m \in Matching(d, q) :
                      group = None \/ InGroups(LeavesOf(d, m, group), group.key, groups)}
           found == {RowGroup(d, m, group) : m \in rows}
           wanted == Keep(groups, found)
           others == found \ {wanted[i] : i \in DOMAIN wanted}
           P(i, x) == Cardinality({y \in others : (y = None /\ x # None) \/ TextBefore(y, x)}) = i - 1
           ranked == [i \in 1..Cardinality(others) |-> CHOOSE x \in others : P(i, x)]
           order == wanted \o ranked
           Line1(i) == Points({m \in rows : RowGroup(d, m, group) = order[i]}, field, width)
           all == [i \in DOMAIN order |-> [group |-> order[i], points |-> Line1(i)]]
<1>1. series(d, q, field, group, groups, width) = all
  BY DEF series, Ranked
<1>2. rows \in SUBSET Rows
  BY DEF Matching, IsDatabase
<1> HIDE DEF rows
<1>3. IsFiniteSet(found)
  <2> DEFINE f == [m \in rows |-> RowGroup(d, m, group)]
  <2>1. IsFiniteSet(rows)
    BY <1>2, RowsAreRows, FS_Subset
  <2>2. IsFiniteSet({f[m] : m \in rows})
    BY <2>1, ImageFinite
  <2> QED
    BY <2>2
<1> HIDE DEF found
<1>4. IsList(wanted)
  BY ListOf, KeepIsList
<1> HIDE DEF wanted
<1>5. IsList(ranked)
  <2>1. IsFiniteSet(others)
    BY <1>3, FS_Subset
  <2> HIDE DEF others, P
  <2>2. ranked = [i \in 1..Cardinality(others) |-> ranked[i]]
    OBVIOUS
  <2> HIDE DEF ranked
  <2> QED
    BY <2>1, <2>2, RankingIsList
<1> HIDE DEF ranked
<1>6. IsList(order)
  BY <1>4, <1>5, ConcatIsList
<1> HIDE DEF order
<1>7. \A i : IsPoints(Line1(i))
  <2> TAKE i
  <2>1. {m \in rows : RowGroup(d, m, group) = order[i]} \in SUBSET Rows
    BY <1>2
  <2> QED
    BY <2>1, PointsArePoints
<1> HIDE DEF Line1
<1>8. IsFiniteSet(DOMAIN order) /\ DOMAIN order \in SUBSET Int
  BY <1>6, ListOf
<1>9. IsSeries(all)
  BY <1>7, <1>8 DEF IsSeries
<1> QED
  BY <1>1, <1>9

\* The buckets of a line lie apart, so the narrowest step between two is one.
LEMMA DerivedBucketIsInt ==
  ASSUME NEW all, IsSeries(all), NEW slots, NEW from \in Int, NEW to \in Int
  PROVE  DerivedBucket(Plotted(all, slots), from, to) \in Int
<1> DEFINE drawn == {i \in DOMAIN all : \E j \in DOMAIN all[i].points : HasValue(all[i].points[j])}
           order == Ranked(drawn, <)
           plotted == Plotted(all, slots)
           Gaps(points) == {points[i + 1].start - points[i].start : i \in 1..(Len(points) - 1)}
           gaps == UNION {Gaps(plotted[n].points) : n \in DOMAIN plotted}
<1>1. drawn \in SUBSET Int /\ IsFiniteSet(drawn)
  BY FS_Subset DEF IsSeries
<1>2. \A n \in DOMAIN order : order[n] \in DOMAIN all
  <2>1. \A n \in DOMAIN order : order[n] \in drawn
    <3> HIDE DEF drawn
    <3> QED
      BY <1>1, NumbersInOrder
  <2> HIDE DEF order
  <2> QED
    BY <2>1
<1>3. plotted = [n \in DOMAIN order |->
        [slot |-> IF order[n] \in DOMAIN slots THEN slots[order[n]] ELSE order[n] - 1,
         group |-> all[order[n]].group, points |-> all[order[n]].points]]
  BY DEF Plotted
<1> HIDE DEF order, drawn, plotted
<1>4. \A n \in DOMAIN plotted : IsPoints(plotted[n].points)
  BY <1>2, <1>3 DEF IsSeries
<1>5. \A points : IsPoints(points) => Gaps(points) \in SUBSET Nat
  <2> TAKE points
  <2> HAVE IsPoints(points)
  <2>1. DOMAIN points = 1..Len(points) /\ Len(points) \in Nat
    BY ListOf DEF IsPoints
  <2> DEFINE l == Len(points)
  <2> HIDE DEF l
  <2>2. l \in Nat /\ DOMAIN points = 1..l
    BY <2>1 DEF l
  <2>3. \A i \in 1..(l - 1) : i \in DOMAIN points /\ i + 1 \in DOMAIN points /\ i < i + 1
    BY <2>2
  <2>4. \A i \in 1..(l - 1) : points[i + 1].start - points[i].start \in Nat
    <3> TAKE i \in 1..(l - 1)
    <3>1. points[i].start \in Int /\ points[i + 1].start \in Int /\ points[i].start < points[i + 1].start
      BY <2>3 DEF IsPoints
    <3> QED
      BY <3>1
  <2> QED
    BY <2>4 DEF l
<1>6. gaps \in SUBSET Nat
  <2> HIDE DEF Gaps
  <2> QED
    BY <1>4, <1>5
<1>7. DerivedBucket(plotted, from, to) = IF gaps = {} THEN Greater(to - from, 1) ELSE Least(gaps)
  BY DEF DerivedBucket
<1> HIDE DEF gaps, Gaps
<1>8. ASSUME gaps = {} PROVE DerivedBucket(plotted, from, to) \in Int
  BY <1>7, <1>8 DEF Greater
<1>9. ASSUME gaps # {} PROVE DerivedBucket(plotted, from, to) \in Int
  <2>1. \E x \in gaps : \A y \in gaps : x <= y
    BY <1>6, <1>9, LeastNumber
  <2>2. Least(gaps) \in gaps
    BY <2>1 DEF Least
  <2>3. \A x \in gaps : x \in Int
    BY <1>6
  <2>4. Least(gaps) \in Int
    BY <2>2, <2>3, Zenon
  <2> QED
    BY <1>7, <1>9, <2>4
<1> QED
  BY <1>8, <1>9 DEF plotted

\* The links over a plot, if there is a plot, tile its window.
LEMMA ChartZonesTile ==
  ASSUME NEW all, IsSeries(all), NEW slots, NEW from \in Int, NEW to \in Int, from < to,
         NEW field, NEW geo, PlotWidth(geo) \in Nat \ {0}
  PROVE  LET zones == ZonesOf(value_chart(all, slots, from, to, field, geo))
         IN zones = <<>> \/ Tiles(zones, from, to)
<1> DEFINE plotted == Plotted(all, slots)
           plot == value_chart(all, slots, from, to, field, geo)
           zones == hit_layer(from, to, DerivedBucket(plotted, from, to), geo)
<1>1. plot = None \/ plot.zones = zones
  BY DEF value_chart
<1> HIDE DEF plot
<1>2. DerivedBucket(plotted, from, to) \in Int
  BY DerivedBucketIsInt
<1>3. Tiles(zones, from, to)
  <2> HIDE DEF plotted
  <2> QED
    BY <1>2, HitLayerTiles
<1> HIDE DEF zones
<1>4. ZonesOf(plot) = <<>> \/ Tiles(ZonesOf(plot), from, to)
  BY <1>1, <1>3 DEF ZonesOf
<1> QED
  BY <1>4 DEF plot

\* The same over the timeline's plot.
LEMMA TimelineZonesTile ==
  ASSUME NEW points, NEW from \in Int, NEW to \in Int, from < to, NEW bucket \in Int,
         NEW geo, PlotWidth(geo) \in Nat \ {0}
  PROVE  LET zones == ZonesOf(timeline(points, from, to, bucket, geo))
         IN zones = <<>> \/ Tiles(zones, from, to)
<1> DEFINE plot == timeline(points, from, to, bucket, geo)
           zones == hit_layer(from, to, bucket, geo)
<1>1. plot = None \/ plot.zones = zones
  BY DEF timeline
<1> HIDE DEF plot
<1>2. Tiles(zones, from, to)
  BY HitLayerTiles
<1> HIDE DEF zones
<1>3. ZonesOf(plot) = <<>> \/ Tiles(ZonesOf(plot), from, to)
  BY <1>1, <1>2 DEF ZonesOf
<1> QED
  BY <1>3 DEF plot

LEMMA PlotWidths == PlotWidth(FULL_WIDE) \in Nat \ {0} /\ PlotWidth(FULL_NARROW) \in Nat \ {0}
BY DEF PlotWidth, plot_right, FULL_WIDE, FULL_NARROW, Geometry

-----------------------------------------------------------------------------
IsData(g) == g = [x \in DOMAIN g |-> g[x]] /\ DOMAIN g = DOMAIN NoData
IsTrail(r) == r = [x \in DOMAIN r |-> r[x]] /\ DOMAIN r = {"rows", "owed"}
Typed ==
  /\ IsDatabase(db) /\ now \in Int
  /\ path \in {"/", "/chart", API} /\ stage \in 1..6
  /\ path = API => stage \in {1, 6} /\ IsRequest(url)
  /\ IsPageUrl(url)
  /\ IsData(got) /\ IsTrail(trail)
WindowRight ==
  path # API /\ stage > 1 =>
    got.now \in Int /\ got.bucket \in Nat \ {0} /\ WindowRead(view, got.window, got.now)
FacetsRight == path # API /\ stage > 1 => FacetsRead(got.facets)
ChartsRight == path # API /\ stage > 4 => \A f \in DOMAIN got.charts : IsSeries(got.charts[f].series)
RowsRight == Read => got.rows \in Seq(Rows) /\ Len(got.rows) \in Nat /\ (got.more => 0 < Len(got.rows))
PageRight == Typed /\ WindowRight /\ FacetsRight /\ ChartsRight /\ RowsRight

LEMMA ReadIsSix == Read <=> stage = 6
BY DEF Read, Stages

LEMMA ViewIsView == IsPageUrl(url) => IsView(view)
BY ParsedIsView DEF view

\* The links over the plot of a page that was read tile its window.
LEMMA ZonesTile ==
  ASSUME PageRight, Shown, NEW geo \in {FULL_WIDE, FULL_NARROW}
  PROVE  Zones(geo) = <<>> \/ Tiles(Zones(geo), got.window[1], got.window[2])
<1> DEFINE from == got.window[1]
           to == got.window[2]
<1>1. path # API /\ stage = 6
  BY ReadIsSix DEF Shown
<1>2. from \in Int /\ to \in Int /\ from < to /\ got.bucket \in Int
  BY <1>1 DEF PageRight, WindowRight, WindowRead
<1>3. PlotWidth(geo) \in Nat \ {0}
  BY PlotWidths
<1> HIDE DEF from, to
<1>4. CASE DOMAIN got.charts = {}
  <2>1. Zones(geo) = ZonesOf(timeline(got.timeline, from, to, got.bucket, geo))
    BY <1>4 DEF Zones, from, to
  <2> QED
    BY <1>2, <1>3, <2>1, TimelineZonesTile DEF from, to
<1>5. CASE DOMAIN got.charts # {}
  <2> DEFINE f == CHOOSE f \in DOMAIN got.charts : TRUE
             chart == got.charts[f]
  <2>1. f \in DOMAIN got.charts
    BY <1>5
  <2>2. IsSeries(chart.series)
    BY <1>1, <2>1 DEF PageRight, ChartsRight
  <2>3. Zones(geo) = ZonesOf(value_chart(chart.series, chart.slots, from, to, f, geo))
    BY <1>5 DEF Zones, PlotOf, from, to
  <2> HIDE DEF chart, f
  <2>4. Zones(geo) = <<>> \/ Tiles(Zones(geo), from, to)
    BY <1>2, <1>3, <2>2, <2>3, ChartZonesTile
  <2> QED
    BY <2>4 DEF from, to
<1> QED
  BY <1>4, <1>5
-----------------------------------------------------------------------------
(* Where links lead. *)
Older == [current_params(view) EXCEPT !.cursor = <<got.rows[Len(got.rows)].time, got.rows[Len(got.rows)].id>>]
KeepsOpen(u) == u.from # None /\ u.to = None => u.from = view.from /\ view.to = None
FollowsLink ==
  \E to \in {"/", "/chart"} : \E u :
    /\ Visit(to, u) /\ path # API /\ IsPageUrl(u) /\ KeepsOpen(u)
    /\ u.cursor = None \/ (u = Older /\ got.more)

\* The form keeps the bounds of the view, and drops its cursor.
LEMMA FormBounds ==
  ASSUME IsPageUrl(url)
  PROVE  /\ DOMAIN Form = {"range", "kind", "t0", "from", "to", "attrs", "body", "fields", "group",
                           "hidden", "cursor"}
         /\ Form.from = view.from /\ Form.to = view.to
         /\ Form.from \in Bound /\ Form.to \in Bound /\ Form.cursor = None
<1>1. view.from \in Bound /\ view.to \in Bound
  BY ViewIsView DEF IsView
<1> QED
  BY <1>1 DEF Form

\* A form that is sent with one control changed.
LEMMA FormLinks ==
  ASSUME IsPageUrl(url), NEW u,
         \/ \E v : u = [Form EXCEPT !.range = v]
         \/ \E v : u = [Form EXCEPT !.kind = v]
         \/ \E v : u = [Form EXCEPT !.attrs = v]
         \/ \E v : u = [Form EXCEPT !.body = v]
         \/ \E v : u = [Form EXCEPT !.fields = v]
         \/ \E v : u = [Form EXCEPT !.group = v]
  PROVE  IsPageUrl(u) /\ u.cursor = None /\ KeepsOpen(u)
<1> DEFINE F == Form
<1>1. /\ DOMAIN F = {"range", "kind", "t0", "from", "to", "attrs", "body", "fields", "group",
                     "hidden", "cursor"}
      /\ F.from \in Bound /\ F.to \in Bound /\ F.cursor = None /\ F.from = view.from /\ F.to = view.to
  BY FormBounds
<1> HIDE DEF F
<1>2. \/ \E v : u = [F EXCEPT !.range = v]
      \/ \E v : u = [F EXCEPT !.kind = v]
      \/ \E v : u = [F EXCEPT !.attrs = v]
      \/ \E v : u = [F EXCEPT !.body = v]
      \/ \E v : u = [F EXCEPT !.fields = v]
      \/ \E v : u = [F EXCEPT !.group = v]
  BY DEF F
<1>3. u.from = F.from /\ u.to = F.to /\ u.cursor = F.cursor
  BY <1>1, <1>2
<1> QED
  BY <1>1, <1>3 DEF IsPageUrl, Bound, Instants, KeepsOpen

\* The links that keep the view: to a chart and back, of a legend entry, of a zone.
LEMMA ViewLinks ==
  ASSUME IsPageUrl(url), NEW u,
         \/ u = current_params(view)
         \/ \E v : u = [current_params(view) EXCEPT !.fields = v]
         \/ \E v : u = [current_params(view) EXCEPT !.hidden = v]
         \/ \E v \in Int, w \in Int :
              u = [current_params(view) EXCEPT !.range = "custom", !.from = v, !.to = w]
  PROVE  IsPageUrl(u) /\ u.cursor = None /\ KeepsOpen(u)
<1> DEFINE F == current_params(view)
<1>1. /\ DOMAIN F = {"range", "kind", "t0", "from", "to", "attrs", "body", "fields", "group",
                     "hidden", "cursor"}
      /\ F.from \in Bound /\ F.to \in Bound /\ F.cursor = None /\ F.from = view.from /\ F.to = view.to
  <2>1. view.from \in Bound /\ view.to \in Bound
    BY ViewIsView DEF IsView
  <2> QED
    BY <2>1 DEF current_params
<1> HIDE DEF F
<1>2. \/ u = F
      \/ \E v : u = [F EXCEPT !.fields = v]
      \/ \E v : u = [F EXCEPT !.hidden = v]
      \/ \E v \in Int, w \in Int : u = [F EXCEPT !.range = "custom", !.from = v, !.to = w]
  BY DEF F
<1>3. u.from \in Bound /\ u.to \in Bound /\ u.cursor = None /\ KeepsOpen(u)
  BY <1>1, <1>2, NoneAssumption DEF Bound, Instants, KeepsOpen
<1> QED
  BY <1>3 DEF IsPageUrl, Bound, Instants

\* The links of steps_row, none of which leaves the end of a fixed window open.
LEMMA StepLinks ==
  ASSUME IsPageUrl(url), NEW w, w[1] \in Int, w[2] \in Int, NEW t,
         NEW link \in {"earlier", "later", "latest"}, steps(view, w, t)[link] # NoStep
  PROVE  LET u == current_params(steps(view, w, t)[link])
         IN IsPageUrl(u) /\ u.cursor = None /\ KeepsOpen(u)
<1> DEFINE p == steps(view, w, t)[link]
           Leads(q) == \E from \in Bound, to \in Bound : q = At(view, from, to) /\ (from = None \/ to # None)
<1>1. Leads(p)
  <2>1. SpanOf(view) \in Int
    BY SpanIsNatural
  <2>2. steps(view, w, t).earlier # NoStep => Leads(steps(view, w, t).earlier)
    BY <2>1, NoneAssumption DEF steps, Bound, Instants
  <2>3. steps(view, w, t).later # NoStep => Leads(steps(view, w, t).later)
    BY <2>1, NoneAssumption DEF steps, Bound, Instants
  <2>4. steps(view, w, t).latest # NoStep => Leads(steps(view, w, t).latest)
    BY <2>1, NoneAssumption DEF steps, Bound, Instants
  <2> QED
    BY <2>2, <2>3, <2>4
<1>2. p.from \in Bound /\ p.to \in Bound /\ (p.from = None \/ p.to # None)
  BY <1>1, AtIsView DEF view
<1> HIDE DEF p
<1>3. current_params(p).from = p.from /\ current_params(p).to = p.to /\ current_params(p).cursor = None
  BY DEF current_params
<1> QED
  BY <1>2, <1>3 DEF IsPageUrl, Bound, Instants, KeepsOpen, p

\* All the ways to another page.
LEMMA LinksFollowed ==
  ASSUME PageRight,
         \/ PickRange \/ PickType \/ PickAttribute \/ PickLeaf \/ PickField \/ PickGroup
         \/ OlderPage \/ Step \/ OpenChart \/ Back \/ TapZone \/ ToggleSeries
  PROVE  FollowsLink
<1> USE DEF PageRight, Typed
<1>1. CASE PickRange
  BY <1>1, FormLinks DEF PickRange, OnExplorer, Shown, FollowsLink
<1>2. CASE PickType
  BY <1>2, FormLinks DEF PickType, OnExplorer, Shown, FollowsLink
<1>3. CASE PickAttribute
  <2>1. PICK v : Visit("/", [Form EXCEPT !.attrs = v]) /\ path # API
    BY <1>3 DEF PickAttribute, OnExplorer, Shown
  <2> QED
    BY <2>1, FormLinks DEF FollowsLink
<1>4. CASE PickLeaf
  <2>1. PICK v : Visit("/", [Form EXCEPT !.body = v]) /\ path # API
    BY <1>4 DEF PickLeaf, OnExplorer, Shown
  <2> QED
    BY <2>1, FormLinks DEF FollowsLink
<1>5. CASE PickField
  <2>1. PICK v : Visit("/", [Form EXCEPT !.fields = v]) /\ path # API
    BY <1>5 DEF PickField, OnExplorer, Shown
  <2> QED
    BY <2>1, FormLinks DEF FollowsLink
<1>6. CASE PickGroup
  BY <1>6, FormLinks DEF PickGroup, OnExplorer, Shown, FollowsLink
<1>7. CASE OlderPage
  <2>1. Visit("/", Older) /\ path # API /\ got.more /\ Read
    BY <1>7 DEF OlderPage, OnExplorer, Shown, Older
  <2>2. IsPageUrl(Older) /\ KeepsOpen(Older)
    <3>1. view.from \in Bound /\ view.to \in Bound
      BY ViewIsView DEF IsView
    <3>2. got.rows[Len(got.rows)] \in Rows
      <4>1. got.rows \in Seq(Rows) /\ Len(got.rows) \in Nat /\ 0 < Len(got.rows)
        BY <2>1 DEF RowsRight
      <4>2. Len(got.rows) \in 1..Len(got.rows)
        BY <4>1
      <4> QED
        BY <4>1, <4>2, ElementOfSeq
    <3>3. <<got.rows[Len(got.rows)].time, got.rows[Len(got.rows)].id>> \in Cursors
      BY <3>2, RowsAreRows DEF Cursors, Instants
    <3>4. Older.from = view.from /\ Older.to = view.to
          /\ Older.cursor = <<got.rows[Len(got.rows)].time, got.rows[Len(got.rows)].id>>
      BY DEF Older, current_params
    <3> QED
      BY <3>1, <3>3, <3>4 DEF IsPageUrl, Bound, Instants, KeepsOpen
  <2> QED
    BY <2>1, <2>2 DEF FollowsLink
<1>8. CASE Step
  <2>1. PICK link \in {"earlier", "later", "latest"} :
          /\ steps(view, got.window, got.now)[link] # NoStep
          /\ Visit(path, current_params(steps(view, got.window, got.now)[link]))
          /\ Shown
    BY <1>8 DEF Step
  <2>2. got.window[1] \in Int /\ got.window[2] \in Int
    BY <2>1, ReadIsSix DEF Shown, WindowRight, WindowRead
  <2>3. /\ IsPageUrl(current_params(steps(view, got.window, got.now)[link]))
        /\ current_params(steps(view, got.window, got.now)[link]).cursor = None
        /\ KeepsOpen(current_params(steps(view, got.window, got.now)[link]))
    BY <2>1, <2>2, StepLinks
  <2>4. path \in {"/", "/chart"}
    BY <2>1 DEF Shown
  <2> QED
    BY <2>1, <2>3, <2>4 DEF FollowsLink, Shown
<1>9. CASE OpenChart
  <2>1. PICK v : Visit("/chart", [current_params(view) EXCEPT !.fields = v]) /\ path # API
    BY <1>9 DEF OpenChart, OnExplorer, Shown
  <2> QED
    BY <2>1, ViewLinks DEF FollowsLink
<1>10. CASE Back
  BY <1>10, ViewLinks DEF Back, OnChart, Shown, FollowsLink
<1>11. CASE TapZone
  <2>1. PICK geo \in {FULL_WIDE, FULL_NARROW} :
          \E zone \in ToSet(Zones(geo)) : Visit("/", ZoneLink(zone)) /\ Shown
    BY <1>11 DEF TapZone, OnChart
  <2>2. PICK zone \in ToSet(Zones(geo)) : Visit("/", ZoneLink(zone)) /\ Shown
    BY <2>1
  <2>6. PICK i \in DOMAIN Zones(geo) : zone = Zones(geo)[i]
    BY <2>2 DEF ToSet
  <2>3. Zones(geo) = <<>> \/ Zones(geo) \in Seq(Int \X Int)
    BY <2>2, ZonesTile DEF Tiles
  <2>4. zone \in Int \X Int
    <3> DEFINE z == Zones(geo)
    <3> HIDE DEF z
    <3>1. z \in Seq(Int \X Int)
      BY <2>3 DEF z
    <3>2. i \in 1..Len(z)
      BY <2>6, <3>1, LenProperties DEF z
    <3>3. z[i] \in Int \X Int
      BY <3>1, <3>2, ElementOfSeq
    <3> QED
      BY <2>6, <3>3 DEF z
  <2>5. IsPageUrl(ZoneLink(zone)) /\ ZoneLink(zone).cursor = None /\ KeepsOpen(ZoneLink(zone))
    BY <2>4, ViewLinks DEF ZoneLink
  <2> QED
    BY <2>2, <2>5 DEF FollowsLink, Shown
<1>12. CASE ToggleSeries
  <2>1. PICK v : Visit(path, [current_params(view) EXCEPT !.hidden = v]) /\ path # API
    BY <1>12 DEF ToggleSeries, Shown
  <2> QED
    BY <2>1, ViewLinks DEF FollowsLink
<1> QED
  BY <1>1, <1>2, <1>3, <1>4, <1>5, <1>6, <1>7, <1>8, <1>9, <1>10, <1>11, <1>12

-----------------------------------------------------------------------------
LEMMA NoDataIsData == IsData(NoData) /\ IsTrail(NoTrail)
BY DEF IsData, NoData, IsTrail, NoTrail

LEMMA PageRightAtFirst == Init => PageRight
<1> SUFFICES ASSUME Init PROVE PageRight
  OBVIOUS
<1>1. IsDatabase(db)
  BY DEF Init, IsDatabase, Rows
<1>2. now \in Int /\ stage = 1 /\ got = NoData /\ trail = NoTrail
  BY VisitsAssumption DEF Init, Instants
<1>3. path \in {"/", "/chart", API} /\ (path = API => IsRequest(url)) /\ IsPageUrl(url)
  BY VisitsAssumption DEF Init, IsRequest, API
<1>4. Typed
  BY <1>1, <1>2, <1>3, NoDataIsData DEF Typed
<1> QED
  BY <1>2, <1>4, ReadIsSix DEF PageRight, WindowRight, FacetsRight, ChartsRight, RowsRight

\* Following a link, or another page of the API, starts over.
LEMMA VisitStartsOver ==
  ASSUME PageRight, NEW to \in {"/", "/chart", API}, NEW u, Visit(to, u), IsPageUrl(u),
         to = API => IsRequest(u)
  PROVE  PageRight'
<1>1. /\ path' = to /\ url' = u /\ stage' = 1 /\ got' = NoData /\ db' = db /\ now' = now
      /\ trail' = NoTrail \/ trail' = trail
  BY DEF Visit
<1>2. Typed'
  BY <1>1, NoDataIsData DEF PageRight, Typed
<1>3. ~Read'
  BY <1>1 DEF Read, Stages
<1> QED
  BY <1>1, <1>2, <1>3 DEF PageRight, WindowRight, FacetsRight, ChartsRight, RowsRight

\* The client goes on with the cursor it got.
LEMMA NextPageVisits ==
  ASSUME PageRight, NextPage
  PROVE  \E u : Visit(API, u) /\ IsPageUrl(u) /\ IsRequest(u) /\ u = [url EXCEPT !.cursor = next_cursor]
                /\ next_cursor # None /\ path = API
<1> DEFINE u == [url EXCEPT !.cursor = next_cursor]
<1>1. path = API /\ next_cursor # None /\ Visit(API, u) /\ Read
  BY DEF NextPage, Visit
<1>2. IsRequest(url) /\ IsPageUrl(url)
  BY <1>1 DEF PageRight, Typed
<1>3. next_cursor \in Cursors
  <2>1. got.more /\ next_cursor = <<got.rows[Len(got.rows)].time, got.rows[Len(got.rows)].id>>
    BY <1>1 DEF next_cursor
  <2>2. got.rows \in Seq(Rows) /\ Len(got.rows) \in Nat /\ 0 < Len(got.rows)
    BY <1>1, <2>1 DEF PageRight, RowsRight
  <2>3. Len(got.rows) \in 1..Len(got.rows)
    BY <2>2
  <2>4. got.rows[Len(got.rows)] \in Rows
    BY <2>2, <2>3, ElementOfSeq
  <2> QED
    BY <2>1, <2>4, RowsAreRows DEF Cursors, Instants
<1>4. /\ DOMAIN u = DOMAIN url /\ u.from = url.from /\ u.to = url.to /\ u.limit = url.limit
      /\ u.cursor = next_cursor
  BY <1>2 DEF IsRequest
<1>5. IsPageUrl(u) /\ IsRequest(u)
  BY <1>2, <1>3, <1>4 DEF IsRequest, IsPageUrl
<1> QED
  BY <1>1, <1>5

LEMMA ViewKept == url' = url => view' = view
BY DEF view

\* A bucket has a width, however short the window.
LEMMA BucketIsPositive ==
  ASSUME NEW from \in Int, NEW to \in Int, NEW n \in Nat
  PROVE  bucket_nanos(from, to, n) \in Nat \ {0}
<1> DEFINE a == Greater(to - from, 1)
           b == Greater(n, 1)
<1>1. a \in Int /\ b \in Int /\ b > 0
  BY DEF Greater
<1> HIDE DEF a, b
<1>2. a \div b \in Int
  BY <1>1
<1>3. bucket_nanos(from, to, n) = Greater(a \div b, 1)
  BY DEF bucket_nanos, a, b
<1> QED
  BY <1>2, <1>3 DEF Greater

\* The rows of one page.
LEMMA PageOfRows ==
  ASSUME NEW d, IsDatabase(d), NEW p, NEW w
  PROVE  LET found == query(d, filter(p, w, PAGE_LIMIT + 1))
             rows == First(found, PAGE_LIMIT)
         IN rows \in Seq(Rows) /\ Len(rows) \in Nat /\ (Len(found) > PAGE_LIMIT => 0 < Len(rows))
<1> DEFINE q == filter(p, w, PAGE_LIMIT + 1)
           found == query(d, q)
           rows == First(found, PAGE_LIMIT)
<1>1. PAGE_LIMIT \in Nat /\ 0 < PAGE_LIMIT /\ MAX_LIMIT \in Nat /\ PAGE_LIMIT < MAX_LIMIT
  BY LimitsAssumption
<1>2. q.limit \in Nat /\ 1 <= q.limit /\ q.limit <= MAX_LIMIT
  BY <1>1 DEF filter
<1> HIDE DEF q
<1>3. Top(found, Asked(d, q)) /\ Asked(d, q) \in SUBSET Rows
  BY <1>2, QueryTop
<1> HIDE DEF found
<1>4. Top(rows, Asked(d, q)) /\ Len(found) \in Nat /\ Len(rows) = Lesser(PAGE_LIMIT, Len(found))
  BY <1>1, <1>3, FirstTop
<1> HIDE DEF rows
<1>5. rows \in Seq(Rows)
  BY <1>3, <1>4, SeqMonotonic DEF Top
<1>6. Len(rows) \in Nat /\ (Len(found) > PAGE_LIMIT => 0 < Len(rows))
  BY <1>1, <1>4 DEF Lesser
<1> QED
  BY <1>5, <1>6 DEF rows, found, q

\* parse_query clamps.
LEMMA ApiLimit ==
  ASSUME NEW u, IsRequest(u)
  PROVE  /\ parse_query(u).limit \in Nat /\ 1 <= parse_query(u).limit
         /\ parse_query(u).limit <= MAX_LIMIT
BY LimitsAssumption DEF parse_query, IsRequest, Greater, Lesser

\* A page of the API. One that is full has a last row.
LEMMA ApiPage ==
  ASSUME NEW d, IsDatabase(d), NEW u, IsRequest(u)
  PROVE  LET q == parse_query(u)
             rows == query(d, q)
         IN rows \in Seq(Rows) /\ Len(rows) \in Nat /\ (Len(rows) = q.limit => 0 < Len(rows))
<1> DEFINE q == parse_query(u)
           rows == query(d, q)
<1>1. q.limit \in Nat /\ 1 <= q.limit /\ q.limit <= MAX_LIMIT
  BY ApiLimit
<1> HIDE DEF q
<1>2. Top(rows, Asked(d, q)) /\ Asked(d, q) \in SUBSET Rows /\ Len(rows) \in Nat
  BY <1>1, QueryTop
<1> HIDE DEF rows
<1>3. rows \in Seq(Rows)
  BY <1>2, SeqMonotonic DEF Top
<1> QED
  BY <1>1, <1>2, <1>3 DEF rows, q

\* A chart's series, whatever it is split by and whatever is hidden.
LEMMA ChartIsSeries ==
  ASSUME IsDatabase(db), FacetsRead(got.facets), got.bucket \in Nat \ {0}, NEW p, NEW field
  PROVE  IsSeries(Chart(db, p, field).series)
<1> DEFINE of == IF p.group = None THEN <<>>
                 ELSE IF p.group.half = "attribute" THEN got.facets.attrs ELSE got.facets.fields
           all == GroupValues(p, got.facets)
           groups == First(all, MAX_SERIES)
           visible == Keep(groups, ToSet(groups) \ p.hidden)
<1>1. IsList(all)
  <2>1. CASE p.group = None \/ p.group.key \notin DOMAIN of
    <3>1. all = <<>>
      BY <2>1 DEF GroupValues
    <3>2. <<>> \in Seq({})
      OBVIOUS
    <3> QED
      BY <3>1, <3>2, SeqIsList
  <2>2. CASE ~(p.group = None \/ p.group.key \notin DOMAIN of)
    <3>1. all = sort_facet_values(of[p.group.key].values)
      BY <2>2 DEF GroupValues
    <3>2. IsList(of[p.group.key].values)
      BY <2>2 DEF FacetsRead
    <3> HIDE DEF of, all
    <3> QED
      BY <3>1, <3>2, SortedIsList
  <2> QED
    BY <2>1, <2>2
<1> HIDE DEF all
<1>2. MAX_SERIES \in Nat
  BY LimitsAssumption DEF MAX_SERIES
<1>3. IsList(groups)
  BY <1>1, <1>2, FirstIsList
<1> HIDE DEF groups
<1>4. IsList(visible)
  BY <1>3, ListOf, KeepIsList
<1> HIDE DEF visible
<1>5. Chart(db, p, field).series =
        series(db, filter(p, got.window, PAGE_LIMIT), field, p.group, visible, got.bucket)
  BY DEF Chart, visible, groups, all
<1> QED
  BY <1>4, <1>5, SeriesAreSeries

\* The statements of a page, one after another.
LEMMA StatementsRight ==
  ASSUME PageRight,
         ReadWindow \/ ReadFacets \/ ReadTimeline \/ ReadCharts \/ ReadRows \/ List
  PROVE  PageRight'
<1> USE DEF PageRight
<1>1. /\ db' = db /\ now' = now /\ path' = path /\ url' = url /\ view' = view
  BY ViewKept DEF ReadWindow, ReadFacets, ReadTimeline, ReadCharts, ReadRows, List, Reading
<1>2. ASSUME IsData(got)', IsTrail(trail)', stage' \in 1..6, path = API => stage' \in {1, 6}
      PROVE  Typed'
  BY <1>1, <1>2 DEF Typed, IsDatabase
<1>3. CASE ReadWindow
  <2> DEFINE w == Window(db, view, now)
  <2>1. /\ path # API /\ stage' = 2 /\ trail' = trail
        /\ got' = [NoData EXCEPT !.types = types(db), !.window = w, !.now = now,
                                 !.bucket = bucket_nanos(w[1], w[2], SERIES_BUCKETS)]
    BY <1>3 DEF ReadWindow, Statement
  <2>2. IsView(view) /\ IsDatabase(db) /\ now \in Int
    BY ViewIsView DEF Typed
  <2>3. WindowRead(view, w, now)
    BY <2>2, WindowIsRead DEF IsView
  <2> HIDE DEF w
  <2>4. IsData(got)' /\ got'.window = w /\ got'.now = now
        /\ got'.bucket = bucket_nanos(w[1], w[2], SERIES_BUCKETS) /\ got'.facets = NoFacets
    BY <2>1 DEF IsData, NoData
  <2>5. got'.bucket \in Nat \ {0}
    <3>1. w[1] \in Int /\ w[2] \in Int
      BY <2>3 DEF WindowRead
    <3>2. SERIES_BUCKETS \in Nat
      BY LimitsAssumption
    <3> QED
      BY <2>4, <3>1, <3>2, BucketIsPositive
  <2>6. Typed'
    BY <1>2, <2>1, <2>4 DEF Typed
  <2>7. WindowRight'
    BY <1>1, <2>2, <2>3, <2>4, <2>5 DEF WindowRight
  <2>8. FacetsRead(NoFacets)
    BY DEF FacetsRead, NoFacets
  <2>9. FacetsRight'
    BY <2>4, <2>8 DEF FacetsRight
  <2> QED
    BY <2>1, <2>6, <2>7, <2>9 DEF ChartsRight, RowsRight, Read, Stages
<1>4. CASE ReadFacets
  <2>1. /\ path # API /\ stage = 2 /\ stage' = 3 /\ trail' = trail
        /\ \/ got' = got /\ view.kind = None
           \/ got' = [got EXCEPT !.facets = discover_facets(db, filter(view, got.window, PAGE_LIMIT))]
    BY <1>4 DEF ReadFacets, Statement
  <2>2. PICK F : got' = [got EXCEPT !.facets = F] /\ FacetsRead(F)
    <3>1. CASE got' = got
      <4>1. got = [got EXCEPT !.facets = got.facets]
        BY DEF Typed, IsData
      <4>2. FacetsRead(got.facets)
        BY <2>1 DEF FacetsRight
      <4> QED
        BY <3>1, <4>1, <4>2
    <3>2. CASE got' = [got EXCEPT !.facets = discover_facets(db, filter(view, got.window, PAGE_LIMIT))]
      BY <3>2, FacetsAreRead DEF Typed
    <3> QED
      BY <2>1, <3>1, <3>2
  <2>3. /\ IsData(got)' /\ got'.facets = F /\ got'.window = got.window /\ got'.now = got.now
        /\ got'.bucket = got.bucket
    BY <2>2 DEF Typed, IsData, NoData
  <2>4. Typed'
    BY <1>2, <2>1, <2>3 DEF Typed
  <2>5. WindowRight' /\ FacetsRight'
    BY <1>1, <2>1, <2>2, <2>3 DEF WindowRight, FacetsRight
  <2> QED
    BY <2>1, <2>4, <2>5 DEF ChartsRight, RowsRight, Read, Stages
<1>5. CASE ReadTimeline
  <2> DEFINE all == series(db, filter(view, got.window, PAGE_LIMIT), None, None, <<>>, got.bucket)
             T == IF all = <<>> THEN <<>> ELSE all[1].points
  <2>1. /\ path # API /\ stage = 3 /\ stage' = 4 /\ trail' = trail
        /\ got' = [got EXCEPT !.timeline = T]
    BY <1>5 DEF ReadTimeline, Statement
  <2> HIDE DEF T
  <2>2. /\ IsData(got)' /\ got'.facets = got.facets /\ got'.window = got.window /\ got'.now = got.now
        /\ got'.bucket = got.bucket
    BY <2>1 DEF Typed, IsData, NoData
  <2>3. Typed'
    BY <1>2, <2>1, <2>2 DEF Typed
  <2>4. WindowRight' /\ FacetsRight'
    BY <1>1, <2>1, <2>2 DEF WindowRight, FacetsRight
  <2> QED
    BY <2>1, <2>3, <2>4 DEF ChartsRight, RowsRight, Read, Stages
<1>6. CASE ReadCharts
  <2>1. /\ path # API /\ stage = 4 /\ stage' = 5 /\ trail' = trail
        /\ got' = [got EXCEPT !.charts = [f \in Charted(view) |-> Chart(db, view, f)]]
    BY <1>6 DEF ReadCharts, Statement
  <2>2. \A f : IsSeries(Chart(db, view, f).series)
    BY <2>1, ChartIsSeries DEF Typed, WindowRight, FacetsRight
  <2>3. /\ IsData(got)' /\ got'.facets = got.facets /\ got'.window = got.window /\ got'.now = got.now
        /\ got'.bucket = got.bucket /\ got'.charts = [f \in Charted(view) |-> Chart(db, view, f)]
    BY <2>1 DEF Typed, IsData, NoData
  <2>4. Typed'
    BY <1>2, <2>1, <2>3 DEF Typed
  <2>5. WindowRight' /\ FacetsRight'
    BY <1>1, <2>1, <2>3 DEF WindowRight, FacetsRight
  <2>6. ChartsRight'
    BY <2>2, <2>3 DEF ChartsRight
  <2> QED
    BY <2>1, <2>4, <2>5, <2>6 DEF RowsRight, Read, Stages
<1>7. CASE ReadRows
  <2> DEFINE found == query(db, filter(view, got.window, PAGE_LIMIT + 1))
             rows == First(found, PAGE_LIMIT)
             Owed == Matching(db, filter(view, got.window, PAGE_LIMIT))
  <2>1. /\ path # API /\ stage = 5 /\ stage' = 6
        /\ got' = [got EXCEPT !.rows = rows, !.more = Len(found) > PAGE_LIMIT]
        /\ trail' = IF view.cursor = None THEN [rows |-> rows, owed |-> Owed]
                    ELSE [trail EXCEPT !.rows = @ \o rows]
    BY <1>7 DEF ReadRows, Statement
  <2>2. rows \in Seq(Rows) /\ Len(rows) \in Nat /\ (Len(found) > PAGE_LIMIT => 0 < Len(rows))
    BY PageOfRows DEF Typed
  <2> HIDE DEF rows, found, Owed
  <2>3. /\ IsData(got)' /\ got'.facets = got.facets /\ got'.window = got.window /\ got'.now = got.now
        /\ got'.bucket = got.bucket /\ got'.charts = got.charts
        /\ got'.rows = rows /\ got'.more = (Len(found) > PAGE_LIMIT)
    BY <2>1 DEF Typed, IsData, NoData
  <2>4. IsTrail(trail)'
    BY <2>1 DEF Typed, IsTrail
  <2>5. Typed'
    BY <1>2, <2>1, <2>3, <2>4 DEF Typed
  <2>6. WindowRight' /\ FacetsRight' /\ ChartsRight'
    BY <1>1, <2>1, <2>3 DEF WindowRight, FacetsRight, ChartsRight
  <2>7. RowsRight'
    BY <2>2, <2>3 DEF RowsRight
  <2> QED
    BY <2>5, <2>6, <2>7
<1>8. CASE List
  <2> DEFINE q == parse_query(url)
             rows == query(db, q)
             Owed == Matching(db, q)
  <2>1. /\ path = API /\ stage' = 6
        /\ got' = [NoData EXCEPT !.rows = rows, !.more = Len(rows) = q.limit]
        /\ trail' = IF q.cursor = None THEN [rows |-> rows, owed |-> Owed]
                    ELSE [trail EXCEPT !.rows = @ \o rows]
    BY <1>8 DEF List, Stages
  <2>2. rows \in Seq(Rows) /\ Len(rows) \in Nat /\ (Len(rows) = q.limit => 0 < Len(rows))
    BY <2>1, ApiPage DEF Typed
  <2> HIDE DEF rows, q, Owed
  <2>3. IsData(got)' /\ got'.rows = rows /\ got'.more = (Len(rows) = q.limit)
    BY <2>1 DEF IsData, NoData
  <2>4. IsTrail(trail)'
    BY <2>1 DEF Typed, IsTrail
  <2>5. Typed'
    BY <1>2, <2>1, <2>3, <2>4 DEF Typed
  <2>6. RowsRight'
    BY <2>2, <2>3 DEF RowsRight
  <2> QED
    BY <1>1, <2>1, <2>5, <2>6 DEF WindowRight, FacetsRight, ChartsRight
<1> QED
  BY <1>3, <1>4, <1>5, <1>6, <1>7, <1>8

\* The writer and the clock touch no page.
LEMMA OthersRight ==
  ASSUME PageRight, Commit \/ Tick \/ UNCHANGED vars
  PROVE  PageRight'
<1>1. UNCHANGED <<path, url, stage, got, trail>> /\ view' = view
  BY ViewKept DEF Commit, Tick, vars
<1>2. IsDatabase(db)' /\ now' \in Int
  <2>1. CASE Commit
    <3>1. PICK m \in Arriving \ db.rows : db' = [db EXCEPT !.rows = @ \cup {m}]
      BY <2>1 DEF Commit
    <3> QED
      BY <2>1, <3>1 DEF Commit, PageRight, Typed, IsDatabase, Rows
  <2>2. CASE Tick \/ UNCHANGED vars
    BY <2>2 DEF Tick, vars, PageRight, Typed, IsDatabase
  <2> QED
    BY <2>1, <2>2
<1>3. Typed'
  BY <1>1, <1>2 DEF PageRight, Typed, IsData, IsTrail
<1> QED
  BY <1>1, <1>3 DEF PageRight, WindowRight, FacetsRight, ChartsRight, RowsRight, Read

LEMMA PageRightKept == PageRight /\ [Next]_vars => PageRight'
<1> SUFFICES ASSUME PageRight, [Next]_vars PROVE PageRight'
  OBVIOUS
<1>1. CASE ReadWindow \/ ReadFacets \/ ReadTimeline \/ ReadCharts \/ ReadRows \/ List
  BY <1>1, StatementsRight
<1>2. CASE \/ PickRange \/ PickType \/ PickAttribute \/ PickLeaf \/ PickField \/ PickGroup
           \/ OlderPage \/ Step \/ OpenChart \/ Back \/ TapZone \/ ToggleSeries
  <2>1. PICK to \in {"/", "/chart"} : \E u : Visit(to, u) /\ IsPageUrl(u)
    BY <1>2, LinksFollowed DEF FollowsLink
  <2> QED
    BY <2>1, VisitStartsOver DEF API
<1>3. CASE NextPage
  BY <1>3, NextPageVisits, VisitStartsOver
<1>4. CASE Commit \/ Tick \/ UNCHANGED vars
  BY <1>4, OthersRight
<1> QED
  BY <1>1, <1>2, <1>3, <1>4 DEF Next

\* What gather (web/mod.rs) has read by each of its statements, and each answer of
\* api/query.rs, is of its kind: a window that is not empty, facets that are lists,
\* series in order of time, rows of the database. Every link leads to a URL that
\* parse_explore reads back.
THEOREM PageIsRight == Spec => []PageRight
BY PageRightAtFirst, PageRightKept, PTL DEF Spec

LEMMA StepsTileRead == PageRight => StepsTile
<1> SUFFICES ASSUME PageRight, Shown PROVE Tiled(steps(view, got.window, got.now), got.window)
  BY DEF StepsTile, Tiled
<1>1. path # API /\ stage = 6
  BY ReadIsSix DEF Shown
<1>2. got.now \in Int /\ WindowRead(view, got.window, got.now)
  BY <1>1 DEF PageRight, WindowRight
<1>3. IsView(view)
  BY ViewIsView DEF PageRight, Typed
<1> QED
  BY <1>2, <1>3, StepsAreTiled

\* The links that steps (web/mod.rs) makes tile time: for every preset, every window
\* and every distance from the present.
THEOREM WindowsTile == Spec => []StepsTile
BY PageIsRight, StepsTileRead, PTL

\* A zone's link lists a row of the window exactly when the zone holds its time.
LEMMA LinkLists ==
  ASSUME PageRight, NEW zone \in Int \X Int, zone[1] < zone[2],
         NEW m \in Matching(db, filter(view, got.window, PAGE_LIMIT))
  PROVE  m \in ListedBy(ZoneLink(zone)) <=> zone[1] <= m.time /\ m.time < zone[2]
<1> DEFINE u == ZoneLink(zone)
           p == parse_explore(u)
           w == Window(db, p, now)
<1>1. /\ u.t0 = u.kind /\ u.range = "custom" /\ u.from = zone[1] /\ u.to = zone[2] /\ u.range # None
      /\ u.kind = view.kind /\ u.attrs = view.attrs /\ u.body = view.body
  BY NoneAssumption DEF ZoneLink, current_params
<1>2. /\ p.kind = view.kind /\ p.attrs = view.attrs /\ p.body = view.body
      /\ p.from = zone[1] /\ p.to = zone[2]
  <2> HIDE DEF u
  <2> QED
    BY <1>1, LinkKeepsView
<1>3. ListedBy(u) = Matching(db, filter(p, w, PAGE_LIMIT))
  BY DEF ListedBy
<1> HIDE DEF p, u
<1>4. w = <<zone[1], zone[2]>>
  BY <1>2, FixedWindow
<1> HIDE DEF w
<1>5. zone[1] \in Int /\ zone[2] \in Int /\ zone[1] # None /\ zone[2] # None /\ w[1] = zone[1] /\ w[2] = zone[2]
  BY <1>4, NoneAssumption DEF Instants
<1>6. m \in db.rows /\ m.time \in Int
  BY RowsAreRows DEF Matching, PageRight, Typed, IsDatabase
<1>7. /\ SeriesFilter(filter(view, got.window, PAGE_LIMIT), db.series[m.series])
      /\ FieldEquals(m.body, view.body)
  BY DEF Matching, MeasurementFilter, filter
<1>8. SeriesFilter(filter(p, w, PAGE_LIMIT), db.series[m.series])
  BY <1>2, <1>7 DEF SeriesFilter, filter
<1>9. MeasurementFilter(filter(p, w, PAGE_LIMIT), m) <=> zone[1] <= m.time /\ m.time < zone[2]
  BY <1>2, <1>5, <1>6, <1>7 DEF MeasurementFilter, filter
<1> QED
  BY <1>3, <1>6, <1>8, <1>9 DEF Matching, u

LEMMA ZonesPartitionRead == PageRight => ZonesPartition
<1> SUFFICES ASSUME PageRight, OnChart, NEW geo \in {FULL_WIDE, FULL_NARROW}, Zones(geo) # <<>>,
                    NEW m \in Matching(db, filter(view, got.window, PAGE_LIMIT))
             PROVE  Cardinality({i \in DOMAIN Zones(geo) : m \in ListedBy(ZoneLink(Zones(geo)[i]))}) = 1
  BY DEF ZonesPartition, Partitions
<1> DEFINE z == Zones(geo)
           n == Len(z)
           from == got.window[1]
           to == got.window[2]
<1>1. Tiles(z, from, to)
  BY ZonesTile DEF OnChart
<1>2. /\ DOMAIN z = 1..n /\ n \in Nat /\ \A i \in 1..n : z[i] \in Int \X Int
      /\ Cover(z, n, from, to)
  <2> HIDE DEF z
  <2>1. z \in Seq(Int \X Int)
    BY <1>1 DEF Tiles
  <2> QED
    BY <1>1, <2>1, LenProperties, ElementOfSeq DEF Tiles
<1>3. m.time \in Int /\ from <= m.time /\ m.time < to
  <2>1. path # API /\ stage = 6
    BY ReadIsSix DEF OnChart, Shown
  <2>2. from \in Int /\ to \in Int
    BY <2>1 DEF PageRight, WindowRight, WindowRead
  <2>3. from # None /\ to # None
    BY <2>2, NoneAssumption DEF Instants
  <2>4. m \in db.rows /\ MeasurementFilter(filter(view, got.window, PAGE_LIMIT), m)
    BY DEF Matching
  <2>5. m.time \in Int
    BY <2>4, RowsAreRows DEF PageRight, Typed, IsDatabase
  <2> QED
    BY <2>3, <2>4, <2>5 DEF MeasurementFilter, filter
<1> HIDE DEF z, n, from, to
<1>4. \A i \in 1..n : m \in ListedBy(ZoneLink(z[i])) <=> z[i][1] <= m.time /\ m.time < z[i][2]
  BY <1>2, LinkLists DEF Cover
<1>5. PICK i \in 1..n : z[i][1] <= m.time /\ m.time < z[i][2]
  BY <1>2, <1>3 DEF Cover
<1>6. \A j \in 1..n : z[j][1] <= m.time /\ m.time < z[j][2] => j = i
  <2> SUFFICES ASSUME NEW j \in 1..n, z[j][1] <= m.time, m.time < z[j][2], j # i PROVE FALSE
    OBVIOUS
  <2>1. /\ z[i][1] \in Int /\ z[i][2] \in Int /\ z[j][1] \in Int /\ z[j][2] \in Int
        /\ i < j => z[i][2] <= z[j][1]
        /\ j < i => z[j][2] <= z[i][1]
    BY <1>2 DEF Cover
  <2>2. i < j \/ j < i
    BY <1>2
  <2> QED
    BY <1>3, <1>5, <2>1, <2>2
<1>7. {j \in DOMAIN z : m \in ListedBy(ZoneLink(z[j]))} = {i}
  BY <1>2, <1>4, <1>5, <1>6
<1> QED
  BY <1>7, FS_Singleton DEF z

\* hit_layer (web/svg.rs) puts every row of the window behind exactly one link, whatever
\* the width of the plot, the buckets and the window: none falls between two.
THEOREM ZonesPartitionWindow == Spec => []ZonesPartition
BY PageIsRight, ZonesPartitionRead, PTL

-----------------------------------------------------------------------------
(* Pages, one after another.                                               *)

\* Not "all the data there is": the window's end is a bound, or the present.
Anchored(p) == p.from # None \/ SpanOf(p) # 0
Reach(p, t) == IF p.to = None THEN t
               ELSE IF p.from # None /\ p.to <= p.from THEN p.from + SEC ELSE p.to
OpenHasBegun(p, t) == p.from # None /\ p.to = None => p.from < t

\* The end of a window that is not around the data.
LEMMA WindowReaches ==
  ASSUME NEW d, NEW p, p.from \in Bound, p.to \in Bound, NEW t \in Int, Anchored(p), OpenHasBegun(p, t)
  PROVE  Window(d, p, t)[2] = Reach(p, t)
<1>1. None \notin Int
  BY NoneAssumption DEF Instants
<1>2. CASE p.from = None
  <2>1. SpanOf(p) # 0
    BY <1>2 DEF Anchored
  <2> QED
    BY <1>2, <2>1, PresetWindow DEF Reach
<1>3. CASE p.from # None
  <2> DEFINE end == IF p.to = None THEN t ELSE p.to
             asked == <<p.from, end>>
  <2>1. Window(d, p, t) = IF asked[2] > asked[1] THEN asked ELSE <<asked[1], asked[1] + SEC>>
    BY <1>3 DEF Window
  <2>2. asked[1] = p.from /\ asked[2] = end
    OBVIOUS
  <2>3. p.from \in Int /\ end \in Int
    BY <1>3 DEF Bound
  <2> HIDE DEF asked, end
  <2>4. Window(d, p, t)[2] = IF end > p.from THEN end ELSE p.from + SEC
    BY <2>1, <2>2
  <2> QED
    BY <1>3, <2>3, <2>4 DEF Reach, OpenHasBegun, end
<1> QED
  BY <1>2, <1>3

\* As time passes that end moves on, if at all.
LEMMA ReachGrows ==
  ASSUME NEW p, p.from \in Bound, p.to \in Bound, NEW t \in Int, NEW u \in Int, t <= u
  PROVE  Reach(p, t) \in Int /\ Reach(p, u) \in Int /\ Reach(p, t) <= Reach(p, u)
BY RangesAssumption DEF Reach, Bound

OfType(p, s) == IF p.kind = None THEN TRUE ELSE s.type = p.kind

\* A window around the data ends behind every row of its type.
LEMMA ExtentReaches ==
  ASSUME NEW d, IsDatabase(d), NEW p, p.from = None, SpanOf(p) = 0, NEW t \in Int,
         NEW m \in d.rows, OfType(p, d.series[m.series])
  PROVE  m.time < Window(d, p, t)[2]
<1> DEFINE q == [filter(p, <<None, None>>, PAGE_LIMIT) EXCEPT !.attrs = {}, !.body = {}]
           found == extent(d, q)
           asked == Extent(d, p, t)
<1>1. Between(found, Matching(d, q))
  BY ExtentBounds
<1>2. asked = IF found = None THEN <<t - DAY, t>> ELSE <<found[1], found[2] + 1>>
  BY DEF Extent
<1>3. m \in Matching(d, q)
  <2>1. q.from = None /\ q.to = None /\ q.attrs = {} /\ q.body = {}
        /\ q.types = IF p.kind = None THEN {} ELSE {p.kind}
    BY DEF filter
  <2>2. SeriesFilter(q, d.series[m.series]) /\ MeasurementFilter(q, m)
    BY <2>1 DEF SeriesFilter, MeasurementFilter, FieldEquals, OfType
  <2> QED
    BY <2>2 DEF Matching
<1>4. Window(d, p, t) = IF asked[2] > asked[1] THEN asked ELSE <<asked[1], asked[1] + SEC>>
  BY DEF Window
<1>5. asked[1] < asked[2] /\ asked[1] \in Int /\ asked[2] \in Int
  BY ExtentIsWindow
<1> HIDE DEF found, asked, q
<1>6. Window(d, p, t) = asked
  BY <1>4, <1>5
<1>7. found # None /\ found \in Int \X Int /\ m.time <= found[2]
  BY <1>1, <1>3 DEF Between
<1>8. asked[2] = found[2] + 1
  BY <1>2, <1>7
<1>9. m.time \in Int
  BY RowsAreRows DEF IsDatabase
<1> QED
  BY <1>6, <1>7, <1>8, <1>9

-----------------------------------------------------------------------------
NewestFirst(s) == \A i, j \in 1..Len(s) : i < j => Newer(s[i], s[j])
Listed(s, m) == \E i \in 1..Len(s) : s[i] = m
Place(m) == <<m.time, m.id>>
Past(m, c) == m.time < c[1] \/ (m.time = c[1] /\ m.id < c[2])
NotPast(m, c) == m.time > c[1] \/ (m.time = c[1] /\ m.id >= c[2])

\* The list s has reached the cursor c: what it owes is in it, or past the cursor.
Reached(s, owed, c) ==
  /\ \A i \in 1..Len(s) : NotPast(s[i], c)
  /\ \A m \in owed : Listed(s, m) \/ Past(m, c)

\* What a cursor at the last row of a page separates.
LEMMA LastIsPlace ==
  ASSUME NEW r \in Seq(Rows), NewestFirst(r), 0 < Len(r)
  PROVE  LET c == Place(r[Len(r)]) IN
         /\ \A i \in 1..Len(r) : NotPast(r[i], c)
         /\ \A m \in Rows : Newer(r[Len(r)], m) <=> Past(m, c)
<1> DEFINE n == Len(r)
           last == r[n]
<1>1. n \in Nat /\ 0 < n
  BY LenProperties
<1>2. \A i \in 1..n : r[i] \in Rows
  BY ElementOfSeq
<1>3. \A i, j \in 1..n : i < j => Newer(r[i], r[j])
  BY DEF NewestFirst
<1> HIDE DEF n
<1>4. n \in 1..n
  BY <1>1
<1>5. last \in Rows
  BY <1>2, <1>4
<1>6. \A i \in 1..n : i = n \/ Newer(r[i], last)
  BY <1>1, <1>3, <1>4
<1> HIDE DEF last
<1>7. Place(last)[1] = last.time /\ Place(last)[2] = last.id /\ last.time \in Int /\ last.id \in Int
  BY <1>5, RowsAreRows DEF Place
<1>8. \A i \in 1..n : NotPast(r[i], Place(last))
  <2> TAKE i \in 1..n
  <2>1. r[i] = last \/ Newer(r[i], last)
    BY <1>6 DEF last
  <2>2. r[i].time \in Int /\ r[i].id \in Int
    BY <1>2, RowsAreRows
  <2> QED
    BY <1>7, <2>1, <2>2 DEF NotPast, Newer
<1>9. \A m \in Rows : Newer(last, m) <=> Past(m, Place(last))
  BY <1>7, RowsAreRows DEF Newer, Past
<1> QED
  BY <1>8, <1>9 DEF last, n

\* The rows on this side of a cursor are newer than those past it.
LEMMA PastIsNewer ==
  ASSUME NEW m \in Rows, NEW k \in Rows, NEW c \in Cursors, NotPast(m, c), Past(k, c)
  PROVE  Newer(m, k)
<1>1. m.time \in Int /\ m.id \in Int /\ k.time \in Int /\ k.id \in Int
  BY RowsAreRows
<1>2. c[1] \in Int /\ c[2] \in Int
  BY DEF Cursors, Instants
<1> QED
  BY <1>1, <1>2 DEF NotPast, Past, Newer

\* A list and the page after it.
LEMMA ListsJoin ==
  ASSUME NEW s \in Seq(Rows), NewestFirst(s), NEW r \in Seq(Rows), NewestFirst(r),
         \A i \in 1..Len(s) : \A j \in 1..Len(r) : Newer(s[i], r[j])
  PROVE  /\ s \o r \in Seq(Rows) /\ NewestFirst(s \o r)
         /\ \A m : Listed(s, m) \/ Listed(r, m) => Listed(s \o r, m)
         /\ \A i \in 1..Len(s \o r) : (\E j \in 1..Len(s) : (s \o r)[i] = s[j])
                                      \/ (\E j \in 1..Len(r) : (s \o r)[i] = r[j])
<1> DEFINE v == s \o r
           k == Len(s)
           l == Len(r)
           n == Len(v)
<1>1. v \in Seq(Rows) /\ n = k + l /\ \A i \in 1..k + l : v[i] = IF i <= k THEN s[i] ELSE r[i - k]
  BY ConcatProperties
<1>2. k \in Nat /\ l \in Nat
  BY LenProperties
<1>3. /\ \A i, j \in 1..k : i < j => Newer(s[i], s[j])
      /\ \A i, j \in 1..l : i < j => Newer(r[i], r[j])
      /\ \A i \in 1..k : \A j \in 1..l : Newer(s[i], r[j])
  BY DEF NewestFirst
<1>4. n = k + l /\ \A i \in 1..k + l : v[i] = IF i <= k THEN s[i] ELSE r[i - k]
  BY <1>1
<1> HIDE DEF v, k, l, n
<1>5. \A i \in 1..n : \/ i \in 1..k /\ v[i] = s[i]
                      \/ i > k /\ i - k \in 1..l /\ v[i] = r[i - k]
  BY <1>2, <1>4
<1>6. ASSUME NEW i \in 1..n, NEW j \in 1..n, i < j PROVE Newer(v[i], v[j])
  <2>1. CASE j \in 1..k /\ v[j] = s[j]
    <3>1. i \in 1..k /\ v[i] = s[i]
      BY <1>2, <1>4, <1>5, <1>6, <2>1
    <3> QED
      BY <1>3, <1>6, <2>1, <3>1
  <2>2. CASE j > k /\ j - k \in 1..l /\ v[j] = r[j - k]
    <3>1. CASE i \in 1..k /\ v[i] = s[i]
      BY <1>3, <2>2, <3>1
    <3>2. CASE i > k /\ i - k \in 1..l /\ v[i] = r[i - k]
      <4>1. i - k < j - k
        BY <1>2, <1>4, <1>6
      <4> QED
        BY <1>3, <2>2, <3>2, <4>1
    <3> QED
      BY <1>5, <3>1, <3>2
  <2> QED
    BY <1>5, <2>1, <2>2
<1>7. \A i \in 1..k : i \in 1..n /\ v[i] = s[i]
  BY <1>2, <1>4
<1>8. \A j \in 1..l : j + k \in 1..n /\ v[j + k] = r[j]
  <2> TAKE j \in 1..l
  <2> DEFINE x == j + k
  <2>1. x \in 1..n /\ ~(x <= k) /\ x - k = j
    BY <1>2, <1>4
  <2> HIDE DEF x
  <2>2. v[x] = r[x - k]
    BY <1>4, <2>1
  <2> QED
    BY <2>1, <2>2 DEF x
<1>9. \A i \in 1..n : (\E j \in 1..k : v[i] = s[j]) \/ (\E j \in 1..l : v[i] = r[j])
  BY <1>5
<1>10. \A m : (\E i \in 1..k : s[i] = m) \/ (\E i \in 1..l : r[i] = m) => \E i \in 1..n : v[i] = m
  BY <1>7, <1>8
<1>11. v \in Seq(Rows)
  BY <1>1 DEF v
<1> QED
  BY <1>6, <1>9, <1>10, <1>11 DEF v, k, l, n, NewestFirst, Listed

\* A page more: S is what the statement saw past the cursor.
LEMMA PageAppended ==
  ASSUME NEW s \in Seq(Rows), NewestFirst(s), NEW owed \in SUBSET Rows, NEW c \in Cursors,
         Reached(s, owed, c),
         NEW S \in SUBSET Rows, \A m \in S : Past(m, c), NEW r, Top(r, S)
  PROVE  /\ s \o r \in Seq(Rows) /\ NewestFirst(s \o r)
         /\ /\ 0 < Len(r)
            /\ \A m \in owed : Past(m, c) => m \in S \/ \A i \in 1..Len(r) : Newer(r[i], m)
            => Reached(s \o r, owed, Place(r[Len(r)]))
         /\ (\A m \in S : Listed(r, m))
            => \A m \in owed : Listed(s \o r, m) \/ (Past(m, c) /\ m \notin S)
<1>1. r \in Seq(Rows) /\ NewestFirst(r)
  BY SeqMonotonic DEF Top, NewestFirst
<1>2. \A i \in 1..Len(s) : s[i] \in Rows
  BY ElementOfSeq
<1>3. \A i \in 1..Len(r) : r[i] \in S /\ r[i] \in Rows
  BY ElementOfSeq DEF Top
<1>4. \A i \in 1..Len(s) : \A j \in 1..Len(r) : Newer(s[i], r[j])
  BY <1>2, <1>3, PastIsNewer DEF Reached
<1> DEFINE v == s \o r
<1>5. /\ v \in Seq(Rows) /\ NewestFirst(v)
      /\ \A m : Listed(s, m) \/ Listed(r, m) => Listed(v, m)
      /\ \A i \in 1..Len(v) : (\E j \in 1..Len(s) : v[i] = s[j]) \/ (\E j \in 1..Len(r) : v[i] = r[j])
  BY <1>1, <1>4, ListsJoin
<1> HIDE DEF v
<1>6. ASSUME 0 < Len(r),
             \A m \in owed : Past(m, c) => m \in S \/ \A i \in 1..Len(r) : Newer(r[i], m)
      PROVE  Reached(v, owed, Place(r[Len(r)]))
  <2> DEFINE last == r[Len(r)]
             k == Place(last)
  <2>1. /\ \A i \in 1..Len(r) : NotPast(r[i], k)
        /\ \A m \in Rows : Newer(last, m) <=> Past(m, k)
    BY <1>1, <1>6, LastIsPlace
  <2>2. Len(r) \in 1..Len(r)
    BY <1>1, <1>6, LenProperties
  <2>3. last \in Rows
    BY <1>3, <2>2
  <2>4. \A i \in 1..Len(s) : Newer(s[i], last)
    BY <1>4, <2>2
  <2> HIDE DEF last
  <2>5. \A m \in Rows : Newer(m, last) => NotPast(m, k)
    <3>1. k[1] = last.time /\ k[2] = last.id /\ last.time \in Int /\ last.id \in Int
      BY <2>3, RowsAreRows DEF Place
    <3> HIDE DEF k
    <3> QED
      BY <3>1, RowsAreRows DEF Newer, NotPast
  <2> HIDE DEF k
  <2>6. \A i \in 1..Len(v) : NotPast(v[i], k)
    BY <1>2, <1>5, <2>1, <2>4, <2>5
  <2>7. ASSUME NEW m \in owed PROVE Listed(v, m) \/ Past(m, k)
    <3>1. CASE Listed(s, m)
      BY <1>5, <3>1
    <3>2. CASE m \in S
      <4>1. Listed(r, m) \/ Newer(last, m)
        BY <2>2, <3>2 DEF Top, Listed, last
      <4> QED
        BY <1>5, <2>1, <3>2, <4>1
    <3>3. CASE \A i \in 1..Len(r) : Newer(r[i], m)
      BY <2>1, <2>2, <3>3 DEF last
    <3> QED
      BY <1>6, <3>1, <3>2, <3>3 DEF Reached
  <2> QED
    BY <2>6, <2>7 DEF Reached, k, last
<1>7. ASSUME \A m \in S : Listed(r, m)
      PROVE  \A m \in owed : Listed(v, m) \/ (Past(m, c) /\ m \notin S)
  BY <1>5, <1>7 DEF Reached
<1> QED
  BY <1>5, <1>6, <1>7 DEF v

\* The first page of a list.
LEMMA FirstPage ==
  ASSUME NEW S \in SUBSET Rows, NEW r, Top(r, S)
  PROVE  /\ r \in Seq(Rows) /\ NewestFirst(r)
         /\ 0 < Len(r) => Reached(r, S, Place(r[Len(r)]))
<1>1. r \in Seq(Rows) /\ NewestFirst(r)
  BY SeqMonotonic DEF Top, NewestFirst
<1>2. ASSUME 0 < Len(r) PROVE Reached(r, S, Place(r[Len(r)]))
  <2> DEFINE last == r[Len(r)]
  <2>1. /\ \A i \in 1..Len(r) : NotPast(r[i], Place(last))
        /\ \A m \in Rows : Newer(last, m) <=> Past(m, Place(last))
    BY <1>1, <1>2, LastIsPlace
  <2>2. Len(r) \in 1..Len(r)
    BY <1>1, <1>2, LenProperties
  <2>3. \A m \in S : Listed(r, m) \/ Newer(last, m)
    BY <2>2 DEF Top, Listed
  <2> HIDE DEF last
  <2> QED
    BY <2>1, <2>3 DEF Reached, last
<1> QED
  BY <1>1, <1>2

-----------------------------------------------------------------------------
(* The list so far, its cursor, and what it still owes.                    *)

Cursor == IF path = API THEN url.cursor ELSE view.cursor
Passes(p, d, m) ==
  /\ SeriesFilter(filter(p, <<None, None>>, PAGE_LIMIT), d.series[m.series])
  /\ FieldEquals(m.body, p.body)
\* The row m is still one of those that the pages are to list.
Owes(m) ==
  IF path = API THEN m \in Matching(db, parse_query(url))
  ELSE /\ m \in db.rows /\ Passes(view, db, m)
       /\ Anchored(view) => m.time < Reach(view, now)

\* No page is of an open window that lies ahead.
Begun == path # API => OpenHasBegun(view, now)
\* The window of a page that goes on with a list ends behind all that is owed.
EndRight ==
  path # API /\ stage > 1 =>
    /\ got.now <= now
    /\ Anchored(view) => got.window[2] = Reach(view, got.now)
    /\ view.cursor # None /\ stage < 6 => \A m \in trail.owed : m.time < got.window[2]
\* What is listed is newest first. A row that is owed can still be found; it is listed,
\* or past the cursor that the next page begins from; at the end of the list nothing
\* is owed but what the window has left behind.
TrailTyped == trail.rows \in Seq(Rows) /\ trail.owed \in SUBSET Rows /\ NewestFirst(trail.rows)
OwedRight == Cursor # None \/ Read => \A m \in trail.owed : Owes(m)
ReachedRight == ~Read /\ Cursor # None => Reached(trail.rows, trail.owed, Cursor)
MoreRight == Read /\ got.more => Reached(trail.rows, trail.owed, Place(got.rows[Len(got.rows)]))
EndOfList == Read /\ ~got.more => \A m \in trail.owed : m.time >= got.window[1] => Listed(trail.rows, m)
Paging == Begun /\ EndRight /\ TrailTyped /\ OwedRight /\ ReachedRight /\ MoreRight /\ EndOfList

LEMMA NothingListed ==
  /\ NoTrail.rows \in Seq(Rows) /\ NewestFirst(NoTrail.rows) /\ NoTrail.owed = {}
  /\ \A c : Reached(NoTrail.rows, NoTrail.owed, c)
<1>1. NoTrail.rows = <<>> /\ NoTrail.owed = {}
  BY DEF NoTrail
<1>2. <<>> \in Seq(Rows) /\ Len(<<>>) = 0
  OBVIOUS
<1>3. \A i \in 1..0 : FALSE
  OBVIOUS
<1> HIDE DEF NoTrail
<1> QED
  BY <1>1, <1>2, <1>3 DEF NewestFirst, Reached

\* Of a URL with `from` in the future and no `to`, Window makes one second from `from`
\* on: it moves back to the present once that has come, and the list with it.
OpenWindowsHaveBegun == \A u \in Bookmarks : OpenHasBegun(parse_explore(u), Start)

LEMMA PagingAtFirst ==
  ASSUME OpenWindowsHaveBegun PROVE Init => Paging
<1> SUFFICES ASSUME Init PROVE Paging
  OBVIOUS
<1>1. stage = 1 /\ trail = NoTrail /\ ~Read
  BY DEF Init, Read, Stages
<1>2. Begun
  BY DEF Init, Begun, OpenWindowsHaveBegun, view
<1> QED
  BY <1>1, <1>2, NothingListed
     DEF Paging, EndRight, TrailTyped, OwedRight, ReachedRight, MoreRight, EndOfList

\* A row in the slice of a window: what passes the filters, between the bounds.
LEMMA InSlice ==
  ASSUME NEW p, NEW d, IsDatabase(d), NEW w, w[1] \in Int, w[2] \in Int, NEW l, NEW m
  PROVE  m \in Matching(d, filter(p, w, l)) <=>
           m \in d.rows /\ Passes(p, d, m) /\ w[1] <= m.time /\ m.time < w[2]
<1>1. w[1] # None /\ w[2] # None
  BY NoneAssumption DEF Instants
<1>2. m \in d.rows => m.time \in Int
  BY RowsAreRows DEF IsDatabase
<1>3. SeriesFilter(filter(p, w, l), d.series[m.series])
        <=> SeriesFilter(filter(p, <<None, None>>, PAGE_LIMIT), d.series[m.series])
  BY DEF SeriesFilter, filter
<1>4. m \in d.rows => (MeasurementFilter(filter(p, w, l), m)
                       <=> w[1] <= m.time /\ m.time < w[2] /\ FieldEquals(m.body, p.body))
  <2>1. filter(p, w, l).from = w[1] /\ filter(p, w, l).to = w[2] /\ filter(p, w, l).body = p.body
    BY DEF filter
  <2> QED
    BY <1>1, <1>2, <2>1 DEF MeasurementFilter
<1> QED
  BY <1>3, <1>4 DEF Matching, Passes

\* A page that goes on with a list has its own window, which may end later than the first one did.
LEMMA ReadWindowPaging ==
  ASSUME PageRight, Paging, ReadWindow PROVE Paging'
<1> DEFINE w == Window(db, view, now)
<1>1. /\ path # API /\ stage = 1 /\ stage' = 2 /\ trail' = trail
      /\ got' = [NoData EXCEPT !.types = types(db), !.window = w, !.now = now,
                               !.bucket = bucket_nanos(w[1], w[2], SERIES_BUCKETS)]
      /\ db' = db /\ now' = now /\ path' = path /\ url' = url /\ view' = view
  BY ViewKept DEF ReadWindow, Statement, Reading
<1>2. IsView(view) /\ IsDatabase(db) /\ now \in Int
  BY ViewIsView DEF PageRight, Typed
<1> HIDE DEF w
<1>3. got'.window = w /\ got'.now = now
  BY <1>1 DEF NoData
<1>4. ~Read /\ ~Read' /\ Cursor' = Cursor
  BY <1>1 DEF Read, Stages, Cursor
<1>5. Anchored(view) => w[2] = Reach(view, now)
  BY <1>1, <1>2, WindowReaches DEF Paging, Begun, IsView, w
<1>6. ASSUME view.cursor # None, NEW m \in trail.owed PROVE m.time < w[2]
  <2>1. Owes(m)
    BY <1>1, <1>6 DEF Paging, OwedRight, Cursor
  <2>2. CASE Anchored(view)
    BY <1>1, <1>5, <2>1, <2>2 DEF Owes
  <2>3. CASE ~Anchored(view)
    <3>1. m \in db.rows /\ OfType(view, db.series[m.series])
      BY <1>1, <2>1 DEF Owes, Passes, SeriesFilter, filter, OfType
    <3> QED
      BY <1>2, <2>3, <3>1, ExtentReaches DEF Anchored, w
  <2> QED
    BY <2>2, <2>3
<1>7. EndRight'
  BY <1>1, <1>2, <1>3, <1>5, <1>6 DEF EndRight
<1>8. \A m : Owes(m)' <=> Owes(m)
  BY <1>1 DEF Owes
<1> QED
  BY <1>1, <1>4, <1>7, <1>8
     DEF Paging, Begun, TrailTyped, OwedRight, ReachedRight, MoreRight, EndOfList

\* The statements in between do not touch the list.
LEMMA StatementsPaging ==
  ASSUME PageRight, Paging, ReadFacets \/ ReadTimeline \/ ReadCharts PROVE Paging'
<1>1. /\ path # API /\ stage \in {2, 3, 4} /\ stage' = stage + 1 /\ trail' = trail
      /\ got'.window = got.window /\ got'.now = got.now
      /\ db' = db /\ now' = now /\ path' = path /\ url' = url /\ view' = view
  <2>1. CASE ReadFacets
    BY <2>1, ViewKept DEF ReadFacets, Statement, Reading, PageRight, Typed, IsData, NoData
  <2>2. CASE ReadTimeline
    BY <2>2, ViewKept DEF ReadTimeline, Statement, Reading, PageRight, Typed, IsData, NoData
  <2>3. CASE ReadCharts
    BY <2>3, ViewKept DEF ReadCharts, Statement, Reading, PageRight, Typed, IsData, NoData
  <2> QED
    BY <2>1, <2>2, <2>3
<1>2. ~Read /\ ~Read' /\ Cursor' = Cursor
  BY <1>1 DEF Read, Stages, Cursor
<1>3. \A m : Owes(m)' <=> Owes(m)
  BY <1>1 DEF Owes
<1>4. EndRight'
  BY <1>1 DEF Paging, EndRight
<1> QED
  BY <1>1, <1>2, <1>3, <1>4
     DEF Paging, Begun, TrailTyped, OwedRight, ReachedRight, MoreRight, EndOfList

-----------------------------------------------------------------------------
\* The rows a page lists, and what they are of.
LEMMA PageListed ==
  ASSUME NEW d, IsDatabase(d), NEW p, NEW w
  PROVE  LET q == filter(p, w, PAGE_LIMIT + 1)
             found == query(d, q)
             rows == First(found, PAGE_LIMIT)
         IN /\ Top(rows, Asked(d, q)) /\ Asked(d, q) \in SUBSET Rows
            /\ ~(Len(found) > PAGE_LIMIT) => \A m \in Asked(d, q) : Listed(rows, m)
<1> DEFINE q == filter(p, w, PAGE_LIMIT + 1)
           found == query(d, q)
           rows == First(found, PAGE_LIMIT)
           S == Asked(d, q)
<1>1. PAGE_LIMIT \in Nat /\ 0 < PAGE_LIMIT /\ MAX_LIMIT \in Nat /\ PAGE_LIMIT < MAX_LIMIT
  BY LimitsAssumption
<1>2. q.limit = PAGE_LIMIT + 1 /\ q.limit \in Nat /\ 1 <= q.limit /\ q.limit <= MAX_LIMIT
  BY <1>1 DEF filter
<1> HIDE DEF q
<1>3. /\ Top(found, S) /\ S \in SUBSET Rows /\ Len(found) \in Nat
      /\ Len(found) < q.limit => \A m \in S : Listed(found, m)
  BY <1>2, QueryTop DEF Listed
<1> HIDE DEF found, S
<1>4. Top(rows, S) /\ (Len(found) <= PAGE_LIMIT => rows = found)
  BY <1>1, <1>3, FirstTop
<1> HIDE DEF rows
<1>5. ~(Len(found) > PAGE_LIMIT) => Len(found) <= PAGE_LIMIT /\ Len(found) < q.limit
  BY <1>1, <1>2, <1>3
<1> QED
  BY <1>3, <1>4, <1>5 DEF rows, found, q, S

\* A page of rows is added to the list, or begins one.
LEMMA ReadRowsPaging ==
  ASSUME PageRight, Paging, ReadRows PROVE Paging'
<1> DEFINE w == got.window
           q == filter(view, w, PAGE_LIMIT + 1)
           S == Asked(db, q)
           found == query(db, q)
           rows == First(found, PAGE_LIMIT)
           more == Len(found) > PAGE_LIMIT
           Owed == Matching(db, filter(view, w, PAGE_LIMIT))
<1>1. /\ path # API /\ stage = 5 /\ stage' = 6
      /\ got' = [got EXCEPT !.rows = rows, !.more = more]
      /\ trail' = IF view.cursor = None THEN [rows |-> rows, owed |-> Owed]
                  ELSE [trail EXCEPT !.rows = @ \o rows]
      /\ db' = db /\ now' = now /\ path' = path /\ url' = url /\ view' = view
  BY ViewKept DEF ReadRows, Statement, Reading
<1>2. IsView(view) /\ IsDatabase(db) /\ now \in Int /\ got.now \in Int /\ w \in Int \X Int
  BY <1>1, ViewIsView DEF PageRight, Typed, WindowRight, WindowRead
<1>3. /\ Top(rows, S) /\ S \in SUBSET Rows
      /\ ~more => \A m \in S : Listed(rows, m)
      /\ more => 0 < Len(rows)
  BY <1>2, PageListed, PageOfRows
<1>4. \A m : m \in S <=> /\ m \in db.rows /\ Passes(view, db, m) /\ w[1] <= m.time /\ m.time < w[2]
                         /\ view.cursor = None \/ Past(m, view.cursor)
  <2>1. q.cursor = view.cursor
    BY DEF filter
  <2>2. w[1] \in Int /\ w[2] \in Int
    BY <1>2
  <2> HIDE DEF w
  <2>3. \A m : m \in Matching(db, q) <=> m \in db.rows /\ Passes(view, db, m) /\ w[1] <= m.time /\ m.time < w[2]
    BY <1>2, <2>2, InSlice
  <2> HIDE DEF q
  <2> QED
    BY <2>1, <2>3 DEF Asked, PastCursor, Past
<1>5. \A m : m \in Owed <=> m \in db.rows /\ Passes(view, db, m) /\ w[1] <= m.time /\ m.time < w[2]
  BY <1>2, InSlice
<1> HIDE DEF q, S, found, rows, more, Owed
<1>6. /\ got'.window = w /\ got'.now = got.now /\ got'.rows = rows /\ got'.more = more
  BY <1>1 DEF PageRight, Typed, IsData, NoData
<1> HIDE DEF w
<1>7. Begun' /\ EndRight' /\ Read'
  BY <1>1, <1>6 DEF Paging, Begun, EndRight, Read, Stages, w
<1>8. \A m : Owes(m)' <=> Owes(m)
  BY <1>1 DEF Owes
<1>9. CASE view.cursor = None
  <2>1. Owed = S
    BY <1>4, <1>5, <1>9
  <2>2. trail'.rows = rows /\ trail'.owed = S
    BY <1>1, <1>9, <2>1
  <2>3. /\ rows \in Seq(Rows) /\ NewestFirst(rows)
        /\ 0 < Len(rows) => Reached(rows, S, Place(rows[Len(rows)]))
    BY <1>3, FirstPage
  <2>4. \A m \in S : Owes(m)
    <3> TAKE m \in S
    <3>1. m \in db.rows /\ Passes(view, db, m) /\ m.time < w[2] /\ m.time \in Int
      BY <1>2, <1>3, <1>4, RowsAreRows
    <3>2. Anchored(view) => w[2] = Reach(view, got.now) /\ got.now <= now
      BY <1>1 DEF Paging, EndRight, w
    <3>3. Reach(view, got.now) \in Int /\ Reach(view, now) \in Int
          /\ (got.now <= now => Reach(view, got.now) <= Reach(view, now))
      BY <1>2, ReachGrows DEF IsView
    <3>4. Anchored(view) => m.time < Reach(view, now)
      BY <3>1, <3>2, <3>3
    <3> QED
      BY <1>1, <3>1, <3>4 DEF Owes
  <2>5. TrailTyped' /\ OwedRight'
    BY <1>3, <1>8, <2>2, <2>3, <2>4 DEF TrailTyped, OwedRight
  <2>6. MoreRight' /\ EndOfList'
    BY <1>3, <1>6, <2>2, <2>3 DEF MoreRight, EndOfList
  <2> QED
    BY <1>7, <2>5, <2>6 DEF Paging, ReachedRight
<1>10. CASE view.cursor # None
  <2> DEFINE c == view.cursor
             s == trail.rows
             owed == trail.owed
             v == s \o rows
  <2>1. c \in Cursors /\ s \in Seq(Rows) /\ NewestFirst(s) /\ owed \in SUBSET Rows
    BY <1>2, <1>10 DEF IsView, Paging, TrailTyped
  <2>2. Reached(s, owed, c)
    BY <1>1, <1>10 DEF Paging, ReachedRight, Read, Stages, Cursor
  <2>3. \A m \in S : Past(m, c)
    BY <1>4, <1>10
  <2>4. trail'.rows = v /\ trail'.owed = owed
    BY <1>1, <1>10 DEF PageRight, Typed, IsTrail
  <2>5. \A m \in owed : Owes(m) /\ m.time < w[2]
    BY <1>1, <1>10 DEF Paging, OwedRight, EndRight, Cursor, w
  <2> HIDE DEF c, s, owed, v
  <2>6. /\ v \in Seq(Rows) /\ NewestFirst(v)
        /\ /\ 0 < Len(rows)
           /\ \A m \in owed : Past(m, c) => m \in S \/ \A i \in 1..Len(rows) : Newer(rows[i], m)
           => Reached(v, owed, Place(rows[Len(rows)]))
        /\ (\A m \in S : Listed(rows, m))
           => \A m \in owed : Listed(v, m) \/ (Past(m, c) /\ m \notin S)
    BY <1>3, <2>1, <2>2, <2>3, PageAppended DEF v
  <2>7. \A m \in owed : Past(m, c) /\ w[1] <= m.time => m \in S
    BY <1>1, <1>4, <2>5 DEF Owes, c
  <2>8. ASSUME NEW m \in owed, Past(m, c), m \notin S
        PROVE  /\ m.time < w[1]
               /\ \A i \in 1..Len(rows) : Newer(rows[i], m)
    <3>1. m.time \in Int /\ w[1] \in Int
      BY <1>2, <2>1, RowsAreRows
    <3>2. m.time < w[1]
      BY <2>7, <2>8, <3>1
    <3>3. \A i \in 1..Len(rows) : rows[i] \in S
      BY <1>3, ElementOfSeq DEF Top
    <3>4. \A i \in 1..Len(rows) : w[1] <= rows[i].time /\ rows[i].time \in Int
      BY <1>3, <1>4, <3>3, RowsAreRows
    <3> QED
      BY <3>1, <3>2, <3>4 DEF Newer
  <2>9. TrailTyped' /\ OwedRight'
    BY <1>8, <2>1, <2>4, <2>5, <2>6 DEF TrailTyped, OwedRight
  <2>10. MoreRight'
    BY <1>3, <1>6, <2>4, <2>6, <2>8 DEF MoreRight
  <2>11. EndOfList'
    <3> SUFFICES ASSUME ~more, NEW m \in owed, m.time >= w[1] PROVE Listed(v, m)
      BY <1>6, <2>4 DEF EndOfList
    <3>1. m.time \in Int /\ w[1] \in Int
      BY <1>2, <2>1, RowsAreRows
    <3> QED
      BY <1>3, <2>6, <2>8, <3>1
  <2> QED
    BY <1>7, <2>9, <2>10, <2>11 DEF Paging, ReachedRight
<1> QED
  BY <1>9, <1>10

\* The same for the API, in one statement.
LEMMA ListPaging ==
  ASSUME PageRight, Paging, List PROVE Paging'
<1> DEFINE q == parse_query(url)
           S == Asked(db, q)
           rows == query(db, q)
           Owed == Matching(db, q)
<1>1. /\ path = API /\ stage = 1 /\ stage' = 6
      /\ got' = [NoData EXCEPT !.rows = rows, !.more = Len(rows) = q.limit]
      /\ trail' = IF q.cursor = None THEN [rows |-> rows, owed |-> Owed]
                  ELSE [trail EXCEPT !.rows = @ \o rows]
      /\ db' = db /\ now' = now /\ path' = path /\ url' = url
  BY DEF List, Stages, Reading
<1>2. IsDatabase(db) /\ IsRequest(url) /\ IsPageUrl(url)
  BY <1>1 DEF PageRight, Typed
<1>3. /\ q.limit \in Nat /\ 1 <= q.limit /\ q.limit <= MAX_LIMIT
      /\ q.cursor = url.cursor
  BY <1>2, ApiLimit DEF parse_query
<1>4. \A m : Owes(m) <=> m \in Owed
  BY <1>1 DEF Owes
<1>5. \A m : Owes(m)' <=> Owes(m)
  BY <1>1 DEF Owes
<1> HIDE DEF q
<1>6. /\ Top(rows, S) /\ S \in SUBSET Rows
      /\ Len(rows) \in Nat /\ Len(rows) <= q.limit
      /\ Len(rows) < q.limit => \A m \in S : Listed(rows, m)
  BY <1>2, <1>3, QueryTop DEF Listed
<1>7. \A m : m \in S <=> m \in Owed /\ (q.cursor = None \/ Past(m, q.cursor))
  BY DEF Asked, PastCursor, Past
<1> HIDE DEF S, rows, Owed
<1>8. /\ Len(rows) = q.limit => 0 < Len(rows)
      /\ Len(rows) # q.limit => \A m \in S : Listed(rows, m)
  BY <1>3, <1>6
<1>9. got'.rows = rows /\ got'.more = (Len(rows) = q.limit)
  BY <1>1 DEF NoData
<1>10. Begun' /\ EndRight' /\ Read'
  BY <1>1 DEF Begun, EndRight, Read, Stages
<1>11. CASE q.cursor = None
  <2>1. trail'.rows = rows /\ trail'.owed = S
    BY <1>1, <1>7, <1>11
  <2>2. /\ rows \in Seq(Rows) /\ NewestFirst(rows)
        /\ 0 < Len(rows) => Reached(rows, S, Place(rows[Len(rows)]))
    BY <1>6, FirstPage
  <2>3. TrailTyped' /\ OwedRight'
    BY <1>4, <1>5, <1>6, <1>7, <2>1, <2>2 DEF TrailTyped, OwedRight
  <2>4. MoreRight' /\ EndOfList'
    BY <1>8, <1>9, <2>1, <2>2 DEF MoreRight, EndOfList
  <2> QED
    BY <1>10, <2>3, <2>4 DEF Paging, ReachedRight
<1>12. CASE q.cursor # None
  <2> DEFINE c == q.cursor
             s == trail.rows
             owed == trail.owed
             v == s \o rows
  <2>1. c \in Cursors /\ s \in Seq(Rows) /\ NewestFirst(s) /\ owed \in SUBSET Rows
    BY <1>2, <1>3, <1>12 DEF IsPageUrl, Paging, TrailTyped
  <2>2. Reached(s, owed, c)
    BY <1>1, <1>3, <1>12 DEF Paging, ReachedRight, Read, Stages, Cursor
  <2>3. \A m \in S : Past(m, c)
    BY <1>7, <1>12
  <2>4. trail'.rows = v /\ trail'.owed = owed
    BY <1>1, <1>12 DEF PageRight, Typed, IsTrail
  <2>5. \A m \in owed : m \in Owed
    BY <1>1, <1>3, <1>4, <1>12 DEF Paging, OwedRight, Cursor
  <2> HIDE DEF c, s, owed, v
  <2>6. /\ v \in Seq(Rows) /\ NewestFirst(v)
        /\ /\ 0 < Len(rows)
           /\ \A m \in owed : Past(m, c) => m \in S \/ \A i \in 1..Len(rows) : Newer(rows[i], m)
           => Reached(v, owed, Place(rows[Len(rows)]))
        /\ (\A m \in S : Listed(rows, m))
           => \A m \in owed : Listed(v, m) \/ (Past(m, c) /\ m \notin S)
    BY <1>6, <2>1, <2>2, <2>3, PageAppended DEF v
  <2>7. \A m \in owed : Past(m, c) => m \in S
    BY <1>7, <2>5 DEF c
  <2>8. TrailTyped' /\ OwedRight'
    BY <1>4, <1>5, <2>1, <2>4, <2>5, <2>6 DEF TrailTyped, OwedRight
  <2>9. MoreRight' /\ EndOfList'
    BY <1>8, <1>9, <2>4, <2>6, <2>7 DEF MoreRight, EndOfList
  <2> QED
    BY <1>10, <2>8, <2>9 DEF Paging, ReachedRight
<1> QED
  BY <1>11, <1>12

-----------------------------------------------------------------------------
\* A link to a first page starts a list over.
LEMMA ListStartsOver ==
  ASSUME Begun', stage' = 1, trail' = NoTrail
  PROVE  Paging'
<1>1. ~Read'
  BY DEF Read, Stages
<1>2. \A c : Reached(trail'.rows, trail'.owed, c)
  BY NothingListed
<1> QED
  BY <1>1, <1>2, NothingListed
     DEF Paging, EndRight, TrailTyped, OwedRight, ReachedRight, MoreRight, EndOfList

\* No link leads to an open window that lies ahead.
LEMMA LinkHasBegun ==
  ASSUME PageRight, Begun, NEW to, NEW u, Visit(to, u), path # API, KeepsOpen(u)
  PROVE  Begun'
<1>1. path # API /\ now' = now /\ view' = parse_explore(u)
  BY DEF Visit, view
<1>2. ASSUME view'.from # None, view'.to = None PROVE view'.from < now
  <2>1. u.from # None /\ view'.from = u.from /\ u.to = None
    BY <1>1, <1>2 DEF parse_explore
  <2>2. u.from = view.from /\ view.to = None
    BY <2>1 DEF KeepsOpen
  <2> QED
    BY <1>1, <2>1, <2>2 DEF Begun, OpenHasBegun
<1> QED
  BY <1>1, <1>2 DEF Begun, OpenHasBegun

\* "older" keeps the view, and goes on where the page ended.
LEMMA OlderKeepsView ==
  ASSUME PageRight, path # API
  PROVE  LET p == parse_explore(Older) IN
         /\ p.cursor = Place(got.rows[Len(got.rows)])
         /\ p.range = view.range /\ p.from = view.from /\ p.to = view.to
         /\ p.kind = view.kind /\ p.attrs = view.attrs /\ p.body = view.body
<1> DEFINE u == Older
<1>1. IsView(view)
  BY ViewIsView DEF PageRight, Typed
<1>2. /\ u.t0 = view.kind /\ u.kind = view.kind /\ u.range = view.range /\ u.from = view.from
      /\ u.to = view.to /\ u.attrs = view.attrs /\ u.body = view.body
      /\ u.cursor = Place(got.rows[Len(got.rows)])
  BY DEF Older, current_params, Place
<1> HIDE DEF u
<1>3. LET p == parse_explore(u) IN
      /\ p.cursor = Place(got.rows[Len(got.rows)])
      /\ p.range = view.range /\ p.from = view.from /\ p.to = view.to
      /\ p.kind = view.kind /\ p.attrs = view.attrs /\ p.body = view.body
  BY <1>1, <1>2, LinkKeepsView DEF IsView
<1> QED
  BY <1>3 DEF u

\* "older" goes on with the list.
LEMMA OlderPaging ==
  ASSUME PageRight, Paging, NEW to \in {"/", "/chart"}, Visit(to, Older), path # API, got.more,
         KeepsOpen(Older)
  PROVE  Paging'
<1>1. /\ Read /\ path' = to /\ url' = Older /\ stage' = 1 /\ db' = db /\ now' = now
      /\ view' = parse_explore(Older) /\ path' # API
  BY DEF Visit, view, API
<1> DEFINE c == Place(got.rows[Len(got.rows)])
<1>2. /\ view'.cursor = c /\ view'.range = view.range /\ view'.from = view.from /\ view'.to = view.to
      /\ view'.kind = view.kind /\ view'.attrs = view.attrs /\ view'.body = view.body
  BY <1>1, OlderKeepsView
<1>3. Begun'
  BY LinkHasBegun DEF Paging
<1>4. trail' = trail
  <2>1. Older.cursor = c
    BY DEF Older, current_params, Place
  <2>2. c # None
    <3>1. got.rows[Len(got.rows)] \in Rows
      <4>1. got.rows \in Seq(Rows) /\ Len(got.rows) \in Nat /\ 0 < Len(got.rows)
        BY <1>1 DEF PageRight, RowsRight
      <4>2. Len(got.rows) \in 1..Len(got.rows)
        BY <4>1
      <4> QED
        BY <4>1, <4>2, ElementOfSeq
    <3> QED
      BY <3>1, RowsAreRows, NoneAssumption DEF Place, Cursors, Instants
  <2> QED
    BY <2>1, <2>2 DEF Visit
<1>5. ~Read' /\ Cursor' = c
  BY <1>1, <1>2 DEF Read, Stages, Cursor
<1>6. /\ SpanOf(view') = SpanOf(view) /\ (Anchored(view') <=> Anchored(view))
      /\ Reach(view', now) = Reach(view, now)
  BY <1>2 DEF SpanOf, Anchored, Reach
<1>7. \A m : Passes(view', db, m) <=> Passes(view, db, m)
  BY <1>2 DEF Passes, SeriesFilter, filter
<1>8. \A m : Owes(m) => Owes(m)'
  BY <1>1, <1>6, <1>7 DEF Owes
<1> HIDE DEF c
<1>9. TrailTyped' /\ OwedRight'
  BY <1>1, <1>4, <1>8 DEF Paging, TrailTyped, OwedRight
<1>10. ReachedRight'
  BY <1>1, <1>4, <1>5 DEF Paging, MoreRight, ReachedRight, c
<1> QED
  BY <1>1, <1>3, <1>5, <1>9, <1>10 DEF Paging, EndRight, MoreRight, EndOfList

\* The API's next page, too.
LEMMA NextPagePaging ==
  ASSUME PageRight, Paging, NextPage PROVE Paging'
<1>1. PICK u : Visit(API, u) /\ IsRequest(u) /\ u = [url EXCEPT !.cursor = next_cursor]
               /\ next_cursor # None /\ path = API
  BY NextPageVisits
<1>2. /\ Read /\ got.more /\ path' = API /\ url' = u /\ stage' = 1 /\ db' = db
      /\ next_cursor = Place(got.rows[Len(got.rows)])
  BY <1>1 DEF Visit, next_cursor, Place
<1>3. /\ u.cursor = next_cursor /\ u.types = url.types /\ u.from = url.from /\ u.to = url.to
      /\ u.attrs = url.attrs
  BY <1>1 DEF PageRight, Typed, IsRequest
<1>4. trail' = trail
  BY <1>1, <1>3 DEF Visit
<1>5. ~Read' /\ Cursor' = next_cursor
  BY <1>2, <1>3 DEF Read, Stages, Cursor
<1>6. \A m : Owes(m) => Owes(m)'
  BY <1>1, <1>2, <1>3
     DEF Owes, Matching, SeriesFilter, MeasurementFilter, parse_query
<1>7. TrailTyped' /\ OwedRight'
  BY <1>2, <1>4, <1>6 DEF Paging, TrailTyped, OwedRight
<1>8. ReachedRight'
  BY <1>2, <1>4, <1>5 DEF Paging, MoreRight, ReachedRight
<1> QED
  BY <1>2, <1>5, <1>7, <1>8 DEF Paging, Begun, EndRight, MoreRight, EndOfList

\* The writer commits, or time passes: what is owed stays owed.
LEMMA OthersPaging ==
  ASSUME PageRight, Paging, Commit \/ Tick \/ UNCHANGED vars PROVE Paging'
<1>1. UNCHANGED <<path, url, stage, got, trail>> /\ view' = view
  BY ViewKept DEF Commit, Tick, vars
<1>2. IsView(view) /\ now \in Int
  BY ViewIsView DEF PageRight, Typed
<1>3. now' \in Int /\ now <= now' /\ db'.series = db.series /\ db.rows \subseteq db'.rows
  <2>1. CASE Commit
    <3>1. PICK m \in Arriving \ db.rows : db' = [db EXCEPT !.rows = @ \cup {m}]
      BY <2>1 DEF Commit
    <3> QED
      BY <1>2, <2>1, <3>1 DEF Commit, PageRight, Typed, IsDatabase
  <2>2. CASE Tick
    BY <1>2, <2>2 DEF Tick
  <2>3. CASE UNCHANGED vars
    BY <1>2, <2>3 DEF vars
  <2> QED
    BY <2>1, <2>2, <2>3
<1>4. Begun'
  BY <1>1, <1>2, <1>3 DEF Paging, Begun, OpenHasBegun, IsView, Bound
<1>5. EndRight'
  <2>1. path # API /\ stage > 1 => got.now \in Int
    BY DEF PageRight, WindowRight
  <2> QED
    BY <1>1, <1>2, <1>3, <2>1 DEF Paging, EndRight
<1>6. OwedRight'
  <2> SUFFICES ASSUME Cursor # None \/ Read, NEW m \in trail.owed PROVE Owes(m)'
    BY <1>1 DEF OwedRight, Cursor, Read
  <2>1. Owes(m) /\ m.time \in Int
    BY RowsAreRows DEF Paging, OwedRight, TrailTyped
  <2>2. CASE path = API
    BY <1>1, <1>3, <2>1, <2>2 DEF Owes, Matching
  <2>3. CASE path # API
    <3>1. Reach(view, now) \in Int /\ Reach(view, now') \in Int /\ Reach(view, now) <= Reach(view, now')
      BY <1>2, <1>3, ReachGrows DEF IsView
    <3>2. m \in db'.rows /\ Passes(view, db', m)
      BY <1>3, <2>1, <2>3 DEF Owes, Passes
    <3>3. Anchored(view) => m.time < Reach(view, now')
      BY <2>1, <2>3, <3>1 DEF Owes
    <3> QED
      BY <1>1, <2>3, <3>2, <3>3 DEF Owes
  <2> QED
    BY <2>2, <2>3
<1> QED
  BY <1>1, <1>4, <1>5, <1>6
     DEF Paging, TrailTyped, ReachedRight, MoreRight, EndOfList, Read, Cursor

LEMMA PagingKept == PageRight /\ Paging /\ [Next]_vars => Paging'
<1> SUFFICES ASSUME PageRight, Paging, [Next]_vars PROVE Paging'
  OBVIOUS
<1>1. CASE ReadWindow \/ ReadFacets \/ ReadTimeline \/ ReadCharts
  BY <1>1, ReadWindowPaging, StatementsPaging
<1>2. CASE ReadRows \/ List
  BY <1>2, ReadRowsPaging, ListPaging
<1>3. CASE \/ PickRange \/ PickType \/ PickAttribute \/ PickLeaf \/ PickField \/ PickGroup
           \/ OlderPage \/ Step \/ OpenChart \/ Back \/ TapZone \/ ToggleSeries
  <2>1. PICK to \in {"/", "/chart"} : \E u :
          /\ Visit(to, u) /\ path # API /\ KeepsOpen(u)
          /\ u.cursor = None \/ (u = Older /\ got.more)
    BY <1>3, LinksFollowed DEF FollowsLink
  <2>2. PICK u : /\ Visit(to, u) /\ path # API /\ KeepsOpen(u)
                 /\ u.cursor = None \/ (u = Older /\ got.more)
    BY <2>1
  <2>3. CASE u.cursor = None
    BY <2>2, <2>3, LinkHasBegun, ListStartsOver DEF Paging, Visit
  <2>4. CASE u = Older /\ got.more
    BY <2>2, <2>4, OlderPaging
  <2> QED
    BY <2>2, <2>3, <2>4
<1>4. CASE NextPage
  BY <1>4, NextPagePaging
<1>5. CASE Commit \/ Tick \/ UNCHANGED vars
  BY <1>5, OthersPaging
<1> QED
  BY <1>1, <1>2, <1>3, <1>4, <1>5 DEF Next

\* What the invariant says at the end of a page.
LEMMA PagingLists == PageRight /\ Paging => PagesListOnce
<1> SUFFICES ASSUME Paging, Read
             PROVE  /\ \A i, j \in DOMAIN trail.rows : i < j => Newer(trail.rows[i], trail.rows[j])
                    /\ ~got.more => \A m \in trail.owed :
                         m.time >= got.window[1] => \E i \in DOMAIN trail.rows : trail.rows[i] = m
  BY DEF PagesListOnce
<1>1. DOMAIN trail.rows = 1..Len(trail.rows)
  BY LenProperties DEF Paging, TrailTyped
<1> QED
  BY <1>1 DEF Paging, TrailTyped, NewestFirst, EndOfList, Listed

\* Following "older" or next_cursor through build_query's pages (store/read.rs) to the
\* end lists each row of the first page's slice once, newest first, whatever is
\* committed between two pages and however the live window moves; where a URL that
\* leaves its window open is of one that has begun.
THEOREM EveryRowListedOnce ==
  ASSUME OpenWindowsHaveBegun PROVE Spec => []PagesListOnce
<1>1. Init => PageRight /\ Paging
  BY PageRightAtFirst, PagingAtFirst
<1>2. PageRight /\ Paging /\ [Next]_vars => (PageRight /\ Paging)'
  BY PageRightKept, PagingKept
<1>3. PageRight /\ Paging => PagesListOnce
  BY PagingLists
<1> QED
  BY <1>1, <1>2, <1>3, PTL DEF Spec

-----------------------------------------------------------------------------
(* The values a page offers for a filter.                                  *)
Texts == ToSet(TextOrder)
TextRank == {p \in Texts \X Texts : TextBefore(p[1], p[2])}
NumberRank == {p \in Texts \X Texts : NumberBefore(p[1], p[2])}
Elements(s) == {s[i] : i \in DOMAIN s}

\* SQLite's order of texts is one, as TextOrder has each once.
LEMMA TextsAreOrdered ==
  ASSUME NEW S \in SUBSET Texts
  PROVE  StrictOrder(S, TextRank) /\ \A x \in S : Ahead(S, TextRank, x) = {y \in S : TextBefore(y, x)}
<1>1. \A x, y \in S : x \in Texts /\ y \in Texts /\ (<<x, y>> \in TextRank <=> TextBefore(x, y))
  BY DEF TextRank
<1>2. \A i \in DOMAIN TextOrder : i \in Int
  BY TextsAssumption, LenProperties
<1>3. \A i, j \in DOMAIN TextOrder : TextOrder[i] = TextOrder[j] => i = j
  BY TextsAssumption
<1>4. \A x \in S : \E i \in DOMAIN TextOrder : TextOrder[i] = x
  BY DEF Texts, ToSet
<1>5. \A x \in S : ~TextBefore(x, x)
  BY <1>2, <1>3 DEF TextBefore
<1>6. ASSUME NEW x \in S, NEW y \in S, NEW z \in S, TextBefore(x, y), TextBefore(y, z)
      PROVE  TextBefore(x, z)
  <2>1. PICK i \in DOMAIN TextOrder, j \in DOMAIN TextOrder : i < j /\ TextOrder[i] = x /\ TextOrder[j] = y
    BY <1>6 DEF TextBefore
  <2>2. PICK k \in DOMAIN TextOrder, l \in DOMAIN TextOrder : k < l /\ TextOrder[k] = y /\ TextOrder[l] = z
    BY <1>6 DEF TextBefore
  <2>3. j = k
    BY <1>3, <2>1, <2>2
  <2>4. i < l
    BY <1>2, <2>1, <2>2, <2>3
  <2> QED
    BY <2>1, <2>2, <2>4 DEF TextBefore
<1>7. ASSUME NEW x \in S, NEW y \in S, x # y PROVE TextBefore(x, y) \/ TextBefore(y, x)
  <2>1. PICK i \in DOMAIN TextOrder : TextOrder[i] = x
    BY <1>4
  <2>2. PICK j \in DOMAIN TextOrder : TextOrder[j] = y
    BY <1>4
  <2>3. i # j
    BY <1>7, <2>1, <2>2
  <2>4. i < j \/ j < i
    BY <1>2, <2>3
  <2> QED
    BY <2>1, <2>2, <2>4 DEF TextBefore
<1>8. StrictOrder(S, TextRank)
  BY <1>1, <1>5, <1>6, <1>7 DEF StrictOrder
<1>9. \A x \in S : Ahead(S, TextRank, x) = {y \in S : TextBefore(y, x)}
  BY <1>1 DEF Ahead
<1> QED
  BY <1>8, <1>9

\* So is the order of the texts that are numbers.
LEMMA NumberTextsAreOrdered ==
  ASSUME NEW S \in SUBSET Texts, S \subseteq DOMAIN NumberOf
  PROVE  /\ StrictOrder(S, NumberRank)
         /\ \A x \in S : Ahead(S, NumberRank, x) = {y \in S : NumberBefore(y, x)}
<1>1. \A x, y \in S : /\ x \in Texts /\ y \in Texts
                      /\ (<<x, y>> \in NumberRank <=> NumberBefore(x, y))
                      /\ (<<x, y>> \in TextRank <=> TextBefore(x, y))
  BY DEF NumberRank, TextRank
<1>2. StrictOrder(S, TextRank)
  BY TextsAreOrdered
<1>3. /\ \A x \in S : ~TextBefore(x, x)
      /\ \A x, y, z \in S : TextBefore(x, y) /\ TextBefore(y, z) => TextBefore(x, z)
      /\ \A x, y \in S : x # y => TextBefore(x, y) \/ TextBefore(y, x)
  BY <1>1, <1>2 DEF StrictOrder
<1>4. \A x \in S : NumberOf[x] \in Int
  BY TextsAssumption
<1>5. \A x \in S : ~NumberBefore(x, x)
  BY <1>3, <1>4 DEF NumberBefore
<1>6. \A x, y, z \in S : NumberBefore(x, y) /\ NumberBefore(y, z) => NumberBefore(x, z)
  BY <1>3, <1>4 DEF NumberBefore
<1>7. \A x, y \in S : x # y => NumberBefore(x, y) \/ NumberBefore(y, x)
  BY <1>3, <1>4 DEF NumberBefore
<1>8. StrictOrder(S, NumberRank)
  BY <1>1, <1>5, <1>6, <1>7 DEF StrictOrder
<1>9. \A x \in S : Ahead(S, NumberRank, x) = {y \in S : NumberBefore(y, x)}
  BY <1>1 DEF Ahead
<1> QED
  BY <1>8, <1>9

\* What is a list of a set has its elements.
LEMMA ListedElements ==
  ASSUME NEW S, IsFiniteSet(S), NEW R, StrictOrder(S, R), NEW r, Lists(r, S, R)
  PROVE  IsList(r) /\ Len(r) \in Nat /\ Elements(r) = S
<1>1. /\ r \in Seq(S) /\ Len(r) = Cardinality(S)
      /\ \A x \in S : \E i \in 1..Len(r) : r[i] = x
  BY ListIsSorted
<1>2. DOMAIN r = 1..Len(r) /\ Len(r) \in Nat /\ \A i \in 1..Len(r) : r[i] \in S
  BY <1>1, LenProperties, ElementOfSeq
<1>3. Elements(r) = S
  BY <1>1, <1>2 DEF Elements
<1> QED
  BY <1>1, <1>2, <1>3, SeqIsList

\* ORDER BY over texts drops and invents nothing.
LEMMA TextsRanked ==
  ASSUME NEW S \in SUBSET Texts, IsFiniteSet(S)
  PROVE  LET r == Ranked(S, TextBefore) IN IsList(r) /\ Len(r) \in Nat /\ Elements(r) = S
<1> DEFINE n == Cardinality(S)
           P(i, x) == Cardinality({y \in S : TextBefore(y, x)}) = i - 1
           r == [i \in 1..n |-> CHOOSE x \in S : P(i, x)]
<1>1. StrictOrder(S, TextRank) /\ \A x \in S : Ahead(S, TextRank, x) = {y \in S : TextBefore(y, x)}
  BY TextsAreOrdered
<1>2. \A i \in 1..n : \E x \in S : Cardinality(Ahead(S, TextRank, x)) = i - 1
  BY <1>1, PlaceTaken
<1>3. \A i \in 1..n : \E x \in S : P(i, x)
  BY <1>1, <1>2
<1>4. \A i \in 1..n : r[i] \in S /\ P(i, r[i])
  <2> HIDE DEF P, n
  <2> TAKE i \in 1..n
  <2>1. PICK x \in S : P(i, x)
    BY <1>3
  <2> QED
    BY <2>1
<1>5. r = Ranked(S, TextBefore)
  BY DEF Ranked
<1>6. r = [i \in 1..n |-> r[i]]
  <2> HIDE DEF P
  <2> QED
    OBVIOUS
<1> HIDE DEF r
<1>7. Lists(r, S, TextRank)
  BY <1>1, <1>4, <1>6 DEF Lists
<1>8. IsList(r) /\ Len(r) \in Nat /\ Elements(r) = S
  BY <1>1, <1>7, ListedElements
<1> QED
  BY <1>5, <1>8

\* Nor does the sort by numbers.
LEMMA NumberTextsRanked ==
  ASSUME NEW S \in SUBSET Texts, S \subseteq DOMAIN NumberOf, IsFiniteSet(S)
  PROVE  Elements(Ranked(S, NumberBefore)) = S
<1> DEFINE n == Cardinality(S)
           P(i, x) == Cardinality({y \in S : NumberBefore(y, x)}) = i - 1
           r == [i \in 1..n |-> CHOOSE x \in S : P(i, x)]
<1>1. /\ StrictOrder(S, NumberRank)
      /\ \A x \in S : Ahead(S, NumberRank, x) = {y \in S : NumberBefore(y, x)}
  BY NumberTextsAreOrdered
<1>2. \A i \in 1..n : \E x \in S : Cardinality(Ahead(S, NumberRank, x)) = i - 1
  BY <1>1, PlaceTaken
<1>3. \A i \in 1..n : \E x \in S : P(i, x)
  BY <1>1, <1>2
<1>4. \A i \in 1..n : r[i] \in S /\ P(i, r[i])
  <2> HIDE DEF P, n
  <2> TAKE i \in 1..n
  <2>1. PICK x \in S : P(i, x)
    BY <1>3
  <2> QED
    BY <2>1
<1>5. r = Ranked(S, NumberBefore)
  BY DEF Ranked
<1>6. r = [i \in 1..n |-> r[i]]
  <2> HIDE DEF P
  <2> QED
    OBVIOUS
<1> HIDE DEF r
<1>7. Lists(r, S, NumberRank)
  BY <1>1, <1>4, <1>6 DEF Lists
<1>8. Elements(r) = S
  BY <1>1, <1>7, ListedElements
<1> QED
  BY <1>5, <1>8

\* sort_facet_values: the same values in another order.
LEMMA SortKeepsValues ==
  ASSUME NEW values, IsList(values), Elements(values) \in SUBSET Texts
  PROVE  Elements(sort_facet_values(values)) = Elements(values)
<1> DEFINE all == Elements(values)
<1>1. IsFiniteSet(all)
  BY ListOf, ImageFinite DEF Elements
<1>2. sort_facet_values(values) =
        IF all \subseteq DOMAIN NumberOf THEN Ranked(all, NumberBefore) ELSE Ranked(all, TextBefore)
  BY DEF sort_facet_values, Elements
<1> HIDE DEF all
<1>3. all \in SUBSET Texts
  BY DEF all
<1>4. Elements(sort_facet_values(values)) = all
  <2>1. CASE all \subseteq DOMAIN NumberOf
    BY <1>1, <1>2, <1>3, <2>1, NumberTextsRanked
  <2>2. CASE ~(all \subseteq DOMAIN NumberOf)
    BY <1>1, <1>2, <1>3, <2>2, TextsRanked
  <2> QED
    BY <2>1, <2>2
<1> QED
  BY <1>4 DEF all

\* What `offer` leaves: some of the values, or all where it says so.
LEMMA OfferOf ==
  ASSUME NEW texts, IsFiniteSet(texts), texts \ {None} \in SUBSET Texts
  PROVE  LET facet == Offer(texts)
         IN /\ IsList(facet.values)
            /\ Elements(facet.values) \subseteq texts \ {None}
            /\ facet.truncated \/ Elements(facet.values) = texts \ {None}
<1> DEFINE S == texts \ {None}
           r == Ranked(S, TextBefore)
           v == First(r, MAX_FACET_VALUES)
<1>1. IsFiniteSet(S)
  BY FS_Subset
<1>2. IsList(r) /\ Len(r) \in Nat /\ Elements(r) = S
  BY <1>1, TextsRanked
<1>3. Offer(texts) = [values |-> v, truncated |-> Len(r) > MAX_FACET_VALUES]
  BY DEF Offer
<1> HIDE DEF r, S
<1>4. /\ IsList(v)
      /\ \A i \in DOMAIN v : i \in DOMAIN r /\ v[i] = r[i]
      /\ Len(r) <= MAX_FACET_VALUES => v = r
  BY <1>2, FirstIsList, LimitsAssumption
<1> HIDE DEF v
<1>5. Elements(v) \subseteq Elements(r)
  BY <1>4 DEF Elements
<1>6. Len(r) > MAX_FACET_VALUES \/ Elements(v) = Elements(r)
  BY <1>2, <1>4, LimitsAssumption
<1>7. Offer(texts).values = v /\ Offer(texts).truncated = (Len(r) > MAX_FACET_VALUES)
  BY <1>3
<1>8. Elements(v) \subseteq texts \ {None}
  BY <1>2, <1>5 DEF S
<1>9. Offer(texts).truncated \/ Elements(v) = texts \ {None}
  BY <1>2, <1>6, <1>7 DEF S
<1> QED
  BY <1>4, <1>7, <1>8, <1>9

\* The values of a key in the slice are those its rows hold.
LEMMA SliceHolds ==
  ASSUME NEW d, IsDatabase(d), NEW q, NEW k, NEW t
  PROVE  t \in TextsIn(AttributesInSlice(d, q), k) <=> Holding(d, q, k, t)
<1> DEFINE attrs(s) == d.series[s].attrs
           Holds(s) == k \in DOMAIN attrs(s) /\ ~Nested(attrs(s), k) /\ TextOf(attrs(s), k) = t
<1>1. DOMAIN d.series = DOMAIN Catalogue /\ \A m \in d.rows : m.series \in DOMAIN Catalogue
  BY RowsAreRows DEF IsDatabase
<1>2. Holding(d, q, k, t) <=> \E m \in Matching(d, q) : Holds(m.series)
  BY DEF Holding
<1>3. t \in TextsIn(AttributesInSlice(d, q), k) <=>
        \E s \in SeriesOf(d, q) : RowsOf(d, q, s) # {} /\ Holds(s)
  BY DEF TextsIn, AttributesInSlice
<1> HIDE DEF Holds
<1>4. ASSUME NEW m \in Matching(d, q), Holds(m.series)
      PROVE  \E s \in SeriesOf(d, q) : RowsOf(d, q, s) # {} /\ Holds(s)
  <2>1. m \in d.rows /\ SeriesFilter(q, d.series[m.series]) /\ MeasurementFilter(q, m)
    BY DEF Matching
  <2>2. m.series \in SeriesOf(d, q) /\ m \in RowsOf(d, q, m.series)
    BY <1>1, <2>1 DEF SeriesOf, RowsOf
  <2> QED
    BY <1>4, <2>2
<1>5. ASSUME NEW s \in SeriesOf(d, q), RowsOf(d, q, s) # {}, Holds(s)
      PROVE  \E m \in Matching(d, q) : Holds(m.series)
  <2>1. PICK m \in d.rows : m.series = s /\ MeasurementFilter(q, m)
    BY <1>5 DEF RowsOf
  <2>2. m \in Matching(d, q)
    BY <2>1 DEF SeriesOf, Matching
  <2> QED
    BY <1>5, <2>1, <2>2
<1> QED
  BY <1>2, <1>3, <1>4, <1>5

\* And all of them are texts.
LEMMA SliceHasTexts ==
  ASSUME NEW d, IsDatabase(d), NEW q, NEW k
  PROVE  TextsIn(AttributesInSlice(d, q), k) \ {None} \in SUBSET Texts
<1> SUFFICES ASSUME NEW t \in TextsIn(AttributesInSlice(d, q), k), t # None PROVE t \in Texts
  OBVIOUS
<1>1. PICK m \in Matching(d, q) : /\ k \in DOMAIN d.series[m.series].attrs
                                  /\ ~Nested(d.series[m.series].attrs, k)
                                  /\ TextOf(d.series[m.series].attrs, k) = t
  BY SliceHolds DEF Holding
<1>2. m.series \in DOMAIN Catalogue /\ d.series = Catalogue
  BY RowsAreRows DEF Matching, IsDatabase
<1> DEFINE value == Catalogue[m.series].attrs[k]
<1>3. value.kind # "nested"
  BY <1>1, <1>2 DEF Nested
<1>4. value.kind # "null" /\ t = value.text
  BY <1>1, <1>2 DEF TextOf
<1> QED
  BY <1>1, <1>2, <1>3, <1>4, TextsAssumption DEF Texts

\* The facet of an attribute as discover_facets offers it.
LEMMA AttributeOffered ==
  ASSUME NEW d, IsDatabase(d), NEW p, NEW w, NEW limit, NEW k,
         k \in DOMAIN discover_facets(d, filter(p, w, limit)).attrs
  PROVE  LET q == filter(p, w, limit)
             facet == Offer(TextsIn(AttributesInSlice(d, Widened(q, Attribute(k))), k))
         IN discover_facets(d, q).attrs[k] = [facet EXCEPT !.values = sort_facet_values(@)]
<1> DEFINE q == filter(p, w, limit)
           wide == Widened(q, Attribute(k))
           found == facets(d, q)
           Keys(filters) == {f[1] : f \in filters}
           Sorted(facet) == [facet EXCEPT !.values = sort_facet_values(@)]
           Others(half, key) == facet_values_excluding(d, q, [half |-> half, key |-> key])
           attrs == [key \in DOMAIN found.attrs \cup Keys(q.attrs) |->
                       IF key \in Keys(q.attrs) THEN Others("attribute", key) ELSE found.attrs[key]]
           offer == Offer(TextsIn(AttributesInSlice(d, wide), k))
<1>1. discover_facets(d, q).attrs = [key \in DOMAIN attrs |-> Sorted(attrs[key])]
  BY DEF discover_facets
<1>2. k \in DOMAIN attrs
  BY <1>1
<1>3. Others("attribute", k) = offer
  BY DEF facet_values_excluding, Attribute
<1>4. ASSUME k \notin Keys(q.attrs) PROVE found.attrs[k] = offer
  <2>1. found.attrs = [key \in KeysIn(AttributesInSlice(d, q)) |->
                         Offer(TextsIn(AttributesInSlice(d, q), key))]
    BY DEF facets, attribute_facets
  <2>2. {f \in q.attrs : f[1] # k} = q.attrs
    BY <1>4
  <2>3. [q EXCEPT !.attrs = q.attrs] = q
    BY DEF filter
  <2>4. wide = q
    BY <2>2, <2>3 DEF Widened, Attribute
  <2>5. k \in KeysIn(AttributesInSlice(d, q))
    BY <1>2, <1>4, <2>1
  <2> HIDE DEF found, q, wide
  <2> QED
    BY <2>1, <2>4, <2>5
<1> HIDE DEF found, q, wide, Others, offer
<1>5. attrs[k] = offer
  BY <1>2, <1>3, <1>4
<1> HIDE DEF attrs
<1> QED
  BY <1>1, <1>2, <1>5 DEF q, offer, wide

\* So its options are the values there are without its own filter.
LEMMA OptionsOffered ==
  ASSUME NEW d, IsDatabase(d), NEW p, NEW w, NEW limit, NEW k,
         k \in DOMAIN discover_facets(d, filter(p, w, limit)).attrs
  PROVE  LET q == filter(p, w, limit)
             facet == discover_facets(d, q).attrs[k]
             values == {t \in {TextOrder[i] : i \in DOMAIN TextOrder} :
                          Holding(d, Widened(q, Attribute(k)), k, t)}
         IN /\ Options(facet) \subseteq values
            /\ facet.truncated \/ values \subseteq Options(facet)
<1> DEFINE q == filter(p, w, limit)
           wide == Widened(q, Attribute(k))
           texts == TextsIn(AttributesInSlice(d, wide), k)
           offer == Offer(texts)
           facet == discover_facets(d, q).attrs[k]
           values == {t \in {TextOrder[i] : i \in DOMAIN TextOrder} : Holding(d, wide, k, t)}
<1>1. facet = [offer EXCEPT !.values = sort_facet_values(@)]
  BY AttributeOffered
<1>2. DOMAIN offer = {"values", "truncated"}
  BY DEF Offer
<1>3. texts \ {None} \in SUBSET Texts
  BY SliceHasTexts
<1>4. IsFiniteSet(texts)
  BY ObjectsFinite, TextsFinite
<1> HIDE DEF facet, offer
<1>5. facet.values = sort_facet_values(offer.values) /\ facet.truncated = offer.truncated
  BY <1>1, <1>2
<1>6. /\ IsList(offer.values)
      /\ Elements(offer.values) \subseteq texts \ {None}
      /\ offer.truncated \/ Elements(offer.values) = texts \ {None}
  <2> HIDE DEF texts
  <2> QED
    BY <1>3, <1>4, OfferOf DEF offer
<1>7. values = texts \ {None}
  <2>1. {TextOrder[i] : i \in DOMAIN TextOrder} = Texts
    BY DEF Texts, ToSet
  <2>2. \A t : t \in texts <=> Holding(d, wide, k, t)
    BY SliceHolds
  <2>3. None \notin Texts
    BY TextsAssumption DEF Texts
  <2> HIDE DEF texts, wide
  <2> QED
    BY <1>3, <2>1, <2>2, <2>3
<1> HIDE DEF texts, values
<1>8. Elements(offer.values) \in SUBSET Texts
  BY <1>3, <1>6
<1>9. Options(facet) = Elements(offer.values)
  BY <1>5, <1>6, <1>8, SortKeepsValues DEF Options, Elements
<1> QED
  BY <1>5, <1>6, <1>7, <1>9 DEF facet, values, wide, q

\* The one step that reads them is ReadFacets.
LEMMA OptionsRead ==
  ASSUME PageRight, [Next]_vars, stage = 2, stage' = 3, view.kind # None
  PROVE  LET q == filter(view, got.window, PAGE_LIMIT)
             offered == got'.facets.attrs
         IN /\ {f[1] : f \in view.attrs} \subseteq DOMAIN offered
            /\ \A k \in DOMAIN offered :
                 LET wide == Widened(q, Attribute(k))
                     values == {t \in {TextOrder[i] : i \in DOMAIN TextOrder} : Holding(db, wide, k, t)}
                 IN /\ Options(offered[k]) \subseteq values
                    /\ offered[k].truncated \/ values \subseteq Options(offered[k])
<1> DEFINE q == filter(view, got.window, PAGE_LIMIT)
<1>1. ReadFacets
  <2>1. ~Shown /\ ~OnExplorer /\ ~OnChart /\ ~Read
    BY ReadIsSix DEF Shown, OnExplorer, OnChart
  <2>2. ~ReadWindow /\ ~ReadTimeline /\ ~ReadCharts /\ ~ReadRows
    BY DEF ReadWindow, ReadTimeline, ReadCharts, ReadRows, Statement
  <2>3. ~Commit /\ ~Tick /\ ~UNCHANGED vars
    BY DEF Commit, Tick, vars
  <2>4. ~List
    BY DEF List
  <2>5. ~(PickRange \/ PickType \/ PickAttribute \/ PickLeaf \/ PickField \/ PickGroup)
    BY <2>1 DEF PickRange, PickType, PickAttribute, PickLeaf, PickField, PickGroup
  <2>6. ~(OlderPage \/ Step \/ OpenChart \/ Back \/ TapZone \/ ToggleSeries)
    BY <2>1 DEF OlderPage, Step, OpenChart, Back, TapZone, ToggleSeries
  <2>7. ~NextPage
    <3>1. \A to, u : ~Visit(to, u)
      BY <2>1 DEF Visit
    <3> QED
      BY <3>1 DEF NextPage
  <2> QED
    BY <2>2, <2>3, <2>4, <2>5, <2>6, <2>7 DEF Next
<1>2. IsDatabase(db) /\ IsData(got)
  BY DEF PageRight, Typed
<1>3. got'.facets = discover_facets(db, q)
  BY <1>1, <1>2 DEF ReadFacets, IsData, NoData
<1>4. {f[1] : f \in view.attrs} \subseteq DOMAIN discover_facets(db, q).attrs
  <2>1. q.attrs = view.attrs
    BY DEF filter
  <2> HIDE DEF q
  <2>2. {f[1] : f \in q.attrs} \subseteq DOMAIN discover_facets(db, q).attrs
    BY DEF discover_facets
  <2> QED
    BY <2>1, <2>2
<1>5. \A k \in DOMAIN discover_facets(db, q).attrs :
        LET values == {t \in {TextOrder[i] : i \in DOMAIN TextOrder} :
                         Holding(db, Widened(q, Attribute(k)), k, t)}
        IN /\ Options(discover_facets(db, q).attrs[k]) \subseteq values
           /\ discover_facets(db, q).attrs[k].truncated
                \/ values \subseteq Options(discover_facets(db, q).attrs[k])
  BY <1>2, OptionsOffered
<1> HIDE DEF q
<1>6. /\ {f[1] : f \in view.attrs} \subseteq DOMAIN got'.facets.attrs
      /\ \A k \in DOMAIN got'.facets.attrs :
           LET values == {t \in {TextOrder[i] : i \in DOMAIN TextOrder} :
                            Holding(db, Widened(q, Attribute(k)), k, t)}
           IN /\ Options(got'.facets.attrs[k]) \subseteq values
              /\ got'.facets.attrs[k].truncated \/ values \subseteq Options(got'.facets.attrs[k])
  BY <1>3, <1>4, <1>5
<1> QED
  BY <1>6 DEF q

\* Every list of attribute values a page offers is exact: no value that leads to an empty
\* page, none missing that the list does not own up to, and a control for every filter.
THEOREM OfferedValuesAreExact == Spec => OptionsExact
<1>1. PageRight /\ [Next]_vars =>
        [stage = 2 /\ stage' = 3 /\ view.kind # None =>
           LET q == filter(view, got.window, PAGE_LIMIT)
               offered == got'.facets.attrs
           IN /\ {f[1] : f \in view.attrs} \subseteq DOMAIN offered
              /\ \A k \in DOMAIN offered :
                   LET wide == Widened(q, Attribute(k))
                       values == {t \in {TextOrder[i] : i \in DOMAIN TextOrder} : Holding(db, wide, k, t)}
                   IN /\ Options(offered[k]) \subseteq values
                      /\ offered[k].truncated \/ values \subseteq Options(offered[k])
        ]_vars
  BY OptionsRead
<1> QED
  BY <1>1, PageIsRight, PTL DEF Spec, OptionsExact
=============================================================================
