--------------------------- MODULE Filters_proofs ---------------------------
(***************************************************************************)
(* What is proved about filter expressions, of any length and over any     *)
(* names: that the grammar gives each one meaning at most, wherever it     *)
(* stands, and what this meaning is for the forms the exporters take apart *)
(* and put together.                                                       *)
(***************************************************************************)
EXTENDS Filters, SequenceLemmas

Levels == {"or", "and", "not"}

\* One turn of the recursion of MeaningsAt, for a text t and what is known
\* of its parts.
Found(t, op, i, j) == {k \in (i + 1) .. (j - 1) : t[k] = op}
OrPairs(Of, i, j, k) ==
  {l \cup r : l \in Of[<<"or", i, k - 1>>], r \in Of[<<"and", k + 1, j>>]}
AndPairs(Of, i, j, k) ==
  {l \cap r : l \in Of[<<"and", i, k - 1>>], r \in Of[<<"not", k + 1, j>>]}

Unfold(t, Of, s) ==
  CASE s[1] = "or" -> Of[<<"and", s[2], s[3]>>] \cup
         UNION {OrPairs(Of, s[2], s[3], k) : k \in Found(t, "or", s[2], s[3])}
    [] s[1] = "and" -> Of[<<"not", s[2], s[3]>>] \cup
         UNION {AndPairs(Of, s[2], s[3], k) : k \in Found(t, "and", s[2], s[3])}
    [] s[1] = "not" ->
         IF s[2] = s[3] /\ t[s[2]] \in Names THEN {{e \in Events : t[s[2]] \in e}}
         ELSE IF s[2] < s[3] /\ t[s[2]] = "not"
           THEN {Events \ m : m \in Of[<<"not", s[2] + 1, s[3]>>]}
         ELSE IF s[2] + 1 < s[3] /\ t[s[2]] = "(" /\ t[s[3]] = ")"
           THEN Of[<<"or", s[2] + 1, s[3] - 1>>]
         ELSE {}

IsReading(t, Of) ==
  Of = [s \in {"or", "and", "not"} \X (DOMAIN t) \X (DOMAIN t) |-> Unfold(t, Of, s)]

Reading(t) == CHOOSE Of : IsReading(t, Of)

\* What a text means at a level is what the reading of all its parts holds for
\* the whole.
LEMMA ReadingIs ==
  ASSUME NEW l, NEW t
  PROVE  MeaningsAt(l, t) = IF t = << >> THEN {} ELSE Reading(t)[<<l, 1, Len(t)>>]
BY DEF MeaningsAt, Reading, IsReading, Unfold, OrPairs, AndPairs, Found

(***************************************************************************)
(* The same, element by element, and for "or" and "and" in one.            *)
(***************************************************************************)
Lower(op) == IF op = "or" THEN "and" ELSE "not"
Joined(op, a, b) == IF op = "or" THEN a \cup b ELSE a \cap b

SplitAt(t, F, op, i, j, k, x) ==
  /\ t[k] = op
  /\ \E a \in F[<<op, i, k - 1>>], b \in F[<<Lower(op), k + 1, j>>] : x = Joined(op, a, b)

Splits(t, F, op, i, j, x) ==
  \E k \in (i + 1) .. (j - 1) : SplitAt(t, F, op, i, j, k, x)

InJoin(t, F, op, i, j, x) ==
  x \in F[<<Lower(op), i, j>>] \/ Splits(t, F, op, i, j, x)

InNot(t, F, i, j, x) ==
  \/ i = j /\ t[i] \in Names /\ x = {e \in Events : t[i] \in e}
  \/ i < j /\ t[i] = "not" /\ \E m \in F[<<"not", i + 1, j>>] : x = Events \ m
  \/ i + 1 < j /\ t[i] = "(" /\ t[j] = ")" /\ x \in F[<<"or", i + 1, j - 1>>]

In(t, F, l, i, j, x) ==
  IF l = "not" THEN InNot(t, F, i, j, x) ELSE InJoin(t, F, l, i, j, x)

\* A meaning of a part comes from one of the forms of the grammar, spelled out.
LEMMA UnfoldIs ==
  ASSUME NEW t, NEW F, NEW l \in Levels, NEW i \in Int, NEW j \in Int, NEW x
  PROVE  x \in Unfold(t, F, <<l, i, j>>) <=> In(t, F, l, i, j, x)
<1>1. CASE l = "or"
  <2>1. Unfold(t, F, <<l, i, j>>) = F[<<"and", i, j>>] \cup
         UNION {OrPairs(F, i, j, k) : k \in Found(t, "or", i, j)}
    BY <1>1 DEF Unfold
  <2>2. \A k : x \in OrPairs(F, i, j, k) <=>
          \E a \in F[<<"or", i, k - 1>>], b \in F[<<"and", k + 1, j>>] :
            x = Joined("or", a, b)
    BY DEF OrPairs, Joined
  <2>3. Splits(t, F, "or", i, j, x) <=>
          \E k \in Found(t, "or", i, j) : x \in OrPairs(F, i, j, k)
    BY <2>2 DEF Splits, SplitAt, Lower, Found
  <2>4. InJoin(t, F, "or", i, j, x) <=>
          x \in F[<<"and", i, j>>] \/ Splits(t, F, "or", i, j, x)
    BY DEF InJoin, Lower
  <2>5. In(t, F, l, i, j, x) <=> InJoin(t, F, "or", i, j, x)
    BY <1>1 DEF In
  <2> QED  BY <2>1, <2>3, <2>4, <2>5, Zenon
<1>2. CASE l = "and"
  <2>1. Unfold(t, F, <<l, i, j>>) = F[<<"not", i, j>>] \cup
         UNION {AndPairs(F, i, j, k) : k \in Found(t, "and", i, j)}
    BY <1>2 DEF Unfold
  <2>2. \A k : x \in AndPairs(F, i, j, k) <=>
          \E a \in F[<<"and", i, k - 1>>], b \in F[<<"not", k + 1, j>>] :
            x = Joined("and", a, b)
    BY DEF AndPairs, Joined
  <2>3. Splits(t, F, "and", i, j, x) <=>
          \E k \in Found(t, "and", i, j) : x \in AndPairs(F, i, j, k)
    BY <2>2 DEF Splits, SplitAt, Lower, Found
  <2>4. InJoin(t, F, "and", i, j, x) <=>
          x \in F[<<"not", i, j>>] \/ Splits(t, F, "and", i, j, x)
    BY DEF InJoin, Lower
  <2>5. In(t, F, l, i, j, x) <=> InJoin(t, F, "and", i, j, x)
    BY <1>2 DEF In
  <2> QED  BY <2>1, <2>3, <2>4, <2>5, Zenon
<1>3. CASE l = "not"
  <2>1. Unfold(t, F, <<l, i, j>>) =
         IF i = j /\ t[i] \in Names THEN {{e \in Events : t[i] \in e}}
         ELSE IF i < j /\ t[i] = "not"
           THEN {Events \ m : m \in F[<<"not", i + 1, j>>]}
         ELSE IF i + 1 < j /\ t[i] = "(" /\ t[j] = ")"
           THEN F[<<"or", i + 1, j - 1>>]
         ELSE {}
    BY <1>3 DEF Unfold
  <2>2. CASE i = j
    <3>1. ~(i < j) /\ ~(i + 1 < j)  BY <2>2
    <3> QED  BY <1>3, <2>1, <2>2, <3>1 DEF In, InNot
  <2>3. CASE i # j /\ i < j /\ t[i] = "not"
    BY <1>3, <2>1, <2>3 DEF In, InNot
  <2>4. CASE i # j /\ ~(i < j /\ t[i] = "not")
    BY <1>3, <2>1, <2>4 DEF In, InNot
  <2> QED  BY <2>2, <2>3, <2>4
<1> QED  BY <1>1, <1>2, <1>3 DEF Levels

(***************************************************************************)
(* What an expression means rests on shorter ones, or on the next level.   *)
(***************************************************************************)
Rank(l) == IF l = "or" THEN 2 ELSE IF l = "and" THEN 1 ELSE 0
Size(n, l, i, j) == 3 * (n + j - i) + Rank(l)

\* G says of a part of u what F says of the same words d places on in t.
SameAt(d, F, G, l, i, j) ==
  \A x : x \in G[<<l, i, j>>] <=> x \in F[<<l, i + d, j + d>>]

SameBelow(n, d, F, G, m) ==
  \A l \in Levels, i \in 1..n, j \in 1..n :
    Size(n, l, i, j) < m => SameAt(d, F, G, l, i, j)

\* ... and does not depend on where in a text the part stands.
LEMMA Transfer ==
  ASSUME NEW t, NEW u, NEW n \in Nat, NEW d \in Nat, \A p \in 1..n : u[p] = t[p + d],
         NEW F, NEW G, NEW l \in Levels, NEW i \in 1..n, NEW j \in 1..n,
         SameBelow(n, d, F, G, Size(n, l, i, j)), NEW x
  PROVE  In(u, G, l, i, j, x) <=> In(t, F, l, i + d, j + d, x)
<1>1. CASE l # "not"
  <2>0. l \in Levels /\ Lower(l) \in Levels /\ Rank(Lower(l)) = Rank(l) - 1
        /\ Rank(l) \in {1, 2}
    BY <1>1 DEF Levels, Lower, Rank
  <2>1. SameAt(d, F, G, Lower(l), i, j)
    <3>1. Size(n, Lower(l), i, j) < Size(n, l, i, j)  BY <2>0 DEF Size
    <3> QED  BY <2>0, <3>1 DEF SameBelow
  <2>2. ASSUME NEW k \in i+1 .. j-1
        PROVE  /\ k - 1 \in 1..n /\ k + 1 \in 1..n /\ k \in 1..n
               /\ SameAt(d, F, G, l, i, k - 1)
               /\ SameAt(d, F, G, Lower(l), k + 1, j)
    <3>1. k - 1 \in 1..n /\ k + 1 \in 1..n /\ k \in 1..n  OBVIOUS
    <3>2. /\ Size(n, l, i, k - 1) < Size(n, l, i, j)
          /\ Size(n, Lower(l), k + 1, j) < Size(n, l, i, j)
      BY <2>0 DEF Size
    <3> QED  BY <2>0, <3>1, <3>2 DEF SameBelow
  <2>3. ASSUME NEW k \in i+1 .. j-1, NEW p, p = k + d
        PROVE  SplitAt(u, G, l, i, j, k, x) <=> SplitAt(t, F, l, i + d, j + d, p, x)
    <3>1. u[k] = t[p]  BY <2>2, <2>3
    <3>2. p - 1 = k - 1 + d /\ p + 1 = k + 1 + d  BY <2>3
    <3>3. \A a : a \in G[<<l, i, k - 1>>] <=> a \in F[<<l, i + d, p - 1>>]
      BY <2>2, <3>2 DEF SameAt
    <3>4. \A b : b \in G[<<Lower(l), k + 1, j>>] <=> b \in F[<<Lower(l), p + 1, j + d>>]
      BY <2>2, <3>2 DEF SameAt
    <3> QED  BY <3>1, <3>3, <3>4, Zenon DEF SplitAt
  <2>4. ASSUME NEW k \in i+1 .. j-1  PROVE k + d \in i+d+1 .. j+d-1
    OBVIOUS
  <2>5. ASSUME NEW p \in i+d+1 .. j+d-1  PROVE \E k \in i+1 .. j-1 : p = k + d
    <3>1. p - d \in i+1 .. j-1 /\ p = p - d + d  OBVIOUS
    <3> QED  BY <3>1
  <2>6. x \in G[<<Lower(l), i, j>>] <=> x \in F[<<Lower(l), i + d, j + d>>]
    BY <2>1 DEF SameAt
  <2>7. Splits(u, G, l, i, j, x) <=> Splits(t, F, l, i + d, j + d, x)
    <3>1. (\E k \in i+1 .. j-1 : SplitAt(u, G, l, i, j, k, x))
          <=> (\E p \in i+d+1 .. j+d-1 : SplitAt(t, F, l, i + d, j + d, p, x))
      BY <2>3, <2>4, <2>5
    <3> QED  BY <3>1 DEF Splits
  <2> QED  BY <1>1, <2>6, <2>7 DEF In, InJoin
<1>2. CASE l = "not"
  <2>1. u[i] = t[i + d] /\ u[j] = t[j + d]  OBVIOUS
  <2>2. /\ i = j <=> i + d = j + d
        /\ i < j <=> i + d < j + d
        /\ i + 1 < j <=> i + d + 1 < j + d
        /\ i + 1 + d = i + d + 1 /\ j - 1 + d = j + d - 1
    OBVIOUS
  <2>3. ASSUME i < j  PROVE SameAt(d, F, G, "not", i + 1, j)
    <3>1. i + 1 \in 1..n /\ Size(n, "not", i + 1, j) < Size(n, l, i, j)
      BY <1>2, <2>3 DEF Size, Rank
    <3> QED  BY <3>1 DEF SameBelow, Levels
  <2>4. ASSUME i + 1 < j  PROVE SameAt(d, F, G, "or", i + 1, j - 1)
    <3>1. /\ i + 1 \in 1..n /\ j - 1 \in 1..n
          /\ Size(n, "or", i + 1, j - 1) < Size(n, l, i, j)
      BY <1>2, <2>4 DEF Size, Rank
    <3> QED  BY <3>1 DEF SameBelow, Levels
  <2>5. ASSUME i < j, NEW m
        PROVE  m \in G[<<"not", i + 1, j>>] <=> m \in F[<<"not", i + d + 1, j + d>>]
    BY <2>2, <2>3, <2>5 DEF SameAt
  <2>6. ASSUME i + 1 < j
        PROVE  x \in G[<<"or", i + 1, j - 1>>] <=> x \in F[<<"or", i + d + 1, j + d - 1>>]
    BY <2>2, <2>4, <2>6 DEF SameAt
  <2>7. InNot(u, G, i, j, x) <=> InNot(t, F, i + d, j + d, x)
    BY <2>1, <2>2, <2>5, <2>6 DEF InNot
  <2> QED  BY <1>2, <2>7 DEF In
<1> QED  BY <1>1, <1>2

(***************************************************************************)
(* There is a function as MeaningsAt chooses it.                           *)
(***************************************************************************)
LEMMA SameElements ==
  ASSUME NEW A, NEW B, \A x : x \in A <=> x \in B
  PROVE  A = B
OBVIOUS

Key(n) == Levels \X (1..n) \X (1..n)
Next1(t, F, n) == [s \in Key(n) |-> Unfold(t, F, s)]

\* F obeys the recursion for what is smaller than m.
Solved(t, n, F, m) ==
  \A l \in Levels, i \in 1..n, j \in 1..n :
    Size(n, l, i, j) < m => \A x : x \in F[<<l, i, j>>] <=> In(t, F, l, i, j, x)

\* Every part of n tokens has a size, below 6 * n.
LEMMA SizeIs ==
  ASSUME NEW n \in Nat, NEW l \in Levels, NEW i \in 1..n, NEW j \in 1..n
  PROVE  Size(n, l, i, j) \in Nat /\ Size(n, l, i, j) > 0 /\ Size(n, l, i, j) < 6 * n
<1>1. Rank(l) \in 0..2  BY DEF Rank
<1> QED  BY <1>1 DEF Size

\* Membership in the next approximation of a reading.
LEMMA NextIs ==
  ASSUME NEW t, NEW F, NEW n \in Nat, NEW l \in Levels, NEW i \in 1..n, NEW j \in 1..n,
         NEW x
  PROVE  x \in Next1(t, F, n)[<<l, i, j>>] <=> In(t, F, l, i, j, x)
<1>1. <<l, i, j>> \in Key(n)  BY DEF Key
<1>2. Next1(t, F, n)[<<l, i, j>>] = Unfold(t, F, <<l, i, j>>)  BY <1>1 DEF Next1
<1> QED  BY <1>2, UnfoldIs

\* The meanings of a part depend on those of smaller parts only.
LEMMA TransferHere ==
  ASSUME NEW t, NEW n \in Nat, NEW F, NEW G,
         NEW l \in Levels, NEW i \in 1..n, NEW j \in 1..n,
         \A k \in Levels, a \in 1..n, b \in 1..n :
           Size(n, k, a, b) < Size(n, l, i, j)
             => \A y : y \in G[<<k, a, b>>] <=> y \in F[<<k, a, b>>],
         NEW x
  PROVE  In(t, G, l, i, j, x) <=> In(t, F, l, i, j, x)
<1>0. PICK d \in Nat : d = 0  OBVIOUS
<1>1. \A p \in 1..n : p + d = p  BY <1>0
<1>2. SameBelow(n, d, F, G, Size(n, l, i, j))
  BY <1>1 DEF SameBelow, SameAt
<1>3. \A p \in 1..n : t[p] = t[p + d]  BY <1>1
<1>4. In(t, G, l, i, j, x) <=> In(t, F, l, i + d, j + d, x)
  BY <1>2, <1>3, Transfer
<1> QED  BY <1>1, <1>4

\* One more turn solves one size more.
LEMMA SolveMore ==
  ASSUME NEW t, NEW F, NEW n \in Nat, NEW m \in Nat, Solved(t, n, F, m),
         NEW G, G = Next1(t, F, n),
         NEW l \in Levels, NEW i \in 1..n, NEW j \in 1..n, Size(n, l, i, j) < m + 1,
         NEW x
  PROVE  In(t, G, l, i, j, x) <=> In(t, F, l, i, j, x)
<1>1. ASSUME NEW k \in Levels, NEW a \in 1..n, NEW b \in 1..n,
             Size(n, k, a, b) < Size(n, l, i, j), NEW y
      PROVE  y \in G[<<k, a, b>>] <=> y \in F[<<k, a, b>>]
  <2>1. Size(n, k, a, b) < m  BY <1>1, SizeIs
  <2>2. y \in F[<<k, a, b>>] <=> In(t, F, k, a, b, y)  BY <2>1 DEF Solved
  <2> QED  BY <2>2, NextIs
<1> QED  BY <1>1, TransferHere

\* By induction over sizes, the equations of a reading have a solution ...
LEMMA SolveAll ==
  ASSUME NEW t, NEW n \in Nat
  PROVE  \E F : Solved(t, n, F, 6 * n)
<1> DEFINE T == {m \in 0 .. 6 * n : \E F : Solved(t, n, F, m)}
<1>1. 0 \in T
  <2>1. Solved(t, n, {}, 0)  BY SizeIs DEF Solved
  <2> QED  BY <2>1
<1>2. ASSUME NEW m \in 0 .. 6 * n, m \in T, m + 1 \in 0 .. 6 * n  PROVE m + 1 \in T
  <2>1. PICK F : Solved(t, n, F, m)  BY <1>2
  <2>2. PICK G : G = Next1(t, F, n)  OBVIOUS
  <2>3. ASSUME NEW l \in Levels, NEW i \in 1..n, NEW j \in 1..n, Size(n, l, i, j) < m + 1,
               NEW x
        PROVE  x \in G[<<l, i, j>>] <=> In(t, G, l, i, j, x)
    <3>1. PICK k \in Nat : k = m  OBVIOUS
    <3>2. Size(n, l, i, j) < k + 1 /\ Solved(t, n, F, k)  BY <2>1, <2>3, <3>1
    <3>3. In(t, G, l, i, j, x) <=> In(t, F, l, i, j, x)
      BY <2>2, <3>2, SolveMore
    <3>4. x \in G[<<l, i, j>>] <=> In(t, F, l, i, j, x)  BY <2>2, NextIs
    <3> QED  BY <3>3, <3>4
  <2>4. Solved(t, n, G, m + 1)  BY <2>3 DEF Solved
  <2> QED  BY <1>2, <2>4
<1> HIDE DEF T
<1>3. \A m \in 0 .. 6 * n : m \in T  BY <1>1, <1>2, UpTo
<1>4. 6 * n \in T  BY <1>3
<1> QED  BY <1>4 DEF T

\* ... so that every text has a reading.
LEMMA ReadingExists ==
  ASSUME NEW t, NEW n \in Nat, DOMAIN t = 1..n
  PROVE  \E F : IsReading(t, F)
<1>1. PICK F : Solved(t, n, F, 6 * n)  BY SolveAll
<1>2. PICK G : G = Next1(t, F, n)  OBVIOUS
<1>3. ASSUME NEW s \in Key(n)  PROVE Unfold(t, F, s) = Unfold(t, G, s)
  <2>1. PICK l \in Levels, i \in 1..n, j \in 1..n : s = <<l, i, j>>  BY DEF Key
  <2>2. \A x : In(t, G, l, i, j, x) <=> In(t, F, l, i, j, x)
    <3>1. Size(n, l, i, j) < 6 * n + 1
      <4>1. Size(n, l, i, j) \in Nat /\ Size(n, l, i, j) < 6 * n  BY SizeIs
      <4> QED  BY <4>1
    <3> QED  BY <1>1, <1>2, <3>1, SolveMore
  <2>3. \A x : x \in Unfold(t, F, <<l, i, j>>) <=> x \in Unfold(t, G, <<l, i, j>>)
    BY <2>2, UnfoldIs
  <2>4. Unfold(t, F, <<l, i, j>>) = Unfold(t, G, <<l, i, j>>)
    BY <2>3, SameElements
  <2> QED  BY <2>1, <2>4
<1>4. G = [s \in Key(n) |-> Unfold(t, G, s)]
  BY <1>2, <1>3 DEF Next1
<1>5. IsReading(t, G)  BY <1>4 DEF IsReading, Key, Levels
<1> QED  BY <1>5

\* The reading of a text obeys the recursion.
LEMMA ReadingSolves ==
  ASSUME NEW t, NEW n \in Nat, DOMAIN t = 1..n,
         NEW l \in Levels, NEW i \in 1..n, NEW j \in 1..n, NEW x
  PROVE  x \in Reading(t)[<<l, i, j>>] <=> In(t, Reading(t), l, i, j, x)
<1>1. IsReading(t, Reading(t))  BY ReadingExists DEF Reading
<1>2. <<l, i, j>> \in {"or", "and", "not"} \X (DOMAIN t) \X (DOMAIN t)
  BY DEF Levels
<1>3. PICK F : F = Reading(t)  OBVIOUS
<1>4. F = [s \in {"or", "and", "not"} \X (DOMAIN t) \X (DOMAIN t) |-> Unfold(t, F, s)]
  BY <1>1, <1>3 DEF IsReading
<1>5. F[<<l, i, j>>] = Unfold(t, F, <<l, i, j>>)  BY <1>2, <1>4
<1> QED  BY <1>3, <1>5, UnfoldIs

\* The m words of u are those of t from the d-th on.
Within(u, m, t, n, d) ==
  /\ n \in Nat /\ m \in Nat /\ d \in Nat /\ m + d <= n
  /\ DOMAIN t = 1..n /\ DOMAIN u = 1..m
  /\ \A p \in 1..m : u[p] = t[p + d]

ReadsAs(u, t, d, l, i, j) ==
  Reading(u)[<<l, i, j>>] = Reading(t)[<<l, i + d, j + d>>]

\* A part of a text means what it means by itself.
LEMMA Shifted ==
  ASSUME NEW u, NEW m, NEW t, NEW n, NEW d, Within(u, m, t, n, d),
         NEW l \in Levels, NEW i \in 1..m, NEW j \in 1..m
  PROVE  ReadsAs(u, t, d, l, i, j)
<1> USE DEF Within
<1> DEFINE Same(k, a, b) == SameAt(d, Reading(t), Reading(u), k, a, b)
           Bad == {z \in Nat : \E k \in Levels, a \in 1..m, b \in 1..m :
                      z = Size(m, k, a, b) /\ ~Same(k, a, b)}
<1>1. Bad = {}
  <2> SUFFICES ASSUME Bad # {}  PROVE FALSE  OBVIOUS
  <2>1. PICK z \in Bad : \A y \in Bad : z <= y
    <3>1. Bad \subseteq Nat  OBVIOUS
    <3> HIDE DEF Bad
    <3> QED  BY <3>1, Least
  <2>2. PICK k \in Levels, a \in 1..m, b \in 1..m : z = Size(m, k, a, b) /\ ~Same(k, a, b)
    OBVIOUS
  <2>3. SameBelow(m, d, Reading(t), Reading(u), Size(m, k, a, b))
    <3> SUFFICES ASSUME NEW k2 \in Levels, NEW a2 \in 1..m, NEW b2 \in 1..m,
                        Size(m, k2, a2, b2) < Size(m, k, a, b), ~Same(k2, a2, b2)
                 PROVE  FALSE
      BY DEF SameBelow
    <3>1. Size(m, k2, a2, b2) \in Bad  BY SizeIs
    <3>2. Size(m, k2, a2, b2) \in Nat /\ z \in Nat  BY SizeIs
    <3>3. z <= Size(m, k2, a2, b2)  BY <2>1, <3>1
    <3> HIDE DEF Bad, Same
    <3> QED  BY <2>2, <3>2, <3>3
  <2>4. ASSUME NEW x
        PROVE  x \in Reading(u)[<<k, a, b>>] <=> x \in Reading(t)[<<k, a + d, b + d>>]
    <3>1. x \in Reading(u)[<<k, a, b>>] <=> In(u, Reading(u), k, a, b, x)
      BY ReadingSolves
    <3>2. a + d \in 1..n /\ b + d \in 1..n  OBVIOUS
    <3>3. x \in Reading(t)[<<k, a + d, b + d>>] <=> In(t, Reading(t), k, a + d, b + d, x)
      BY <3>2, ReadingSolves
    <3>4. In(u, Reading(u), k, a, b, x) <=> In(t, Reading(t), k, a + d, b + d, x)
      BY <2>3, Transfer
    <3> QED  BY <3>1, <3>3, <3>4
  <2> QED  BY <2>2, <2>4 DEF SameAt
<1>2. Same(l, i, j)
  <2>1. Size(m, l, i, j) \in Nat  BY SizeIs
  <2> QED  BY <1>1, <2>1
<1>3. \A x : x \in Reading(u)[<<l, i, j>>] <=> x \in Reading(t)[<<l, i + d, j + d>>]
  BY <1>2 DEF SameAt
<1> QED  BY <1>3 DEF ReadsAs

(***************************************************************************)
(* Parentheses.  D[k] is how many are open after k words.                  *)
(***************************************************************************)
Opens(w) == IF w = "(" THEN 1 ELSE IF w = ")" THEN -1 ELSE 0

Depths(t, n, D) ==
  /\ D[0] = 0
  /\ \A k \in 0..n : D[k] \in Int
  /\ \A k \in 1..n : D[k] = D[k - 1] + Opens(t[k])

\* Every text has the number of open parentheses at each place.
LEMMA DepthExists ==
  ASSUME NEW t \in Seq(Tokens), NEW n, n = Len(t)
  PROVE  \E D : Depths(t, n, D)
<1>1. n \in Nat /\ \A k \in 1..n : t[k] \in Tokens  BY LenProperties, ElementOfSeq
<1> DEFINE F == [x \in Int \X Tokens |-> x[1] + Opens(x[2])]
<1>2. PICK D : IsRun(F, 0, t, D)  BY RunExists
<1>3. D[0] = 0 /\ \A k \in 1..n : D[k] = F[<<D[k - 1], t[k]>>]
  BY <1>2 DEF IsRun
<1>4. \A d \in Int, w \in Tokens : F[<<d, w>>] = d + Opens(w) /\ F[<<d, w>>] \in Int
  BY DEF Opens
<1> HIDE DEF F
<1> DEFINE T == {k \in 0..n : D[k] \in Int}
<1>5. 0 \in T  BY <1>1, <1>3
<1>6. ASSUME NEW k \in 0..n, k \in T, k + 1 \in 0..n  PROVE k + 1 \in T
  <2>1. k + 1 \in 1..n /\ k + 1 - 1 = k  BY <1>1, <1>6
  <2>2. D[k + 1] = F[<<D[k], t[k + 1]>>]  BY <1>3, <2>1
  <2>3. D[k] \in Int /\ t[k + 1] \in Tokens  BY <1>1, <1>6, <2>1
  <2> QED  BY <1>4, <1>6, <2>2, <2>3
<1> HIDE DEF T
<1>7. \A k \in 0..n : k \in T  BY <1>1, <1>5, <1>6, UpTo
<1>8. \A k \in 0..n : D[k] \in Int  BY <1>7 DEF T
<1>9. ASSUME NEW k \in 1..n  PROVE D[k] = D[k - 1] + Opens(t[k])
  <2>1. k - 1 \in 0..n  BY <1>1
  <2> QED  BY <1>1, <1>3, <1>4, <1>8, <2>1
<1> QED  BY <1>3, <1>8, <1>9 DEF Depths

\* An operator outside all parentheses of a part of t.
OnTop(t, D, op, i, j) == \E k \in i..j : t[k] = op /\ D[k] = D[i - 1]

\* A part that means something closes what it opens and nothing else, and
\* has no operator that binds less than its level outside of parentheses.
Balanced(t, D, l, i, j) ==
  Reading(t)[<<l, i, j>>] # {} =>
    /\ i <= j
    /\ D[j] = D[i - 1]
    /\ \A k \in i..j : D[k] >= D[i - 1]
    /\ l # "or" => ~OnTop(t, D, "or", i, j)
    /\ l = "not" => ~OnTop(t, D, "and", i, j)

BalancedBelow(t, n, D, m) ==
  \A l \in Levels, i \in 1..n, j \in 1..n :
    Size(n, l, i, j) < m => Balanced(t, D, l, i, j)

\* Operands joined by an operator are balanced if smaller parts are.
LEMMA JoinBalanced ==
  ASSUME NEW t, NEW n \in Nat, DOMAIN t = 1..n, NEW D, Depths(t, n, D),
         NEW l \in Levels \ {"not"}, NEW i \in 1..n, NEW j \in 1..n,
         BalancedBelow(t, n, D, Size(n, l, i, j))
  PROVE  Balanced(t, D, l, i, j)
<1> SUFFICES ASSUME NEW x, x \in Reading(t)[<<l, i, j>>]
             PROVE  /\ i <= j
                    /\ D[j] = D[i - 1]
                    /\ \A k \in i..j : D[k] >= D[i - 1]
                    /\ l # "or" => ~OnTop(t, D, "or", i, j)
  BY DEF Balanced
<1>0. /\ l \in {"or", "and"} /\ Lower(l) \in Levels /\ Lower(l) # "or"
      /\ Rank(Lower(l)) = Rank(l) - 1 /\ Rank(l) \in {1, 2}
  BY DEF Levels, Lower, Rank
<1>1. InJoin(t, Reading(t), l, i, j, x)
  BY <1>0, ReadingSolves DEF In
<1>2. CASE x \in Reading(t)[<<Lower(l), i, j>>]
  <2>1. Size(n, Lower(l), i, j) < Size(n, l, i, j)  BY <1>0 DEF Size
  <2>2. Balanced(t, D, Lower(l), i, j)  BY <1>0, <2>1 DEF BalancedBelow
  <2> QED  BY <1>0, <1>2, <2>2 DEF Balanced
<1>3. CASE x \notin Reading(t)[<<Lower(l), i, j>>]
  <2>1. PICK k \in i+1 .. j-1 : SplitAt(t, Reading(t), l, i, j, k, x)
    BY <1>1, <1>3 DEF InJoin, Splits
  <2>2. /\ t[k] = l /\ Reading(t)[<<l, i, k - 1>>] # {}
        /\ Reading(t)[<<Lower(l), k + 1, j>>] # {}
    BY <2>1 DEF SplitAt
  <2>3. k - 1 \in 1..n /\ k + 1 \in 1..n /\ k \in 1..n  OBVIOUS
  <2>4. /\ Size(n, l, i, k - 1) < Size(n, l, i, j)
        /\ Size(n, Lower(l), k + 1, j) < Size(n, l, i, j)
    BY <1>0 DEF Size
  <2>5. Balanced(t, D, l, i, k - 1) /\ Balanced(t, D, Lower(l), k + 1, j)
    BY <1>0, <2>3, <2>4 DEF BalancedBelow
  <2>6. D[k] = D[k - 1]
    <3>1. Opens(t[k]) = 0  BY <1>0, <2>2 DEF Opens
    <3>2. PICK a \in 0..n : a = k - 1  BY <2>3
    <3>3. D[a] \in Int  BY DEF Depths
    <3>4. D[k] = D[k - 1] + Opens(t[k])  BY <2>3 DEF Depths
    <3> QED  BY <3>1, <3>2, <3>3, <3>4
  <2>7. /\ i <= k - 1 /\ D[k - 1] = D[i - 1]
        /\ \A p \in i..k-1 : D[p] >= D[i - 1]
        /\ l # "or" => ~OnTop(t, D, "or", i, k - 1)
    BY <2>2, <2>5 DEF Balanced
  <2>8. /\ k + 1 <= j /\ D[j] = D[k]
        /\ \A p \in k+1..j : D[p] >= D[k]
        /\ ~OnTop(t, D, "or", k + 1, j)
    <3>1. k + 1 - 1 = k  OBVIOUS
    <3> QED  BY <1>0, <2>2, <2>5, <3>1 DEF Balanced
  <2>9. D[k] = D[i - 1] /\ D[i - 1] \in Int
    <3>1. i - 1 \in 0..n  OBVIOUS
    <3> QED  BY <2>6, <2>7, <3>1 DEF Depths
  <2>10. ASSUME NEW p \in i..j  PROVE D[p] >= D[i - 1]
    <3>1. p \in i..k-1 \/ p = k \/ p \in k+1..j  OBVIOUS
    <3> QED  BY <2>7, <2>8, <2>9, <3>1
  <2>11. ASSUME l # "or", NEW p \in i..j, t[p] = "or", D[p] = D[i - 1]  PROVE FALSE
    <3>1. p \in i..k-1 \/ p = k \/ p \in k+1..j  OBVIOUS
    <3>2. k + 1 - 1 = k  OBVIOUS
    <3> QED  BY <2>2, <2>7, <2>8, <2>9, <2>11, <3>1, <3>2 DEF OnTop
  <2> QED  BY <2>7, <2>8, <2>9, <2>10, <2>11 DEF OnTop
<1> QED  BY <1>2, <1>3

\* A name, a negation or a group is balanced if smaller parts are.
LEMMA UnaryBalanced ==
  ASSUME NEW t, NEW n \in Nat, DOMAIN t = 1..n, NEW D, Depths(t, n, D),
         NEW i \in 1..n, NEW j \in 1..n,
         BalancedBelow(t, n, D, Size(n, "not", i, j))
  PROVE  Balanced(t, D, "not", i, j)
<1> SUFFICES ASSUME NEW x, x \in Reading(t)[<<"not", i, j>>]
             PROVE  /\ i <= j
                    /\ D[j] = D[i - 1]
                    /\ \A k \in i..j : D[k] >= D[i - 1]
                    /\ ~OnTop(t, D, "or", i, j)
                    /\ ~OnTop(t, D, "and", i, j)
  BY DEF Balanced
<1>0. "not" \in Levels /\ "or" \in Levels  BY DEF Levels
<1>1. InNot(t, Reading(t), i, j, x)
  BY <1>0, ReadingSolves DEF In
<1>2. /\ i - 1 \in 0..n /\ D[i - 1] \in Int /\ D[i] = D[i - 1] + Opens(t[i])
      /\ D[i] \in Int /\ D[j] \in Int
  BY DEF Depths
<1>3. CASE i = j /\ t[i] \in Names
  <2>1. t[i] \notin {"not", "and", "or", "(", ")"}  BY <1>3, NamesAssumption
  <2>2. D[i] = D[i - 1]  BY <1>2, <2>1 DEF Opens
  <2> QED  BY <1>3, <2>1, <2>2, <1>2 DEF OnTop
<1>4. CASE i < j /\ t[i] = "not" /\ \E m \in Reading(t)[<<"not", i + 1, j>>] : x = Events \ m
  <2>1. i + 1 \in 1..n /\ Size(n, "not", i + 1, j) < Size(n, "not", i, j)
    BY <1>4 DEF Size, Rank
  <2>2. Balanced(t, D, "not", i + 1, j)  BY <1>0, <2>1 DEF BalancedBelow
  <2>3. D[i] = D[i - 1]  BY <1>2, <1>4 DEF Opens
  <2>4. i + 1 - 1 = i  OBVIOUS
  <2>5. /\ D[j] = D[i] /\ \A k \in i+1..j : D[k] >= D[i]
        /\ ~OnTop(t, D, "or", i + 1, j) /\ ~OnTop(t, D, "and", i + 1, j)
    BY <1>4, <2>2, <2>4 DEF Balanced
  <2>6. \A k \in i..j : k = i \/ k \in i+1..j  OBVIOUS
  <2>7. \A k \in i..j : D[k] >= D[i - 1]  BY <1>2, <2>3, <2>5, <2>6
  <2>8. ASSUME NEW op \in {"or", "and"}  PROVE ~OnTop(t, D, op, i, j)
    BY <1>4, <2>3, <2>4, <2>5, <2>6 DEF OnTop
  <2> QED  BY <1>4, <2>3, <2>5, <2>7, <2>8
<1>5. CASE i + 1 < j /\ t[i] = "(" /\ t[j] = ")" /\ x \in Reading(t)[<<"or", i + 1, j - 1>>]
  <2>1. /\ i + 1 \in 1..n /\ j - 1 \in 1..n
        /\ Size(n, "or", i + 1, j - 1) < Size(n, "not", i, j)
    BY <1>5 DEF Size, Rank
  <2>2. Balanced(t, D, "or", i + 1, j - 1)  BY <1>0, <2>1 DEF BalancedBelow
  <2>3. D[i] = D[i - 1] + 1  BY <1>2, <1>5 DEF Opens
  <2>4. i + 1 - 1 = i  OBVIOUS
  <2>5. D[j - 1] = D[i] /\ \A k \in i+1..j-1 : D[k] >= D[i]
    BY <1>5, <2>2, <2>4 DEF Balanced
  <2>6. \A k \in i..j : k = i \/ k \in i+1..j-1 \/ k = j  OBVIOUS
  <2>7. D[j] = D[i - 1]
    <3>1. D[j] = D[j - 1] + Opens(t[j])  BY DEF Depths
    <3> QED  BY <1>2, <1>5, <2>3, <2>5, <3>1 DEF Opens
  <2>8. \A k \in i+1..j-1 : D[k] \in Int  BY DEF Depths
  <2>9. ASSUME NEW k \in i..j  PROVE D[k] >= D[i - 1]
    <3>1. CASE k = i  BY <1>2, <2>3, <3>1
    <3>2. CASE k \in i+1..j-1
      <4>1. D[k] >= D[i] /\ D[k] \in Int  BY <2>5, <2>8, <3>2
      <4>2. D[i - 1] \in Int /\ D[i] = D[i - 1] + 1  BY <1>2, <2>3
      <4> HIDE <1>2, <2>3
      <4> QED  BY <4>1, <4>2
    <3>3. CASE k = j  BY <1>2, <2>7, <3>3
    <3> QED  BY <2>6, <3>1, <3>2, <3>3
  <2>10. \A k \in i+1..j-1 : D[k] # D[i - 1]
    BY <1>2, <2>3, <2>5, <2>8
  <2>11. ASSUME NEW op \in {"or", "and"}  PROVE ~OnTop(t, D, op, i, j)
    BY <1>5, <2>6, <2>10 DEF OnTop
  <2> QED  BY <1>5, <2>7, <2>9, <2>11
<1> QED  BY <1>1, <1>3, <1>4, <1>5 DEF InNot

\* A part that means something closes every parenthesis it opens, and no other.
LEMMA PartsBalanced ==
  ASSUME NEW t, NEW n \in Nat, DOMAIN t = 1..n, NEW D, Depths(t, n, D),
         NEW l \in Levels, NEW i \in 1..n, NEW j \in 1..n
  PROVE  Balanced(t, D, l, i, j)
<1> DEFINE Bad == {z \in Nat : \E k \in Levels, a \in 1..n, b \in 1..n :
                      z = Size(n, k, a, b) /\ ~Balanced(t, D, k, a, b)}
<1>1. ASSUME Bad # {}  PROVE FALSE
  <2>1. PICK z \in Bad : \A y \in Bad : z <= y
    <3>1. Bad \subseteq Nat  OBVIOUS
    <3> HIDE DEF Bad
    <3> QED  BY <1>1, <3>1, Least
  <2>2. PICK k \in Levels, a \in 1..n, b \in 1..n :
           z = Size(n, k, a, b) /\ ~Balanced(t, D, k, a, b)
    OBVIOUS
  <2>3. ASSUME NEW k2 \in Levels, NEW a2 \in 1..n, NEW b2 \in 1..n,
               Size(n, k2, a2, b2) < Size(n, k, a, b), ~Balanced(t, D, k2, a2, b2)
        PROVE  FALSE
    <3>1. Size(n, k2, a2, b2) \in Nat /\ z \in Nat  BY SizeIs
    <3>2. Size(n, k2, a2, b2) \in Bad  BY <2>3, <3>1
    <3>3. z <= Size(n, k2, a2, b2)  BY <2>1, <3>2
    <3> HIDE DEF Bad
    <3> QED  BY <2>2, <2>3, <3>1, <3>3
  <2>4. BalancedBelow(t, n, D, Size(n, k, a, b))  BY <2>3 DEF BalancedBelow
  <2> QED  BY <2>2, <2>4, JoinBalanced, UnaryBalanced
<1>2. Size(n, l, i, j) \in Nat  BY SizeIs
<1> QED  BY <1>1, <1>2

(***************************************************************************)
(* The grammar is unambiguous.                                             *)
(***************************************************************************)
AtMostOne(m) == m \subseteq SUBSET Events /\ \A x \in m, y \in m : x = y

OneBelow(t, n, m) ==
  \A l \in Levels, i \in 1..n, j \in 1..n :
    Size(n, l, i, j) < m => AtMostOne(Reading(t)[<<l, i, j>>])

\* Where an expression splits.
LEMMA SplitPlace ==
  ASSUME NEW t, NEW n \in Nat, DOMAIN t = 1..n, NEW D, Depths(t, n, D),
         NEW l \in Levels \ {"not"}, NEW i \in 1..n, NEW j \in 1..n,
         NEW k \in i+1 .. j-1, NEW x, SplitAt(t, Reading(t), l, i, j, k, x)
  PROVE  /\ t[k] = l /\ D[k] = D[i - 1]
         /\ ~OnTop(t, D, l, k + 1, j)
<1>1. l \in {"or", "and"} /\ (l = "or" => Lower(l) = "and") /\ (l = "and" => Lower(l) = "not")
  BY DEF Levels, Lower
<1>2. /\ t[k] = l /\ Reading(t)[<<l, i, k - 1>>] # {}
      /\ Reading(t)[<<Lower(l), k + 1, j>>] # {}
  BY DEF SplitAt
<1>3. k - 1 \in 1..n /\ k + 1 \in 1..n /\ k \in 1..n /\ Lower(l) \in Levels
  BY <1>1 DEF Levels
<1>4. Balanced(t, D, l, i, k - 1) /\ Balanced(t, D, Lower(l), k + 1, j)
  BY <1>3, PartsBalanced
<1>5. D[k] = D[k - 1]
  <2>1. Opens(t[k]) = 0  BY <1>1, <1>2 DEF Opens
  <2>2. k - 1 \in 0..n /\ D[k - 1] \in Int  BY <1>3 DEF Depths
  <2> QED  BY <1>3, <2>1, <2>2 DEF Depths
<1> QED  BY <1>1, <1>2, <1>4, <1>5 DEF Balanced

\* Operands joined by an operator split in one way, if smaller parts do.
LEMMA JoinOne ==
  ASSUME NEW t, NEW n \in Nat, DOMAIN t = 1..n, NEW D, Depths(t, n, D),
         NEW l \in Levels \ {"not"}, NEW i \in 1..n, NEW j \in 1..n,
         OneBelow(t, n, Size(n, l, i, j))
  PROVE  AtMostOne(Reading(t)[<<l, i, j>>])
<1> DEFINE R == Reading(t)
<1>0. /\ l \in {"or", "and"} /\ Lower(l) \in Levels
      /\ (l = "or" => Lower(l) = "and") /\ (l = "and" => Lower(l) = "not")
      /\ Rank(Lower(l)) = Rank(l) - 1 /\ Rank(l) \in {1, 2}
  BY DEF Levels, Lower, Rank
<1>1. AtMostOne(R[<<Lower(l), i, j>>])
  <2>1. Size(n, Lower(l), i, j) < Size(n, l, i, j)  BY <1>0 DEF Size
  <2> QED  BY <1>0, <2>1 DEF OneBelow
<1>2. ASSUME NEW k \in i+1 .. j-1
      PROVE  AtMostOne(R[<<l, i, k - 1>>]) /\ AtMostOne(R[<<Lower(l), k + 1, j>>])
  <2>1. k - 1 \in 1..n /\ k + 1 \in 1..n  OBVIOUS
  <2>2. /\ Size(n, l, i, k - 1) < Size(n, l, i, j)
        /\ Size(n, Lower(l), k + 1, j) < Size(n, l, i, j)
    BY <1>0 DEF Size
  <2> QED  BY <1>0, <2>1, <2>2 DEF OneBelow
<1>3. ASSUME NEW k \in i+1 .. j-1, NEW x, SplitAt(t, R, l, i, j, k, x)
      PROVE  /\ x \in SUBSET Events
             /\ \A y : SplitAt(t, R, l, i, j, k, y) => x = y
  <2>1. PICK a \in R[<<l, i, k - 1>>], b \in R[<<Lower(l), k + 1, j>>] : x = Joined(l, a, b)
    BY <1>3 DEF SplitAt
  <2>2. x \in SUBSET Events
    <3>1. a \subseteq Events /\ b \subseteq Events  BY <1>2, <2>1 DEF AtMostOne
    <3> QED  BY <2>1, <3>1 DEF Joined
  <2>3. ASSUME NEW y, SplitAt(t, R, l, i, j, k, y)  PROVE x = y
    <3>1. PICK c \in R[<<l, i, k - 1>>], d \in R[<<Lower(l), k + 1, j>>] : y = Joined(l, c, d)
      BY <2>3 DEF SplitAt
    <3>2. a = c /\ b = d  BY <1>2, <2>1, <3>1 DEF AtMostOne
    <3> QED  BY <2>1, <3>1, <3>2
  <2> QED  BY <2>2, <2>3
<1>4. ASSUME NEW k \in i+1 .. j-1, NEW x, SplitAt(t, R, l, i, j, k, x),
             NEW y, y \in R[<<Lower(l), i, j>>]
      PROVE  FALSE
  <2>1. Balanced(t, D, Lower(l), i, j)  BY <1>0, PartsBalanced
  <2>2. ~OnTop(t, D, l, i, j)  BY <1>0, <1>4, <2>1 DEF Balanced
  <2>3. t[k] = l /\ D[k] = D[i - 1]  BY <1>4, SplitPlace
  <2>4. k \in i..j  OBVIOUS
  <2> QED  BY <2>2, <2>3, <2>4 DEF OnTop
<1>5. ASSUME NEW k \in i+1 .. j-1, NEW x, SplitAt(t, R, l, i, j, k, x),
             NEW p \in i+1 .. j-1, NEW y, SplitAt(t, R, l, i, j, p, y), k < p
      PROVE  FALSE
  <2>1. ~OnTop(t, D, l, k + 1, j) /\ D[k] = D[i - 1]  BY <1>5, SplitPlace
  <2>2. t[p] = l /\ D[p] = D[i - 1]  BY <1>5, SplitPlace
  <2>3. p \in k+1..j /\ k + 1 - 1 = k  BY <1>5
  <2> QED  BY <2>1, <2>2, <2>3 DEF OnTop
<1>6. ASSUME NEW x, x \in R[<<l, i, j>>]
      PROVE  x \in R[<<Lower(l), i, j>>] \/ \E k \in i+1 .. j-1 : SplitAt(t, R, l, i, j, k, x)
  <2>1. In(t, R, l, i, j, x)  BY <1>6, ReadingSolves
  <2> QED  BY <1>0, <2>1 DEF In, InJoin, Splits
<1>7. ASSUME NEW x, x \in R[<<l, i, j>>]  PROVE x \in SUBSET Events
  BY <1>1, <1>3, <1>6, <1>7 DEF AtMostOne
<1>8. ASSUME NEW x, x \in R[<<l, i, j>>], NEW y, y \in R[<<l, i, j>>]  PROVE x = y
  <2>1. CASE x \in R[<<Lower(l), i, j>>] /\ y \in R[<<Lower(l), i, j>>]
    BY <1>1, <2>1 DEF AtMostOne
  <2>2. CASE x \notin R[<<Lower(l), i, j>>] /\ y \notin R[<<Lower(l), i, j>>]
    <3>1. PICK k \in i+1 .. j-1 : SplitAt(t, R, l, i, j, k, x)  BY <1>6, <1>8, <2>2
    <3>2. PICK p \in i+1 .. j-1 : SplitAt(t, R, l, i, j, p, y)  BY <1>6, <1>8, <2>2
    <3>3. ~(k < p) /\ ~(p < k)
      <4> HIDE DEF R
      <4> QED  BY <1>5, <3>1, <3>2
    <3>4. k = p  BY <3>3
    <3> QED  BY <1>3, <3>1, <3>2, <3>4
  <2>3. CASE x \in R[<<Lower(l), i, j>>] /\ y \notin R[<<Lower(l), i, j>>]
    BY <1>4, <1>6, <1>8, <2>3
  <2>4. CASE x \notin R[<<Lower(l), i, j>>] /\ y \in R[<<Lower(l), i, j>>]
    BY <1>4, <1>6, <1>8, <2>4
  <2> QED  BY <2>1, <2>2, <2>3, <2>4
<1> QED  BY <1>7, <1>8 DEF AtMostOne

\* A name, a negation or a group is of one form only.
LEMMA UnaryOne ==
  ASSUME NEW t, NEW n \in Nat, DOMAIN t = 1..n,
         NEW i \in 1..n, NEW j \in 1..n, OneBelow(t, n, Size(n, "not", i, j))
  PROVE  AtMostOne(Reading(t)[<<"not", i, j>>])
<1> DEFINE R == Reading(t)
<1>0. "not" \in Levels /\ "or" \in Levels  BY DEF Levels
<1>1. ASSUME NEW x, x \in R[<<"not", i, j>>]  PROVE InNot(t, R, i, j, x)
  BY <1>0, <1>1, ReadingSolves DEF In
<1>2. ASSUME i < j  PROVE AtMostOne(R[<<"not", i + 1, j>>])
  <2>1. i + 1 \in 1..n /\ Size(n, "not", i + 1, j) < Size(n, "not", i, j)
    BY <1>2 DEF Size, Rank
  <2> QED  BY <1>0, <2>1 DEF OneBelow
<1>3. ASSUME i + 1 < j  PROVE AtMostOne(R[<<"or", i + 1, j - 1>>])
  <2>1. /\ i + 1 \in 1..n /\ j - 1 \in 1..n
        /\ Size(n, "or", i + 1, j - 1) < Size(n, "not", i, j)
    BY <1>3 DEF Size, Rank
  <2> QED  BY <1>0, <2>1 DEF OneBelow
<1> HIDE DEF R
<1>4. ASSUME NEW x, InNot(t, R, i, j, x)  PROVE x \in SUBSET Events
  BY <1>2, <1>3, <1>4 DEF InNot, AtMostOne
<1>5. ASSUME NEW x, InNot(t, R, i, j, x), NEW y, InNot(t, R, i, j, y)  PROVE x = y
  <2>1. CASE i = j
    <3>1. ~(i < j) /\ ~(i + 1 < j)  BY <2>1
    <3> QED  BY <1>5, <3>1 DEF InNot
  <2>2. CASE i # j /\ t[i] = "not"
    <3>1. i < j  BY <1>5, <2>2 DEF InNot
    <3> QED  BY <1>2, <1>5, <2>2, <3>1 DEF InNot, AtMostOne
  <2>3. CASE i # j /\ t[i] # "not"
    <3>1. i + 1 < j  BY <1>5, <2>3 DEF InNot
    <3> QED  BY <1>3, <1>5, <2>3, <3>1 DEF InNot, AtMostOne
  <2> QED  BY <2>1, <2>2, <2>3
<1> QED  BY <1>1, <1>4, <1>5 DEF AtMostOne, R

\* No part of a text has two meanings.
LEMMA PartsOne ==
  ASSUME NEW t, NEW n \in Nat, DOMAIN t = 1..n, NEW D, Depths(t, n, D),
         NEW l \in Levels, NEW i \in 1..n, NEW j \in 1..n
  PROVE  AtMostOne(Reading(t)[<<l, i, j>>])
<1> DEFINE Good(k, a, b) == AtMostOne(Reading(t)[<<k, a, b>>])
           Bad == {z \in Nat : \E k \in Levels, a \in 1..n, b \in 1..n :
                      z = Size(n, k, a, b) /\ ~Good(k, a, b)}
<1>1. ASSUME Bad # {}  PROVE FALSE
  <2>1. PICK z \in Bad : \A y \in Bad : z <= y
    <3>1. Bad \subseteq Nat  OBVIOUS
    <3> HIDE DEF Bad
    <3> QED  BY <1>1, <3>1, Least
  <2>2. PICK k \in Levels, a \in 1..n, b \in 1..n :
           z = Size(n, k, a, b) /\ ~Good(k, a, b)
    OBVIOUS
  <2>3. ASSUME NEW k2 \in Levels, NEW a2 \in 1..n, NEW b2 \in 1..n,
               Size(n, k2, a2, b2) < Size(n, k, a, b), ~Good(k2, a2, b2)
        PROVE  FALSE
    <3>1. Size(n, k2, a2, b2) \in Nat /\ z \in Nat  BY SizeIs
    <3>2. Size(n, k2, a2, b2) \in Bad  BY <2>3, <3>1
    <3>3. z <= Size(n, k2, a2, b2)  BY <2>1, <3>2
    <3> HIDE DEF Bad, Good
    <3> QED  BY <2>2, <2>3, <3>1, <3>3
  <2>4. OneBelow(t, n, Size(n, k, a, b))  BY <2>3 DEF OneBelow
  <2>5. CASE k = "not"  BY <2>2, <2>4, <2>5, UnaryOne
  <2>6. CASE k # "not"  BY <2>2, <2>4, <2>6, JoinOne
  <2> QED  BY <2>5, <2>6
<1>2. Size(n, l, i, j) \in Nat  BY SizeIs
<1> QED  BY <1>1, <1>2

(***************************************************************************)
(* Back to sequences.                                                      *)
(***************************************************************************)
LEMMA Domain ==
  ASSUME NEW t \in Seq(Tokens), t # << >>
  PROVE  /\ Len(t) \in Nat /\ Len(t) >= 1 /\ DOMAIN t = 1..Len(t)
         /\ \A i \in 1..Len(t) : t[i] \in Tokens
BY EmptySeq, LenProperties, ElementOfSeq

\* The grammar is not ambiguous: an expression, whatever its length, has one
\* meaning at most, and it is a set of events.
THEOREM MeaningsOne ==
  ASSUME NEW t \in Seq(Tokens), NEW l \in Levels
  PROVE  AtMostOne(MeaningsAt(l, t))
<1>1. CASE t = << >>  BY <1>1, ReadingIs DEF AtMostOne
<1>2. CASE t # << >>
  <2>1. PICK n \in Nat : n = Len(t) /\ DOMAIN t = 1..n /\ n >= 1  BY <1>2, Domain
  <2>2. PICK D : Depths(t, n, D)  BY <2>1, DepthExists
  <2>3. 1 \in 1..n /\ n \in 1..n  BY <2>1
  <2>4. AtMostOne(Reading(t)[<<l, 1, n>>])  BY <2>1, <2>2, <2>3, PartsOne
  <2> QED  BY <1>2, <2>1, <2>4, ReadingIs
<1> QED  BY <1>1, <1>2

\* What means something closes its parentheses.
LEMMA MeaningsClose ==
  ASSUME NEW t \in Seq(Tokens), NEW l \in Levels, MeaningsAt(l, t) # {},
         NEW n, n = Len(t), NEW D, Depths(t, n, D)
  PROVE  D[n] = 0
<1>1. t # << >> /\ Reading(t)[<<l, 1, n>>] # {}  BY ReadingIs
<1>2. n \in Nat /\ DOMAIN t = 1..n /\ n >= 1  BY <1>1, Domain
<1>3. 1 \in 1..n /\ n \in 1..n  BY <1>2
<1>4. Balanced(t, D, l, 1, n)  BY <1>2, <1>3, PartsBalanced
<1>5. D[n] = D[1 - 1]  BY <1>1, <1>4 DEF Balanced
<1>6. 1 - 1 = 0  OBVIOUS
<1> QED  BY <1>5, <1>6 DEF Depths

\* A part of a text, taken out of it.
LEMMA PartMeans ==
  ASSUME NEW t \in Seq(Tokens), t # << >>, NEW l \in Levels,
         NEW a \in 1..Len(t), NEW b \in 1..Len(t), a <= b
  PROVE  /\ SubSeq(t, a, b) \in Seq(Tokens)
         /\ MeaningsAt(l, SubSeq(t, a, b)) = Reading(t)[<<l, a, b>>]
<1>1. PICK n \in Nat : n = Len(t) /\ DOMAIN t = 1..n  BY Domain
<1>2. PICK u : u = SubSeq(t, a, b)  OBVIOUS
<1>3. PICK m \in Nat : m = b - a + 1  OBVIOUS
<1>4. PICK d \in Nat : d = a - 1  BY <1>1
<1>5. /\ u \in Seq(Tokens) /\ Len(u) = m
      /\ \A p \in 1..m : u[p] = t[a + p - 1]
  <2>1. \A i \in a..b : t[i] \in Tokens  BY <1>1, Domain
  <2>2. a \in Int /\ b \in Int  BY <1>1
  <2> QED  BY <1>2, <1>3, <2>1, <2>2, SubSeqProperties
<1>6. m >= 1 /\ m + d = b /\ 1 + d = a /\ m + d <= n  BY <1>1, <1>3, <1>4
<1>7. u # << >> /\ DOMAIN u = 1..m  BY <1>5, <1>6, EmptySeq, LenProperties
<1>8. \A p \in 1..m : u[p] = t[p + d]
  <2>1. \A p \in 1..m : a + p - 1 = p + d  BY <1>1, <1>4
  <2> QED  BY <1>5, <2>1
<1>9. 1 \in 1..m /\ m \in 1..m  BY <1>6
<1>10. Reading(u)[<<l, 1, m>>] = Reading(t)[<<l, 1 + d, m + d>>]
  <2>1. Within(u, m, t, n, d)  BY <1>1, <1>6, <1>7, <1>8 DEF Within
  <2>2. ReadsAs(u, t, d, l, 1, m)  BY <1>9, <2>1, Shifted
  <2> QED  BY <2>2 DEF ReadsAs
<1> QED  BY <1>2, <1>5, <1>6, <1>7, <1>10, ReadingIs

\* What binds most is an expression of the other levels, too.
LEMMA Ladder ==
  ASSUME NEW t \in Seq(Tokens), NEW l \in Levels \ {"not"}
  PROVE  MeaningsAt(Lower(l), t) \subseteq MeaningsAt(l, t)
<1> SUFFICES ASSUME NEW x \in MeaningsAt(Lower(l), t)  PROVE x \in MeaningsAt(l, t)
  OBVIOUS
<1>1. t # << >>  BY ReadingIs
<1>2. PICK n \in Nat : n = Len(t) /\ DOMAIN t = 1..n /\ n >= 1  BY <1>1, Domain
<1>3. 1 \in 1..n /\ n \in 1..n  BY <1>2
<1>4. x \in Reading(t)[<<Lower(l), 1, n>>]  BY <1>1, <1>2, ReadingIs
<1>5. In(t, Reading(t), l, 1, n, x)  BY <1>4 DEF In, InJoin
<1>6. x \in Reading(t)[<<l, 1, n>>]  BY <1>2, <1>3, <1>5, ReadingSolves
<1> QED  BY <1>1, <1>2, <1>6, ReadingIs

\* What is a unary expression means what it does as one, and is well formed.
LEMMA UnaryMeans ==
  ASSUME NEW t \in Seq(Tokens), IsUnary(t)
  PROVE  Meanings(t) = MeaningsAt("not", t) /\ WellFormed(t)
<1>0. /\ "or" \in Levels \ {"not"} /\ "and" \in Levels \ {"not"}
      /\ Lower("or") = "and" /\ Lower("and") = "not"
  BY DEF Levels, Lower
<1>1. MeaningsAt("not", t) \subseteq MeaningsAt("and", t)  BY <1>0, Ladder
<1>2. MeaningsAt("and", t) \subseteq MeaningsAt("or", t)  BY <1>0, Ladder
<1>3. PICK x : x \in MeaningsAt("not", t)  BY DEF IsUnary
<1>4. \A y \in MeaningsAt("or", t) : y = x
  BY <1>0, <1>1, <1>2, <1>3, MeaningsOne DEF AtMostOne
<1> QED  BY <1>1, <1>2, <1>3, <1>4 DEF Meanings, WellFormed

(***************************************************************************)
(* The three forms of what nothing is joined to.                           *)
(***************************************************************************)
LEMMA UnaryForms ==
  ASSUME NEW t \in Seq(Tokens), t # << >>, NEW n, n = Len(t), NEW x
  PROVE  x \in MeaningsAt("not", t) <=>
           \/ n = 1 /\ t[1] \in Names /\ x = {e \in Events : t[1] \in e}
           \/ /\ n > 1 /\ t[1] = "not"
              /\ \E m \in MeaningsAt("not", SubSeq(t, 2, n)) : x = Events \ m
           \/ /\ n > 2 /\ t[1] = "(" /\ t[n] = ")"
              /\ x \in MeaningsAt("or", SubSeq(t, 2, n - 1))
<1>0. "not" \in Levels /\ "or" \in Levels  BY DEF Levels
<1>1. n \in Nat /\ DOMAIN t = 1..n /\ n >= 1 /\ 1 \in 1..n /\ n \in 1..n  BY Domain
<1>2. x \in MeaningsAt("not", t) <=> InNot(t, Reading(t), 1, n, x)
  <2>1. x \in MeaningsAt("not", t) <=> x \in Reading(t)[<<"not", 1, n>>]
    BY ReadingIs
  <2>2. x \in Reading(t)[<<"not", 1, n>>] <=> In(t, Reading(t), "not", 1, n, x)
    BY <1>0, <1>1, ReadingSolves
  <2> QED  BY <2>1, <2>2 DEF In
<1>3. ASSUME n > 1  PROVE MeaningsAt("not", SubSeq(t, 2, n)) = Reading(t)[<<"not", 1 + 1, n>>]
  <2>1. 2 \in 1..n /\ 2 <= n /\ 1 + 1 = 2  BY <1>1, <1>3
  <2> QED  BY <1>0, <1>1, <2>1, PartMeans
<1>4. ASSUME n > 2
      PROVE  MeaningsAt("or", SubSeq(t, 2, n - 1)) = Reading(t)[<<"or", 1 + 1, n - 1>>]
  <2>1. 2 \in 1..n /\ n - 1 \in 1..n /\ 2 <= n - 1 /\ 1 + 1 = 2  BY <1>1, <1>4
  <2> QED  BY <1>0, <1>1, <2>1, PartMeans
<1>5. (1 = n <=> n = 1) /\ (1 < n <=> n > 1) /\ (1 + 1 < n <=> n > 2)  BY <1>1
<1> QED  BY <1>2, <1>3, <1>4, <1>5 DEF InNot

NotAround(s, t, n) ==
  /\ s \in Seq(Tokens) /\ Len(s) = n + 3 /\ s # << >>
  /\ s[1] = "not" /\ s[2] = "(" /\ s[n + 3] = ")"
  /\ \A p \in 1..n : s[p + 2] = t[p]

\* The words of NOT ( ... ), by their places.
LEMMA NegatedWords ==
  ASSUME NEW t \in Seq(Tokens), NEW n, n = Len(t), NEW s, s = Negated(t)
  PROVE  NotAround(s, t, n)
<1>1. n \in Nat  BY LenProperties
<1>2. PICK a \in Seq(Tokens) : a = <<"not", "(">>
  <2>1. <<"not", "(">> \in Seq(Tokens)  BY DEF Tokens
  <2> QED  BY <2>1
<1>3. PICK c \in Seq(Tokens) : c = <<")">>
  <2>1. <<")">> \in Seq(Tokens)  BY DEF Tokens
  <2> QED  BY <2>1
<1>4. Len(a) = 2 /\ a[1] = "not" /\ a[2] = "(" /\ Len(c) = 1 /\ c[1] = ")"
  BY <1>2, <1>3
<1>5. PICK b \in Seq(Tokens) : b = a \o t  BY ConcatProperties
<1>6. Len(b) = n + 2 /\ \A p \in 1..n+2 : b[p] = IF p <= 2 THEN a[p] ELSE t[p - 2]
  <2>1. /\ Len(a \o t) = Len(a) + Len(t)
        /\ \A p \in 1..Len(a) + Len(t) :
             (a \o t)[p] = IF p <= Len(a) THEN a[p] ELSE t[p - Len(a)]
    BY ConcatProperties
  <2>2. Len(a) + Len(t) = n + 2  BY <1>1, <1>4
  <2> QED  BY <1>4, <1>5, <2>1, <2>2
<1>7. s = b \o c  BY <1>2, <1>3, <1>5 DEF Negated
<1>8. /\ s \in Seq(Tokens) /\ Len(s) = n + 3
      /\ \A p \in 1..n+3 : s[p] = IF p <= n + 2 THEN b[p] ELSE c[p - (n + 2)]
  <2>1. /\ b \o c \in Seq(Tokens) /\ Len(b \o c) = Len(b) + Len(c)
        /\ \A p \in 1..Len(b) + Len(c) :
             (b \o c)[p] = IF p <= Len(b) THEN b[p] ELSE c[p - Len(b)]
    BY ConcatProperties
  <2>2. Len(b) + Len(c) = n + 3  BY <1>1, <1>4, <1>6
  <2> QED  BY <1>6, <1>7, <2>1, <2>2
<1>9. ASSUME NEW p \in 1..n  PROVE s[p + 2] = t[p]
  <2>1. p + 2 \in 1..n+3 /\ p + 2 <= n + 2 /\ p + 2 \in 1..n+2 /\ ~(p + 2 <= 2)
        /\ p + 2 - 2 = p
    BY <1>1
  <2> QED  BY <1>6, <1>8, <2>1
<1>10. s[1] = "not" /\ s[2] = "("
  <2>1. 1 \in 1..n+3 /\ 2 \in 1..n+3 /\ 1 \in 1..n+2 /\ 2 \in 1..n+2 /\ 1 <= n + 2 /\ 2 <= n + 2
    BY <1>1
  <2> QED  BY <1>4, <1>6, <1>8, <2>1
<1>11. s[n + 3] = ")"
  <2>1. n + 3 \in 1..n+3 /\ ~(n + 3 <= n + 2) /\ n + 3 - (n + 2) = 1  BY <1>1
  <2> QED  BY <1>4, <1>8, <2>1
<1>12. s # << >>  BY <1>1, <1>8, EmptySeq
<1> QED  BY <1>8, <1>9, <1>10, <1>11, <1>12 DEF NotAround

Complements(m) == {Events \ x : x \in m}

\* The negation of a group means the complement.
LEMMA NegatedMeans ==
  ASSUME NEW t \in Seq(Tokens), t # << >>
  PROVE  /\ MeaningsAt("not", Negated(t)) = Complements(Meanings(t))
         /\ WellFormed(t) => Meanings(Negated(t)) = Complements(Meanings(t))
<1>1. PICK n \in Nat : n = Len(t) /\ DOMAIN t = 1..n /\ n >= 1  BY Domain
<1>2. PICK s : s = Negated(t)  OBVIOUS
<1>14. /\ s \in Seq(Tokens) /\ Len(s) = n + 3 /\ s # << >>
       /\ s[1] = "not" /\ s[2] = "(" /\ s[n + 3] = ")"
       /\ \A p \in 1..n : s[p + 2] = t[p]
  <2>1. NotAround(s, t, n)  BY <1>1, <1>2, NegatedWords
  <2> QED  BY <2>1 DEF NotAround
<1> DEFINE R == Reading(s)
<1>3. PICK m \in Nat : m = n + 3 /\ DOMAIN s = 1..m  BY <1>14, Domain
<1>4. /\ 1 \in 1..m /\ 2 \in 1..m /\ m \in 1..m /\ 1 < m /\ 2 < m /\ 2 + 1 < m
      /\ n + 2 <= m /\ 1 + 2 = 2 + 1 /\ n + 2 = m - 1 /\ 1 \in 1..n /\ n \in 1..n
  BY <1>1, <1>3
<1>5. "not" \in Levels /\ "or" \in Levels  BY DEF Levels
<1>6. Reading(t)[<<"or", 1, n>>] = R[<<"or", 2 + 1, m - 1>>]
  <2>1. Reading(t)[<<"or", 1, n>>] = R[<<"or", 1 + 2, n + 2>>]
    <3>1. PICK d \in Nat : d = 2  OBVIOUS
    <3>2. n + d <= m /\ \A p \in 1..n : t[p] = s[p + d]  BY <1>4, <1>14, <3>1
    <3>3. Reading(t)[<<"or", 1, n>>] = Reading(s)[<<"or", 1 + d, n + d>>]
      <4>1. DOMAIN s = 1..m /\ DOMAIN t = 1..n  BY <1>1, <1>3
      <4>2. 1 \in 1..n /\ n \in 1..n  BY <1>4
      <4>3. PICK l \in Levels : l = "or"  BY <1>5
      <4>4. Within(t, n, s, m, d)  BY <3>2, <4>1 DEF Within
      <4>5. ReadsAs(t, s, d, l, 1, n)  BY <4>2, <4>4, Shifted
      <4>6. Reading(t)[<<l, 1, n>>] = Reading(s)[<<l, 1 + d, n + d>>]
        BY <4>5 DEF ReadsAs
      <4> QED  BY <4>3, <4>6
    <3> QED  BY <3>1, <3>3
  <2> QED  BY <1>4, <2>1
<1>7. \A x : x \in R[<<"not", 2, m>>] <=> x \in R[<<"or", 2 + 1, m - 1>>]
  <2>1. \A x : x \in R[<<"not", 2, m>>] <=> InNot(s, R, 2, m, x)
    BY <1>3, <1>4, <1>5, ReadingSolves DEF In
  <2>2. s[2] = "(" /\ s[m] = ")" /\ 2 # m  BY <1>3, <1>4, <1>14
  <2>3. \A x : InNot(s, R, 2, m, x) <=> x \in R[<<"or", 2 + 1, m - 1>>]
    BY <1>4, <2>2 DEF InNot
  <2> QED  BY <2>1, <2>3
<1>8. \A x : x \in R[<<"not", 1, m>>] <=> \E y \in R[<<"not", 1 + 1, m>>] : x = Events \ y
  <2>1. \A x : x \in R[<<"not", 1, m>>] <=> InNot(s, R, 1, m, x)
    BY <1>3, <1>4, <1>5, ReadingSolves DEF In
  <2>2. s[1] = "not" /\ 1 # m  BY <1>4, <1>14
  <2>3. \A x : InNot(s, R, 1, m, x) <=> \E y \in R[<<"not", 1 + 1, m>>] : x = Events \ y
    BY <1>4, <2>2 DEF InNot
  <2> QED  BY <2>1, <2>3
<1>9. MeaningsAt("not", s) = R[<<"not", 1, m>>]  BY <1>3, <1>14, ReadingIs
<1>10. Meanings(t) = Reading(t)[<<"or", 1, n>>]  BY <1>1, ReadingIs DEF Meanings
<1> HIDE DEF R
<1>11. \A x : x \in MeaningsAt("not", s) <=> \E y \in Meanings(t) : x = Events \ y
  <2>1. \A y : y \in R[<<"not", 2, m>>] <=> y \in Meanings(t)
    BY <1>6, <1>7, <1>10
  <2>2. 1 + 1 = 2  OBVIOUS
  <2>3. \A x : x \in MeaningsAt("not", s) <=> \E y \in R[<<"not", 2, m>>] : x = Events \ y
    BY <1>8, <1>9, <2>2
  <2> QED  BY <2>1, <2>3
<1>12. MeaningsAt("not", s) = Complements(Meanings(t))  BY <1>11 DEF Complements
<1>13. ASSUME WellFormed(t)  PROVE Meanings(s) = Complements(Meanings(t))
  <2>1. IsUnary(s)  BY <1>12, <1>13, <1>14 DEF WellFormed, Complements, IsUnary
  <2> QED  BY <1>12, <1>14, <2>1, UnaryMeans
<1> QED  BY <1>2, <1>12, <1>13

(***************************************************************************)
(* What the exporters take apart.                                          *)
(***************************************************************************)
\* The words after the first.
LEMMA TailWords ==
  ASSUME NEW t \in Seq(Tokens), Len(t) > 1
  PROVE  /\ Tail(t) \in Seq(Tokens) /\ Tail(t) = SubSeq(t, 2, Len(t))
         /\ Len(Tail(t)) = Len(t) - 1 /\ Tail(t) # << >>
         /\ \A i \in 1..Len(t)-1 : Tail(t)[i] = t[i + 1]
<1>1. t # << >> /\ Len(t) \in Nat  BY EmptySeq, LenProperties
<1>2. /\ Tail(t) \in Seq(Tokens) /\ Len(Tail(t)) = Len(t) - 1
      /\ \A i \in 1..Len(Tail(t)) : Tail(t)[i] = t[i + 1]
  BY <1>1, HeadTailProperties
<1>3. Tail(t) = SubSeq(t, 2, Len(t))  BY <1>1, TailIsSubSeq
<1>4. Tail(t) # << >>
  <2>0. PICK k \in Nat : k = Len(t) - 1 /\ k # 0  BY <1>1
  <2>1. k = Len(Tail(t))  BY <1>2, <2>0
  <2>2. Len(<< >>) = 0  BY EmptySeq
  <2>3. Tail(t) = << >> => Len(Tail(t)) = 0  BY <2>2, Zenon
  <2> QED  BY <2>0, <2>1, <2>3
<1> QED  BY <1>1, <1>2, <1>3, <1>4

\* The words between the first and the last.
LEMMA InnerWords ==
  ASSUME NEW r \in Seq(Tokens), Len(r) > 2
  PROVE  Front(Tail(r)) = SubSeq(r, 2, Len(r) - 1)
<1>1. PICK n \in Nat : n = Len(r) /\ n > 2 /\ n - 1 > 0  BY LenProperties
<1>2. \A i \in 1..n : r[i] \in Tokens  BY <1>1, ElementOfSeq
<1>3. PICK s \in Seq(Tokens) : /\ s = Tail(r) /\ Len(s) = n - 1
                               /\ \A i \in 1..n-1 : s[i] = r[i + 1]
  <2>1. Len(r) > 1  BY <1>1
  <2>2. /\ Tail(r) \in Seq(Tokens) /\ Len(Tail(r)) = n - 1
        /\ \A i \in 1..n-1 : Tail(r)[i] = r[i + 1]
    BY <1>1, <2>1, TailWords
  <2>3. PICK s : s = Tail(r)  OBVIOUS
  <2>4. /\ s \in Seq(Tokens) /\ Len(s) = n - 1
        /\ \A i \in 1..n-1 : s[i] = r[i + 1]
    BY <2>2, <2>3
  <2> QED  BY <2>3, <2>4
<1>4. PICK a \in Seq(Tokens) : /\ a = SubSeq(s, 1, n - 1 - 1) /\ Len(a) = n - 2
                               /\ \A i \in 1..n-2 : a[i] = s[i]
  <2>1. PICK k \in Int : k = n - 1 - 1 /\ k = n - 2 /\ k >= 1  BY <1>1
  <2>2. \A i \in 1..k : s[i] \in Tokens  BY <1>2, <1>3, <2>1
  <2>3. /\ SubSeq(s, 1, k) \in Seq(Tokens) /\ Len(SubSeq(s, 1, k)) = k
        /\ \A i \in 1..k : SubSeq(s, 1, k)[i] = s[i]
    <3>1. k - 1 + 1 = k /\ \A i \in 1..k : 1 + i - 1 = i  BY <2>1
    <3> QED  BY <2>1, <2>2, <3>1, SubSeqProperties
  <2> QED  BY <2>1, <2>3
<1>5. PICK b \in Seq(Tokens) : /\ b = SubSeq(r, 2, n - 1) /\ Len(b) = n - 2
                               /\ \A i \in 1..n-2 : b[i] = r[i + 1]
  <2>1. PICK k \in Int : k = n - 1 /\ k >= 2 /\ k - 2 + 1 = n - 2  BY <1>1
  <2>2. \A i \in 2..k : r[i] \in Tokens  BY <1>2, <2>1
  <2>3. /\ SubSeq(r, 2, k) \in Seq(Tokens) /\ Len(SubSeq(r, 2, k)) = n - 2
        /\ \A i \in 1..n-2 : SubSeq(r, 2, k)[i] = r[2 + i - 1]
    BY <2>1, <2>2, SubSeqProperties
  <2>4. \A i \in 1..n-2 : 2 + i - 1 = i + 1  BY <1>1
  <2> QED  BY <2>1, <2>3, <2>4
<1>6. \A i \in 1..n-2 : a[i] = b[i]  BY <1>1, <1>3, <1>4, <1>5
<1>7. a = b  BY <1>4, <1>5, <1>6, SeqEqual
<1> QED  BY <1>1, <1>3, <1>4, <1>5, <1>7 DEF Front

\* A `not` in front that negates all there is.
LEMMA NotInFront ==
  ASSUME NEW t \in Seq(Tokens), IsUnary(t), t[1] = "not"
  PROVE  /\ Len(t) > 1 /\ IsUnary(Tail(t))
         /\ Meanings(t) = Complements(Meanings(Tail(t)))
<1>1. t # << >>  BY ReadingIs DEF IsUnary
<1>2. PICK n \in Nat : n = Len(t)  BY <1>1, Domain
<1>3. "not" \notin Names  BY NamesAssumption
<1>4. \A x : x \in MeaningsAt("not", t) <=>
               n > 1 /\ \E m \in MeaningsAt("not", SubSeq(t, 2, n)) : x = Events \ m
  BY <1>1, <1>2, <1>3, UnaryForms
<1>5. n > 1 /\ MeaningsAt("not", SubSeq(t, 2, n)) # {}  BY <1>4 DEF IsUnary
<1>6. Tail(t) = SubSeq(t, 2, n) /\ Tail(t) \in Seq(Tokens)  BY <1>2, <1>5, TailWords
<1>7. IsUnary(Tail(t))  BY <1>5, <1>6 DEF IsUnary
<1>8. Meanings(t) = MeaningsAt("not", t) /\ Meanings(Tail(t)) = MeaningsAt("not", Tail(t))
  BY <1>6, <1>7, UnaryMeans
<1>9. \A x : x \in Meanings(t) <=> \E m \in Meanings(Tail(t)) : x = Events \ m
  <2>1. MeaningsAt("not", SubSeq(t, 2, n)) = Meanings(Tail(t))
    BY <1>6, <1>8
  <2>2. PICK M : M = Meanings(Tail(t)) /\ M = MeaningsAt("not", SubSeq(t, 2, n))
    BY <2>1
  <2>3. \A x : x \in MeaningsAt("not", t) <=> \E m \in M : x = Events \ m
    BY <1>4, <1>5, <2>2
  <2> QED  BY <1>8, <2>2, <2>3
<1>10. Meanings(t) = Complements(Meanings(Tail(t)))  BY <1>9 DEF Complements
<1>11. Len(t) > 1  BY <1>2, <1>5
<1> QED  BY <1>7, <1>10, <1>11

\* A group.
LEMMA GroupForm ==
  ASSUME NEW r \in Seq(Tokens), IsUnary(r), r[1] = "("
  PROVE  /\ Len(r) > 2 /\ r[Len(r)] = ")"
         /\ SubSeq(r, 2, Len(r) - 1) \in Seq(Tokens)
         /\ WellFormed(SubSeq(r, 2, Len(r) - 1))
         /\ Meanings(r) = Meanings(SubSeq(r, 2, Len(r) - 1))
<1>1. r # << >>  BY ReadingIs DEF IsUnary
<1>2. PICK n \in Nat : n = Len(r)  BY <1>1, Domain
<1>3. "(" \notin Names  BY NamesAssumption
<1>4. \A x : x \in MeaningsAt("not", r) <=>
               n > 2 /\ r[n] = ")" /\ x \in MeaningsAt("or", SubSeq(r, 2, n - 1))
  BY <1>1, <1>2, <1>3, UnaryForms
<1>5. n > 2 /\ r[n] = ")" /\ MeaningsAt("or", SubSeq(r, 2, n - 1)) # {}
  BY <1>4 DEF IsUnary
<1>6. SubSeq(r, 2, n - 1) \in Seq(Tokens)
  <2>1. 2 \in 1..n /\ n - 1 \in 1..n /\ 2 <= n - 1  BY <1>5
  <2> QED  BY <1>1, <1>2, <2>1, PartMeans DEF Levels
<1>7. MeaningsAt("not", r) = MeaningsAt("or", SubSeq(r, 2, n - 1))
  BY <1>4, <1>5
<1> QED  BY <1>2, <1>5, <1>6, <1>7, UnaryMeans DEF Meanings, WellFormed

\* A text that ends in a parenthesis means nothing without it.
LEMMA WithoutItsEnd ==
  ASSUME NEW r \in Seq(Tokens), NEW l \in Levels, MeaningsAt(l, r) # {},
         Len(r) > 1, r[Len(r)] = ")"
  PROVE  /\ Front(r) \in Seq(Tokens)
         /\ \A k \in Levels : MeaningsAt(k, Front(r)) = {}
<1>1. PICK n \in Nat : n = Len(r) /\ n > 1  BY LenProperties
<1>2. PICK D : Depths(r, n, D)  BY <1>1, DepthExists
<1>3. D[n] = 0  BY <1>1, <1>2, MeaningsClose
<1>4. D[n - 1] = 1
  <2>1. n \in 1..n /\ n - 1 \in 0..n  BY <1>1
  <2>2. D[n] = D[n - 1] + Opens(r[n]) /\ D[n - 1] \in Int  BY <1>2, <2>1 DEF Depths
  <2>3. Opens(r[n]) = -1  BY <1>1 DEF Opens
  <2> QED  BY <1>3, <2>2, <2>3
<1>5. PICK f : f = Front(r)  OBVIOUS
<1>6. /\ f \in Seq(Tokens) /\ Len(f) = n - 1
      /\ \A i \in 1..n-1 : f[i] = r[i]
  <2>1. PICK k \in Int : k = n - 1 /\ k >= 1  BY <1>1
  <2>2. \A i \in 1..k : r[i] \in Tokens  BY <1>1, <2>1, ElementOfSeq
  <2>3. /\ SubSeq(r, 1, k) \in Seq(Tokens) /\ Len(SubSeq(r, 1, k)) = k
        /\ \A i \in 1..k : SubSeq(r, 1, k)[i] = r[i]
    <3>1. k - 1 + 1 = k /\ \A i \in 1..k : 1 + i - 1 = i  BY <2>1
    <3> QED  BY <2>1, <2>2, <3>1, SubSeqProperties
  <2> QED  BY <1>1, <1>5, <2>1, <2>3 DEF Front
<1>7. Depths(f, n - 1, D)
  <2>1. \A k \in 0..n-1 : k \in 0..n  BY <1>1
  <2>2. \A k \in 1..n-1 : k \in 1..n  BY <1>1
  <2> QED  BY <1>2, <1>6, <2>1, <2>2 DEF Depths
<1>8. ASSUME NEW k \in Levels, MeaningsAt(k, f) # {}  PROVE FALSE
  <2>1. PICK m : m = n - 1 /\ m = Len(f)  BY <1>6
  <2>2. D[m] = 0  BY <1>6, <1>7, <1>8, <2>1, MeaningsClose
  <2> QED  BY <1>4, <2>1, <2>2
<1> QED  BY <1>5, <1>6, <1>8

\* export-splunk of a Sigma record: one meaning, and if a `not` in front
\* negates all there is, or there is none, the one that the filter has.
LEMMA SigmaClause ==
  ASSUME NEW t \in Seq(Tokens), WellFormed(t), t[1] = "not" => IsUnary(t),
         NEW apart, SplunkClauseOfSigma(t, apart) # {}
  PROVE  SplunkClauseOfSigma(t, apart) = Meanings(t)
<1>1. CASE ~apart \/ t[1] # "not"
  BY <1>1 DEF SplunkClauseOfSigma, StripNot
<1>2. CASE apart /\ t[1] = "not"
  <2>1. Len(t) > 1 /\ IsUnary(Tail(t)) /\ Meanings(t) = Complements(Meanings(Tail(t)))
    BY <1>2, NotInFront
  <2>2. PICK r \in Seq(Tokens) : r = Tail(t)  BY <2>1, TailWords
  <2>3. PICK n \in Nat : n = Len(r)  BY LenProperties
  <2> DEFINE s == IF r[1] = "(" /\ n > 1 THEN Tail(r) ELSE r
             inner == IF r[n] = ")" /\ n > 1 THEN Front(s) ELSE s
  <2>4. SplunkClauseOfSigma(t, apart) = Complements(Meanings(inner))
    <3>1. StripNot(t, apart) = [inner |-> inner, had |-> TRUE]
      BY <1>2, <2>1, <2>2, <2>3 DEF StripNot, Last
    <3> QED  BY <3>1 DEF SplunkClauseOfSigma, Complements
  <2>5. Meanings(inner) # {}  BY <2>4 DEF Complements
  <2>6. CASE r[1] = "("
    <3>1. n > 2 /\ r[n] = ")" /\ Meanings(r) = Meanings(SubSeq(r, 2, n - 1))
      BY <2>1, <2>2, <2>3, <2>6, GroupForm
    <3>2. Front(Tail(r)) = SubSeq(r, 2, n - 1)  BY <2>3, <3>1, InnerWords
    <3>3. inner = SubSeq(r, 2, n - 1)  BY <2>6, <3>1, <3>2
    <3> QED  BY <2>1, <2>2, <2>4, <3>1, <3>3
  <2>7. CASE r[1] # "(" /\ r[n] = ")" /\ n > 1
    <3>1. inner = Front(r)  BY <2>7
    <3>2. MeaningsAt("not", r) # {}  BY <2>1, <2>2 DEF IsUnary
    <3>3. MeaningsAt("or", Front(r)) = {}
      BY <2>3, <2>7, <3>2, WithoutItsEnd DEF Levels
    <3> QED  BY <2>5, <3>1, <3>3 DEF Meanings
  <2>8. CASE r[1] # "(" /\ ~(r[n] = ")" /\ n > 1)
    <3>1. inner = r  BY <2>8
    <3> QED  BY <2>1, <2>2, <2>4, <3>1
  <2> QED  BY <2>6, <2>7, <2>8
<1> QED  BY <1>1, <1>2

\* A name or a group, with or without a `not` in front, can be compiled.
LEMMA NegationCompiles ==
  ASSUME NEW t \in Seq(Tokens), NEW apart, WellFormed(t),
         t[1] = "not" => t[2] # "not" /\ IsUnary(Tail(t))
  PROVE  SplunkClauseOfSigma(t, apart) # {}
<1>1. CASE ~apart \/ t[1] # "not"
  BY <1>1 DEF SplunkClauseOfSigma, StripNot, WellFormed
<1>2. CASE apart /\ t[1] = "not"
  <2>1. Len(t) > 1
    <3>1. t # << >>  BY ReadingIs DEF WellFormed, Meanings
    <3>2. PICK k \in Nat : k = Len(t) /\ k >= 1  BY <3>1, Domain
    <3>3. Len(Tail(t)) = k - 1 /\ Tail(t) \in Seq(Tokens)
      BY <3>1, <3>2, HeadTailProperties
    <3>4. Tail(t) # << >>  BY <1>2, ReadingIs DEF IsUnary
    <3>5. k - 1 # 0  BY <3>3, <3>4, EmptySeq
    <3> QED  BY <3>2, <3>5
  <2>2. PICK r \in Seq(Tokens) : r = Tail(t) /\ r # << >> /\ r[1] = t[2]
    <3>1. 1 \in 1..Len(t)-1 /\ 1 + 1 = 2  BY <2>1, LenProperties
    <3> QED  BY <2>1, <3>1, TailWords
  <2>3. PICK n \in Nat : n = Len(r)  BY LenProperties
  <2> DEFINE s == IF r[1] = "(" /\ n > 1 THEN Tail(r) ELSE r
             inner == IF r[n] = ")" /\ n > 1 THEN Front(s) ELSE s
  <2>4. SplunkClauseOfSigma(t, apart) = Complements(Meanings(inner))
    <3>1. StripNot(t, apart) = [inner |-> inner, had |-> TRUE]
      BY <1>2, <2>1, <2>2, <2>3 DEF StripNot, Last
    <3> QED  BY <3>1 DEF SplunkClauseOfSigma, Complements
  <2>5. IsUnary(r) /\ r[1] # "not"  BY <1>2, <2>2
  <2>6. CASE r[1] = "("
    <3>1. n > 2 /\ r[n] = ")" /\ WellFormed(SubSeq(r, 2, n - 1))
      BY <2>3, <2>5, <2>6, GroupForm
    <3>2. Front(Tail(r)) = SubSeq(r, 2, n - 1)  BY <2>3, <3>1, InnerWords
    <3>3. inner = SubSeq(r, 2, n - 1)  BY <2>6, <3>1, <3>2
    <3> QED  BY <2>4, <3>1, <3>3 DEF Complements, WellFormed
  <2>7. CASE r[1] # "("
    <3>1. n = 1
      <4>1. PICK x : x \in MeaningsAt("not", r)  BY <2>5 DEF IsUnary
      <4> QED  BY <2>2, <2>3, <2>5, <2>7, <4>1, UnaryForms
    <3>2. inner = r  BY <2>7, <3>1
    <3>3. Meanings(r) # {}  BY <2>5, UnaryMeans DEF WellFormed
    <3> QED  BY <2>4, <3>2, <3>3 DEF Complements
  <2> QED  BY <2>6, <2>7
<1> QED  BY <1>1, <1>2

\* Without its own NOT a filter is still a text of tokens.
LEMMA StripWords ==
  ASSUME NEW t \in Seq(Tokens), NEW apart
  PROVE  StripNot(t, apart).inner \in Seq(Tokens)
<1>1. CASE apart /\ Len(t) > 1 /\ t[1] = "not"
  <2>1. PICK r \in Seq(Tokens) : r = Tail(t) /\ r # << >>  BY <1>1, TailWords
  <2> DEFINE s == IF r[1] = "(" /\ Len(r) > 1 THEN Tail(r) ELSE r
  <2>2. s \in Seq(Tokens) /\ s # << >>  BY <2>1, TailWords
  <2>3. Front(s) \in Seq(Tokens)
    <3> HIDE DEF s
    <3> QED  BY <2>2, FrontLast
  <2>4. StripNot(t, apart).inner = IF Last(r) = ")" /\ Len(r) > 1 THEN Front(s) ELSE s
    BY <1>1, <2>1 DEF StripNot
  <2> QED  BY <2>2, <2>3, <2>4
<1>2. CASE ~(apart /\ Len(t) > 1 /\ t[1] = "not")  BY <1>2 DEF StripNot
<1> QED  BY <1>1, <1>2

\* The clause made of a Sigma condition never has two meanings.
LEMMA SigmaClauseOne ==
  ASSUME NEW t \in Seq(Tokens), NEW apart, SplunkClauseOfSigma(t, apart) # {}
  PROVE  \E m \in SUBSET Events : SplunkClauseOfSigma(t, apart) = {m}
<1>1. PICK u \in Seq(Tokens) : u = StripNot(t, apart).inner  BY StripWords
<1>2. AtMostOne(Meanings(u))  BY MeaningsOne DEF Meanings, Levels
<1>3. SplunkClauseOfSigma(t, apart) = Complements(Meanings(u)) \/ SplunkClauseOfSigma(t, apart) = Meanings(u)
  BY <1>1 DEF SplunkClauseOfSigma, Complements
<1>4. Meanings(u) # {}  BY <1>3 DEF Complements
<1>5. PICK m \in SUBSET Events : Meanings(u) = {m}
  BY <1>2, <1>4 DEF AtMostOne
<1>6. Complements(Meanings(u)) = {Events \ m} /\ Events \ m \in SUBSET Events
  BY <1>5 DEF Complements
<1> QED  BY <1>3, <1>5, <1>6

\* export-kql.
LEMMA KqlClauseIs ==
  ASSUME NEW t \in Seq(Tokens), WellFormed(t)
  PROVE  KqlClause(t) = {Events \ m : m \in Meanings(t)}
<1>1. t # << >>  BY ReadingIs DEF WellFormed, Meanings
<1> QED  BY <1>1, NegatedMeans DEF KqlClause, Complements

\* export-splunk of a Splunk record, with the NOT around all of the filter.
LEMMA SplunkClauseWithNot ==
  ASSUME NEW t \in Seq(Tokens), IsUnary(t), t[1] = "not", t[2] = "("
  PROVE  SplunkClause(t) = {Events \ m : m \in Meanings(SubSeq(t, 3, Len(t) - 1))}
<1>1. Len(t) > 1 /\ IsUnary(Tail(t))  BY NotInFront
<1>2. PICK n \in Nat : n = Len(t) /\ n > 1  BY <1>1, LenProperties
<1>3. PICK r \in Seq(Tokens) : r = Tail(t) /\ Len(r) = n - 1 /\ \A i \in 1..n-1 : r[i] = t[i + 1]
  BY <1>2, TailWords
<1>4. r[1] = "("
  <2>1. 1 \in 1..n-1 /\ 1 + 1 = 2  BY <1>2
  <2> QED  BY <1>3, <2>1
<1>5. /\ Len(r) > 2 /\ r[Len(r)] = ")"
      /\ SubSeq(r, 2, Len(r) - 1) \in Seq(Tokens) /\ WellFormed(SubSeq(r, 2, Len(r) - 1))
  BY <1>1, <1>3, <1>4, GroupForm
<1>6. n > 3 /\ t[n] = ")"
  <2>1. n > 3  BY <1>2, <1>3, <1>5
  <2>2. n - 1 \in 1..n-1 /\ n - 1 + 1 = n  BY <1>2
  <2> QED  BY <1>3, <1>5, <2>1, <2>2
<1>7. SubSeq(r, 2, n - 1 - 1) = SubSeq(t, 3, n - 1)
  <2>1. \A i \in 1..n : t[i] \in Tokens  BY <1>2, ElementOfSeq
  <2>2. PICK k \in Int : k = n - 1 /\ k >= 3 /\ k - 3 + 1 = n - 3  BY <1>2, <1>6
  <2>3. PICK j \in Int : j = n - 1 - 1 /\ j >= 2 /\ j - 2 + 1 = n - 3  BY <1>2, <1>6
  <2>4. PICK a \in Seq(Tokens) : /\ a = SubSeq(t, 3, k) /\ Len(a) = n - 3
                                 /\ \A i \in 1..n-3 : a[i] = t[i + 2]
    <3>1. \A i \in 3..k : t[i] \in Tokens  BY <2>1, <2>2
    <3>2. /\ SubSeq(t, 3, k) \in Seq(Tokens) /\ Len(SubSeq(t, 3, k)) = n - 3
          /\ \A i \in 1..n-3 : SubSeq(t, 3, k)[i] = t[3 + i - 1]
      BY <2>2, <3>1, SubSeqProperties
    <3>3. \A i \in 1..n-3 : 3 + i - 1 = i + 2  BY <1>2
    <3> QED  BY <3>2, <3>3
  <2>5. PICK b \in Seq(Tokens) : /\ b = SubSeq(r, 2, j) /\ Len(b) = n - 3
                                 /\ \A i \in 1..n-3 : b[i] = r[i + 1]
    <3>1. \A i \in 2..j : r[i] \in Tokens  BY <1>3, <2>1, <2>3
    <3>2. /\ SubSeq(r, 2, j) \in Seq(Tokens) /\ Len(SubSeq(r, 2, j)) = n - 3
          /\ \A i \in 1..n-3 : SubSeq(r, 2, j)[i] = r[2 + i - 1]
      BY <2>3, <3>1, SubSeqProperties
    <3>3. \A i \in 1..n-3 : 2 + i - 1 = i + 1  BY <1>2
    <3> QED  BY <3>2, <3>3
  <2>6. ASSUME NEW i \in 1..n-3  PROVE a[i] = b[i]
    <3>1. i + 1 \in 1..n-1 /\ i + 1 + 1 = i + 2  BY <1>2
    <3> QED  BY <1>3, <2>4, <2>5, <3>1
  <2>7. a = b
    <3>1. PICK m : m = n - 3  OBVIOUS
    <3>2. Len(a) = m /\ Len(b) = m /\ \A i \in 1..m : a[i] = b[i]
      BY <2>4, <2>5, <2>6, <3>1
    <3> QED  BY <3>2, SeqEqual
  <2> QED  BY <2>2, <2>3, <2>4, <2>5, <2>7
<1>8. PICK u \in Seq(Tokens) : u = SubSeq(t, 3, n - 1) /\ WellFormed(u)
  BY <1>3, <1>5, <1>7
<1>9. NormalizeSplunkFilter(t) = u
  BY <1>2, <1>6, <1>8 DEF NormalizeSplunkFilter, Last
<1>10. u # << >>  BY <1>8, ReadingIs DEF WellFormed, Meanings
<1> QED  BY <1>2, <1>8, <1>9, <1>10, NegatedMeans DEF SplunkClause, Complements

\* ... and with another filter, or none around it.
LEMMA SplunkClauseWithout ==
  ASSUME NEW t \in Seq(Tokens), WellFormed(t), ~(t[1] = "not" /\ t[2] = "(")
  PROVE  SplunkClause(t) = {Events \ m : m \in Meanings(t)}
<1>1. t # << >>  BY ReadingIs DEF WellFormed, Meanings
<1>2. NormalizeSplunkFilter(t) = t  BY DEF NormalizeSplunkFilter
<1> QED  BY <1>1, <1>2, NegatedMeans DEF SplunkClause, Complements

(***************************************************************************)
(* export-elastic-exception: the parts between one "and" and the next.     *)
(***************************************************************************)
PartsSoFar == Seq(Seq(Tokens)) \ {<< >>}
AddTokenF == [x \in PartsSoFar \X Tokens |-> AddToken(x[1], x[2])]

\* What a token does to the last of the parts.
LEMMA AddTokenIs ==
  ASSUME NEW f \in Seq(Seq(Tokens)), NEW l \in Seq(Tokens), NEW tok \in Tokens
  PROVE  AddToken(Append(f, l), tok) =
           IF tok = "and" THEN Append(Append(f, l), << >>)
           ELSE Append(f, Append(l, tok))
<1>1. CASE tok = "and"  BY <1>1 DEF AddToken
<1>2. CASE tok # "and"
  <2>1. PICK n \in Nat : n = Len(f)  BY LenProperties
  <2>2. PICK ps \in Seq(Seq(Tokens)) : ps = Append(f, l)  BY AppendProperties
  <2>3. Len(ps) = n + 1 /\ ps[n + 1] = l /\ \A i \in 1..n : ps[i] = f[i]
    BY <2>1, <2>2, AppendProperties
  <2>4. PICK more \in Seq(Tokens) : more = Append(l, tok)  BY AppendProperties
  <2>5. PICK qs \in Seq(Seq(Tokens)) : qs = Append(f, more)  BY AppendProperties
  <2>6. Len(qs) = n + 1 /\ qs[n + 1] = more /\ \A i \in 1..n : qs[i] = f[i]
    BY <2>1, <2>5, AppendProperties
  <2>7. AddToken(ps, tok) = [ps EXCEPT ![n + 1] = more]
    BY <1>2, <2>3, <2>4 DEF AddToken
  <2>8. PICK rs : rs = [ps EXCEPT ![n + 1] = more]  OBVIOUS
  <2>9. DOMAIN ps = 1..n+1  BY <2>1, <2>3, LenProperties
  <2>10. /\ rs \in Seq(Seq(Tokens)) /\ Len(rs) = n + 1
         /\ rs[n + 1] = more /\ \A i \in 1..n : rs[i] = ps[i]
    <3>1. n + 1 \in 1..Len(ps)  BY <2>1, <2>3
    <3>2. /\ rs \in Seq(Seq(Tokens)) /\ Len(rs) = Len(ps)
          /\ \A i \in 1..Len(ps) : rs[i] = IF i = n + 1 THEN more ELSE ps[i]
      BY <2>8, <3>1, ExceptSeq
    <3>3. \A i \in 1..n : i \in 1..n+1 /\ i # n + 1  BY <2>1
    <3> QED  BY <2>3, <3>1, <3>2, <3>3
  <2>11. \A i \in 1..n+1 : i \in 1..n \/ i = n + 1  BY <2>1
  <2>12. \A i \in 1..n+1 : rs[i] = qs[i]  BY <2>3, <2>6, <2>10, <2>11
  <2>13. rs = qs  BY <2>6, <2>10, <2>12, SeqEqual
  <2> QED  BY <1>2, <2>2, <2>4, <2>5, <2>7, <2>8, <2>13
<1> QED  BY <1>1, <1>2

\* Parts that have begun, and what comes before the last.
LEMMA PartsEnd ==
  ASSUME NEW ps \in PartsSoFar
  PROVE  \E f \in Seq(Seq(Tokens)), l \in Seq(Tokens) : ps = Append(f, l)
BY FrontLast DEF PartsSoFar

\* Parts found so far, and one more, are parts.
LEMMA OneMorePart ==
  ASSUME NEW f \in Seq(Seq(Tokens)), NEW l \in Seq(Tokens)
  PROVE  Append(f, l) \in PartsSoFar /\ Append(f, l) \in Seq(Seq(Tokens))
BY OfAppend DEF PartsSoFar

\* ... also after the next token,
LEMMA AddTokenType ==
  ASSUME NEW ps \in PartsSoFar, NEW tok \in Tokens
  PROVE  AddToken(ps, tok) \in PartsSoFar /\ AddTokenF[<<ps, tok>>] = AddToken(ps, tok)
<1>1. PICK f \in Seq(Seq(Tokens)), l \in Seq(Tokens) : ps = Append(f, l)
  BY PartsEnd
<1>2. AddToken(ps, tok) = IF tok = "and" THEN Append(Append(f, l), << >>)
                          ELSE Append(f, Append(l, tok))
  BY <1>1, AddTokenIs
<1>3. Append(Append(f, l), << >>) \in PartsSoFar
  <2>1. PICK e \in Seq(Tokens) : e = << >>  BY EmptySeq
  <2>2. PICK g \in Seq(Seq(Tokens)) : g = Append(f, l)  BY OneMorePart
  <2> QED  BY <2>1, <2>2, OneMorePart
<1>4. Append(f, Append(l, tok)) \in PartsSoFar
  <2>1. PICK more \in Seq(Tokens) : more = Append(l, tok)  BY AppendProperties
  <2> QED  BY <2>1, OneMorePart
<1> QED  BY <1>2, <1>3, <1>4 DEF AddTokenF

\* ... so that a fold over tokens stays among them.
LEMMA PartsClosed == Closed(AddTokenF, PartsSoFar, Tokens)
BY AddTokenType DEF Closed

\* It begins with one part, which is empty.
LEMMA NoPartsYet == <<<< >>>> \in PartsSoFar /\ <<<< >>>> = Append(<< >>, << >>)
BY EmptySeq DEF PartsSoFar

\* Parts is a left fold.
LEMMA PartsFold ==
  ASSUME NEW s \in Seq(Tokens)
  PROVE  Parts(s) = LeftFold(AddTokenF, <<<< >>>>, s) /\ Parts(s) \in PartsSoFar
<1> DEFINE D == DOMAIN s
           base == <<<< >>>>
           Iter(f) == f = [u \in SUBSET D |-> IF u = {} THEN base
                             ELSE AddToken(f[u \ {Max(u)}], s[Max(u)])]
           c == CHOOSE f : Iter(f)
<1>1. \A u \in SUBSET D : u # {} => Max(u) \in D /\ s[Max(u)] \in Tokens
  BY LenProperties, MaxIn, ElementOfSeq
<1>2. base \in PartsSoFar  BY NoPartsYet
<1>3. Parts(s) = c[D]  BY DEF Parts, FoldLeft, MapThenFoldSet
<1> HIDE DEF base
<1>4. PICK it \in [SUBSET D -> PartsSoFar] : FoldOver(it, AddTokenF, base, s)
  BY <1>2, PartsClosed, PositionsExist
<1>5. Iter(it)
  <2>1. ASSUME NEW u \in SUBSET D
        PROVE  it[u] = IF u = {} THEN base ELSE AddToken(it[u \ {Max(u)}], s[Max(u)])
    BY <1>1, <1>4, AddTokenType DEF FoldOver
  <2> QED  BY <2>1
<1>6. Iter(c)
  <2> HIDE DEF Iter
  <2> QED  BY <1>5
<1> HIDE DEF c
<1>7. TypedFoldOver(c, AddTokenF, PartsSoFar, base, s)
  <2>1. c[{}] = base  BY <1>6
  <2>2. ASSUME NEW u \in SUBSET D, u # {}, c[u \ {Max(u)}] \in PartsSoFar
        PROVE  c[u] = AddTokenF[<<c[u \ {Max(u)}], s[Max(u)]>>]
    <3>1. c[u] = AddToken(c[u \ {Max(u)}], s[Max(u)])  BY <1>6, <2>2
    <3> QED  BY <1>1, <2>2, <3>1, AddTokenType
  <2> QED  BY <2>1, <2>2 DEF TypedFoldOver
<1>8. LeftFold(AddTokenF, base, s) = c[D]  BY <1>2, <1>7, PartsClosed, PositionsFold
<1>9. LeftFold(AddTokenF, base, s) \in PartsSoFar  BY <1>2, PartsClosed, FoldTyped
<1> QED  BY <1>3, <1>8, <1>9 DEF base

\* A text of no tokens splits into that one.
LEMMA PartsOfNothing == Parts(<< >>) = Append(<< >>, << >>)
BY PartsFold, FoldEmpty, EmptySeq, NoPartsYet

\* The parts of a text and one more token.
LEMMA PartsOfMore ==
  ASSUME NEW s \in Seq(Tokens), NEW tok \in Tokens
  PROVE  Parts(Append(s, tok)) = AddToken(Parts(s), tok)
<1>1. PICK more \in Seq(Tokens) : more = Append(s, tok)  BY AppendProperties
<1>2. Parts(s) = LeftFold(AddTokenF, <<<< >>>>, s) /\ Parts(s) \in PartsSoFar
  BY PartsFold
<1>3. Parts(more) = LeftFold(AddTokenF, <<<< >>>>, more)  BY PartsFold
<1>4. LeftFold(AddTokenF, <<<< >>>>, Append(s, tok)) =
        AddTokenF[<<LeftFold(AddTokenF, <<<< >>>>, s), tok>>]
  BY FoldAppend
<1>5. Parts(more) = AddTokenF[<<Parts(s), tok>>]  BY <1>1, <1>2, <1>3, <1>4
<1> QED  BY <1>1, <1>2, <1>5, AddTokenType

\* A text over some of the tokens,
PartsOver(W, s) == \E f \in Seq(Seq(W)), l \in Seq(W) : Parts(s) = Append(f, l)

\* ... has parts over them.
LEMMA PartsStayOver ==
  ASSUME NEW W \in SUBSET Tokens, NEW t \in Seq(W)
  PROVE  PartsOver(W, t)
<1>1. Seq(W) \subseteq Seq(Tokens) /\ Seq(Seq(W)) \subseteq Seq(Seq(Tokens))
  <2>1. ASSUME NEW A, NEW B, A \subseteq B, NEW s \in Seq(A)  PROVE s \in Seq(B)
    <3>1. \A i \in 1..Len(s) : s[i] \in B  BY <2>1, ElementOfSeq
    <3> QED  BY <3>1, LenProperties
  <2>2. Seq(W) \subseteq Seq(Tokens)  BY <2>1
  <2> QED  BY <2>1, <2>2
<1> DEFINE T == {s \in Seq(W) : PartsOver(W, s)}
<1>2. << >> \in T
  <2>1. PICK e \in Seq(W) : e = << >>  BY EmptySeq
  <2>2. PICK f \in Seq(Seq(W)) : f = << >>  BY EmptySeq
  <2>3. Parts(e) = Append(f, e)  BY <2>1, <2>2, PartsOfNothing
  <2> QED  BY <2>1, <2>3 DEF PartsOver
<1>3. ASSUME NEW s \in Seq(W), NEW x \in W, s \in T  PROVE Append(s, x) \in T
  <2>1. PICK f \in Seq(Seq(W)), l \in Seq(W) : Parts(s) = Append(f, l)
    BY <1>3 DEF PartsOver
  <2>2. Append(s, x) \in Seq(W)  BY AppendProperties
  <2>3. Parts(Append(s, x)) = AddToken(Append(f, l), x)
    <3>1. s \in Seq(Tokens) /\ x \in Tokens  BY <1>1
    <3> QED  BY <2>1, <3>1, PartsOfMore
  <2>4. AddToken(Append(f, l), x) = IF x = "and" THEN Append(Append(f, l), << >>)
                                    ELSE Append(f, Append(l, x))
    <3>1. f \in Seq(Seq(Tokens)) /\ l \in Seq(Tokens) /\ x \in Tokens  BY <1>1
    <3> QED  BY <3>1, AddTokenIs
  <2>5. CASE x = "and"
    <3>1. PICK g \in Seq(Seq(W)) : g = Append(f, l)  BY AppendProperties
    <3>2. PICK e \in Seq(W) : e = << >>  BY EmptySeq
    <3>3. Parts(Append(s, x)) = Append(g, e)  BY <2>3, <2>4, <2>5, <3>1, <3>2
    <3> QED  BY <2>2, <3>3 DEF PartsOver
  <2>6. CASE x # "and"
    <3>1. PICK m \in Seq(W) : m = Append(l, x)  BY AppendProperties
    <3>2. Parts(Append(s, x)) = Append(f, m)  BY <2>3, <2>4, <2>6, <3>1
    <3> QED  BY <2>2, <3>2 DEF PartsOver
  <2> QED  BY <2>5, <2>6
<1> HIDE DEF T
<1>4. Seq(W) \subseteq T  BY <1>2, <1>3, ByAppending
<1> QED  BY <1>4 DEF T

\* The names in the parts are names in the text.
LEMMA NamesOfParts ==
  ASSUME NEW t \in Seq(Tokens), NEW part \in ToSet(Parts(t)),
         Len(part) = 1, part[1] \in Names
  PROVE  part[1] \in ToSet(t)
<1>1. PICK W : W = ToSet(t) \cup {"and"}  OBVIOUS
<1>2. \A i \in 1..Len(t) : t[i] \in Tokens /\ t[i] \in ToSet(t)
  BY ElementOfSeq, LenProperties DEF ToSet
<1>3. W \in SUBSET Tokens  BY <1>1, <1>2, LenProperties DEF Tokens, ToSet
<1>4. t \in Seq(W)
  <2>1. \A i \in 1..Len(t) : t[i] \in W  BY <1>1, <1>2
  <2> QED  BY <2>1, LenProperties
<1>5. PICK f \in Seq(Seq(W)), l \in Seq(W) : Parts(t) = Append(f, l)
  BY <1>3, <1>4, PartsStayOver DEF PartsOver
<1>6. PICK ps \in Seq(Seq(W)) : ps = Parts(t)  BY <1>5, AppendProperties
<1>7. part \in Seq(W)
  <2>1. PICK i \in DOMAIN ps : part = ps[i]  BY <1>6 DEF ToSet
  <2> QED  BY <1>6, <2>1, ElementOfSeq, LenProperties
<1>8. part[1] \in W
  <2>1. 1 \in 1..Len(part)  OBVIOUS
  <2> QED  BY <1>7, <2>1, ElementOfSeq
<1> QED  BY <1>1, <1>8, NamesAssumption

(***************************************************************************)
(* What simple parts say together.                                         *)
(***************************************************************************)
Words == Names \cup {"and"}
True(w) == {e \in Events : w \in e}
AllSimple(ps) == \A i \in 1..Len(ps) : IsSimple(ps[i])
Matched(ps) == {e \in Events : \A i \in 1..Len(ps) : ps[i][1] \in e}

\* One more part has to be simple, too, and to be true of an event.
LEMMA OnePartMore ==
  ASSUME NEW f \in Seq(Seq(Tokens)), NEW l \in Seq(Tokens)
  PROVE  /\ AllSimple(Append(f, l)) <=> AllSimple(f) /\ IsSimple(l)
         /\ Matched(Append(f, l)) = Matched(f) \cap True(l[1])
<1>1. PICK n \in Nat : n = Len(f)  BY LenProperties
<1>2. PICK ps : ps = Append(f, l)  OBVIOUS
<1>3. Len(ps) = n + 1 /\ ps[n + 1] = l /\ \A i \in 1..n : ps[i] = f[i]
  BY <1>1, <1>2, AppendProperties
<1>4. \A i : i \in 1..n+1 <=> i \in 1..n \/ i = n + 1  BY <1>1
<1>5. AllSimple(ps) <=> AllSimple(f) /\ IsSimple(l)
  BY <1>1, <1>3, <1>4 DEF AllSimple
<1>6. \A e : (\A i \in 1..n+1 : ps[i][1] \in e) <=>
             (\A i \in 1..n : f[i][1] \in e) /\ l[1] \in e
  BY <1>3, <1>4
<1>7. Matched(ps) = Matched(f) \cap True(l[1])
  BY <1>1, <1>3, <1>6 DEF Matched, True
<1> QED  BY <1>2, <1>5, <1>7

\* A part that a word was added to can be simple if the word is all of it.
LEMMA SimpleEnd ==
  ASSUME NEW l \in Seq(Tokens), NEW w \in Tokens, IsSimple(Append(l, w))
  PROVE  l = << >> /\ Append(l, w)[1] = w
<1>1. Len(l) \in Nat /\ Len(Append(l, w)) = Len(l) + 1
      /\ Append(l, w)[Len(l) + 1] = w
  BY AppendProperties, LenProperties
<1>2. Len(l) = 0  BY <1>1 DEF IsSimple
<1>3. l = << >>  BY <1>2, EmptySeq
<1>4. 0 + 1 = 1  OBVIOUS
<1> QED  BY <1>1, <1>2, <1>3, <1>4

\* An empty part is not simple: it has no name.
LEMMA NothingIsNotSimple == ~IsSimple(<< >>)
<1>1. Len(<< >>) = 0  BY EmptySeq
<1> QED  BY <1>1 DEF IsSimple

\* A name means the events it is true of.
LEMMA NameMeans ==
  ASSUME NEW w \in Names
  PROVE  True(w) \in MeaningsAt("and", Append(<< >>, w))
<1>1. PICK t \in Seq(Tokens) : t = Append(<< >>, w)  BY EmptySeq, AppendProperties DEF Tokens
<1>2. Len(t) = 1 /\ t[1] = w  BY <1>1
<1>3. PICK n : n = 1 /\ n = Len(t)  BY <1>2
<1>4. t # << >>  BY <1>2
<1>5. True(w) \in MeaningsAt("not", t)
  BY <1>2, <1>3, <1>4, UnaryForms DEF True
<1>6. Lower("and") = "not" /\ "and" \in Levels \ {"not"}  BY DEF Lower, Levels
<1>7. MeaningsAt(Lower("and"), t) \subseteq MeaningsAt("and", t)  BY <1>6, Ladder
<1> QED  BY <1>1, <1>5, <1>6, <1>7

\* A text that another one begins with means the same there.
LEMMA BeginningMeans ==
  ASSUME NEW t \in Seq(Tokens), NEW s \in Seq(Tokens), s # << >>,
         Len(s) <= Len(t), \A p \in 1..Len(s) : s[p] = t[p], NEW l \in Levels
  PROVE  MeaningsAt(l, s) = Reading(t)[<<l, 1, Len(s)>>]
<1>1. PICK m \in Nat : m = Len(s) /\ m >= 1  BY Domain
<1>2. t # << >> /\ 1 \in 1..Len(t) /\ m \in 1..Len(t)
  BY <1>1, LenProperties, EmptySeq
<1>3. PICK u \in Seq(Tokens) : /\ u = SubSeq(t, 1, m) /\ Len(u) = m
                               /\ \A i \in 1..m : u[i] = t[i]
  <2>1. PICK k \in Int : k = m /\ k - 1 + 1 = k  BY <1>1
  <2>2. \A i \in 1..k : t[i] \in Tokens  BY <1>1, <1>2, <2>1, ElementOfSeq, LenProperties
  <2>3. /\ SubSeq(t, 1, k) \in Seq(Tokens) /\ Len(SubSeq(t, 1, k)) = k
        /\ \A i \in 1..k : SubSeq(t, 1, k)[i] = t[i]
    <3>1. \A i \in 1..k : 1 + i - 1 = i  BY <2>1
    <3> QED  BY <1>1, <2>1, <2>2, <3>1, SubSeqProperties
  <2> QED  BY <2>1, <2>3
<1>4. \A i \in 1..m : s[i] = u[i]  BY <1>1, <1>3
<1>5. s = u  BY <1>1, <1>3, <1>4, SeqEqual
<1>6. MeaningsAt(l, SubSeq(t, 1, m)) = Reading(t)[<<l, 1, m>>]
  BY <1>1, <1>2, PartMeans
<1> QED  BY <1>1, <1>3, <1>5, <1>6

\* A name joined by "and".
LEMMA AndNameMeans ==
  ASSUME NEW s \in Seq(Tokens), NEW x \in MeaningsAt("and", s), NEW w \in Names
  PROVE  x \cap True(w) \in MeaningsAt("and", Append(Append(s, "and"), w))
<1>1. s # << >>  BY ReadingIs
<1>2. PICK m \in Nat : m = Len(s) /\ DOMAIN s = 1..m /\ m >= 1  BY <1>1, Domain
<1>3. PICK n \in Nat : n = m + 2  OBVIOUS
<1>4. PICK u \in Seq(Tokens) : /\ u = Append(s, "and") /\ Len(u) = m + 1
                               /\ u[m + 1] = "and" /\ \A i \in 1..m : u[i] = s[i]
  <2>1. PICK tok \in Tokens : tok = "and"  BY DEF Tokens
  <2>2. PICK u : u = Append(s, tok)  OBVIOUS
  <2>3. /\ u \in Seq(Tokens) /\ Len(u) = Len(s) + 1
        /\ u[Len(s) + 1] = tok /\ \A i \in 1..Len(s) : u[i] = s[i]
    BY <2>2, AppendProperties
  <2> QED  BY <1>2, <2>1, <2>2, <2>3
<1>5. PICK t \in Seq(Tokens) : /\ t = Append(u, w) /\ Len(t) = m + 1 + 1
                               /\ t[m + 1 + 1] = w /\ \A i \in 1..m+1 : t[i] = u[i]
  <2>1. PICK tok \in Tokens : tok = w  BY DEF Tokens
  <2>2. PICK t : t = Append(u, tok)  OBVIOUS
  <2>3. /\ t \in Seq(Tokens) /\ Len(t) = Len(u) + 1
        /\ t[Len(u) + 1] = tok /\ \A i \in 1..Len(u) : t[i] = u[i]
    BY <2>2, AppendProperties
  <2> QED  BY <1>4, <2>1, <2>2, <2>3
<1>6. Len(t) = n /\ t[n] = w /\ t[n - 1] = "and" /\ \A i \in 1..m : t[i] = s[i]
  <2>1. m + 1 + 1 = n /\ n - 1 = m + 1 /\ m + 1 \in 1..m+1
        /\ \A i \in 1..m : i \in 1..m+1
    BY <1>2, <1>3
  <2> QED  BY <1>4, <1>5, <2>1
<1>7. t # << >>
  <2>1. Len(<< >>) = 0  BY EmptySeq
  <2> QED  BY <1>3, <1>6, <2>1
<1>8. DOMAIN t = 1..n  BY <1>6, <1>7, Domain
<1>9. x \in Reading(t)[<<"and", 1, n - 1 - 1>>]
  <2>1. PICK l \in Levels : l = "and"  BY DEF Levels
  <2>2. Len(s) <= Len(t) /\ n - 1 - 1 = Len(s)  BY <1>2, <1>3, <1>6
  <2>3. \A p \in 1..Len(s) : s[p] = t[p]  BY <1>2, <1>6
  <2>4. MeaningsAt(l, s) = Reading(t)[<<l, 1, Len(s)>>]
    BY <1>1, <2>2, <2>3, BeginningMeans
  <2> QED  BY <2>1, <2>2, <2>4
<1>10. True(w) \in Reading(t)[<<"not", n - 1 + 1, n>>]
  <2>1. PICK l \in Levels : l = "not"  BY DEF Levels
  <2>2. n \in 1..n /\ n - 1 + 1 = n  BY <1>3
  <2>3. InNot(t, Reading(t), n, n, True(w))  BY <1>6 DEF InNot, True
  <2>4. True(w) \in Reading(t)[<<l, n, n>>]
    BY <1>8, <2>1, <2>2, <2>3, ReadingSolves DEF In
  <2> QED  BY <2>1, <2>2, <2>4
<1>11. x \cap True(w) \in Reading(t)[<<"and", 1, n>>]
  <2>1. PICK l \in Levels : l = "and" /\ Lower(l) = "not"  BY DEF Levels, Lower
  <2>2. n - 1 \in (1 + 1) .. (n - 1) /\ 1 \in 1..n /\ n \in 1..n  BY <1>2, <1>3
  <2>3. x \cap True(w) = Joined(l, x, True(w))  BY <2>1 DEF Joined
  <2>4. SplitAt(t, Reading(t), l, 1, n, n - 1, x \cap True(w))
    BY <1>6, <1>9, <1>10, <2>1, <2>3 DEF SplitAt
  <2>5. In(t, Reading(t), l, 1, n, x \cap True(w))
    BY <2>1, <2>2, <2>4 DEF In, InJoin, Splits
  <2>6. x \cap True(w) \in Reading(t)[<<l, 1, n>>]
    BY <1>8, <2>2, <2>5, ReadingSolves
  <2> QED  BY <2>1, <2>6
<1>12. x \cap True(w) \in MeaningsAt("and", t)
  BY <1>6, <1>7, <1>11, ReadingIs
<1> QED  BY <1>4, <1>5, <1>12

(***************************************************************************)
(* What has been read so far: simple parts are joined by "and", and an     *)
(* empty one is the beginning or comes after an "and".                     *)
(***************************************************************************)
BeginsPart(t, f) ==
  \/ t = << >> /\ f = << >>
  \/ \E s \in Seq(Tokens) : t = Append(s, "and") /\ Matched(f) \in MeaningsAt("and", s)

InParts(t, f, l) ==
  /\ Parts(t) = Append(f, l)
  /\ AllSimple(f) /\ IsSimple(l) => Matched(Append(f, l)) \in MeaningsAt("and", t)
  /\ AllSimple(f) /\ l = << >> => BeginsPart(t, f)

ReadSoFar(t) == \E f \in Seq(Seq(Tokens)), l \in Seq(Tokens) : InParts(t, f, l)

\* What has been read of no tokens,
LEMMA ReadNothing == ReadSoFar(<< >>)
<1>1. << >> \in Seq(Seq(Tokens)) /\ << >> \in Seq(Tokens)  BY EmptySeq
<1>2. InParts(<< >>, << >>, << >>)
  BY PartsOfNothing, NothingIsNotSimple DEF InParts, BeginsPart
<1> QED  BY <1>1, <1>2 DEF ReadSoFar

\* ... of an `and' more,
LEMMA ReadAnd ==
  ASSUME NEW s \in Seq(Tokens), ReadSoFar(s)
  PROVE  ReadSoFar(Append(s, "and"))
<1>1. PICK f \in Seq(Seq(Tokens)), l \in Seq(Tokens) : InParts(s, f, l)
  BY DEF ReadSoFar
<1>2. PICK t : t = Append(s, "and")  OBVIOUS
<1>3. PICK g \in Seq(Seq(Tokens)) : g = Append(f, l)  BY OneMorePart
<1>4. PICK e \in Seq(Tokens) : e = << >>  BY EmptySeq
<1>5. "and" \in Tokens  BY DEF Tokens
<1>6. Parts(t) = Append(g, e)
  <2>1. Parts(t) = AddToken(Parts(s), "and")  BY <1>2, <1>5, PartsOfMore
  <2>2. AddToken(Append(f, l), "and") = Append(Append(f, l), << >>)
    BY <1>5, AddTokenIs
  <2> QED  BY <1>1, <1>3, <1>4, <2>1, <2>2 DEF InParts
<1>7. ~IsSimple(e)  BY <1>4, NothingIsNotSimple
<1>8. ASSUME AllSimple(g)  PROVE BeginsPart(t, g)
  <2>1. AllSimple(f) /\ IsSimple(l)  BY <1>3, <1>8, OnePartMore
  <2>2. Matched(g) \in MeaningsAt("and", s)  BY <1>1, <1>3, <2>1 DEF InParts
  <2> QED  BY <1>2, <2>2 DEF BeginsPart
<1>9. InParts(t, g, e)  BY <1>6, <1>7, <1>8 DEF InParts
<1> QED  BY <1>2, <1>9 DEF ReadSoFar

\* ... of a name more,
LEMMA ReadName ==
  ASSUME NEW s \in Seq(Tokens), NEW w \in Names, ReadSoFar(s)
  PROVE  ReadSoFar(Append(s, w))
<1>1. PICK f \in Seq(Seq(Tokens)), l \in Seq(Tokens) : InParts(s, f, l)
  BY DEF ReadSoFar
<1>2. PICK t : t = Append(s, w)  OBVIOUS
<1>3. w \in Tokens /\ w # "and"  BY NamesAssumption DEF Tokens
<1>4. PICK k \in Seq(Tokens) : k = Append(l, w) /\ k # << >>
  BY <1>3, OfAppend
<1>5. Parts(t) = Append(f, k)
  <2>1. Parts(t) = AddToken(Parts(s), w)  BY <1>2, <1>3, PartsOfMore
  <2>2. AddToken(Append(f, l), w) = Append(f, Append(l, w))
    BY <1>3, AddTokenIs
  <2> QED  BY <1>1, <1>4, <2>1, <2>2 DEF InParts
<1>6. ASSUME AllSimple(f), IsSimple(k)
      PROVE  Matched(Append(f, k)) \in MeaningsAt("and", t)
  <2>1. l = << >> /\ k[1] = w  BY <1>3, <1>4, <1>6, SimpleEnd
  <2>2. BeginsPart(s, f)  BY <1>1, <1>6, <2>1 DEF InParts
  <2>3. Matched(Append(f, k)) = Matched(f) \cap True(w)  BY <2>1, OnePartMore
  <2>4. CASE s = << >> /\ f = << >>
    <3>1. Len(f) = 0  BY <2>4, EmptySeq
    <3>2. Matched(f) = Events  BY <3>1 DEF Matched
    <3>3. Matched(Append(f, k)) = True(w)  BY <2>3, <3>2 DEF True
    <3> QED  BY <1>2, <2>4, <3>3, NameMeans
  <2>5. ASSUME NEW r \in Seq(Tokens), s = Append(r, "and"),
               Matched(f) \in MeaningsAt("and", r)
        PROVE  Matched(Append(f, k)) \in MeaningsAt("and", t)
    <3>1. PICK x \in MeaningsAt("and", r) : x = Matched(f)  BY <2>5
    <3>2. x \cap True(w) \in MeaningsAt("and", Append(Append(r, "and"), w))
      BY AndNameMeans
    <3> QED  BY <1>2, <2>3, <2>5, <3>1, <3>2
  <2> QED  BY <2>2, <2>4, <2>5 DEF BeginsPart
<1>7. InParts(t, f, k)  BY <1>4, <1>5, <1>6 DEF InParts
<1> QED  BY <1>2, <1>7 DEF ReadSoFar

\* ... and thus of any text of names and `and's.
LEMMA ReadWords ==
  ASSUME NEW t \in Seq(Words)
  PROVE  ReadSoFar(t)
<1> DEFINE T == {s \in Seq(Words) : ReadSoFar(s)}
<1>1. << >> \in T  BY EmptySeq, ReadNothing
<1>2. ASSUME NEW s \in Seq(Words), NEW w \in Words, s \in T  PROVE Append(s, w) \in T
  <2>1. Append(s, w) \in Seq(Words)  BY AppendProperties
  <2>2. s \in Seq(Tokens)
    <3>1. \A i \in 1..Len(s) : s[i] \in Tokens  BY ElementOfSeq DEF Words, Tokens
    <3> QED  BY <3>1, LenProperties
  <2>3. CASE w = "and"  BY <1>2, <2>1, <2>2, <2>3, ReadAnd
  <2>4. CASE w \in Names  BY <1>2, <2>1, <2>2, <2>4, ReadName
  <2> QED  BY <2>3, <2>4 DEF Words
<1> HIDE DEF T
<1>3. Seq(Words) \subseteq T  BY <1>1, <1>2, ByAppending
<1> QED  BY <1>3 DEF T

\* An expression that is all simple parts means that they are all true.
LEMMA SimplePartsMean ==
  ASSUME NEW t \in Seq(Words), AllSimple(Parts(t))
  PROVE  WellFormed(t) /\ Meanings(t) = {Matched(Parts(t))}
<1>1. PICK f \in Seq(Seq(Tokens)), l \in Seq(Tokens) : InParts(t, f, l)
  BY ReadWords DEF ReadSoFar
<1>2. Parts(t) = Append(f, l)  BY <1>1 DEF InParts
<1>3. AllSimple(f) /\ IsSimple(l)  BY <1>2, OnePartMore
<1>4. Matched(Parts(t)) \in MeaningsAt("and", t)  BY <1>1, <1>2, <1>3 DEF InParts
<1>5. t \in Seq(Tokens)
  <2>1. \A i \in 1..Len(t) : t[i] \in Tokens  BY ElementOfSeq DEF Words, Tokens
  <2> QED  BY <2>1, LenProperties
<1>6. Lower("or") = "and" /\ "or" \in Levels \ {"not"}  BY DEF Lower, Levels
<1>7. MeaningsAt(Lower("or"), t) \subseteq MeaningsAt("or", t)  BY <1>5, <1>6, Ladder
<1>8. Matched(Parts(t)) \in Meanings(t)  BY <1>4, <1>6, <1>7 DEF Meanings
<1>9. AtMostOne(Meanings(t))  BY <1>5, <1>6, MeaningsOne DEF Meanings
<1> QED  BY <1>8, <1>9 DEF AtMostOne, WellFormed

\* The conditions of t that are made into entries, into such as match what
\* the conditions are true of.
EntriesFit(t) ==
  \A w \in ToSet(t) \cap Names : Form[w] # "other" => Entry(w).matches = w

\* export-elastic-exception: nothing is excluded when the filter is left to
\* be filled in, and otherwise what it describes, if each entry fits.
LEMMA ElasticClauseIs ==
  ASSUME NEW t \in Seq(Tokens)
  PROVE  /\ ParseKqlFilter(t).manual => ElasticClause(t) = {Events}
         /\ ~ParseKqlFilter(t).manual => WellFormed(t)
         /\ ~ParseKqlFilter(t).manual /\ EntriesFit(t) =>
              ElasticClause(t) = {Events \ m : m \in Meanings(t)}
<1>1. ASSUME ParseKqlFilter(t).manual  PROVE ElasticClause(t) = {Events}
  BY <1>1 DEF ElasticClause
<1>2. ASSUME ~ParseKqlFilter(t).manual
      PROVE  /\ WellFormed(t)
             /\ EntriesFit(t) => ElasticClause(t) = {Events \ m : m \in Meanings(t)}
  <2>1. PICK ps \in PartsSoFar : ps = Parts(t)  BY PartsFold
  <2>2. DOMAIN ps = 1..Len(ps)  BY LenProperties DEF PartsSoFar
  <2>3. /\ ToSet(t) \cap {"(", ")", "or", "not"} = {}
        /\ \A part \in ToSet(ps) : IsSimple(part)
        /\ ParseKqlFilter(t).entries = {Entry(part[1]) : part \in ToSet(ps)}
    BY <1>2, <2>1 DEF ParseKqlFilter
  <2>4. t \in Seq(Words)
    <3>1. ASSUME NEW i \in 1..Len(t)  PROVE t[i] \in Words
      <4>1. t[i] \in Tokens /\ i \in DOMAIN t  BY ElementOfSeq, LenProperties
      <4>2. t[i] \in ToSet(t)  BY <4>1 DEF ToSet
      <4> QED  BY <2>3, <4>1, <4>2 DEF Tokens, Words
    <3> QED  BY <3>1, LenProperties
  <2>5. AllSimple(ps)  BY <2>2, <2>3 DEF AllSimple, ToSet
  <2>6. WellFormed(t) /\ Meanings(t) = {Matched(ps)}
    BY <2>1, <2>4, <2>5, SimplePartsMean
  <2>7. ASSUME EntriesFit(t)
        PROVE  ElasticClause(t) = {Events \ m : m \in Meanings(t)}
    <3>1. ASSUME NEW part \in ToSet(ps)  PROVE Entry(part[1]).matches = part[1]
      <4>1. Len(part) = 1 /\ part[1] \in Names /\ Form[part[1]] # "other"
        BY <2>3, <3>1 DEF IsSimple
      <4>2. part[1] \in ToSet(t)  BY <2>1, <3>1, <4>1, NamesOfParts
      <4> QED  BY <2>7, <4>1, <4>2 DEF EntriesFit
    <3>2. PICK E : E = {e \in Events : \E part \in ToSet(ps) : part[1] \notin e}
      OBVIOUS
    <3>3. ElasticClause(t) = {E}
      <4>1. ASSUME NEW e
            PROVE  (\E entry \in ParseKqlFilter(t).entries : entry.matches \notin e)
                     <=> \E part \in ToSet(ps) : part[1] \notin e
        BY <2>3, <3>1, Zenon
      <4>2. ElasticClause(t) = {{e \in Events :
              \E entry \in ParseKqlFilter(t).entries : entry.matches \notin e}}
        BY <1>2 DEF ElasticClause
      <4> QED  BY <3>2, <4>1, <4>2
    <3>4. E = Events \ Matched(ps)  BY <2>2, <3>2 DEF Matched, ToSet
    <3>5. \A m : {Events \ x : x \in {m}} = {Events \ m}  OBVIOUS
    <3> QED  BY <2>6, <3>3, <3>4, <3>5
  <2> QED  BY <2>6, <2>7
<1> QED  BY <1>1, <1>2
=============================================================================
