--------------------------- MODULE SequenceLemmas ---------------------------
(***************************************************************************)
(* What the proofs of the project need of sequences: their ends, prefixes, *)
(* and the folds of SequencesExt.  Induction is used in the form that speaks   *)
(* of sets; with it a fold over sets of positions becomes one that obeys   *)
(* the usual laws for << >>, Append and \o.                                *)
(***************************************************************************)
EXTENDS Integers, SequencesExt, SequenceTheorems, WellFoundedInduction, TLAPS

(***************************************************************************)
(* Induction.                                                              *)
(***************************************************************************)

\* Every nonempty set of numbers has a least one.
LEMMA Least ==
  ASSUME NEW T, T \subseteq Nat, T # {}
  PROVE  \E m \in T : \A t \in T : m <= t
<1>1. PICK m \in T : \A t \in T : ~ (<<t, m>> \in OpToRel(<, Nat))
  BY NatLessThanWellFounded, WFMin
<1>2. \A t \in T : ~ (t < m)  BY <1>1 DEF OpToRel
<1> QED  BY <1>2

\* A set that has 0, and with every number the next one, has all up to n.
LEMMA UpTo ==
  ASSUME NEW n \in Nat, NEW T, 0 \in T,
         \A k \in 0..n : k \in T /\ k + 1 \in 0..n => k + 1 \in T
  PROVE  \A k \in 0..n : k \in T
<1> SUFFICES ASSUME NEW j \in 0..n, j \notin T  PROVE FALSE  OBVIOUS
<1> DEFINE Missing == {k \in 0..n : k \notin T}
<1>1. Missing \subseteq Nat /\ j \in Missing  OBVIOUS
<1>2. PICK m \in Missing : \A t \in Missing : m <= t
  <2> HIDE DEF Missing
  <2> QED  BY <1>1, Least
<1>3. m \in 0..n /\ m # 0  OBVIOUS
<1>4. m - 1 \in 0..n /\ m - 1 + 1 = m  BY <1>3
<1>5. m - 1 \notin Missing  BY <1>2, <1>4
<1> QED  BY <1>4, <1>5

\* A non-empty set of natural numbers below a bound has a greatest one.
LEMMA Greatest ==
  ASSUME NEW T, T \subseteq Nat, T # {}, NEW n \in Nat, \A t \in T : t <= n
  PROVE  \E m \in T : \A t \in T : t <= m
<1> DEFINE U == {n - t : t \in T}
<1>1. U \subseteq Nat  OBVIOUS
<1>2. U # {}
  <2>1. PICK t \in T : TRUE  OBVIOUS
  <2>2. n - t \in U  OBVIOUS
  <2> QED  BY <2>2
<1>3. PICK u \in U : \A v \in U : ~ (<<v, u>> \in OpToRel(<, Nat))
  <2> HIDE DEF U
  <2> QED  BY <1>1, <1>2, NatLessThanWellFounded, WFMin
<1>4. \A v \in U : ~ (v < u)
  BY <1>1, <1>3 DEF OpToRel
<1>5. PICK m \in T : u = n - m  OBVIOUS
<1>6. ASSUME NEW t \in T  PROVE  t <= m
  <2>1. n - t \in U  OBVIOUS
  <2>2. ~ (n - t < u)  BY <1>4, <2>1
  <2> QED  BY <1>5, <2>2
<1> QED  BY <1>5, <1>6

(***************************************************************************)
(* The last element of a sequence, and all but that one.                   *)
(***************************************************************************)

\* A nonempty sequence is its front and its last element.
LEMMA FrontLast ==
  ASSUME NEW S, NEW s \in Seq(S), s # << >>
  PROVE  /\ Front(s) \in Seq(S) /\ Last(s) \in S
         /\ s = Append(Front(s), Last(s))
<1>1. Len(s) \in Nat /\ Len(s) # 0  BY EmptySeq, LenProperties
<1>2. \A i \in 1..Len(s) : s[i] \in S  BY ElementOfSeq
<1>3. /\ Front(s) \in Seq(S) /\ Len(Front(s)) = Len(s) - 1
      /\ \A i \in 1..Len(s)-1 : Front(s)[i] = s[i]
  <2>1. PICK k \in Int : k = Len(s) - 1  BY <1>1
  <2>2. \A i \in 1..k : s[i] \in S  BY <1>1, <1>2, <2>1
  <2>3. SubSeq(s, 1, k) \in Seq(S) /\ Len(SubSeq(s, 1, k)) = k
        /\ \A i \in 1..k : SubSeq(s, 1, k)[i] = s[i]
    <3>1. k \in Nat  BY <1>1, <2>1
    <3> QED  BY <2>2, <3>1, SubSeqProperties
  <2> QED  BY <2>1, <2>3 DEF Front
<1>4. Last(s) \in S /\ Last(s) = s[Len(s)]  BY <1>1, <1>2 DEF Last
<1>5. /\ Append(Front(s), Last(s)) \in Seq(S)
      /\ Len(Append(Front(s), Last(s))) = Len(s)
      /\ \A i \in 1..Len(s)-1 : Append(Front(s), Last(s))[i] = s[i]
      /\ Append(Front(s), Last(s))[Len(s)] = s[Len(s)]
  BY <1>1, <1>3, <1>4, AppendProperties
<1>6. \A i \in 1..Len(s) : s[i] = Append(Front(s), Last(s))[i]
  BY <1>1, <1>5
<1> QED  BY <1>3, <1>4, <1>5, <1>6, SeqEqual

\* An appended element is the last, and the rest the front.
LEMMA OfAppend ==
  ASSUME NEW S, NEW s \in Seq(S), NEW x \in S
  PROVE  /\ Append(s, x) \in Seq(S) /\ Append(s, x) # << >>
         /\ Last(Append(s, x)) = x /\ Front(Append(s, x)) = s
<1>1. Append(s, x) \in Seq(S) /\ Append(s, x) # << >>  BY AppendProperties
<1>2. /\ Front(Append(s, x)) \in Seq(S) /\ Last(Append(s, x)) \in S
      /\ Append(s, x) = Append(Front(Append(s, x)), Last(Append(s, x)))
  BY <1>1, FrontLast
<1> QED  BY <1>1, <1>2, AppendInjective

(***************************************************************************)
(* Prefixes.                                                               *)
(***************************************************************************)

\* The first n elements are a sequence of n elements,
LEMMA FirstPart ==
  ASSUME NEW S, NEW a \in Seq(S), NEW n \in 0..Len(a)
  PROVE  SubSeq(a, 1, n) \in Seq(S) /\ Len(SubSeq(a, 1, n)) = n
<1>1. \A i \in 1..n : a[i] \in S  BY ElementOfSeq
<1> QED  BY <1>1, SubSeqProperties, LenProperties

\* ... which grows by one with n.
LEMMA FirstPartGrows ==
  ASSUME NEW S, NEW s \in Seq(S), NEW j \in 1..Len(s), NEW k, k = j - 1
  PROVE  SubSeq(s, 1, j) = Append(SubSeq(s, 1, k), s[j])
<1>1. Len(s) \in Nat /\ k \in 0..Len(s) /\ s[j] \in S
  BY LenProperties, ElementOfSeq
<1>2. SubSeq(s, 1, j) = SubSeq(s, 1, j - 1) \o <<s[j]>>
  BY <1>1, SubSeqRecursiveSecond
<1>3. SubSeq(s, 1, k) \in Seq(S)  BY <1>1, FirstPart
<1>4. Append(SubSeq(s, 1, k), s[j]) = SubSeq(s, 1, k) \o <<s[j]>>
  BY <1>1, <1>3, AppendIsConcat
<1> QED  BY <1>2, <1>4

\* What follows the first n elements.
LEMMA LastPart ==
  ASSUME NEW S, NEW a \in Seq(S), NEW n \in 0..Len(a)
  PROVE  /\ SubSeq(a, n + 1, Len(a)) \in Seq(S)
         /\ Len(SubSeq(a, n + 1, Len(a))) = Len(a) - n
<1>1. \A i \in n+1..Len(a) : a[i] \in S  BY ElementOfSeq, LenProperties
<1>2. n + 1 \in Int /\ Len(a) \in Int  BY LenProperties
<1> QED  BY <1>1, <1>2, SubSeqProperties

\* A sequence is its first part and its last part.
LEMMA TwoParts ==
  ASSUME NEW S, NEW a \in Seq(S), NEW n \in 0..Len(a)
  PROVE  SubSeq(a, 1, n) \o SubSeq(a, n + 1, Len(a)) = a
<1>1. /\ 1 \in 1..Len(a)+1 /\ n \in 1-1..Len(a) /\ Len(a) \in n..Len(a)
  BY LenProperties
<1> QED  BY <1>1, ConcatAdjacentSubSeq, SubSeqFull

\* A sequence is any of its prefixes and what follows it.
LEMMA PrefixSplit ==
  ASSUME NEW S, NEW a \in Seq(S), NEW b \in Seq(S), IsPrefix(a, b)
  PROVE  b = a \o SubSeq(b, Len(a) + 1, Len(b))
<1>1. Len(a) \in 0..Len(b)  BY LenProperties DEF IsPrefix
<1>2. SubSeq(b, 1, Len(a)) = a  BY SubSeqFull DEF IsPrefix
<1> QED  BY <1>1, <1>2, TwoParts

\* What follows the same beginning is the same.
LEMMA SameAfter ==
  ASSUME NEW S, NEW a \in Seq(S), NEW b \in Seq(S), NEW c \in Seq(S),
         a \o b = a \o c
  PROVE  b = c
BY ConcatSimplifications

\* (a \o b) \o c needs no parentheses.
Associates(a, b, c) == (a \o b) \o c = a \o (b \o c)

\* Concatenation is associative.
LEMMA Associative ==
  ASSUME NEW S, NEW a \in Seq(S), NEW b \in Seq(S), NEW c \in Seq(S)
  PROVE  Associates(a, b, c)
BY ConcatAssociative DEF Associates

\* What is concatenated to a sequence is what follows it.
LEMMA PrefixConcat ==
  ASSUME NEW S, NEW a \in Seq(S), NEW c \in Seq(S)
  PROVE  /\ IsPrefix(a, a \o c)
         /\ SubSeq(a \o c, Len(a) + 1, Len(a \o c)) = c
<1>1. /\ a \o c \in Seq(S) /\ Len(a \o c) = Len(a) + Len(c)
      /\ Len(a) \in Nat /\ Len(c) \in Nat
  BY ConcatProperties, LenProperties
<1>2. SubSeq(a \o c, 1, Len(a)) = SubSeq(a, 1, Len(a))
  <2>1. CASE Len(a) = 0  BY <2>1, SubSeqEmpty
  <2>2. CASE Len(a) # 0
    <3>1. 1 \in 1..Len(a) /\ Len(a) \in 1..Len(a)  BY <1>1, <2>2
    <3> QED  BY <3>1, SubSeqOfConcat1
  <2> QED  BY <2>1, <2>2
<1>3. SubSeq(a \o c, Len(a) + 1, Len(a \o c)) = c
  <2>1. SubSeq(a \o c, 1, Len(a)) = a  BY <1>2, SubSeqFull
  <2>2. a \o SubSeq(a \o c, Len(a) + 1, Len(a \o c)) = a \o c
    BY <1>1, <2>1, TwoParts
  <2>3. SubSeq(a \o c, Len(a) + 1, Len(a \o c)) \in Seq(S)
    BY <1>1, LastPart
  <2> QED  BY <2>2, <2>3, ConcatSimplifications
<1> QED  BY <1>1, <1>2, <1>3 DEF IsPrefix

\* The first part of a concatenation that reaches into its second half.
LEMMA FirstPartOfConcat ==
  ASSUME NEW S, NEW a \in Seq(S), NEW c \in Seq(S), NEW n \in 0..Len(c)
  PROVE  SubSeq(a \o c, 1, Len(a) + n) = a \o SubSeq(c, 1, n)
<1>1. /\ a \o c \in Seq(S) /\ Len(a \o c) = Len(a) + Len(c)
      /\ Len(a) \in Nat /\ Len(c) \in Nat /\ n \in Nat
  BY ConcatProperties, LenProperties
<1>2. SubSeq(a \o c, 1, Len(a)) = a
  BY PrefixConcat, SubSeqFull DEF IsPrefix
<1>3. SubSeq(a \o c, Len(a) + 1, Len(a) + n) = SubSeq(c, 1, n)
  <2>1. CASE n = 0
    <3>1. SubSeq(c, 1, n) = << >>  BY <2>1, SubSeqEmpty
    <3>2. Len(a) + n < Len(a) + 1 /\ Len(a) + n \in Int /\ Len(a) + 1 \in Int
      BY <1>1, <2>1
    <3> QED  BY <3>1, <3>2, SubSeqEmpty
  <2>2. CASE n # 0
    <3>1. /\ Len(a) + 1 \in Len(a)+1..Len(a)+Len(c)
          /\ Len(a) + n \in Len(a)+1..Len(a)+Len(c)
          /\ Len(a) + 1 - Len(a) = 1 /\ Len(a) + n - Len(a) = n
      BY <1>1, <2>2
    <3> QED  BY <3>1, SubSeqOfConcat2
  <2> QED  BY <2>1, <2>2
<1>4. /\ 1 \in 1..Len(a \o c)+1 /\ Len(a) \in 1-1..Len(a \o c)
      /\ Len(a) + n \in Len(a)..Len(a \o c)
  BY <1>1
<1>5. SubSeq(a \o c, 1, Len(a)) \o SubSeq(a \o c, Len(a) + 1, Len(a) + n)
        = SubSeq(a \o c, 1, Len(a) + n)
  BY <1>1, <1>4, ConcatAdjacentSubSeq
<1> QED  BY <1>2, <1>3, <1>5

(***************************************************************************)
(* Folds.                                                                  *)
(***************************************************************************)

\* The greatest number of a set of numbers up to k + 1.
LEMMA MaxOfNext ==
  ASSUME NEW k \in Nat, NEW s \in SUBSET (1..k+1)
  PROVE  /\ k + 1 \in s => Max(s) = k + 1 /\ s \ {Max(s)} \in SUBSET (1..k)
         /\ k + 1 \notin s => s \in SUBSET (1..k)
<1>1. ASSUME k + 1 \in s  PROVE Max(s) = k + 1
  <2>1. \A y \in s : k + 1 >= y  OBVIOUS
  <2>2. \A x \in s : (\A y \in s : x >= y) => x = k + 1  BY <1>1
  <2> QED  BY <1>1, <2>1, <2>2 DEF Max
<1>2. ASSUME k + 1 \notin s  PROVE s \in SUBSET (1..k)  BY <1>2
<1>3. ASSUME k + 1 \in s  PROVE s \ {k + 1} \in SUBSET (1..k)  OBVIOUS
<1> QED  BY <1>1, <1>2, <1>3

\* ... and of all of them.
LEMMA MaxOfRange ==
  ASSUME NEW k \in Nat \ {0}
  PROVE  Max(1..k) = k /\ (1..k) \ {k} = 1..k-1
<1>1. k \in 1..k /\ \A y \in 1..k : k >= y  OBVIOUS
<1>2. \A x \in 1..k : (\A y \in 1..k : x >= y) => x = k  BY <1>1
<1>3. Max(1..k) = k  BY <1>1, <1>2 DEF Max
<1> QED  BY <1>3

\* The greatest element of a set of numbers up to n.
LEMMA MaxIn ==
  ASSUME NEW n \in Nat, NEW s \in SUBSET (1..n), s # {}
  PROVE  Max(s) \in s /\ \A y \in s : Max(s) >= y
<1> DEFINE U == {n - t : t \in s}
<1>1. U \subseteq Nat  OBVIOUS
<1>2. U # {}
  <2>1. PICK t \in s : TRUE  OBVIOUS
  <2>2. n - t \in U  OBVIOUS
  <2> QED  BY <2>2
<1>3. PICK u \in U : \A v \in U : u <= v
  <2> HIDE DEF U
  <2> QED  BY <1>1, <1>2, Least
<1>4. PICK m \in s : u = n - m  OBVIOUS
<1>5. ASSUME NEW t \in s  PROVE m >= t
  <2>1. n - t \in U  OBVIOUS
  <2>2. u <= n - t  BY <1>3, <2>1
  <2> QED  BY <1>4, <2>2
<1> QED  BY <1>5 DEF Max

Closed(F, B, X) == \A b \in B, x \in X : F[<<b, x>>] \in B

SetFold(it, F, base, n) ==
  \A s \in SUBSET (1..n) :
    it[s] = IF s = {} THEN base ELSE F[<<it[s \ {Max(s)}], Max(s)>>]

\* There is a function that folds the subsets of 1..n from the left.
LEMMA FoldExists ==
  ASSUME NEW n \in Nat, NEW B, NEW base \in B, NEW F, Closed(F, B, 1..n)
  PROVE  \E it \in [SUBSET (1..n) -> B] : SetFold(it, F, base, n)
<1> USE DEF Closed, SetFold
<1> DEFINE Folds(k, it) ==
             \A s \in SUBSET (1..k) :
               it[s] = IF s = {} THEN base ELSE F[<<it[s \ {Max(s)}], Max(s)>>]
           T == {k \in 0..n : \E it \in [SUBSET (1..k) -> B] : Folds(k, it)}
<1>1. ASSUME NEW k \in 0..n, k = 0  PROVE k \in T
  <2> DEFINE none == [s \in SUBSET (1..k) |-> base]
  <2>1. SUBSET (1..k) = {{}}  BY <1>1
  <2>2. none \in [SUBSET (1..k) -> B]  OBVIOUS
  <2>3. Folds(k, none)  BY <2>1
  <2> HIDE DEF none
  <2> QED  BY <2>2, <2>3
<1>2. ASSUME NEW k \in 0..n, k \in T, k + 1 \in 0..n  PROVE k + 1 \in T
  <2>1. PICK it \in [SUBSET (1..k) -> B] : Folds(k, it)  BY <1>2
  <2> DEFINE up == [s \in SUBSET (1..k+1) |->
                      IF k + 1 \in s THEN F[<<it[s \ {k + 1}], k + 1>>] ELSE it[s]]
  <2>2. \A s \in SUBSET (1..k+1) : k + 1 \in s => s \ {k + 1} \in SUBSET (1..k)
    OBVIOUS
  <2>3. \A s \in SUBSET (1..k+1) : k + 1 \notin s => s \in SUBSET (1..k)
    OBVIOUS
  <2>4. k + 1 \in 1..n  BY <1>2
  <2>5. up \in [SUBSET (1..k+1) -> B]  BY <2>2, <2>3, <2>4
  <2>6. ASSUME NEW s \in SUBSET (1..k+1)
        PROVE  up[s] = IF s = {} THEN base ELSE F[<<up[s \ {Max(s)}], Max(s)>>]
    <3>1. CASE k + 1 \in s
      <4>1. Max(s) = k + 1  BY <3>1, MaxOfNext
      <4>2. up[s] = F[<<it[s \ {k + 1}], k + 1>>]  BY <3>1
      <4>3. up[s \ {k + 1}] = it[s \ {k + 1}]  BY <2>2, <3>1
      <4> QED  BY <3>1, <4>1, <4>2, <4>3
    <3>2. CASE k + 1 \notin s
      <4>1. s \in SUBSET (1..k)  BY <2>3, <3>2
      <4>2. up[s] = it[s]  BY <3>2
      <4>3. up[s \ {Max(s)}] = it[s \ {Max(s)}]  BY <3>2, <4>1
      <4> QED  BY <2>1, <4>1, <4>2, <4>3
    <3> QED  BY <3>1, <3>2
  <2> HIDE DEF up
  <2>7. Folds(k + 1, up)  BY <2>6
  <2> QED  BY <1>2, <2>5, <2>7
<1> HIDE DEF T
<1>3. \A k \in 0..n : k \in T
  <2>1. \A k \in 0..n : k \in T /\ k + 1 \in 0..n => k + 1 \in T  BY <1>2
  <2>2. 0 \in T  BY <1>1
  <2> QED  BY <2>1, <2>2, UpTo
<1>4. n \in T  BY <1>3
<1> QED  BY <1>4 DEF T

\* The results after 0, 1, ..., n elements; it[1..n] is the last of them.
TypedFold(it, F, B, base, n) ==
  /\ it[{}] = base
  /\ \A s \in SUBSET (1..n) : s # {} /\ it[s \ {Max(s)}] \in B
       => it[s] = F[<<it[s \ {Max(s)}], Max(s)>>]

SetRun(run, it, F, base, n) ==
  /\ run[0] = base /\ run[n] = it[1..n]
  /\ \A k \in 1..n : run[k] = F[<<run[k - 1], k>>]

\* A fold over the numbers up to n has a run: its value after each of them.
LEMMA RunOf ==
  ASSUME NEW n \in Nat, NEW B, NEW base \in B, NEW F, Closed(F, B, 1..n),
         NEW it, TypedFold(it, F, B, base, n)
  PROVE  \E run \in [0..n -> B] : SetRun(run, it, F, base, n)
<1> USE DEF Closed, TypedFold, SetRun
<1>1. 1..0 = {}  OBVIOUS
<1>2. ASSUME NEW k \in 1..n, it[1..k-1] \in B
      PROVE  it[1..k] = F[<<it[1..k-1], k>>] /\ it[1..k] \in B
  <2>1. PICK s : s = 1..k  OBVIOUS
  <2>2. Max(s) = k /\ s \ {Max(s)} = 1..k-1  BY <2>1, MaxOfRange
  <2>3. s \in SUBSET (1..n) /\ s # {}  BY <2>1
  <2>4. it[s] = F[<<it[1..k-1], k>>]  BY <1>2, <2>2, <2>3
  <2>5. it[s] \in B  BY <1>2, <2>4
  <2> QED  BY <2>1, <2>4, <2>5
<1> DEFINE T == {k \in 0..n : it[1..k] \in B}
<1>3. 0 \in T  BY <1>1
<1>4. ASSUME NEW k \in 0..n, k \in T, k + 1 \in 0..n  PROVE k + 1 \in T
  <2>1. PICK j \in 1..n : j = k + 1  BY <1>4
  <2>2. j - 1 = k  BY <2>1
  <2>3. it[1..j-1] \in B  BY <1>4, <2>2
  <2>4. it[1..j] \in B  BY <1>2, <2>3
  <2> QED  BY <1>4, <2>1, <2>4
<1>5. \A k \in 0..n : k \in T
  <2> HIDE DEF T
  <2>1. \A k \in 0..n : k \in T /\ k + 1 \in 0..n => k + 1 \in T  BY <1>4
  <2> QED  BY <1>3, <2>1, UpTo
<1> DEFINE run == [k \in 0..n |-> it[1..k]]
<1>6. run \in [0..n -> B]  BY <1>5
<1>7. run[0] = base /\ run[n] = it[1..n]  BY <1>1
<1>8. ASSUME NEW k \in 1..n  PROVE run[k] = F[<<run[k - 1], k>>]
  <2>1. k - 1 \in 0..n /\ k \in 0..n  OBVIOUS
  <2>2. it[1..k-1] \in B  BY <1>5, <2>1
  <2> QED  BY <1>2, <2>1, <2>2
<1> HIDE DEF run
<1> QED  BY <1>6, <1>7, <1>8

(***************************************************************************)
(* The same as a function of the sequence: F takes the result so far and   *)
(* the next element.                                                       *)
(***************************************************************************)

IsRun(F, base, s, run) ==
  run[0] = base /\ \A k \in 1..Len(s) : run[k] = F[<<run[k - 1], s[k]>>]

LeftFold(F, base, s) ==
  CHOOSE v : \E run : IsRun(F, base, s, run) /\ v = run[Len(s)]

\* A left fold over a sequence has a run,
LEMMA RunExists ==
  ASSUME NEW F, NEW base, NEW S, NEW s \in Seq(S)
  PROVE  \E run : IsRun(F, base, s, run)
<1> DEFINE Until(k, run) ==
             run[0] = base /\ \A j \in 1..k : run[j] = F[<<run[j - 1], s[j]>>]
           T == {k \in 0..Len(s) : \E run : Until(k, run)}
<1>1. Len(s) \in Nat  BY LenProperties
<1>2. 0 \in T
  <2>1. Until(0, [j \in 0..0 |-> base])  OBVIOUS
  <2>2. \E run : Until(0, run)  BY <2>1
  <2> QED  BY <1>1, <2>2
<1>3. ASSUME NEW k \in 0..Len(s), k \in T, k + 1 \in 0..Len(s)  PROVE k + 1 \in T
  <2>1. PICK run : Until(k, run)  BY <1>3
  <2> DEFINE more == [j \in 0..k+1 |-> IF j <= k THEN run[j] ELSE F[<<run[k], s[k + 1]>>]]
  <2>2. more[0] = base  BY <2>1
  <2>3. ASSUME NEW j \in 1..k+1  PROVE more[j] = F[<<more[j - 1], s[j]>>]
    <3>0. PICK i \in 0..k : i = j - 1  BY <1>1
    <3>1. more[i] = run[i]  BY <3>0
    <3>2. CASE j <= k
      <4>1. j \in 1..k /\ j \in 0..k+1  BY <3>2
      <4> QED  BY <2>1, <3>0, <3>1, <3>2, <4>1
    <3>3. CASE j = k + 1
      <4>1. i = k /\ ~(j <= k) /\ j \in 0..k+1  BY <1>1, <3>0, <3>3
      <4>2. more[j] = F[<<run[k], s[k + 1]>>]  BY <4>1
      <4> QED  BY <3>0, <3>1, <3>3, <4>1, <4>2
    <3> QED  BY <3>2, <3>3
  <2> HIDE DEF more
  <2>4. Until(k + 1, more)  BY <2>2, <2>3
  <2> QED  BY <1>3, <2>4
<1>4. Len(s) \in T
  <2> HIDE DEF T
  <2>1. \A k \in 0..Len(s) : k \in T  BY <1>1, <1>2, <1>3, UpTo
  <2> QED  BY <1>1, <2>1
<1> QED  BY <1>4 DEF IsRun

\* ... and all its runs end with the same value.
LEMMA RunUnique ==
  ASSUME NEW F, NEW base, NEW S, NEW s \in Seq(S), NEW run, NEW other,
         IsRun(F, base, s, run), IsRun(F, base, s, other)
  PROVE  run[Len(s)] = other[Len(s)]
<1> DEFINE T == {k \in 0..Len(s) : run[k] = other[k]}
<1>1. Len(s) \in Nat  BY LenProperties
<1>2. 0 \in T  BY <1>1 DEF IsRun
<1>3. ASSUME NEW k \in 0..Len(s), k \in T, k + 1 \in 0..Len(s)  PROVE k + 1 \in T
  <2>1. PICK j \in 1..Len(s) : j = k + 1  BY <1>1, <1>3
  <2>2. j - 1 = k  BY <2>1
  <2>3. run[j] = other[j]  BY <1>3, <2>2 DEF IsRun
  <2> QED  BY <1>3, <2>1, <2>3
<1>4. \A k \in 0..Len(s) : k \in T
  <2> HIDE DEF T
  <2> QED  BY <1>1, <1>2, <1>3, UpTo
<1> QED  BY <1>1, <1>4

\* Any run tells what the fold is.
LEMMA FoldIsRun ==
  ASSUME NEW F, NEW base, NEW S, NEW s \in Seq(S), NEW run, IsRun(F, base, s, run)
  PROVE  LeftFold(F, base, s) = run[Len(s)]
<1>1. \E v : \E r : IsRun(F, base, s, r) /\ v = r[Len(s)]  OBVIOUS
<1>2. PICK r : IsRun(F, base, s, r) /\ LeftFold(F, base, s) = r[Len(s)]
  BY <1>1 DEF LeftFold
<1> QED  BY <1>2, RunUnique

\* A fold over nothing is its base,
LEMMA FoldEmpty ==
  ASSUME NEW F, NEW base
  PROVE  LeftFold(F, base, << >>) = base
<1> DEFINE run == [k \in 0..0 |-> base]
<1>1. << >> \in Seq({}) /\ Len(<< >>) = 0  BY EmptySeq
<1>2. IsRun(F, base, << >>, run)  BY <1>1 DEF IsRun
<1>3. run[0] = base  OBVIOUS
<1> HIDE DEF run
<1> QED  BY <1>1, <1>2, <1>3, FoldIsRun

\* ... over two sequences one fold continues the other,
LEMMA FoldConcat ==
  ASSUME NEW F, NEW base, NEW S, NEW s \in Seq(S), NEW t \in Seq(S)
  PROVE  LeftFold(F, base, s \o t) = LeftFold(F, LeftFold(F, base, s), t)
<1> DEFINE m == Len(s)
           n == Len(t)
<1>1. m \in Nat /\ n \in Nat  BY LenProperties
<1>2. PICK first : IsRun(F, base, s, first)  BY RunExists
<1>3. LeftFold(F, base, s) = first[m]  BY <1>2, FoldIsRun
<1>4. PICK second : IsRun(F, first[m], t, second)  BY RunExists
<1>5. LeftFold(F, first[m], t) = second[n]  BY <1>4, FoldIsRun
<1> DEFINE run == [k \in 0..m+n |-> IF k <= m THEN first[k] ELSE second[k - m]]
<1>6. /\ s \o t \in Seq(S) /\ Len(s \o t) = m + n
      /\ \A k \in 1..m+n : (s \o t)[k] = IF k <= m THEN s[k] ELSE t[k - m]
  BY ConcatProperties
<1>7. ASSUME NEW k \in 1..m+n  PROVE run[k] = F[<<run[k - 1], (s \o t)[k]>>]
  <2>1. CASE k <= m
    <3>1. k \in 1..m /\ k - 1 <= m /\ k - 1 \in 0..m+n  BY <1>1, <2>1
    <3>2. first[k] = F[<<first[k - 1], s[k]>>]  BY <1>2, <3>1 DEF IsRun
    <3> QED  BY <1>6, <2>1, <3>1, <3>2
  <2>2. CASE k > m
    <3>1. k - m \in 1..n /\ k - 1 \in 0..m+n /\ ~(k <= m)  BY <1>1, <2>2
    <3>2. second[k - m] = F[<<second[k - m - 1], t[k - m]>>]
      BY <1>4, <3>1 DEF IsRun
    <3>3. run[k - 1] = second[k - m - 1]
      <4>1. CASE k - 1 = m
        <5>1. k - m - 1 = 0 /\ run[k - 1] = first[m]  BY <1>1, <3>1, <4>1
        <5> QED  BY <1>4, <5>1 DEF IsRun
      <4>2. CASE k - 1 # m
        <5>1. ~(k - 1 <= m) /\ k - 1 - m = k - m - 1  BY <1>1, <2>2, <4>2
        <5> QED  BY <3>1, <5>1
      <4> QED  BY <4>1, <4>2
    <3>4. run[k] = second[k - m]  BY <3>1
    <3>5. (s \o t)[k] = t[k - m]  BY <1>6, <3>1
    <3>6. <<second[k - m - 1], t[k - m]>> = <<run[k - 1], (s \o t)[k]>>
      BY <3>3, <3>5
    <3> HIDE DEF run
    <3> QED  BY <3>2, <3>4, <3>6
  <2> HIDE DEF run, m, n
  <2>3. k <= m \/ k > m  BY <1>1
  <2> QED  BY <2>1, <2>2, <2>3
<1>8. run[0] = base  BY <1>1, <1>2 DEF IsRun
<1>9. run[m + n] = second[n]
  <2>1. CASE n = 0  BY <1>1, <1>4, <2>1 DEF IsRun
  <2>2. CASE n # 0
    <3>1. ~(m + n <= m) /\ m + n - m = n /\ m + n \in 0..m+n  BY <1>1, <2>2
    <3> QED  BY <3>1
  <2> QED  BY <2>1, <2>2
<1> HIDE DEF run, m, n
<1>10. IsRun(F, base, s \o t, run)  BY <1>6, <1>7, <1>8 DEF IsRun
<1>11. LeftFold(F, base, s \o t) = run[m + n]
  <2>1. PICK w : w = s \o t  OBVIOUS
  <2>2. w \in Seq(S) /\ Len(w) = m + n  BY <1>6, <2>1
  <2>3. IsRun(F, base, w, run)  BY <1>10, <2>1
  <2>4. LeftFold(F, base, w) = run[m + n]  BY <2>2, <2>3, FoldIsRun
  <2> QED  BY <2>1, <2>4
<1> QED  BY <1>3, <1>5, <1>9, <1>11

\* ... as a fact of its own, for those who need no more than that.
FoldsApart(F, base, s, t) ==
  LeftFold(F, base, s \o t) = LeftFold(F, LeftFold(F, base, s), t)

\* ... the same, under a name,
LEMMA FoldApart ==
  ASSUME NEW F, NEW base, NEW S, NEW s \in Seq(S), NEW t \in Seq(S)
  PROVE  FoldsApart(F, base, s, t)
<1>1. LeftFold(F, base, s \o t) = LeftFold(F, LeftFold(F, base, s), t)
  BY FoldConcat
<1> QED  BY <1>1 DEF FoldsApart

\* ... over one element a single step,
LEMMA FoldOne ==
  ASSUME NEW F, NEW base, NEW x
  PROVE  LeftFold(F, base, <<x>>) = F[<<base, x>>]
<1> DEFINE run == [k \in 0..1 |-> IF k = 0 THEN base ELSE F[<<base, x>>]]
<1>1. <<x>> \in Seq({x}) /\ Len(<<x>>) = 1 /\ <<x>>[1] = x  OBVIOUS
<1>2. run[0] = base /\ run[1] = F[<<base, x>>]  OBVIOUS
<1> HIDE DEF run
<1>3. IsRun(F, base, <<x>>, run)  BY <1>1, <1>2 DEF IsRun
<1> QED  BY <1>1, <1>2, <1>3, FoldIsRun

\* ... and over one more element one step more.
LEMMA FoldAppend ==
  ASSUME NEW F, NEW base, NEW S, NEW s \in Seq(S), NEW x \in S
  PROVE  LeftFold(F, base, Append(s, x)) = F[<<LeftFold(F, base, s), x>>]
<1>1. Append(s, x) = s \o <<x>>  BY AppendIsConcat
<1>2. LeftFold(F, base, s \o <<x>>) = LeftFold(F, LeftFold(F, base, s), <<x>>)
  <2>0. <<x>> \in Seq(S)  OBVIOUS
  <2>1. PICK one \in Seq(S) : one = <<x>>  BY <2>0
  <2>2. LeftFold(F, base, s \o one) = LeftFold(F, LeftFold(F, base, s), one)
    BY FoldConcat
  <2> QED  BY <2>1, <2>2
<1>3. LeftFold(F, LeftFold(F, base, s), <<x>>) = F[<<LeftFold(F, base, s), x>>]
  BY FoldOne
<1> QED  BY <1>1, <1>2, <1>3

(***************************************************************************)
(* From the FoldLeft of SequencesExt, which folds over the positions of a  *)
(* sequence, to LeftFold: there is a function as FoldLeft chooses it, and  *)
(* each such function has the fold as its last value.                      *)
(***************************************************************************)

FoldOver(it, F, base, s) ==
  \A u \in SUBSET (DOMAIN s) :
    it[u] = IF u = {} THEN base ELSE F[<<it[u \ {Max(u)}], s[Max(u)]>>]

TypedFoldOver(it, F, B, base, s) ==
  /\ it[{}] = base
  /\ \A u \in SUBSET (DOMAIN s) : u # {} /\ it[u \ {Max(u)}] \in B
       => it[u] = F[<<it[u \ {Max(u)}], s[Max(u)]>>]

\* The fold over sets of positions by which the library defines FoldLeft exists,
LEMMA PositionsExist ==
  ASSUME NEW S, NEW s \in Seq(S), NEW B, NEW base \in B,
         NEW F, Closed(F, B, S)
  PROVE  \E it \in [SUBSET (DOMAIN s) -> B] : FoldOver(it, F, base, s)
<1>1. PICK n \in Nat : n = Len(s) /\ DOMAIN s = 1..n  BY LenProperties
<1>2. \A i \in 1..n : s[i] \in S  BY <1>1, ElementOfSeq
<1>3. PICK G : G = [x \in B \X (1..n) |-> F[<<x[1], s[x[2]]>>]]  OBVIOUS
<1>4. \A b \in B, i \in 1..n : G[<<b, i>>] = F[<<b, s[i]>>]  BY <1>3
<1>5. Closed(G, B, 1..n)  BY <1>2, <1>4 DEF Closed
<1>6. PICK it \in [SUBSET (1..n) -> B] : SetFold(it, G, base, n)
  BY <1>5, FoldExists
<1>7. ASSUME NEW u \in SUBSET (1..n)
      PROVE  it[u] = IF u = {} THEN base ELSE F[<<it[u \ {Max(u)}], s[Max(u)]>>]
  <2>1. CASE u = {}  BY <1>6, <2>1 DEF SetFold
  <2>2. CASE u # {}
    <3>1. Max(u) \in 1..n  BY <2>2, MaxIn
    <3>2. it[u \ {Max(u)}] \in B  OBVIOUS
    <3>3. it[u] = G[<<it[u \ {Max(u)}], Max(u)>>]  BY <1>6, <2>2 DEF SetFold
    <3> QED  BY <1>4, <2>2, <3>1, <3>2, <3>3
  <2> QED  BY <2>1, <2>2
<1> QED  BY <1>1, <1>7 DEF FoldOver

\* ... and is the left fold.
LEMMA PositionsFold ==
  ASSUME NEW S, NEW s \in Seq(S), NEW B, NEW base \in B,
         NEW F, Closed(F, B, S), NEW it, TypedFoldOver(it, F, B, base, s)
  PROVE  LeftFold(F, base, s) = it[DOMAIN s]
<1>1. PICK n \in Nat : n = Len(s) /\ DOMAIN s = 1..n  BY LenProperties
<1>2. \A i \in 1..n : s[i] \in S  BY <1>1, ElementOfSeq
<1>3. PICK G : G = [x \in B \X (1..n) |-> F[<<x[1], s[x[2]]>>]]  OBVIOUS
<1>4. \A b \in B, i \in 1..n : G[<<b, i>>] = F[<<b, s[i]>>]  BY <1>3
<1>5. Closed(G, B, 1..n)  BY <1>2, <1>4 DEF Closed
<1>6. ASSUME NEW u \in SUBSET (1..n), u # {}, it[u \ {Max(u)}] \in B
      PROVE  it[u] = G[<<it[u \ {Max(u)}], Max(u)>>]
  <2>1. Max(u) \in 1..n  BY <1>6, MaxIn
  <2>2. it[u] = F[<<it[u \ {Max(u)}], s[Max(u)]>>]
    BY <1>1, <1>6 DEF TypedFoldOver
  <2> QED  BY <1>4, <1>6, <2>1, <2>2
<1>7. TypedFold(it, G, B, base, n)  BY <1>6 DEF TypedFold, TypedFoldOver
<1>8. PICK run \in [0..n -> B] : SetRun(run, it, G, base, n)
  BY <1>5, <1>7, RunOf
<1>9. ASSUME NEW k \in 1..n  PROVE run[k] = F[<<run[k - 1], s[k]>>]
  <2>1. k - 1 \in 0..n  OBVIOUS
  <2>2. run[k - 1] \in B  BY <2>1
  <2>3. run[k] = G[<<run[k - 1], k>>]  BY <1>8 DEF SetRun
  <2> QED  BY <1>4, <2>2, <2>3
<1>10. IsRun(F, base, s, run)  BY <1>1, <1>8, <1>9 DEF IsRun, SetRun
<1>11. LeftFold(F, base, s) = run[n]  BY <1>1, <1>10, FoldIsRun
<1> QED  BY <1>1, <1>8, <1>11 DEF SetRun

\* Induction over sequences that grow at the end.
LEMMA ByAppending ==
  ASSUME NEW S, NEW T, << >> \in T,
         \A s \in Seq(S), x \in S : s \in T => Append(s, x) \in T
  PROVE  Seq(S) \subseteq T
<1> SUFFICES ASSUME NEW all \in Seq(S)  PROVE all \in T  OBVIOUS
<1> DEFINE n == Len(all)
           U == {k \in 0..n : \A s \in Seq(S) : Len(s) = k => s \in T}
<1>1. n \in Nat  BY LenProperties
<1>2. 0 \in U
  <2>1. ASSUME NEW s \in Seq(S), Len(s) = 0  PROVE s = << >>
    BY <2>1, EmptySeq
  <2> QED  BY <1>1, <2>1
<1>3. ASSUME NEW k \in 0..n, k \in U, k + 1 \in 0..n  PROVE k + 1 \in U
  <2>1. ASSUME NEW s \in Seq(S), Len(s) = k + 1  PROVE s \in T
    <3>1. s # << >>  BY <1>1, <2>1, EmptySeq
    <3>2. PICK front \in Seq(S), x \in S : s = Append(front, x)
      BY <3>1, SequenceEmptyOrAppend
    <3>3. Len(s) = Len(front) + 1 /\ Len(front) \in Nat
      BY <3>2, AppendProperties, LenProperties
    <3>4. Len(front) = k  BY <2>1, <3>3
    <3>5. front \in T  BY <1>3, <3>4
    <3> QED  BY <3>2, <3>5
  <2> QED  BY <1>3, <2>1
<1>4. \A k \in 0..n : k \in U
  <2> HIDE DEF U, n
  <2> QED  BY <1>1, <1>2, <1>3, UpTo
<1>5. n \in U  BY <1>1, <1>4
<1> QED  BY <1>5

\* A fold stays where its step function does.
LEMMA FoldTyped ==
  ASSUME NEW S, NEW s \in Seq(S), NEW B, NEW base \in B,
         NEW F, Closed(F, B, S)
  PROVE  LeftFold(F, base, s) \in B
<1> DEFINE T == {t \in Seq(S) : LeftFold(F, base, t) \in B}
<1>1. << >> \in T  BY FoldEmpty, EmptySeq
<1>2. ASSUME NEW t \in Seq(S), NEW x \in S, t \in T  PROVE Append(t, x) \in T
  <2>1. LeftFold(F, base, Append(t, x)) = F[<<LeftFold(F, base, t), x>>]
    BY FoldAppend
  <2>2. Append(t, x) \in Seq(S)  BY AppendProperties
  <2>3. F[<<LeftFold(F, base, t), x>>] \in B  BY <1>2 DEF Closed
  <2> QED  BY <2>1, <2>2, <2>3
<1> HIDE DEF T
<1>3. Seq(S) \subseteq T  BY <1>1, <1>2, ByAppending
<1> QED  BY <1>3 DEF T
=============================================================================
