-------------------------- MODULE RuleFile_proofs --------------------------
(***************************************************************************)
(* What is proved about the hashes of rule files, for every set of stanza  *)
(* names and words, texts of any length and documents of any number.       *)
(***************************************************************************)
EXTENDS RuleFile, SequenceLemmas

AllWords == Words \cup {Backslash}
Known    == [in : SUBSET Names, search : [Names -> Line]]
Nothing  == [in |-> {}, search |-> [n \in Names |-> Blank]]

\* The steps of the folds, as functions.
JoinF     == [x \in Seq(Line) \X Line |-> Join(x[1], x[2])]
JoinConfF == [x \in Seq(Line) \X Line |-> JoinConf(x[1], x[2])]
SayF      == [x \in Seq(AllWords) \X Line |-> Say(x[1], x[2])]
ReadF     == [x \in Known \X Line |-> ReadLine(x[1], x[2])]

(***************************************************************************)
(* The end of a sequence after another one.                                *)
(***************************************************************************)

\* After a beginning that stays, Append and the last element do not see it.
AppendsAfter(p, s, x) == Append(p \o s, x) = p \o Append(s, x)

\* Appending to the second of two sequences.
LEMMA AppendAfter ==
  ASSUME NEW S, NEW p \in Seq(S), NEW s \in Seq(S), NEW x \in S
  PROVE  AppendsAfter(p, s, x)
<1>1. p \o s \in Seq(S)  BY ConcatProperties
<1>2. PICK one \in Seq(S) : one = <<x>>
  <2>1. <<x>> \in Seq(S)  OBVIOUS
  <2> QED  BY <2>1
<1>3. Append(p \o s, x) = (p \o s) \o one  BY <1>1, <1>2, AppendIsConcat
<1>4. Append(s, x) = s \o one  BY <1>2, AppendIsConcat
<1>5. Associates(p, s, one)  BY Associative
<1> QED  BY <1>3, <1>4, <1>5 DEF Associates, AppendsAfter

\* The last element of two sequences is that of the second.
LEMMA EndAfter ==
  ASSUME NEW S, NEW p \in Seq(S), NEW s \in Seq(S), s # << >>
  PROVE  /\ p \o s # << >> /\ Last(p \o s) = Last(s)
         /\ Front(p \o s) = p \o Front(s)
<1>1. PICK f \in Seq(S), x \in S : f = Front(s) /\ x = Last(s) /\ s = Append(f, x)
  BY FrontLast
<1>2. PICK b \in Seq(S) : b = p \o f  BY ConcatProperties
<1>5. AppendsAfter(p, f, x)  BY <1>1, AppendAfter
<1>3. p \o s = Append(b, x)  BY <1>1, <1>2, <1>5 DEF AppendsAfter
<1>4. /\ Append(b, x) # << >> /\ Last(Append(b, x)) = x
      /\ Front(Append(b, x)) = b
  BY OfAppend
<1> QED  BY <1>1, <1>2, <1>3, <1>4

(***************************************************************************)
(* Types of the operators on lines.                                        *)
(***************************************************************************)

\* A line is its words and its mark.
LEMMA LineType ==
  ASSUME NEW l \in Line
  PROVE  /\ l.words \in Seq(Words) /\ l.cont \in BOOLEAN
         /\ l = [words |-> l.words, cont |-> l.cont]
         /\ l.words # << >> => l.words[1] \in Words /\ Last(l.words) \in Words
<1>1. /\ l.words \in Seq(Words) /\ l.cont \in BOOLEAN
      /\ l = [words |-> l.words, cont |-> l.cont]
  BY DEF Line
<1>2. ASSUME l.words # << >>
      PROVE  l.words[1] \in Words /\ Last(l.words) \in Words
  BY <1>1, <1>2, EmptySeq, LenProperties, ElementOfSeq, FrontLast
<1> QED  BY <1>1, <1>2

\* A line and its continuation make a line,
LEMMA GlueType ==
  ASSUME NEW k \in Line, NEW l \in Line
  PROVE  Glue(k, l) \in Line
BY LineType, ConcatProperties DEF Glue, Line

\* ... and the lines so far and one more make lines.
LEMMA JoinType ==
  ASSUME NEW ls \in Seq(Line), NEW l \in Line
  PROVE  /\ Join(ls, l) \in Seq(Line) /\ JoinConf(ls, l) \in Seq(Line)
         /\ ls # << >> => GlueLast(ls, l) \in Seq(Line)
<1>1. Append(ls, l) \in Seq(Line)  BY AppendProperties
<1>2. ASSUME ls # << >>  PROVE GlueLast(ls, l) \in Seq(Line)
  <2>1. Front(ls) \in Seq(Line) /\ Last(ls) \in Line  BY <1>2, FrontLast
  <2> QED  BY <2>1, GlueType, AppendProperties DEF GlueLast
<1> QED  BY <1>1, <1>2 DEF Join, JoinConf

\* The words a line is written with, its backslash included, are words,
LEMMA SpelledType ==
  ASSUME NEW l \in Line
  PROVE  Spelled(l) \in Seq(AllWords)
<1>1. l.words \in Seq(AllWords)  BY LineType, SeqMonotonic DEF AllWords
<1> QED  BY <1>1, AppendProperties DEF Spelled, AllWords

\* ... and so is what has been said and one line more.
LEMMA SayType ==
  ASSUME NEW ws \in Seq(AllWords), NEW l \in Line
  PROVE  Say(ws, l) \in Seq(AllWords)
BY SpelledType, ConcatProperties DEF Say

\* A header has a stanza's name.
LEMMA HeaderType ==
  ASSUME NEW l \in Line, IsHeader(l)
  PROVE  HeaderName(l) \in Names \cup {Default}
<1>1. l.words[1] \in Headers  BY DEF IsHeader
<1>2. l.words[1].stanza \in Names \cup {Default}
  BY <1>1 DEF Headers, Header
<1> QED  BY <1>2 DEF HeaderName

\* An empty search is a line.
LEMMA BlankType == Blank \in Line
BY EmptySeq DEF Blank, Line

\* What the conf reader knows after a line is something it can know,
LEMMA ReadType ==
  ASSUME NEW acc \in Known, NEW l \in Line
  PROVE  ReadLine(acc, l) \in Known
<1>1. acc.in \in SUBSET Names /\ acc.search \in [Names -> Line]
  BY DEF Known
<1>2. CASE IsHeader(l)
  <2>1. CASE HeaderName(l) = Default  BY <1>1, <1>2, <2>1 DEF ReadLine, Known
  <2>2. CASE HeaderName(l) # Default
    <3>1. HeaderName(l) \in Names  BY <1>2, <2>2, HeaderType
    <3>2. [acc.search EXCEPT ![HeaderName(l)] = Blank] \in [Names -> Line]
      BY <1>1, BlankType
    <3> QED  BY <1>2, <2>2, <3>1, <3>2 DEF ReadLine, Known
  <2> QED  BY <2>1, <2>2
<1>3. CASE ~IsHeader(l) /\ l.words # << >> /\ l.words[1] = SearchKey
  <2>1. [l EXCEPT !.words = Tail(@)] \in Line
    BY <1>3, LineType, HeadTailProperties DEF Line
  <2> QED  BY <1>1, <1>3, <2>1 DEF ReadLine, Known
<1>4. CASE ~IsHeader(l) /\ ~(l.words # << >> /\ l.words[1] = SearchKey)
  BY <1>4 DEF ReadLine
<1> QED  BY <1>2, <1>3, <1>4

\* ... and so is what it knows at first.
LEMMA NothingType == Nothing \in Known
BY BlankType DEF Nothing, Known

(***************************************************************************)
(* The folds of the model are left folds of these functions.               *)
(***************************************************************************)

\* The steps of the four folds as functions,
LEMMA Steps ==
  /\ \A ls \in Seq(Line), l \in Line : JoinF[<<ls, l>>] = Join(ls, l)
  /\ \A ls \in Seq(Line), l \in Line : JoinConfF[<<ls, l>>] = JoinConf(ls, l)
  /\ \A ws \in Seq(AllWords), l \in Line : SayF[<<ws, l>>] = Say(ws, l)
  /\ \A acc \in Known, l \in Line : ReadF[<<acc, l>>] = ReadLine(acc, l)
<1>1. \A ls \in Seq(Line), l \in Line : JoinF[<<ls, l>>] = Join(ls, l)
  BY DEF JoinF
<1>2. \A ls \in Seq(Line), l \in Line : JoinConfF[<<ls, l>>] = JoinConf(ls, l)
  BY DEF JoinConfF
<1>3. \A ws \in Seq(AllWords), l \in Line : SayF[<<ws, l>>] = Say(ws, l)
  BY DEF SayF
<1>4. \A acc \in Known, l \in Line : ReadF[<<acc, l>>] = ReadLine(acc, l)
  BY DEF ReadF
<1> QED  BY <1>1, <1>2, <1>3, <1>4

\* ... which stay among lines, words and what a reader can know.
LEMMA StepsClosed ==
  /\ Closed(JoinF, Seq(Line), Line) /\ Closed(JoinConfF, Seq(Line), Line)
  /\ Closed(SayF, Seq(AllWords), Line) /\ Closed(ReadF, Known, Line)
BY Steps, JoinType, SayType, ReadType DEF Closed

\* The fold that joins lines is a left fold,
LEMMA JoinFold ==
  ASSUME NEW s \in Seq(Line), NEW base \in Seq(Line)
  PROVE  /\ FoldLeft(Join, base, s) = LeftFold(JoinF, base, s)
         /\ LeftFold(JoinF, base, s) \in Seq(Line)
<1> DEFINE D == DOMAIN s
           Iter(f) == f = [u \in SUBSET D |-> IF u = {} THEN base
                             ELSE Join(f[u \ {Max(u)}], s[Max(u)])]
           c == CHOOSE f : Iter(f)
<1>1. \A u \in SUBSET D : u # {} => Max(u) \in D /\ s[Max(u)] \in Line
  BY LenProperties, MaxIn, ElementOfSeq
<1>2. PICK it \in [SUBSET D -> Seq(Line)] : FoldOver(it, JoinF, base, s)
  BY StepsClosed, PositionsExist
<1>3. Iter(it)
  <2>1. ASSUME NEW u \in SUBSET D
        PROVE  it[u] = IF u = {} THEN base ELSE Join(it[u \ {Max(u)}], s[Max(u)])
    BY <1>1, <1>2, Steps DEF FoldOver
  <2> QED  BY <2>1
<1>4. Iter(c)
  <2> HIDE DEF Iter
  <2> QED  BY <1>3
<1>5. FoldLeft(Join, base, s) = c[D]  BY DEF FoldLeft, MapThenFoldSet
<1> HIDE DEF c
<1>6. TypedFoldOver(c, JoinF, Seq(Line), base, s)
  <2>1. c[{}] = base  BY <1>4
  <2>2. ASSUME NEW u \in SUBSET D, u # {}, c[u \ {Max(u)}] \in Seq(Line)
        PROVE  c[u] = JoinF[<<c[u \ {Max(u)}], s[Max(u)]>>]
    <3>1. c[u] = Join(c[u \ {Max(u)}], s[Max(u)])  BY <1>4, <2>2
    <3> QED  BY <1>1, <2>2, <3>1, Steps
  <2> QED  BY <2>1, <2>2 DEF TypedFoldOver
<1>7. LeftFold(JoinF, base, s) = c[D]  BY <1>6, StepsClosed, PositionsFold
<1>8. LeftFold(JoinF, base, s) \in Seq(Line)  BY StepsClosed, FoldTyped
<1> QED  BY <1>5, <1>7, <1>8

\* ... that of the conf reader is,
LEMMA JoinConfFold ==
  ASSUME NEW s \in Seq(Line), NEW base \in Seq(Line)
  PROVE  /\ FoldLeft(JoinConf, base, s) = LeftFold(JoinConfF, base, s)
         /\ LeftFold(JoinConfF, base, s) \in Seq(Line)
<1> DEFINE D == DOMAIN s
           Iter(f) == f = [u \in SUBSET D |-> IF u = {} THEN base
                             ELSE JoinConf(f[u \ {Max(u)}], s[Max(u)])]
           c == CHOOSE f : Iter(f)
<1>1. \A u \in SUBSET D : u # {} => Max(u) \in D /\ s[Max(u)] \in Line
  BY LenProperties, MaxIn, ElementOfSeq
<1>2. PICK it \in [SUBSET D -> Seq(Line)] : FoldOver(it, JoinConfF, base, s)
  BY StepsClosed, PositionsExist
<1>3. Iter(it)
  <2>1. ASSUME NEW u \in SUBSET D
        PROVE  it[u] = IF u = {} THEN base ELSE JoinConf(it[u \ {Max(u)}], s[Max(u)])
    BY <1>1, <1>2, Steps DEF FoldOver
  <2> QED  BY <2>1
<1>4. Iter(c)
  <2> HIDE DEF Iter
  <2> QED  BY <1>3
<1>5. FoldLeft(JoinConf, base, s) = c[D]  BY DEF FoldLeft, MapThenFoldSet
<1> HIDE DEF c
<1>6. TypedFoldOver(c, JoinConfF, Seq(Line), base, s)
  <2>1. c[{}] = base  BY <1>4
  <2>2. ASSUME NEW u \in SUBSET D, u # {}, c[u \ {Max(u)}] \in Seq(Line)
        PROVE  c[u] = JoinConfF[<<c[u \ {Max(u)}], s[Max(u)]>>]
    <3>1. c[u] = JoinConf(c[u \ {Max(u)}], s[Max(u)])  BY <1>4, <2>2
    <3> QED  BY <1>1, <2>2, <3>1, Steps
  <2> QED  BY <2>1, <2>2 DEF TypedFoldOver
<1>7. LeftFold(JoinConfF, base, s) = c[D]  BY <1>6, StepsClosed, PositionsFold
<1>8. LeftFold(JoinConfF, base, s) \in Seq(Line)  BY StepsClosed, FoldTyped
<1> QED  BY <1>5, <1>7, <1>8

\* ... that of the canonical text is,
LEMMA SayFold ==
  ASSUME NEW s \in Seq(Line), NEW base \in Seq(AllWords)
  PROVE  /\ FoldLeft(Say, base, s) = LeftFold(SayF, base, s)
         /\ LeftFold(SayF, base, s) \in Seq(AllWords)
<1> DEFINE D == DOMAIN s
           Iter(f) == f = [u \in SUBSET D |-> IF u = {} THEN base
                             ELSE Say(f[u \ {Max(u)}], s[Max(u)])]
           c == CHOOSE f : Iter(f)
<1>1. \A u \in SUBSET D : u # {} => Max(u) \in D /\ s[Max(u)] \in Line
  BY LenProperties, MaxIn, ElementOfSeq
<1>2. PICK it \in [SUBSET D -> Seq(AllWords)] : FoldOver(it, SayF, base, s)
  BY StepsClosed, PositionsExist
<1>3. Iter(it)
  <2>1. ASSUME NEW u \in SUBSET D
        PROVE  it[u] = IF u = {} THEN base ELSE Say(it[u \ {Max(u)}], s[Max(u)])
    BY <1>1, <1>2, Steps DEF FoldOver
  <2> QED  BY <2>1
<1>4. Iter(c)
  <2> HIDE DEF Iter
  <2> QED  BY <1>3
<1>5. FoldLeft(Say, base, s) = c[D]  BY DEF FoldLeft, MapThenFoldSet
<1> HIDE DEF c
<1>6. TypedFoldOver(c, SayF, Seq(AllWords), base, s)
  <2>1. c[{}] = base  BY <1>4
  <2>2. ASSUME NEW u \in SUBSET D, u # {}, c[u \ {Max(u)}] \in Seq(AllWords)
        PROVE  c[u] = SayF[<<c[u \ {Max(u)}], s[Max(u)]>>]
    <3>1. c[u] = Say(c[u \ {Max(u)}], s[Max(u)])  BY <1>4, <2>2
    <3> QED  BY <1>1, <2>2, <3>1, Steps
  <2> QED  BY <2>1, <2>2 DEF TypedFoldOver
<1>7. LeftFold(SayF, base, s) = c[D]  BY <1>6, StepsClosed, PositionsFold
<1>8. LeftFold(SayF, base, s) \in Seq(AllWords)  BY StepsClosed, FoldTyped
<1> QED  BY <1>5, <1>7, <1>8

\* ... and that of the stanzas is.
LEMMA ReadLineFold ==
  ASSUME NEW s \in Seq(Line), NEW base \in Known
  PROVE  /\ FoldLeft(ReadLine, base, s) = LeftFold(ReadF, base, s)
         /\ LeftFold(ReadF, base, s) \in Known
<1> DEFINE D == DOMAIN s
           Iter(f) == f = [u \in SUBSET D |-> IF u = {} THEN base
                             ELSE ReadLine(f[u \ {Max(u)}], s[Max(u)])]
           c == CHOOSE f : Iter(f)
<1>1. \A u \in SUBSET D : u # {} => Max(u) \in D /\ s[Max(u)] \in Line
  BY LenProperties, MaxIn, ElementOfSeq
<1>2. PICK it \in [SUBSET D -> Known] : FoldOver(it, ReadF, base, s)
  BY StepsClosed, PositionsExist
<1>3. Iter(it)
  <2>1. ASSUME NEW u \in SUBSET D
        PROVE  it[u] = IF u = {} THEN base ELSE ReadLine(it[u \ {Max(u)}], s[Max(u)])
    BY <1>1, <1>2, Steps DEF FoldOver
  <2> QED  BY <2>1
<1>4. Iter(c)
  <2> HIDE DEF Iter
  <2> QED  BY <1>3
<1>5. FoldLeft(ReadLine, base, s) = c[D]  BY DEF FoldLeft, MapThenFoldSet
<1> HIDE DEF c
<1>6. TypedFoldOver(c, ReadF, Known, base, s)
  <2>1. c[{}] = base  BY <1>4
  <2>2. ASSUME NEW u \in SUBSET D, u # {}, c[u \ {Max(u)}] \in Known
        PROVE  c[u] = ReadF[<<c[u \ {Max(u)}], s[Max(u)]>>]
    <3>1. c[u] = ReadLine(c[u \ {Max(u)}], s[Max(u)])  BY <1>4, <2>2
    <3> QED  BY <1>1, <2>2, <3>1, Steps
  <2> QED  BY <2>1, <2>2 DEF TypedFoldOver
<1>7. LeftFold(ReadF, base, s) = c[D]  BY <1>6, StepsClosed, PositionsFold
<1>8. LeftFold(ReadF, base, s) \in Known  BY StepsClosed, FoldTyped
<1> QED  BY <1>5, <1>7, <1>8

\* Appending a line to the second of two texts.
LEMMA LinesAppend ==
  \A p, ls \in Seq(Line) : \A l \in Line : Append(p \o ls, l) = p \o Append(ls, l)
<1> SUFFICES ASSUME NEW p \in Seq(Line), NEW ls \in Seq(Line), NEW l \in Line
             PROVE  Append(p \o ls, l) = p \o Append(ls, l)
  OBVIOUS
<1>1. p \o ls \in Seq(Line)  BY ConcatProperties
<1>2. PICK one \in Seq(Line) : one = <<l>>
  <2>1. <<l>> \in Seq(Line)  OBVIOUS
  <2> QED  BY <2>1
<1>3. Append(p \o ls, l) = (p \o ls) \o one  BY <1>1, <1>2, AppendIsConcat
<1>4. Append(ls, l) = ls \o one  BY <1>2, AppendIsConcat
<1>5. Associates(p, ls, one)  BY Associative
<1> QED  BY <1>3, <1>4, <1>5 DEF Associates

\* The logical lines of a text, as a search and as a conf file.
Logical(t)     == LeftFold(JoinF, << >>, t)
LogicalConf(t) == LeftFold(JoinConfF, << >>, t)

\* The canonical text as a fold over logical lines.
LEMMA CanonicalIs ==
  ASSUME NEW t \in Seq(Line)
  PROVE  /\ Logical(t) \in Seq(Line)
         /\ Canonical(t) = LeftFold(SayF, << >>, Logical(t))
         /\ Canonical(t) \in Seq(AllWords)
<1>1. << >> \in Seq(Line) /\ << >> \in Seq(AllWords)  BY EmptySeq
<1>2. Logical(t) \in Seq(Line) /\ FoldLeft(Join, << >>, t) = Logical(t)
  BY <1>1, JoinFold DEF Logical
<1> QED  BY <1>1, <1>2, SayFold DEF Canonical

\* The searches by stanza as a fold over logical lines.
LEMMA ParseIs ==
  ASSUME NEW t \in Seq(Line)
  PROVE  /\ LogicalConf(t) \in Seq(Line)
         /\ ParseConf(t) = LeftFold(ReadF, Nothing, LogicalConf(t)).search
         /\ LeftFold(ReadF, Nothing, LogicalConf(t)) \in Known
<1>1. << >> \in Seq(Line)  BY EmptySeq
<1>2. LogicalConf(t) \in Seq(Line) /\ FoldLeft(JoinConf, << >>, t) = LogicalConf(t)
  BY <1>1, JoinConfFold DEF LogicalConf
<1> QED  BY <1>2, ReadLineFold, NothingType DEF ParseConf, Nothing

(***************************************************************************)
(* Logical lines.  No joined line reaches back beyond one that is done.    *)
(***************************************************************************)
Done(ls) == ls = << >> \/ ~Last(ls).cont

\* One more line.
LEMMA OneMore ==
  ASSUME NEW t \in Seq(Line), NEW l \in Line
  PROVE  /\ Logical(Append(t, l)) = Join(Logical(t), l)
         /\ LogicalConf(Append(t, l)) = JoinConf(LogicalConf(t), l)
<1>1. Logical(t) \in Seq(Line) /\ LogicalConf(t) \in Seq(Line)
  BY CanonicalIs, ParseIs
<1>2. Logical(Append(t, l)) = JoinF[<<Logical(t), l>>]
  BY FoldAppend DEF Logical
<1>3. LogicalConf(Append(t, l)) = JoinConfF[<<LogicalConf(t), l>>]
  BY FoldAppend DEF LogicalConf
<1> QED  BY <1>1, <1>2, <1>3, Steps

\* A text without lines says nothing.
LEMMA NoLines ==
  /\ Logical(<< >>) = << >> /\ LogicalConf(<< >>) = << >>
  /\ Canonical(<< >>) = << >>
<1>1. Logical(<< >>) = << >> /\ LogicalConf(<< >>) = << >>
  BY FoldEmpty DEF Logical, LogicalConf
<1>2. << >> \in Seq(Line)  BY EmptySeq
<1>3. LeftFold(SayF, << >>, << >>) = << >>  BY FoldEmpty
<1> QED  BY <1>1, <1>2, <1>3, CanonicalIs

\* The last logical line ends as the last line does.
LEMMA LastCont ==
  ASSUME NEW t \in Seq(Line)
  PROVE  /\ (Logical(t) = << >>) <=> (t = << >>)
         /\ (LogicalConf(t) = << >>) <=> (t = << >>)
         /\ t # << >> => /\ Last(Logical(t)).cont = Last(t).cont
                         /\ Last(LogicalConf(t)).cont = Last(t).cont
<1>1. CASE t = << >>  BY <1>1, NoLines
<1>2. CASE t # << >>
  <2>1. PICK s \in Seq(Line), l \in Line : t = Append(s, l)
    BY <1>2, FrontLast
  <2>2. PICK ls \in Seq(Line) : ls = Logical(s)  BY CanonicalIs
  <2>3. PICK cs \in Seq(Line) : cs = LogicalConf(s)  BY ParseIs
  <2>4. Last(t) = l  BY <2>1, OfAppend
  <2>5. ASSUME NEW k \in Seq(Line)
        PROVE  /\ Append(k, l) # << >> /\ Last(Append(k, l)).cont = l.cont
               /\ k # << >> => /\ GlueLast(k, l) # << >>
                               /\ Last(GlueLast(k, l)).cont = l.cont
    <3>1. Append(k, l) # << >> /\ Last(Append(k, l)) = l  BY OfAppend
    <3>2. ASSUME k # << >>
          PROVE  GlueLast(k, l) # << >> /\ Last(GlueLast(k, l)).cont = l.cont
      <4>1. PICK f \in Seq(Line), m \in Line : f = Front(k) /\ m = Last(k)
        BY <3>2, FrontLast
      <4>2. PICK g \in Line : g = Glue(m, l)  BY GlueType
      <4>3. GlueLast(k, l) = Append(f, g)  BY <4>1, <4>2 DEF GlueLast
      <4>4. g.cont = l.cont  BY <4>2 DEF Glue
      <4> QED  BY <4>3, <4>4, OfAppend
    <3> QED  BY <3>1, <3>2
  <2>6. Logical(t) = Join(ls, l) /\ LogicalConf(t) = JoinConf(cs, l)
    BY <2>1, <2>2, <2>3, OneMore
  <2> QED  BY <1>2, <2>4, <2>5, <2>6 DEF Join, JoinConf
<1> QED  BY <1>1, <1>2

\* Lines before one that is not continued do not change how the next ones join.
LEMMA JoinAfter ==
  ASSUME NEW p \in Seq(Line), Done(p), NEW ls \in Seq(Line), NEW l \in Line
  PROVE  /\ Join(p \o ls, l) = p \o Join(ls, l)
         /\ JoinConf(p \o ls, l) = p \o JoinConf(ls, l)
<1>1. CASE ls = << >>
  <2>1. p \o ls = p  BY <1>1, ConcatEmptySeq
  <2>2. Append(p, l) = p \o Append(ls, l)
    <3>1. Append(p \o ls, l) = p \o Append(ls, l)  BY LinesAppend, Zenon
    <3> QED  BY <2>1, <3>1
  <2>3. Join(p, l) = Append(p, l) /\ JoinConf(p, l) = Append(p, l)
    BY DEF Done, Join, JoinConf
  <2>4. Join(ls, l) = Append(ls, l) /\ JoinConf(ls, l) = Append(ls, l)
    BY <1>1 DEF Join, JoinConf
  <2> QED  BY <2>1, <2>2, <2>3, <2>4
<1>2. CASE ls # << >>
  <2>1. /\ p \o ls # << >> /\ Last(p \o ls) = Last(ls)
        /\ Front(p \o ls) = p \o Front(ls)
    BY <1>2, EndAfter
  <2>3. Append(p \o ls, l) = p \o Append(ls, l)  BY LinesAppend, Zenon
  <2>2. GlueLast(p \o ls, l) = p \o GlueLast(ls, l)
    <3>1. PICK f \in Seq(Line), g \in Line : f = Front(ls) /\ g = Glue(Last(ls), l)
      BY <1>2, FrontLast, GlueType
    <3>2. Append(p \o f, g) = p \o Append(f, g)  BY LinesAppend, Zenon
    <3> QED  BY <2>1, <3>1, <3>2 DEF GlueLast
  <2> QED  BY <1>2, <2>1, <2>2, <2>3 DEF Join, JoinConf
<1> QED  BY <1>1, <1>2

\* What follows lines that are done is joined as if it stood alone.
LEMMA JoinsAfter ==
  ASSUME NEW p \in Seq(Line), Done(p), NEW q \in Seq(Line)
  PROVE  /\ LeftFold(JoinF, p, q) = p \o Logical(q)
         /\ LeftFold(JoinConfF, p, q) = p \o LogicalConf(q)
<1> DEFINE T == {s \in Seq(Line) : /\ LeftFold(JoinF, p, s) = p \o Logical(s)
                                   /\ LeftFold(JoinConfF, p, s) = p \o LogicalConf(s)}
<1>1. << >> \in T
  BY FoldEmpty, NoLines, ConcatEmptySeq, EmptySeq
<1>2. ASSUME NEW s \in Seq(Line), NEW l \in Line, s \in T
      PROVE  Append(s, l) \in T
  <2>1. PICK ls \in Seq(Line) : ls = Logical(s)  BY CanonicalIs
  <2>2. PICK cs \in Seq(Line) : cs = LogicalConf(s)  BY ParseIs
  <2>3. LeftFold(JoinF, p, s) = p \o ls /\ LeftFold(JoinConfF, p, s) = p \o cs
    BY <1>2, <2>1, <2>2
  <2>4. /\ LeftFold(JoinF, p, Append(s, l)) = JoinF[<<LeftFold(JoinF, p, s), l>>]
        /\ LeftFold(JoinConfF, p, Append(s, l))
             = JoinConfF[<<LeftFold(JoinConfF, p, s), l>>]
    BY FoldAppend
  <2>5. p \o ls \in Seq(Line) /\ p \o cs \in Seq(Line)  BY ConcatProperties
  <2>6. Append(s, l) \in Seq(Line)  BY AppendProperties
  <2>7. LeftFold(JoinF, p, Append(s, l)) = p \o Logical(Append(s, l))
    <3>1. LeftFold(JoinF, p, Append(s, l)) = Join(p \o ls, l)
      BY <2>3, <2>4, <2>5, Steps
    <3>2. Join(p \o ls, l) = p \o Join(ls, l)  BY JoinAfter
    <3> QED  BY <2>1, <3>1, <3>2, OneMore
  <2>8. LeftFold(JoinConfF, p, Append(s, l)) = p \o LogicalConf(Append(s, l))
    <3>1. LeftFold(JoinConfF, p, Append(s, l)) = JoinConf(p \o cs, l)
      BY <2>3, <2>4, <2>5, Steps
    <3>2. JoinConf(p \o cs, l) = p \o JoinConf(cs, l)  BY JoinAfter
    <3> QED  BY <2>2, <3>1, <3>2, OneMore
  <2> QED  BY <2>6, <2>7, <2>8
<1> HIDE DEF T
<1>3. q \in T  BY <1>1, <1>2, ByAppending
<1> QED  BY <1>3 DEF T

\* Lines that are done can be read on their own.
Split(t, p, q) ==
  p \in Seq(Line) /\ Done(p) /\ q \in Seq(Line) /\ t = p \o q

ReadApart(t, p, q) ==
  /\ Logical(t) = Logical(p) \o Logical(q)
  /\ LogicalConf(t) = LogicalConf(p) \o LogicalConf(q)

\* ... so that a text is read apart where a line is not continued,
LEMMA LogicalSplit ==
  ASSUME NEW t, NEW p, NEW q, Split(t, p, q)
  PROVE  ReadApart(t, p, q)
<1> USE DEF Split, ReadApart
<1>1. PICK a \in Seq(Line) : a = Logical(p)  BY CanonicalIs
<1>2. PICK b \in Seq(Line) : b = LogicalConf(p)  BY ParseIs
<1>3. Done(a) /\ Done(b)  BY <1>1, <1>2, LastCont DEF Done
<1>4. /\ Logical(p \o q) = LeftFold(JoinF, a, q)
      /\ LogicalConf(p \o q) = LeftFold(JoinConfF, b, q)
  BY <1>1, <1>2, FoldConcat DEF Logical, LogicalConf
<1> QED  BY <1>1, <1>2, <1>3, <1>4, JoinsAfter

\* A line that neither goes on nor is joined to the one before.
Between(u, p, c, q) ==
  /\ p \in Seq(Line) /\ Done(p) /\ c \in Line /\ ~c.cont /\ q \in Seq(Line)
  /\ u = Append(p, c) \o q

ReadAround(u, p, c, q) ==
  /\ Logical(u) = Append(Logical(p), c) \o Logical(q)
  /\ LogicalConf(u) = Append(LogicalConf(p), c) \o LogicalConf(q)

\* ... and around a line that stands alone.
LEMMA LineBetween ==
  ASSUME NEW u, NEW p, NEW c, NEW q, Between(u, p, c, q)
  PROVE  ReadAround(u, p, c, q)
<1> USE DEF Between
<1>1. PICK a \in Seq(Line) : a = Logical(p)  BY CanonicalIs
<1>2. PICK b \in Seq(Line) : b = LogicalConf(p)  BY ParseIs
<1>3. Done(a) /\ Done(b)  BY <1>1, <1>2, LastCont DEF Done
<1>4. /\ Logical(Append(p, c)) = Append(a, c)
      /\ LogicalConf(Append(p, c)) = Append(b, c)
  BY <1>1, <1>2, <1>3, OneMore DEF Done, Join, JoinConf
<1>5. PICK pc \in Seq(Line) : pc = Append(p, c)  BY AppendProperties
<1>6. Done(pc)  BY <1>5, OfAppend DEF Done
<1>7. Split(u, pc, q)  BY <1>5, <1>6 DEF Split
<1>8. ReadApart(u, pc, q)  BY <1>7, LogicalSplit
<1> HIDE DEF Between
<1> QED  BY <1>1, <1>2, <1>4, <1>5, <1>8 DEF ReadApart, ReadAround

(***************************************************************************)
(* Comments.                                                               *)
(***************************************************************************)

\* Both readers skip a comment,
LEMMA CommentIsSkipped ==
  ASSUME NEW c \in Line, IsComment(c), NEW ws, NEW acc
  PROVE  Say(ws, c) = ws /\ ReadLine(acc, c) = acc
<1>1. c.words[1] \in Comments  BY DEF IsComment
<1>2. c.words[1] \notin Headers /\ c.words[1] # SearchKey
  BY <1>1, WordsAssumption
<1>3. ~IsHeader(c)  BY <1>2 DEF IsHeader
<1> QED  BY <1>2, <1>3 DEF Say, ReadLine

\* ... so that one that stands alone can be left out.
LEMMA CommentBetween ==
  ASSUME NEW u, NEW t, NEW p, NEW c, NEW q, IsComment(c),
         Between(u, p, c, q), Split(t, p, q)
  PROVE  Canonical(u) = Canonical(t) /\ ParseConf(u) = ParseConf(t)
<1> USE DEF Between, Split
<1>1. PICK a \in Seq(Line), b \in Seq(Line) : a = Logical(p) /\ b = Logical(q)
  BY CanonicalIs
<1>2. PICK d \in Seq(Line), e \in Seq(Line) : d = LogicalConf(p) /\ e = LogicalConf(q)
  BY ParseIs
<1>3. PICK ac \in Seq(Line), dc \in Seq(Line) : ac = Append(a, c) /\ dc = Append(d, c)
  BY AppendProperties
<1>10. c \in Line  OBVIOUS
<1>11. u \in Seq(Line) /\ t \in Seq(Line)  BY AppendProperties, ConcatProperties
<1>4. /\ Logical(t) = a \o b /\ LogicalConf(t) = d \o e
      /\ Logical(u) = ac \o b /\ LogicalConf(u) = dc \o e
  <2> HIDE DEF Between, Split
  <2>1. ReadApart(t, p, q)  BY LogicalSplit
  <2>2. Logical(t) = a \o b /\ LogicalConf(t) = d \o e
    BY <1>1, <1>2, <2>1 DEF ReadApart
  <2>3. ReadAround(u, p, c, q)  BY LineBetween
  <2>4. Logical(u) = ac \o b  BY <1>1, <1>3, <2>3 DEF ReadAround
  <2>5. LogicalConf(u) = dc \o e  BY <1>2, <1>3, <2>3 DEF ReadAround
  <2> QED  BY <2>2, <2>4, <2>5
<1> HIDE DEF Between, Split
<1>5. LeftFold(SayF, << >>, ac) = LeftFold(SayF, << >>, a)
  <2>1. LeftFold(SayF, << >>, ac) = SayF[<<LeftFold(SayF, << >>, a), c>>]
    BY <1>3, <1>10, FoldAppend
  <2>2. LeftFold(SayF, << >>, a) \in Seq(AllWords)  BY EmptySeq, SayFold
  <2> QED  BY <1>10, <2>1, <2>2, Steps, CommentIsSkipped
<1>6. LeftFold(ReadF, Nothing, dc) = LeftFold(ReadF, Nothing, d)
  <2>1. LeftFold(ReadF, Nothing, dc) = ReadF[<<LeftFold(ReadF, Nothing, d), c>>]
    BY <1>3, <1>10, FoldAppend
  <2>2. LeftFold(ReadF, Nothing, d) \in Known  BY NothingType, ReadLineFold
  <2> QED  BY <1>10, <2>1, <2>2, Steps, CommentIsSkipped
<1>7. LeftFold(SayF, << >>, ac \o b) = LeftFold(SayF, << >>, a \o b)
  <2>1. LeftFold(SayF, << >>, ac \o b) = LeftFold(SayF, LeftFold(SayF, << >>, ac), b)
    BY FoldConcat
  <2>2. LeftFold(SayF, << >>, a \o b) = LeftFold(SayF, LeftFold(SayF, << >>, a), b)
    BY FoldConcat
  <2> QED  BY <1>5, <2>1, <2>2
<1>8. LeftFold(ReadF, Nothing, dc \o e) = LeftFold(ReadF, Nothing, d \o e)
  <2>1. LeftFold(ReadF, Nothing, dc \o e)
          = LeftFold(ReadF, LeftFold(ReadF, Nothing, dc), e)
    BY FoldConcat
  <2>2. LeftFold(ReadF, Nothing, d \o e) = LeftFold(ReadF, LeftFold(ReadF, Nothing, d), e)
    BY FoldConcat
  <2> QED  BY <1>6, <2>1, <2>2
<1>9. Canonical(u) = Canonical(t)  BY <1>4, <1>7, <1>11, CanonicalIs
<1>12. ParseConf(u) = ParseConf(t)  BY <1>4, <1>8, <1>11, ParseIs
<1> QED  BY <1>9, <1>12

(***************************************************************************)
(* Texts around a line.                                                    *)
(***************************************************************************)

\* The lines in front of one, if the line before it is not continued.
LEMMA Before ==
  ASSUME NEW t \in Seq(Line), NEW i \in 1..Len(t)+1,
         NEW p, p = SubSeq(t, 1, i - 1), i > 1 => ~t[i - 1].cont
  PROVE  p \in Seq(Line) /\ Len(p) = i - 1 /\ Done(p)
         /\ \A j \in 1..i-1 : p[j] = t[j]
<1>1. Len(t) \in Nat /\ \A j \in 1..Len(t) : t[j] \in Line
  BY LenProperties, ElementOfSeq
<1>2. PICK k \in 0..Len(t) : k = i - 1  BY <1>1
<1>3. /\ p \in Seq(Line) /\ Len(p) = k
      /\ \A j \in 1..k : p[j] = t[j]
  <2>1. k \in Int /\ \A j \in 1..k : t[j] \in Line  BY <1>1
  <2>2. /\ SubSeq(t, 1, k) \in Seq(Line)
        /\ Len(SubSeq(t, 1, k)) = IF 1 <= k THEN k - 1 + 1 ELSE 0
        /\ \A j \in 1..k-1+1 : SubSeq(t, 1, k)[j] = t[1 + j - 1]
    BY <2>1, SubSeqProperties
  <2> QED  BY <1>1, <1>2, <2>1, <2>2
<1>4. Done(p)
  <2>1. CASE k = 0  BY <1>3, <2>1, EmptySeq DEF Done
  <2>2. CASE k # 0
    <3>1. Last(p) = t[k]  BY <1>3, <2>2 DEF Last
    <3>2. ~t[k].cont  BY <1>2, <2>2
    <3> QED  BY <3>1, <3>2 DEF Done
  <2> QED  BY <2>1, <2>2
<1> QED  BY <1>2, <1>3, <1>4

\* An inserted line stands between the two parts.
Inserts(t, u, c) ==
  \E p, q \in Seq(Line) : Done(p) /\ t = p \o q /\ u = Append(p, c) \o q

\* A line inserted where it stands alone is between those two parts.
LEMMA InsertedBetween ==
  ASSUME NEW t \in Seq(Line), NEW i \in 1..Len(t)+1, NEW c \in Line,
         NEW u, u = InsertAt(t, i, c), StandsAlone(u, i)
  PROVE  Inserts(t, u, c)
<1>1. Len(t) \in Nat /\ \A j \in 1..Len(t) : t[j] \in Line
  BY LenProperties, ElementOfSeq
<1>2. PICK k \in 0..Len(t) : k = i - 1 /\ k + 1 = i  BY <1>1
<1>3. PICK p : p = SubSeq(t, 1, k)  OBVIOUS
<1>4. PICK q : q = SubSeq(t, k + 1, Len(t))  OBVIOUS
<1>5. p \in Seq(Line) /\ Len(p) = k  BY <1>3, FirstPart
<1>6. q \in Seq(Line)  BY <1>4, LastPart
<1>7. p \o q = t  BY <1>3, <1>4, TwoParts
<1>8. PICK pc \in Seq(Line) : pc = Append(p, c) /\ pc = p \o <<c>>
  BY <1>5, AppendProperties, AppendIsConcat
<1>9. u = pc \o q  BY <1>2, <1>3, <1>4, <1>8 DEF InsertAt
<1>10. ASSUME i > 1  PROVE ~t[i - 1].cont
  <2>1. k \in 1..Len(p) /\ k \in 1..Len(pc)
    BY <1>1, <1>2, <1>5, <1>8, <1>10, AppendProperties
  <2>2. pc[k] = p[k]  BY <1>5, <1>8, <2>1, AppendProperties
  <2>3. t[k] = p[k]
    <3>1. k \in 1..Len(p) + Len(q) /\ k <= Len(p)  BY <1>6, <2>1, LenProperties
    <3> QED  BY <1>5, <1>6, <1>7, <3>1, ConcatProperties
  <2>4. u[k] = pc[k]
    <3>1. k \in 1..Len(pc) + Len(q) /\ k <= Len(pc)
      BY <1>6, <1>8, <2>1, LenProperties
    <3> QED  BY <1>6, <1>8, <1>9, <3>1, ConcatProperties
  <2>5. ~u[k].cont  BY <1>2, <1>10 DEF StandsAlone
  <2> QED  BY <1>2, <2>2, <2>3, <2>4, <2>5
<1>11. Done(p)  BY <1>2, <1>3, <1>10, Before
<1> QED  BY <1>5, <1>6, <1>7, <1>8, <1>9, <1>11 DEF Inserts

\* The parts before and behind line i, whatever that line is.
Parts(t, i, p, q) ==
  /\ p \in Seq(Line) /\ q \in Seq(Line) /\ Len(p) = i - 1
  /\ \A j \in 1..i-1 : p[j] = t[j]
  /\ t = Append(p, t[i]) \o q
  /\ \A l \in Line : [t EXCEPT ![i] = l] = Append(p, l) \o q

\* The parts of a text before and after a line.
LEMMA Around ==
  ASSUME NEW t \in Seq(Line), NEW i \in 1..Len(t)
  PROVE  \E p, q : Parts(t, i, p, q)
<1>1. PICK n \in Nat : n = Len(t)  BY LenProperties
<1>2. /\ DOMAIN t = 1..n /\ \A j \in 1..n : t[j] \in Line
  BY <1>1, LenProperties, ElementOfSeq
<1>3. PICK k \in 0..n : k = i - 1 /\ k + 1 = i /\ i \in 1..n  BY <1>1
<1>4. PICK p : p \in Seq(Line) /\ Len(p) = k /\ \A j \in 1..k : p[j] = t[j]
  <2>1. \A j \in 1..k : t[j] \in Line  BY <1>2
  <2>2. /\ SubSeq(t, 1, k) \in Seq(Line)
        /\ Len(SubSeq(t, 1, k)) = IF 1 <= k THEN k - 1 + 1 ELSE 0
        /\ \A j \in 1..k-1+1 : SubSeq(t, 1, k)[j] = t[1 + j - 1]
    BY <2>1, SubSeqProperties
  <2>3. PICK p : p = SubSeq(t, 1, k)  OBVIOUS
  <2>4. p \in Seq(Line) /\ Len(p) = k  BY <2>2, <2>3
  <2>5. \A j \in 1..k : p[j] = t[j]  BY <2>2, <2>3
  <2> QED  BY <2>4, <2>5
<1>5. PICK q : q \in Seq(Line) /\ Len(q) = n - i /\ \A j \in 1..n-i : q[j] = t[i + j]
  <2>1. PICK m \in Int : m = i + 1  OBVIOUS
  <2>2. \A j \in m..n : t[j] \in Line  BY <1>2, <2>1
  <2>3. /\ SubSeq(t, m, n) \in Seq(Line)
        /\ Len(SubSeq(t, m, n)) = IF m <= n THEN n - m + 1 ELSE 0
        /\ \A j \in 1..n-m+1 : SubSeq(t, m, n)[j] = t[m + j - 1]
    BY <2>2, SubSeqProperties
  <2>4. PICK q : q = SubSeq(t, m, n)  OBVIOUS
  <2>5. q \in Seq(Line) /\ Len(q) = n - i  BY <1>3, <2>1, <2>3, <2>4
  <2>6. ASSUME NEW j \in 1..n-i  PROVE q[j] = t[i + j]
    <3>1. j \in 1..n-m+1 /\ m + j - 1 = i + j  BY <1>3, <2>1
    <3> QED  BY <2>3, <2>4, <3>1
  <2> QED  BY <2>5, <2>6
<1>6. ASSUME NEW l \in Line, NEW u \in Seq(Line), Len(u) = n, u[i] = l,
             \A j \in 1..n : j # i => u[j] = t[j]
      PROVE  u = Append(p, l) \o q
  <2>0. PICK pl : pl = Append(p, l)  OBVIOUS
  <2>1. /\ pl \in Seq(Line) /\ Len(pl) = i /\ pl[i] = l
        /\ \A j \in 1..k : pl[j] = p[j]
    BY <1>3, <1>4, <2>0, AppendProperties
  <2>2. /\ pl \o q \in Seq(Line) /\ Len(pl \o q) = n
        /\ \A j \in 1..n : (pl \o q)[j] = IF j <= i THEN pl[j] ELSE q[j - i]
    <3>1. i + (n - i) = n  BY <1>3
    <3>2. /\ pl \o q \in Seq(Line) /\ Len(pl \o q) = Len(pl) + Len(q)
          /\ \A j \in 1..Len(pl)+Len(q) :
               (pl \o q)[j] = IF j <= Len(pl) THEN pl[j] ELSE q[j - Len(pl)]
      <4>1. pl \in Seq(Line) /\ q \in Seq(Line)  BY <1>5, <2>1
      <4> QED  BY <4>1, ConcatProperties
    <3>3. Len(pl) + Len(q) = n  BY <1>5, <2>1, <3>1
    <3> QED  BY <2>1, <3>2, <3>3
  <2>3. PICK w : w = pl \o q  OBVIOUS
  <2>4. ASSUME NEW j \in 1..n  PROVE u[j] = w[j]
    <3>1. CASE j = i  BY <1>6, <2>1, <2>2, <2>3, <3>1
    <3>2. CASE j < i
      <4>1. j \in 1..k /\ j <= i  BY <1>3, <3>2
      <4> QED  BY <1>4, <1>6, <2>1, <2>2, <2>3, <3>2, <4>1
    <3>3. CASE j > i
      <4>1. PICK d \in 1..n-i : d = j - i /\ i + d = j /\ ~(j <= i)  BY <1>3, <3>3
      <4>2. q[d] = t[j]  BY <1>5, <4>1
      <4>3. w[j] = q[d]  BY <2>2, <2>3, <4>1
      <4> QED  BY <1>6, <3>3, <4>2, <4>3
    <3> QED  BY <1>3, <3>1, <3>2, <3>3
  <2>5. w \in Seq(Line) /\ Len(w) = n  BY <2>2, <2>3
  <2>6. u = w  BY <1>6, <2>4, <2>5, SeqEqual
  <2> QED  BY <2>0, <2>3, <2>6
<1>7. t = Append(p, t[i]) \o q
  <2>1. t[i] \in Line /\ Len(t) = n  BY <1>1, <1>2, <1>3
  <2> QED  BY <1>6, <2>1
<1>8. ASSUME NEW l \in Line  PROVE [t EXCEPT ![i] = l] = Append(p, l) \o q
  <2>0. PICK u : u = [t EXCEPT ![i] = l]  OBVIOUS
  <2>1. /\ u \in Seq(Line) /\ Len(u) = n
        /\ \A j \in 1..n : u[j] = IF j = i THEN l ELSE t[j]
    BY <1>1, <2>0, ExceptSeq
  <2>2. u[i] = l  BY <1>3, <2>1
  <2>3. \A j \in 1..n : j # i => u[j] = t[j]  BY <2>1
  <2> QED  BY <1>6, <2>0, <2>1, <2>2, <2>3
<1>9. Parts(t, i, p, q)  BY <1>3, <1>4, <1>5, <1>7, <1>8 DEF Parts
<1> QED  BY <1>9

\* A line inserted behind the first part is appended to it.
LEMMA InsertBehind ==
  ASSUME NEW a \in Seq(Line), NEW b \in Seq(Line), NEW l \in Line,
         NEW i, i = Len(a) + 1
  PROVE  InsertAt(a \o b, i, l) = Append(a, l) \o b
<1>1. PICK m \in Nat, n \in Nat : m = Len(a) /\ n = Len(b)  BY LenProperties
<1>0. PICK t : t = a \o b  OBVIOUS
<1>2. /\ t = a \o b /\ t \in Seq(Line) /\ Len(t) = m + n
      /\ \A j \in 1..m+n : t[j] = IF j <= m THEN a[j] ELSE b[j - m]
  BY <1>0, <1>1, ConcatProperties
<1>3. /\ \A j \in 1..m : a[j] \in Line
      /\ \A j \in 1..n : b[j] \in Line
      /\ \A j \in 1..m+n : t[j] \in Line
  BY <1>1, <1>2, ElementOfSeq
<1>4. SubSeq(t, 1, m) = a
  <2>1. \A j \in 1..m : t[j] \in Line  BY <1>3
  <2>2. /\ SubSeq(t, 1, m) \in Seq(Line)
        /\ Len(SubSeq(t, 1, m)) = IF 1 <= m THEN m - 1 + 1 ELSE 0
        /\ \A j \in 1..m-1+1 : SubSeq(t, 1, m)[j] = t[1 + j - 1]
    BY <2>1, SubSeqProperties
  <2>3. Len(SubSeq(t, 1, m)) = m  BY <2>2
  <2>4. \A j \in 1..m : SubSeq(t, 1, m)[j] = a[j]  BY <1>2, <2>2
  <2> QED  BY <1>1, <2>2, <2>3, <2>4, SeqEqual
<1>5. SubSeq(t, m + 1, m + n) = b
  <2>1. PICK k \in Int, z \in Int : k = m + 1 /\ z = m + n  OBVIOUS
  <2>2. \A j \in k..z : t[j] \in Line  BY <1>3, <2>1
  <2>3. /\ SubSeq(t, k, z) \in Seq(Line)
        /\ Len(SubSeq(t, k, z)) = IF k <= z THEN z - k + 1 ELSE 0
        /\ \A j \in 1..z-k+1 : SubSeq(t, k, z)[j] = t[k + j - 1]
    BY <2>2, SubSeqProperties
  <2>4. z - k + 1 = n /\ Len(SubSeq(t, k, z)) = n  BY <2>1, <2>3
  <2>5. ASSUME NEW j \in 1..n  PROVE SubSeq(t, k, z)[j] = b[j]
    <3>1. PICK d \in 1..m+n : d = k + j - 1 /\ ~(d <= m) /\ d - m = j  BY <2>1
    <3>2. t[d] = b[j]  BY <1>2, <3>1
    <3> QED  BY <2>3, <2>4, <3>1, <3>2
  <2> QED  BY <1>1, <2>1, <2>3, <2>4, <2>5, SeqEqual
<1>6. Append(a, l) = a \o <<l>>  BY AppendIsConcat
<1>7. i - 1 = m /\ i = m + 1 /\ Len(t) = m + n  BY <1>1, <1>2
<1> QED  BY <1>2, <1>4, <1>5, <1>6, <1>7 DEF InsertAt

(***************************************************************************)
(* Continued lines.                                                        *)
(***************************************************************************)
Pieces(l, k, start, rest) ==
  /\ start = [words |-> SubSeq(l.words, 1, k), cont |-> TRUE]
  /\ rest = [l EXCEPT !.words = SubSeq(@, k + 1, Len(@))]

\* The pieces of a wrapped line are lines, and have its words.
LEMMA PiecesType ==
  ASSUME NEW l \in Line, NEW k \in 1..Len(l.words),
         NEW start, NEW rest, Pieces(l, k, start, rest)
  PROVE  /\ start \in Line /\ rest \in Line
         /\ start.cont /\ rest.cont = l.cont
         /\ start.words \o rest.words = l.words
         /\ IsComment(start) <=> IsComment(l)
<1>1. PICK ws \in Seq(Words) : ws = l.words  BY LineType
<1>2. Len(ws) \in Nat /\ k \in 0..Len(ws)  BY <1>1, LenProperties
<1>3. /\ SubSeq(ws, 1, k) \in Seq(Words) /\ Len(SubSeq(ws, 1, k)) = k
      /\ SubSeq(ws, k + 1, Len(ws)) \in Seq(Words)
      /\ SubSeq(ws, 1, k) \o SubSeq(ws, k + 1, Len(ws)) = ws
  BY <1>2, FirstPart, LastPart, TwoParts
<1>4. /\ start = [words |-> SubSeq(ws, 1, k), cont |-> TRUE]
      /\ rest = [words |-> SubSeq(ws, k + 1, Len(ws)), cont |-> l.cont]
  <2>1. l = [words |-> ws, cont |-> l.cont]  BY <1>1, LineType
  <2>2. start = [words |-> SubSeq(ws, 1, k), cont |-> TRUE]  BY <1>1 DEF Pieces
  <2>3. rest = [l EXCEPT !.words = SubSeq(ws, k + 1, Len(ws))]
    BY <1>1 DEF Pieces
  <2> QED  BY <2>1, <2>2, <2>3
<1>5. start \in Line /\ rest \in Line /\ rest.cont = l.cont /\ start.cont
      /\ start.words \o rest.words = ws
  BY <1>3, <1>4, LineType DEF Line
<1>6. IsComment(start) <=> IsComment(l)
  <2>1. start.words # << >> /\ ws # << >>  BY <1>1, <1>2, <1>3, <1>4, EmptySeq
  <2>2. start.words[1] = ws[1]
    <3>1. \A j \in 1..k : ws[j] \in Words  BY <1>1, <1>2, ElementOfSeq
    <3>2. \A j \in 1..k-1+1 : SubSeq(ws, 1, k)[j] = ws[1 + j - 1]
      BY <3>1, SubSeqProperties
    <3> QED  BY <1>4, <3>2
  <2> QED  BY <1>1, <2>1, <2>2 DEF IsComment
<1> QED  BY <1>1, <1>5, <1>6

\* Concatenation of words is associative.
LEMMA WordsConcat ==
  \A x, y, z \in Seq(Words) : (x \o y) \o z = x \o (y \o z)
BY ConcatAssociative

\* Joined again, they are the line they were.
LEMMA WrapJoin ==
  ASSUME NEW l \in Line, NEW k \in 1..Len(l.words),
         NEW start, NEW rest, Pieces(l, k, start, rest),
         ~IsComment(rest), NEW ls \in Seq(Line)
  PROVE  /\ Join(Join(ls, start), rest) = Join(ls, l)
         /\ JoinConf(JoinConf(ls, start), rest) = JoinConf(ls, l)
<1>1. /\ start \in Line /\ rest \in Line
      /\ start.cont /\ rest.cont = l.cont
      /\ start.words \o rest.words = l.words
      /\ IsComment(start) <=> IsComment(l)
  BY PiecesType
<1>2. Glue(start, rest) = l  BY <1>1, LineType DEF Glue
<1>3. PICK a \in Seq(Line) :
        /\ a = Append(ls, start) /\ a # << >>
        /\ Last(a) = start /\ Front(a) = ls
  BY <1>1, OfAppend
<1>4. GlueLast(a, rest) = Append(ls, l)  BY <1>2, <1>3 DEF GlueLast
<1>5. /\ Join(a, rest) = Append(ls, l) /\ JoinConf(a, rest) = Append(ls, l)
  BY <1>1, <1>3, <1>4 DEF Join, JoinConf
<1>6. ASSUME ls # << >>
      PROVE  /\ Join(GlueLast(ls, start), rest) = GlueLast(ls, l)
             /\ JoinConf(GlueLast(ls, start), rest) = GlueLast(ls, l)
  <2>1. PICK f \in Seq(Line), m \in Line : f = Front(ls) /\ m = Last(ls)
    BY <1>6, FrontLast
  <2>2. PICK g \in Line : g = Glue(m, start)  BY <1>1, GlueType
  <2>3. PICK b \in Seq(Line) :
          b = GlueLast(ls, start) /\ b # << >> /\ Last(b) = g /\ Front(b) = f
    BY <2>1, <2>2, OfAppend DEF GlueLast
  <2>4. g.cont  BY <1>1, <2>2 DEF Glue
  <2>5. Glue(g, rest) = Glue(m, l)
    <3>1. /\ m.words \in Seq(Words) /\ start.words \in Seq(Words)
          /\ rest.words \in Seq(Words)
      BY <1>1, LineType
    <3>2. (m.words \o start.words) \o rest.words = m.words \o l.words
      <4>1. PICK x \in Seq(Words), y \in Seq(Words), z \in Seq(Words) :
              x = m.words /\ y = start.words /\ z = rest.words
        BY <3>1
      <4>2. (x \o y) \o z = x \o (y \o z)  BY WordsConcat, Zenon
      <4> QED  BY <1>1, <4>1, <4>2
    <3> QED  BY <1>1, <2>2, <3>2 DEF Glue
  <2>6. GlueLast(b, rest) = GlueLast(ls, l)  BY <2>1, <2>3, <2>5 DEF GlueLast
  <2> QED  BY <2>3, <2>4, <2>6 DEF Join, JoinConf
<1>7. Join(Join(ls, start), rest) = Join(ls, l)
  BY <1>3, <1>5, <1>6 DEF Join
<1>8. JoinConf(JoinConf(ls, start), rest) = JoinConf(ls, l)
  BY <1>1, <1>3, <1>5, <1>6 DEF JoinConf
<1> QED  BY <1>7, <1>8

\* A wrapped line is read as the line it was, whatever stands around it.
LEMMA WrapBetween ==
  ASSUME NEW p \in Seq(Line), NEW q \in Seq(Line),
         NEW l \in Line, NEW k \in 1..Len(l.words),
         NEW start, NEW rest, Pieces(l, k, start, rest), ~IsComment(rest)
  PROVE  /\ Canonical(Append(Append(p, start), rest) \o q)
              = Canonical(Append(p, l) \o q)
         /\ ParseConf(Append(Append(p, start), rest) \o q)
              = ParseConf(Append(p, l) \o q)
<1>1. start \in Line /\ rest \in Line  BY PiecesType
<1>2. PICK pl \in Seq(Line), ps \in Seq(Line) : pl = Append(p, l) /\ ps = Append(p, start)
  BY <1>1, AppendProperties
<1>3. PICK psr \in Seq(Line) : psr = Append(ps, rest)  BY <1>1, AppendProperties
<1>4. PICK a \in Seq(Line) : a = Logical(p)  BY CanonicalIs
<1>5. PICK b \in Seq(Line) : b = LogicalConf(p)  BY ParseIs
<1>6. Logical(psr) = Logical(pl) /\ LogicalConf(psr) = LogicalConf(pl)
  <2>1. Logical(ps) = Join(a, start) /\ LogicalConf(ps) = JoinConf(b, start)
    BY <1>1, <1>2, <1>4, <1>5, OneMore
  <2>2. Logical(pl) = Join(a, l) /\ LogicalConf(pl) = JoinConf(b, l)
    BY <1>2, <1>4, <1>5, OneMore
  <2>3. /\ Logical(psr) = Join(Logical(ps), rest)
        /\ LogicalConf(psr) = JoinConf(LogicalConf(ps), rest)
    BY <1>1, <1>3, OneMore
  <2>4. /\ Join(Join(a, start), rest) = Join(a, l)
        /\ JoinConf(JoinConf(b, start), rest) = JoinConf(b, l)
    BY WrapJoin
  <2> QED  BY <2>1, <2>2, <2>3, <2>4
<1>7. /\ Logical(psr \o q) = LeftFold(JoinF, Logical(psr), q)
      /\ Logical(pl \o q) = LeftFold(JoinF, Logical(pl), q)
      /\ LogicalConf(psr \o q) = LeftFold(JoinConfF, LogicalConf(psr), q)
      /\ LogicalConf(pl \o q) = LeftFold(JoinConfF, LogicalConf(pl), q)
  <2>1. /\ FoldsApart(JoinF, << >>, psr, q) /\ FoldsApart(JoinF, << >>, pl, q)
        /\ FoldsApart(JoinConfF, << >>, psr, q) /\ FoldsApart(JoinConfF, << >>, pl, q)
    BY FoldApart
  <2> QED  BY <2>1 DEF FoldsApart, Logical, LogicalConf
<1>8. PICK u \in Seq(Line), t \in Seq(Line) : u = psr \o q /\ t = pl \o q
  BY ConcatProperties
<1>9. Logical(u) = Logical(t) /\ LogicalConf(u) = LogicalConf(t)
  BY <1>6, <1>7, <1>8
<1>10. Canonical(u) = Canonical(t) /\ ParseConf(u) = ParseConf(t)
  BY <1>9, CanonicalIs, ParseIs
<1> QED  BY <1>2, <1>3, <1>8, <1>10

(***************************************************************************)
(* Files and steps.                                                        *)
(***************************************************************************)

\* Every file is a conf file, a Cloud export or a file of documents.
LEMMA Kinds ==
  ASSUME NEW f, FileOK(f)
  PROVE  /\ IsConf(f) => /\ f \in ConfFile /\ f.text \in Seq(Line)
                         /\ Len(f.text) <= MaxLines
                         /\ f = [kind |-> "conf", text |-> f.text]
         /\ IsCloud(f) => /\ f \in CloudFile /\ f.search \in Seq(Line)
                          /\ Len(f.search) <= MaxLines
                          /\ f.data \in Seq(Line)
         /\ IsDoc(f) => f \in DocFile /\ WellFormed(f)
         /\ IsConf(f) \/ IsCloud(f) \/ IsDoc(f)
         /\ IsText(f) => Text(f) \in Seq(Line) /\ Len(Text(f)) <= MaxLines
<1> USE DEF IsConf, IsCloud, IsDoc, IsText, Text
<1>1. CASE f \in ConfFile /\ Len(f.text) <= MaxLines
  BY <1>1 DEF ConfFile, DocKinds
<1>2. CASE f \in CloudFile /\ Len(f.search) <= MaxLines
  BY <1>2, LinesAssumption DEF CloudFile, DocKinds
<1>3. CASE f \in DocFile /\ WellFormed(f)
  BY <1>3 DEF DocFile, DocKinds
<1> QED  BY <1>1, <1>2, <1>3 DEF FileOK

\* A conf file or a Cloud export with another text is one.
LEMMA WithTextType ==
  ASSUME NEW f, FileOK(f), IsText(f), NEW t \in Seq(Line), Len(t) <= MaxLines
  PROVE  /\ FileOK(WithText(f, t)) /\ Text(WithText(f, t)) = t
         /\ IsConf(f) => WithText(f, t) = [kind |-> "conf", text |-> t]
         /\ IsCloud(f) => /\ IsCloud(WithText(f, t)) /\ ~IsConf(WithText(f, t))
                          /\ WithText(f, t).data = f.data
<1>1. CASE IsConf(f)
  <2>1. f = [kind |-> "conf", text |-> f.text] /\ ~IsCloud(f)
    BY <1>1, Kinds DEF IsConf, IsCloud
  <2>2. WithText(f, t) = [kind |-> "conf", text |-> t]
    BY <1>1, <2>1 DEF WithText
  <2>3. WithText(f, t) \in ConfFile  BY <2>2 DEF ConfFile
  <2> QED  BY <2>1, <2>2, <2>3 DEF FileOK, Text, IsConf
<1>2. CASE IsCloud(f)
  <2>1. f \in CloudFile /\ ~IsConf(f)  BY <1>2, Kinds DEF IsConf, IsCloud
  <2>2. /\ WithText(f, t) = [f EXCEPT !.search = t]
        /\ WithText(f, t) \in CloudFile /\ WithText(f, t).search = t
        /\ WithText(f, t).data = f.data /\ WithText(f, t).kind = "cloud"
    BY <2>1 DEF WithText, CloudFile
  <2> QED  BY <2>1, <2>2 DEF FileOK, Text, IsConf, IsCloud
<1> QED  BY <1>1, <1>2 DEF IsText

\* A text with a line more is a text.
LEMMA InsertType ==
  ASSUME NEW t \in Seq(Line), NEW i \in 1..Len(t)+1, NEW l \in Line
  PROVE  InsertAt(t, i, l) \in Seq(Line) /\ Len(InsertAt(t, i, l)) = Len(t) + 1
<1>1. PICK n \in Nat : n = Len(t)  BY LenProperties
<1>2. PICK k \in 0..n : k = i - 1 /\ k + 1 = i  BY <1>1
<1>3. PICK p : p = SubSeq(t, 1, k)  OBVIOUS
<1>4. PICK q : q = SubSeq(t, k + 1, n)  OBVIOUS
<1>5. p \in Seq(Line) /\ Len(p) = k  BY <1>1, <1>3, FirstPart
<1>6. q \in Seq(Line) /\ p \o q = t  BY <1>1, <1>3, <1>4, LastPart, TwoParts
<1>7. PICK pl : pl = Append(p, l)  OBVIOUS
<1>8. pl \in Seq(Line) /\ Len(pl) = k + 1 /\ pl = p \o <<l>>
  BY <1>5, <1>7, AppendProperties, AppendIsConcat
<1>9. InsertAt(t, i, l) = pl \o q  BY <1>1, <1>2, <1>3, <1>4, <1>8 DEF InsertAt
<1>10. /\ pl \o q \in Seq(Line) /\ Len(pl \o q) = Len(pl) + Len(q)
       /\ Len(p \o q) = Len(p) + Len(q) /\ Len(q) \in Nat
  BY <1>5, <1>6, <1>8, ConcatProperties, LenProperties
<1> QED  BY <1>1, <1>5, <1>6, <1>8, <1>9, <1>10

\* What a wrapped text is made of.
Wraps(t, u, i, start, rest) ==
  \E p, q \in Seq(Line) :
    t = Append(p, t[i]) \o q /\ u = Append(Append(p, start), rest) \o q

\* Line i of t broken into start and rest.
Wrapped(t, i, k, start, rest) ==
  /\ t \in Seq(Line) /\ i \in 1..Len(t) /\ k \in 1..Len(t[i].words)
  /\ Pieces(t[i], k, start, rest)

WithWrapped(t, i, start, rest) == InsertAt([t EXCEPT ![i] = start], i + 1, rest)

\* Wrapping a line, by the parts of the text around it.
LEMMA WrapParts ==
  ASSUME NEW t, NEW i, NEW k, NEW start, NEW rest,
         Wrapped(t, i, k, start, rest),
         NEW u, u = WithWrapped(t, i, start, rest)
  PROVE  /\ u \in Seq(Line) /\ Len(u) = Len(t) + 1
         /\ Wraps(t, u, i, start, rest)
<1>17. /\ t \in Seq(Line) /\ i \in 1..Len(t) /\ k \in 1..Len(t[i].words)
       /\ Pieces(t[i], k, start, rest)
  BY DEF Wrapped
<1>18. u = InsertAt([t EXCEPT ![i] = start], i + 1, rest)  BY DEF WithWrapped
<1> USE <1>17
<1>1. t[i] \in Line  BY ElementOfSeq
<1>2. start \in Line /\ rest \in Line  BY <1>1, PiecesType
<1>3. PICK p, q : Parts(t, i, p, q)  BY Around
<1>4. p \in Seq(Line) /\ q \in Seq(Line) /\ Len(p) = i - 1  BY <1>3 DEF Parts
<1>5. PICK ps : ps = Append(p, start)  OBVIOUS
<1>6. ps \in Seq(Line) /\ Len(ps) = i
  BY <1>2, <1>4, <1>5, LenProperties, AppendProperties
<1>7. PICK v : v = [t EXCEPT ![i] = start]  OBVIOUS
<1>8. v = ps \o q  BY <1>2, <1>3, <1>5, <1>7 DEF Parts
<1>9. v \in Seq(Line) /\ Len(v) = Len(t)  BY <1>2, <1>7, ExceptSeq
<1>10. PICK j : j = i + 1  OBVIOUS
<1>11. j \in 1..Len(v)+1 /\ j = Len(ps) + 1  BY <1>6, <1>9, <1>10, LenProperties
<1>12. u = InsertAt(v, j, rest)  BY <1>7, <1>10, <1>18
<1>13. u \in Seq(Line) /\ Len(u) = Len(v) + 1  BY <1>2, <1>9, <1>11, <1>12, InsertType
<1>14. u = Append(ps, rest) \o q
  BY <1>2, <1>4, <1>6, <1>8, <1>11, <1>12, InsertBehind
<1>15. t = Append(p, t[i]) \o q  BY <1>3 DEF Parts
<1>16. Wraps(t, u, i, start, rest)  BY <1>4, <1>5, <1>14, <1>15 DEF Wraps
<1> QED  BY <1>9, <1>13, <1>16

\* An edit of a text leaves a file of its kind, hashed anew,
LEMMA TextEditType ==
  ASSUME FileOK(file), TextEdit
  PROVE  /\ FileOK(file') /\ hash' = Hashes(file')
         /\ IsConf(file) => IsConf(file')
         /\ IsCloud(file) => IsCloud(file') /\ file'.data = file.data
<1> DEFINE t == Text(file)
<1>1. IsText(file)  BY DEF TextEdit
<1>2. t \in Seq(Line) /\ Len(t) <= MaxLines /\ Len(t) \in Nat /\ DOMAIN t = 1..Len(t)
  BY <1>1, Kinds, LenProperties
<1>3. LinesFor(file) \subseteq Line  BY LinesAssumption DEF LinesFor
<1>4. ASSUME NEW u \in Seq(Line), Len(u) <= MaxLines, Saved(WithText(file, u))
      PROVE  /\ FileOK(file') /\ hash' = Hashes(file')
             /\ IsConf(file) => IsConf(file')
             /\ IsCloud(file) => IsCloud(file') /\ file'.data = file.data
  BY <1>1, <1>4, WithTextType DEF Saved, IsConf
<1>5. ASSUME NEW i \in 1..Len(t)+1, NEW l \in LinesFor(file), InsertLine(i, l)
      PROVE  \E u \in Seq(Line) : Len(u) <= MaxLines /\ Saved(WithText(file, u))
  <2>1. /\ InsertAt(t, i, l) \in Seq(Line)
        /\ Len(InsertAt(t, i, l)) = Len(t) + 1
    BY <1>2, <1>3, InsertType
  <2>2. Len(t) + 1 <= MaxLines  BY <1>2, <1>5, LinesAssumption DEF InsertLine
  <2>3. Saved(WithText(file, InsertAt(t, i, l)))  BY <1>5 DEF InsertLine
  <2> QED  BY <2>1, <2>2, <2>3
<1>6. ASSUME NEW i \in DOMAIN t, NEW l \in LinesFor(file), ChangeLine(i, l)
      PROVE  \E u \in Seq(Line) : Len(u) <= MaxLines /\ Saved(WithText(file, u))
  <2>1. [t EXCEPT ![i] = l] \in Seq(Line) /\ Len([t EXCEPT ![i] = l]) = Len(t)
    BY <1>2, <1>3, ExceptSeq
  <2>2. Saved(WithText(file, [t EXCEPT ![i] = l]))  BY <1>6 DEF ChangeLine
  <2> QED  BY <1>2, <2>1, <2>2
<1>7. ASSUME NEW i \in DOMAIN t, NEW k \in 1..Len(t[i].words), WrapLine(i, k)
      PROVE  \E u \in Seq(Line) : Len(u) <= MaxLines /\ Saved(WithText(file, u))
  <2>1. PICK start, rest :
          /\ Pieces(t[i], k, start, rest)
          /\ Saved(WithText(file, InsertAt([t EXCEPT ![i] = start], i + 1, rest)))
    BY <1>7 DEF WrapLine, Pieces
  <2>2. PICK u : u = InsertAt([t EXCEPT ![i] = start], i + 1, rest)  OBVIOUS
  <2>3. u \in Seq(Line) /\ Len(u) = Len(t) + 1
    <3>1. PICK s \in Seq(Line) : s = t  BY <1>2
    <3>2. Wrapped(s, i, k, start, rest) /\ u = WithWrapped(s, i, start, rest)
      BY <1>2, <2>1, <2>2, <3>1 DEF Wrapped, WithWrapped
    <3> HIDE DEF t
    <3>3. u \in Seq(Line) /\ Len(u) = Len(s) + 1  BY <3>2, WrapParts
    <3> QED  BY <3>1, <3>3
  <2>4. Len(t) + 1 <= MaxLines  BY <1>2, <1>7, LinesAssumption DEF WrapLine
  <2> QED  BY <2>1, <2>2, <2>3, <2>4
<1>8. \E u \in Seq(Line) : Len(u) <= MaxLines /\ Saved(WithText(file, u))
  BY <1>5, <1>6, <1>7 DEF TextEdit
<1> QED  BY <1>4, <1>8

\* ... and so does an edit of a document.
LEMMA DocEditType ==
  ASSUME FileOK(file), DocEdit
  PROVE  FileOK(file') /\ hash' = Hashes(file') /\ IsDoc(file')
<1> DEFINE D == Body \cup {Garbage}
<1>1. /\ file \in DocFile /\ WellFormed(file) /\ file.docs \in Seq(D)
      /\ DOMAIN file.docs = 1..Len(file.docs)
  BY Kinds, LenProperties DEF DocEdit, DocFile
<1>2. ASSUME NEW g, g \in DocFile, WellFormed(g), Saved(g)
      PROVE  FileOK(file') /\ hash' = Hashes(file') /\ IsDoc(file')
  BY <1>2 DEF Saved, FileOK, DocFile, IsDoc
<1>3. ASSUME NEW docs \in Seq(D), Len(docs) = Len(file.docs)
      PROVE  /\ [file EXCEPT !.docs = docs] \in DocFile
             /\ WellFormed([file EXCEPT !.docs = docs])
  BY <1>1, <1>3 DEF DocFile, WellFormed
<1>4. ASSUME NEW d \in DOMAIN file.docs, NEW field \in Fields, NEW v \in Vals,
             SetField(d, field, v)
      PROVE  FileOK(file') /\ hash' = Hashes(file') /\ IsDoc(file')
  <2>1. file.docs[d] \in Body
    <3>1. file.docs[d] \in D  BY <1>1, ElementOfSeq
    <3> QED  BY <1>4, <3>1 DEF SetField
  <2>2. [file.docs[d] EXCEPT ![field] = v] \in D  BY <2>1 DEF Body
  <2>3. PICK docs : docs = [file.docs EXCEPT ![d] = [file.docs[d] EXCEPT ![field] = v]]
    OBVIOUS
  <2>4. docs \in Seq(D) /\ Len(docs) = Len(file.docs)
    BY <1>1, <2>2, <2>3, ExceptSeq
  <2>5. Saved([file EXCEPT !.docs = docs])  BY <1>4, <2>3 DEF SetField
  <2> QED  BY <1>2, <1>3, <2>4, <2>5
<1>5. ASSUME NEW d \in DOMAIN file.docs, NEW doc \in D,
             Saved([file EXCEPT !.docs[d] = doc])
      PROVE  FileOK(file') /\ hash' = Hashes(file') /\ IsDoc(file')
  <2>1. PICK docs : docs = [file.docs EXCEPT ![d] = doc]  OBVIOUS
  <2>2. docs \in Seq(D) /\ Len(docs) = Len(file.docs)  BY <1>1, <2>1, ExceptSeq
  <2>3. Saved([file EXCEPT !.docs = docs])  BY <1>5, <2>1
  <2> QED  BY <1>2, <1>3, <2>2, <2>3
<1>6. ASSUME NEW doc \in Body, AddDoc(doc)
      PROVE  FileOK(file') /\ hash' = Hashes(file') /\ IsDoc(file')
  <2>1. PICK docs : docs = Append(file.docs, doc)  OBVIOUS
  <2>2. docs \in Seq(D)  BY <1>1, <2>1, AppendProperties
  <2>3. [file EXCEPT !.docs = docs] \in DocFile  BY <1>1, <2>2 DEF DocFile
  <2>4. /\ WellFormed([file EXCEPT !.docs = docs])
        /\ Saved([file EXCEPT !.docs = docs])
    BY <1>6, <2>1 DEF AddDoc
  <2> QED  BY <1>2, <2>3, <2>4
<1>7. ASSUME NEW wrapped \in BOOLEAN, NEW array \in BOOLEAN, NEW beside \in 0..3,
             Rewrap(wrapped, array, beside)
      PROVE  FileOK(file') /\ hash' = Hashes(file') /\ IsDoc(file')
  <2>1. PICK g : g = [file EXCEPT !.wrapped = wrapped, !.array = array, !.beside = beside]
    OBVIOUS
  <2>2. g \in DocFile  BY <1>1, <2>1 DEF DocFile
  <2>3. WellFormed(g) /\ Saved(g)  BY <1>7, <2>1 DEF Rewrap
  <2> QED  BY <1>2, <2>2, <2>3
<1>8. ASSUME NEW d \in DOMAIN file.docs, Garble(d)
      PROVE  Saved([file EXCEPT !.docs[d] = Garbage])
  BY <1>8 DEF Garble
<1>9. ASSUME NEW d \in DOMAIN file.docs, NEW doc \in Body, Mend(d, doc)
      PROVE  Saved([file EXCEPT !.docs[d] = doc])
  BY <1>9 DEF Mend
<1> HIDE DEF D
<1>10. Garbage \in D /\ Body \subseteq D  BY DEF D
<1> QED  BY <1>4, <1>5, <1>6, <1>7, <1>8, <1>9, <1>10 DEF DocEdit

\* Every step saves a file that is all right, with its hashes.
LEMMA StepType ==
  ASSUME FileOK(file), Next
  PROVE  /\ FileOK(file') /\ hash' = Hashes(file')
         /\ IsConf(file) => IsConf(file')
         /\ IsCloud(file) => IsCloud(file') /\ file'.data = file.data
         /\ IsDoc(file) => IsDoc(file')
<1>1. CASE TextEdit
  <2>1. ~IsDoc(file)
    BY <1>1 DEF TextEdit, IsText, IsConf, IsCloud, IsDoc, DocKinds
  <2> QED  BY <1>1, <2>1, TextEditType
<1>2. ASSUME IsCloud(file), NEW shape \in CloudShapes, ReshapeCloud(shape)
      PROVE  /\ FileOK(file') /\ hash' = Hashes(file')
             /\ IsCloud(file') /\ file'.data = file.data
  <2>1. file \in CloudFile /\ Len(file.search) <= MaxLines  BY <1>2, Kinds
  <2>2. PICK g : g = [file EXCEPT !.shape = shape]  OBVIOUS
  <2>3. /\ g \in CloudFile /\ Len(g.search) <= MaxLines
        /\ g.data = file.data /\ g.kind = "cloud"
    BY <2>1, <2>2 DEF CloudFile
  <2>4. file' = g /\ hash' = Hashes(g)  BY <1>2, <2>2 DEF ReshapeCloud, Saved
  <2> QED  BY <2>3, <2>4 DEF FileOK, IsCloud
<1>3. CASE DocEdit
  <2>1. ~IsConf(file) /\ ~IsCloud(file)
    BY <1>3 DEF DocEdit, IsConf, IsCloud, IsDoc, DocKinds
  <2> QED  BY <1>3, <2>1, DocEditType
<1>4. IsCloud(file) => ~IsConf(file) /\ ~IsDoc(file)
  BY DEF IsConf, IsCloud, IsDoc, DocKinds
<1> QED  BY <1>1, <1>2, <1>3, <1>4 DEF Next

(***************************************************************************)
(* Types, and the invariant of all the theorems below.                     *)
(***************************************************************************)

\* Every name has a hash, and none is the hash of no words.
LEMMA HashesType ==
  ASSUME NEW f, FileOK(f)
  PROVE  DOMAIN Hashes(f) = Names /\ \A n \in Names : Hashes(f)[n] # << >>
<1>0. NoDigest # << >>  BY WordsAssumption
<1>1. \A t : QueryHash(t) # << >>  BY <1>0 DEF QueryHash
<1>2. CASE IsConf(f)
  <2>1. Hashes(f) = ConfHash(f.text)  BY <1>2 DEF Hashes
  <2> QED  BY <1>1, <2>1 DEF ConfHash
<1>3. ASSUME ~IsConf(f), NEW h, h # << >>,
             Hashes(f) = [n \in Names |-> IF h = NoDoc THEN NoDigest ELSE h]
      PROVE  DOMAIN Hashes(f) = Names /\ \A n \in Names : Hashes(f)[n] # << >>
  BY <1>0, <1>3
<1>4. CASE IsCloud(f) /\ ~IsConf(f)
  <2>1. CloudHash(f) # << >>  BY <1>1 DEF CloudHash
  <2>2. Hashes(f) = [n \in Names |-> IF CloudHash(f) = NoDoc THEN NoDigest
                                     ELSE CloudHash(f)]
    BY <1>4 DEF Hashes
  <2> QED  BY <1>3, <1>4, <2>1, <2>2
<1>5. CASE IsDoc(f)
  <2>1. ~IsConf(f) /\ ~IsCloud(f)
    BY <1>5 DEF IsConf, IsCloud, IsDoc, DocKinds
  <2>2. Hashes(f) = [n \in Names |-> IF DocHash(f) = NoDoc THEN NoDigest
                                     ELSE DocHash(f)]
    BY <2>1 DEF Hashes
  <2>3. DocHash(f) = NoDoc \/ DocHash(f) # << >>
    <3>1. "query" \notin Volatile(f.kind)
      <4>1. f.kind \in DocKinds  BY <1>5 DEF IsDoc
      <4>2. f.kind = "sigma" => Volatile(f.kind) = {}  BY Zenon DEF Volatile
      <4>3. f.kind = "elastic" => Volatile(f.kind) = {"id", "stamp"}
        BY DEF Volatile
      <4>4. f.kind = "kql-sentinel" => Volatile(f.kind) = {"id", "name", "stamp"}
        BY DEF Volatile
      <4>5. f.kind = "kql-m365d" => Volatile(f.kind) = {"id", "enabled", "stamp"}
        BY DEF Volatile
      <4> QED  BY <4>1, <4>2, <4>3, <4>4, <4>5 DEF DocKinds
    <3>2. DOMAIN << >> = {}  OBVIOUS
    <3>3. ASSUME NEW body  PROVE Stripped(f, body) # << >>
      <4>1. "query" \in DOMAIN Stripped(f, body)
        BY <3>1 DEF Stripped, Restrict, Fields
      <4> QED  BY <3>2, <4>1
    <3>4. ASSUME NEW body  PROVE [rule |-> body, beside |-> f.beside] # << >>
      <4>1. "rule" \in DOMAIN [rule |-> body, beside |-> f.beside]  OBVIOUS
      <4> QED  BY <3>2, <4>1
    <3> QED  BY <3>3, <3>4 DEF DocHash
  <2>4. CASE DocHash(f) = NoDoc
    <3>1. \A n \in Names : Hashes(f)[n] = NoDigest  BY <2>2, <2>4
    <3> QED  BY <1>0, <2>2, <3>1
  <2>5. CASE DocHash(f) # << >>  BY <1>3, <2>1, <2>2, <2>5
  <2> QED  BY <2>3, <2>4, <2>5
<1> QED  BY <1>2, <1>4, <1>5, Kinds

HashInv == FileOK(file) /\ hash = Hashes(file)

\* Files stay files, and their hashes are those of the last edit.
LEMMA HashNext == HashInv /\ [Next]_vars => HashInv'
<1> SUFFICES ASSUME HashInv, [Next]_vars  PROVE HashInv'  OBVIOUS
<1>1. CASE Next
  <2>1. FileOK(file') /\ hash' = Hashes(file')  BY <1>1, StepType DEF HashInv
  <2> QED  BY <2>1 DEF HashInv
<1>2. CASE UNCHANGED vars
  <2>1. file' = file /\ hash' = hash  BY <1>2 DEF vars
  <2> QED  BY <2>1 DEF HashInv
<1> QED  BY <1>1, <1>2

\* HashInv holds in every reachable state.
LEMMA HashHolds == Spec => []HashInv
<1>1. Init => HashInv  BY InitAssumption DEF Init, HashInv
<1> QED  BY <1>1, HashNext, PTL DEF Spec

\* A rule file stays one that can be, every name has a hash from it, and
\* nothing is the hash of no words (compute_query_hash).
THEOREM TypeCorrect == Spec => []TypeOK
<1>1. HashInv => TypeOK  BY HashesType DEF HashInv, TypeOK
<1> QED  BY <1>1, HashHolds, PTL

(***************************************************************************)
(* Comments and continued lines are free.                                  *)
(***************************************************************************)

\* When two texts are the same to the readers.
SameText(t, u) == Canonical(t) = Canonical(u) /\ ParseConf(t) = ParseConf(u)

\* Texts that both readers take for the same have the same hashes,
LEMMA SameTextSameHash ==
  ASSUME NEW f, NEW g, FileOK(f), FileOK(g), IsText(f), SameText(Text(f), Text(g)),
         IsConf(f) => IsConf(g), IsCloud(f) => IsCloud(g),
         Text(f) # << >>, Text(g) # << >>
  PROVE  Hashes(g) = Hashes(f)
<1>1. CASE IsConf(f)
  <2>1. /\ Hashes(f) = ConfHash(f.text) /\ Hashes(g) = ConfHash(g.text)
        /\ ParseConf(f.text) = ParseConf(g.text)
    BY <1>1 DEF Hashes, Text, SameText
  <2> QED  BY <2>1 DEF ConfHash
<1>2. CASE IsCloud(f)
  <2>1. ~IsConf(f) /\ ~IsConf(g) /\ IsCloud(g)  BY <1>2 DEF IsConf, IsCloud
  <2>2. /\ f.search # << >> /\ g.search # << >>
        /\ Canonical(f.search) = Canonical(g.search)
    BY <2>1 DEF Text, SameText
  <2>3. CloudHash(f) = CloudHash(g)  BY <2>2 DEF CloudHash, CloudSearch
  <2> QED  BY <1>2, <2>1, <2>3 DEF Hashes
<1> QED  BY <1>1, <1>2 DEF IsText

\* ... and a step to such a text moves none.
LEMMA StepsOfTexts ==
  ASSUME HashInv, Next, IsText(file), SameText(Text(file), Text(file')),
         Text(file) # << >>, Text(file') # << >>
  PROVE  hash' = hash
BY StepType, SameTextSameHash DEF HashInv

\* A comment may be put anywhere but into a continued line: the reader of
\* conf files, which leaves comments out of its joining, and the one of
\* searches, which joins first, agree on that (canonicalize_spl,
\* parse_savedsearches_conf).
THEOREM CommentsNeverCount == Spec => CommentsAreFree
<1>1. ASSUME HashInv, Next, IsText(file), Text(file) # << >>,
             NEW i \in 1..Len(Text(file))+1,
             Inserted(Text(file), Text(file'), i),
             IsComment(Text(file')[i]), StandsAlone(Text(file'), i)
      PROVE  hash' = hash
  <2>1. FileOK(file) /\ FileOK(file') /\ IsText(file')
    BY <1>1, StepType DEF HashInv, IsText
  <2>2. PICK t \in Seq(Line), u \in Seq(Line) : t = Text(file) /\ u = Text(file')
    BY <1>1, <2>1, Kinds
  <2>3. i \in 1..Len(t)+1 /\ Len(u) = Len(t) + 1 /\ Len(t) \in Nat
    BY <1>1, <2>2, LenProperties DEF Inserted
  <2>4. PICK c \in Line : c = u[i]  BY <2>3, ElementOfSeq
  <2>5. u = InsertAt(t, i, c) /\ IsComment(c) /\ StandsAlone(u, i) /\ ~c.cont
    BY <1>1, <2>2, <2>4 DEF Inserted, StandsAlone
  <2>6. PICK p, q \in Seq(Line) : Done(p) /\ t = p \o q /\ u = Append(p, c) \o q
    <3>1. Inserts(t, u, c)  BY <2>3, <2>5, InsertedBetween
    <3> QED  BY <3>1 DEF Inserts
  <2>7. Canonical(u) = Canonical(t) /\ ParseConf(u) = ParseConf(t)
    <3>1. Between(u, p, c, q) /\ Split(t, p, q)
      BY <2>5, <2>6 DEF Between, Split
    <3> QED  BY <2>5, <3>1, CommentBetween
  <2>8. u # << >>  BY <2>3, EmptySeq
  <2> QED  BY <1>1, <2>2, <2>7, <2>8, StepsOfTexts DEF SameText
<1>2. HashInv /\ [Next]_vars =>
        [IsText(file) /\ Text(file) # << >> =>
           \A i \in 1 .. Len(Text(file)) + 1 :
             /\ Inserted(Text(file), Text(file'), i)
             /\ IsComment(Text(file')[i]) /\ StandsAlone(Text(file'), i)
             => hash' = hash]_file
  BY <1>1 DEF vars
<1> QED  BY <1>2, HashHolds, PTL DEF Spec, CommentsAreFree

\* The second piece stands behind the first.
LEMMA WrappedLine ==
  ASSUME NEW t \in Seq(Line), NEW i \in 1..Len(t), NEW start \in Line,
         NEW rest \in Line
  PROVE  WithWrapped(t, i, start, rest)[i + 1] = rest
<1>1. PICK v : v = [t EXCEPT ![i] = start]  OBVIOUS
<1>2. v \in Seq(Line) /\ Len(v) = Len(t) /\ Len(v) \in Nat
  BY <1>1, ExceptSeq, LenProperties
<1>3. PICK p : p = SubSeq(v, 1, i)  OBVIOUS
<1>4. PICK q : q = SubSeq(v, i + 1, Len(v))  OBVIOUS
<1>5. i \in 0..Len(v) /\ i \in Nat  BY <1>2
<1>6. p \in Seq(Line) /\ Len(p) = i /\ q \in Seq(Line)
  BY <1>2, <1>3, <1>4, <1>5, FirstPart, LastPart
<1>7. PICK pr : pr = Append(p, rest)  OBVIOUS
<1>8. pr \in Seq(Line) /\ Len(pr) = i + 1 /\ pr[i + 1] = rest /\ pr = p \o <<rest>>
  BY <1>5, <1>6, <1>7, AppendProperties, AppendIsConcat
<1>9. PICK j : j = i + 1 /\ j - 1 = i  BY <1>5
<1>10. InsertAt(v, j, rest) = pr \o q
  BY <1>3, <1>4, <1>8, <1>9 DEF InsertAt
<1>11. j \in 1..Len(pr) + Len(q) /\ j <= Len(pr)
  BY <1>5, <1>6, <1>8, <1>9, LenProperties
<1>12. (pr \o q)[j] = pr[j]  BY <1>6, <1>8, <1>11, ConcatProperties
<1>13. PICK w : w = InsertAt(v, j, rest)  OBVIOUS
<1>14. w[j] = rest  BY <1>8, <1>9, <1>10, <1>12, <1>13
<1>15. w = WithWrapped(t, i, start, rest)
  BY <1>1, <1>9, <1>13 DEF WithWrapped
<1> QED  BY <1>9, <1>14, <1>15

\* A line may be continued on the next one wherever it has a space, unless
\* a word with '#' comes first there (canonicalize_spl and
\* parse_savedsearches_conf, which join lines before they read them).
THEOREM WrappingNeverCounts == Spec => WrappingIsFree
<1>1. ASSUME HashInv, Next, IsText(file), NEW i \in DOMAIN Text(file),
             NEW k \in DOMAIN Text(file)[i].words, WrapLine(i, k),
             ~IsComment(Text(file')[i + 1])
      PROVE  hash' = hash
  <2>1. FileOK(file)  BY <1>1 DEF HashInv
  <2>2. PICK t \in Seq(Line) : t = Text(file) /\ Len(t) <= MaxLines
    BY <1>1, <2>1, Kinds
  <2>3. i \in 1..Len(t) /\ t[i] \in Line /\ Len(t) \in Nat
    BY <1>1, <2>2, LenProperties, ElementOfSeq
  <2>4. k \in 1..Len(t[i].words)  BY <1>1, <2>2, <2>3, LineType, LenProperties
  <2>5. PICK start, rest, u :
          /\ Pieces(t[i], k, start, rest)
          /\ u = InsertAt([t EXCEPT ![i] = start], i + 1, rest)
          /\ Saved(WithText(file, u))
    BY <1>1, <2>2 DEF WrapLine, Pieces
  <2>6. u \in Seq(Line) /\ Len(u) = Len(t) + 1 /\ Wraps(t, u, i, start, rest)
    <3>1. Wrapped(t, i, k, start, rest) /\ u = WithWrapped(t, i, start, rest)
      BY <2>3, <2>4, <2>5 DEF Wrapped, WithWrapped
    <3> QED  BY <3>1, WrapParts
  <2>7. Len(u) <= MaxLines
    BY <1>1, <2>2, <2>3, <2>6, LinesAssumption DEF WrapLine
  <2>8. Text(file') = u  BY <1>1, <2>1, <2>5, <2>6, <2>7, WithTextType DEF Saved
  <2>9. PICK p, q \in Seq(Line) :
          t = Append(p, t[i]) \o q /\ u = Append(Append(p, start), rest) \o q
    BY <2>6 DEF Wraps
  <2>10. start \in Line /\ rest \in Line  BY <2>3, <2>4, <2>5, PiecesType
  <2>11. u[i + 1] = rest
    <3>1. u = WithWrapped(t, i, start, rest)  BY <2>5 DEF WithWrapped
    <3>2. WithWrapped(t, i, start, rest)[i + 1] = rest
      BY <2>3, <2>10, WrappedLine
    <3> QED  BY <3>1, <3>2
  <2>12. ~IsComment(rest)  BY <1>1, <2>8, <2>11
  <2>13. Canonical(u) = Canonical(t) /\ ParseConf(u) = ParseConf(t)
    <3>1. PICK l \in Line : l = t[i]  BY <2>3
    <3>2. k \in 1..Len(l.words) /\ Pieces(l, k, start, rest) /\ t = Append(p, l) \o q
      BY <2>4, <2>5, <2>9, <3>1
    <3>3. /\ Canonical(Append(Append(p, start), rest) \o q)
               = Canonical(Append(p, l) \o q)
          /\ ParseConf(Append(Append(p, start), rest) \o q)
               = ParseConf(Append(p, l) \o q)
      BY <2>12, <3>2, WrapBetween
    <3> QED  BY <2>9, <3>2, <3>3
  <2>14. t # << >> /\ u # << >>  BY <2>3, <2>6, EmptySeq
  <2> QED  BY <1>1, <2>2, <2>8, <2>13, <2>14, StepsOfTexts DEF SameText
<1>2. HashInv /\ [Next]_vars =>
        [IsText(file) =>
           \A i \in DOMAIN Text(file) :
             /\ \E k \in DOMAIN Text(file)[i].words : WrapLine(i, k)
             /\ ~IsComment(Text(file')[i + 1])
             => hash' = hash]_file
  BY <1>1 DEF vars
<1> QED  BY <1>2, HashHolds, PTL DEF Spec, WrappingIsFree

(***************************************************************************)
(* The same search in the cloud and in a conf file.                        *)
(***************************************************************************)
Simple == {l \in Line : ~l.cont /\ ~IsComment(l)}

\* The words of a search of simple lines.
Said(s) == LeftFold(SayF, << >>, s)

\* Simple lines are joined to nothing; their words follow each other, and
\* never look like a comment.
LEMMA SimpleText ==
  ASSUME NEW s \in Seq(Simple)
  PROVE  /\ s \in Seq(Line) /\ Logical(s) = s
         /\ Said(s) \in Seq(Words)
         /\ ~IsComment([words |-> Said(s), cont |-> FALSE])
<1> DEFINE T == {t \in Seq(Simple) :
                   /\ t \in Seq(Line) /\ Logical(t) = t
                   /\ Said(t) \in Seq(Words)
                   /\ ~IsComment([words |-> Said(t), cont |-> FALSE])}
<1>1. Simple \subseteq Line  BY DEF Simple
<1>2. << >> \in T
  <2>1. Logical(<< >>) = << >> /\ Said(<< >>) = << >>
    BY NoLines, FoldEmpty DEF Said
  <2> QED  BY <2>1, EmptySeq DEF IsComment
<1>3. ASSUME NEW t \in Seq(Simple), NEW l \in Simple, t \in T
      PROVE  Append(t, l) \in T
  <2>1. l \in Line /\ ~l.cont /\ ~IsComment(l)  BY DEF Simple
  <2>2. Append(t, l) \in Seq(Simple) /\ Append(t, l) \in Seq(Line)
    BY <1>3, <2>1, AppendProperties
  <2>3. Logical(Append(t, l)) = Append(t, l)
    <3>1. Logical(Append(t, l)) = Join(t, l)  BY <1>3, <2>1, OneMore
    <3>2. t # << >> => ~Last(t).cont
      <4>1. t # << >> => Last(t) \in Simple  BY FrontLast
      <4> QED  BY <4>1 DEF Simple
    <3> QED  BY <3>1, <3>2 DEF Join
  <2>4. PICK ws \in Seq(Words) : ws = Said(t)  BY <1>3
  <2>5. ws \in Seq(AllWords)  BY SeqMonotonic DEF AllWords
  <2>6. Said(Append(t, l)) = ws \o l.words
    <3>1. Said(Append(t, l)) = SayF[<<ws, l>>]  BY <2>4, FoldAppend DEF Said
    <3>2. SayF[<<ws, l>>] = Say(ws, l)  BY <2>1, <2>5, Steps
    <3> QED  BY <2>1, <3>1, <3>2 DEF Say, Spelled
  <2>7. l.words \in Seq(Words)  BY <2>1, LineType
  <2>8. PICK x : x = ws \o l.words  OBVIOUS
  <2>9. x \in Seq(Words)  BY <2>7, <2>8, ConcatProperties
  <2>10. ~IsComment([words |-> x, cont |-> FALSE])
    <3>1. CASE ws = << >>
      <4>1. x = l.words  BY <2>7, <2>8, <3>1, ConcatEmptySeq
      <4> QED  BY <2>1, <4>1 DEF IsComment
    <3>2. CASE ws # << >>
      <4>1. 1 \in 1..Len(ws) /\ Len(ws) \in Nat /\ Len(l.words) \in Nat
        BY <2>7, <3>2, EmptySeq, LenProperties
      <4>2. 1 \in 1..Len(ws) + Len(l.words) /\ 1 <= Len(ws)  BY <4>1
      <4>3. x[1] = ws[1]  BY <2>7, <2>8, <4>2, ConcatProperties
      <4> QED  BY <1>3, <2>4, <3>2, <4>3 DEF IsComment
    <3> QED  BY <3>1, <3>2
  <2> QED  BY <2>2, <2>3, <2>6, <2>8, <2>9, <2>10
<1> HIDE DEF T
<1>4. s \in T  BY <1>2, <1>3, ByAppending
<1> QED  BY <1>4 DEF T

\* One line that is neither a comment nor goes on is its words.
LEMMA OneLine ==
  ASSUME NEW ws \in Seq(Words), ~IsComment([words |-> ws, cont |-> FALSE])
  PROVE  Canonical(<<[words |-> ws, cont |-> FALSE]>>) = ws
<1>1. PICK l \in Line : l = [words |-> ws, cont |-> FALSE]
  BY DEF Line
<1>2. <<l>> \in Seq(Line) /\ << >> \in Seq(Line) /\ << >> \in Seq(AllWords)
      /\ << >> \in Seq(Words)
  BY EmptySeq
<1>3. Logical(<<l>>) = <<l>>
  <2>1. Logical(<<l>>) = JoinF[<< << >>, l>>]  BY FoldOne DEF Logical
  <2>2. JoinF[<< << >>, l>>] = Join(<< >>, l)  BY <1>2, Steps
  <2>3. Append(<< >>, l) = <<l>>  OBVIOUS
  <2> QED  BY <2>1, <2>2, <2>3 DEF Join
<1>4. Canonical(<<l>>) = SayF[<< << >>, l>>]
  <2>1. Canonical(<<l>>) = LeftFold(SayF, << >>, <<l>>)  BY <1>2, <1>3, CanonicalIs
  <2> QED  BY <2>1, FoldOne
<1>5. SayF[<< << >>, l>>] = Say(<< >>, l)  BY <1>2, Steps
<1>6. Say(<< >>, l) = << >> \o ws  BY <1>1 DEF Say, Spelled
<1>7. << >> \o ws = ws  BY ConcatEmptySeq
<1> QED  BY <1>1, <1>4, <1>5, <1>6, <1>7

Digest(ws) == IF ws = << >> THEN NoDigest ELSE ws

\* What a Cloud export of a simple search hashes to.
LEMMA CloudDigest ==
  ASSUME NEW s \in Seq(Simple)
  PROVE  QueryHash(AsText(Canonical(s))) = Digest(Said(s))
<1>1. PICK ws \in Seq(Words) : ws = Said(s)  BY SimpleText
<1>2. Canonical(s) = ws  BY <1>1, SimpleText, CanonicalIs DEF Said
<1>3. Backslash \notin Words  BY WordsAssumption DEF Words
<1>4. AsText(ws) = <<[words |-> ws, cont |-> FALSE]>>
  <2>1. ws # << >> => Last(ws) \in Words  BY FrontLast
  <2> QED  BY <1>3, <2>1 DEF AsText
<1>5. Canonical(AsText(ws)) = ws  BY <1>1, <1>4, SimpleText, OneLine
<1> QED  BY <1>1, <1>2, <1>5 DEF QueryHash, Digest

\* The line that opens a stanza.
LEMMA HeaderLine ==
  ASSUME NEW n \in Names
  PROVE  LET h == [words |-> <<Header(n)>>, cont |-> FALSE]
         IN  h \in Line /\ IsHeader(h) /\ HeaderName(h) = n /\ n # Default
<1> DEFINE h == [words |-> <<Header(n)>>, cont |-> FALSE]
<1>1. Header(n) \in Headers /\ Header(n) \in Words  BY DEF Headers, Words
<1>2. <<Header(n)>> \in Seq(Words) /\ Len(<<Header(n)>>) = 1
      /\ <<Header(n)>>[1] = Header(n) /\ <<Header(n)>> # << >>
  BY <1>1
<1>3. h \in Line  BY <1>2 DEF Line
<1>4. Last(h.words) = Header(n)  BY <1>2 DEF Last
<1>5. IsHeader(h)  BY <1>1, <1>2, <1>4 DEF IsHeader
<1>6. HeaderName(h) = n  BY <1>2 DEF HeaderName, Header
<1>7. n # Default  BY WordsAssumption
<1> QED  BY <1>3, <1>5, <1>6, <1>7

\* The lines of a stanza as Splunk writes them are one logical line.
BodyLine(s, i) ==
  [words |-> (IF i = 1 THEN <<SearchKey>> ELSE << >>) \o s[i].words,
   cont  |-> i < Len(s) \/ s[i].cont]

\* The stanza Splunk writes of a search joins to one line, with all its words.
LEMMA BodyJoins ==
  ASSUME NEW s \in Seq(Simple), s # << >>,
         NEW body, body = [i \in DOMAIN s |-> BodyLine(s, i)]
  PROVE  /\ body \in Seq(Line)
         /\ LogicalConf(body)
              = <<[words |-> <<SearchKey>> \o Said(s), cont |-> FALSE]>>
<1>1. PICK n \in Nat : n = Len(s) /\ n >= 1 /\ DOMAIN s = 1..n
  BY EmptySeq, LenProperties
<1>2. \A i \in 1..n : /\ s[i] \in Line /\ ~s[i].cont /\ ~IsComment(s[i])
                      /\ s[i].words \in Seq(Words)
  BY <1>1, ElementOfSeq, LineType DEF Simple
<1>3. SearchKey \in Words /\ SearchKey \notin Comments
  BY WordsAssumption DEF Words
<1>4. <<SearchKey>> \in Seq(Words)  BY <1>3
<1>5. ASSUME NEW i \in 1..n
      PROVE  /\ BodyLine(s, i) \in Line
             /\ i > 1 => /\ BodyLine(s, i).words = s[i].words
                         /\ ~IsComment(BodyLine(s, i))
             /\ BodyLine(s, i).cont = (i < n)
             /\ i = 1 => BodyLine(s, i) = [words |-> <<SearchKey>> \o s[i].words,
                                           cont |-> i < n]
  <2>1. << >> \o s[i].words = s[i].words  BY <1>2, ConcatEmptySeq
  <2>2. <<SearchKey>> \o s[i].words \in Seq(Words)  BY <1>2, <1>4, ConcatProperties
  <2>3. BodyLine(s, i).cont = (i < n)  BY <1>1, <1>2 DEF BodyLine
  <2>5. BodyLine(s, i) = [words |-> IF i = 1 THEN <<SearchKey>> \o s[i].words
                                             ELSE s[i].words,
                          cont |-> i < n]
    <3>1. (i < Len(s) \/ s[i].cont) = (i < n)  BY <1>1, <1>2
    <3>2. BodyLine(s, i)
            = [words |-> (IF i = 1 THEN <<SearchKey>> ELSE << >>) \o s[i].words,
               cont |-> i < n]
      BY <3>1 DEF BodyLine
    <3>3. CASE i = 1  BY <3>2, <3>3
    <3>4. CASE i # 1  BY <2>1, <3>2, <3>4
    <3> QED  BY <3>3, <3>4
  <2>6. BodyLine(s, i) \in Line  BY <1>2, <2>2, <2>5 DEF Line
  <2>7. i > 1 => BodyLine(s, i).words = s[i].words  BY <2>5
  <2>8. i = 1 => BodyLine(s, i) = [words |-> <<SearchKey>> \o s[i].words,
                                   cont |-> i < n]
    BY <2>5
  <2> QED  BY <1>2, <2>3, <2>6, <2>7, <2>8 DEF IsComment
<1>6. body \in Seq(Line) /\ Len(body) = n /\ \A i \in 1..n : body[i] = BodyLine(s, i)
  BY <1>1, <1>5
<1> DEFINE OneLineSoFar(k) ==
             LogicalConf(SubSeq(body, 1, k))
               = <<[words |-> <<SearchKey>> \o Said(SubSeq(s, 1, k)), cont |-> k < n]>>
           T == {k \in 0..n : k >= 1 => OneLineSoFar(k)}
<1>7. 0 \in T  OBVIOUS
<1>8. ASSUME NEW k \in 0..n, k \in T, k + 1 \in 0..n  PROVE k + 1 \in T
  <2>1. PICK j \in 1..n : j = k + 1 /\ j - 1 = k  BY <1>8
  <2>2. PICK a : a = SubSeq(s, 1, k)  OBVIOUS
  <2>3. PICK b : b = SubSeq(body, 1, k)  OBVIOUS
  <2>4. a \in Seq(Simple) /\ b \in Seq(Line)
    BY <1>1, <1>6, <2>2, <2>3, FirstPart
  <2>5. SubSeq(s, 1, j) = Append(a, s[j]) /\ SubSeq(body, 1, j) = Append(b, body[j])
    BY <1>1, <1>6, <2>1, <2>2, <2>3, FirstPartGrows
  <2>6. s[j] \in Simple /\ body[j] \in Line /\ s[j] \in Line
    BY <1>1, <1>2, <1>5, <1>6, <2>1, ElementOfSeq
  <2>7. PICK ws \in Seq(Words) : ws = Said(a)  BY <2>4, SimpleText
  <2>8. Said(Append(a, s[j])) = ws \o s[j].words
    <3>1. a \in Seq(Line)  BY <2>4, SimpleText
    <3>2. Said(Append(a, s[j])) = SayF[<<ws, s[j]>>]
      BY <2>6, <2>7, <3>1, FoldAppend DEF Said
    <3>3. ws \in Seq(AllWords)  BY SeqMonotonic DEF AllWords
    <3>4. SayF[<<ws, s[j]>>] = Say(ws, s[j])  BY <2>6, <3>3, Steps
    <3> QED  BY <1>2, <3>2, <3>4 DEF Say, Spelled
  <2>9. LogicalConf(Append(b, body[j])) = JoinConf(LogicalConf(b), body[j])
    BY <2>4, <2>6, OneMore
  <2>10. CASE k = 0
    <3>1. a = << >> /\ b = << >>  BY <2>2, <2>3, <2>10, SubSeqEmpty
    <3>2. ws = << >>  BY <2>7, <3>1, FoldEmpty DEF Said
    <3>3. ws \o s[j].words = s[j].words  BY <1>2, <3>2, ConcatEmptySeq
    <3>4. body[j] = [words |-> <<SearchKey>> \o s[j].words, cont |-> j < n]
      <4>1. j = 1  BY <2>1, <2>10
      <4>2. body[j] = BodyLine(s, j)  BY <1>6
      <4> QED  BY <1>5, <4>1, <4>2
    <3>5. LogicalConf(Append(b, body[j])) = <<body[j]>>
      BY <2>9, <3>1, NoLines DEF JoinConf
    <3>6. LogicalConf(SubSeq(body, 1, j))
            = <<[words |-> <<SearchKey>> \o Said(SubSeq(s, 1, j)), cont |-> j < n]>>
      BY <2>5, <2>8, <3>3, <3>4, <3>5
    <3> QED  BY <1>8, <2>1, <3>6
  <2>11. CASE k # 0
    <3>1. k >= 1 /\ k < n /\ j > 1  BY <2>1, <2>11
    <3>2. PICK m : m = [words |-> <<SearchKey>> \o ws, cont |-> k < n]  OBVIOUS
    <3>3. LogicalConf(b) = <<m>>  BY <1>8, <2>2, <2>3, <2>7, <3>1, <3>2
    <3>4. /\ <<m>> # << >> /\ Last(<<m>>) = m /\ Front(<<m>>) = << >>
      BY DEF Last, Front
    <3>5. m.cont /\ ~IsComment(body[j]) /\ body[j].words = s[j].words
          /\ body[j].cont = (j < n)
      BY <1>5, <1>6, <3>1, <3>2
    <3>6. JoinConf(<<m>>, body[j]) = <<Glue(m, body[j])>>
      BY <3>4, <3>5 DEF JoinConf, GlueLast
    <3>7. Glue(m, body[j]) = [words |-> (<<SearchKey>> \o ws) \o s[j].words,
                              cont |-> j < n]
      BY <3>2, <3>5 DEF Glue
    <3>8. (<<SearchKey>> \o ws) \o s[j].words = <<SearchKey>> \o (ws \o s[j].words)
      <4>1. PICK x \in Seq(Words), y \in Seq(Words) : x = <<SearchKey>> /\ y = s[j].words
        BY <1>2, <1>4
      <4>2. Associates(x, ws, y)  BY Associative
      <4> QED  BY <4>1, <4>2 DEF Associates
    <3>9. LogicalConf(SubSeq(body, 1, j))
            = <<[words |-> <<SearchKey>> \o Said(SubSeq(s, 1, j)), cont |-> j < n]>>
      BY <2>5, <2>8, <2>9, <3>3, <3>6, <3>7, <3>8
    <3> QED  BY <1>8, <2>1, <3>9
  <2> QED  BY <2>10, <2>11
<1>9. n \in T
  <2> HIDE DEF T
  <2>1. \A k \in 0..n : k \in T /\ k + 1 \in 0..n => k + 1 \in T  BY <1>8
  <2>2. \A k \in 0..n : k \in T  BY <1>7, <2>1, UpTo
  <2> QED  BY <2>2
<1>10. SubSeq(body, 1, n) = body /\ SubSeq(s, 1, n) = s
  BY <1>1, <1>6, SubSeqFull
<1>11. OneLineSoFar(n) /\ (n < n) = FALSE  BY <1>1, <1>9
<1> QED  BY <1>6, <1>10, <1>11

(* A line whose words are replaced keeps its mark of continuation. *)
LEMMA SetWords ==
  ASSUME NEW a, NEW b, NEW c
  PROVE  [[words |-> a, cont |-> c] EXCEPT !.words = b] = [words |-> b, cont |-> c]
  OBVIOUS

\* What that stanza hashes to.
LEMMA StanzaDigest ==
  ASSUME NEW s \in Seq(Simple), NEW n \in Names
  PROVE  ConfHash(ConfOf(s, n))[n] = Digest(Said(s))
<1>1. PICK h : h = [words |-> <<Header(n)>>, cont |-> FALSE]  OBVIOUS
<1>2. h \in Line /\ IsHeader(h) /\ HeaderName(h) = n /\ n # Default /\ ~h.cont
  BY <1>1, HeaderLine
<1>3. PICK body : body = [i \in DOMAIN s |-> BodyLine(s, i)]  OBVIOUS
<1>4. ConfOf(s, n) = <<h>> \o body  BY <1>1, <1>3 DEF ConfOf, BodyLine
<1>5. PICK one \in Seq(Line) : one = <<h>> /\ Done(one) /\ LogicalConf(one) = <<h>>
  <2>1. <<h>> \in Seq(Line) /\ << >> \in Seq(Line)  BY <1>2, EmptySeq
  <2>2. Last(<<h>>) = h  BY DEF Last
  <2>3. LogicalConf(<<h>>) = JoinConfF[<< << >>, h>>]  BY FoldOne DEF LogicalConf
  <2>4. JoinConfF[<< << >>, h>>] = JoinConf(<< >>, h)  BY <1>2, <2>1, Steps
  <2>5. JoinConf(<< >>, h) = <<h>>  BY DEF JoinConf
  <2> QED  BY <1>2, <2>1, <2>2, <2>3, <2>4, <2>5 DEF Done
<1>6. PICK start \in Known :
        start = [in |-> {n}, search |-> [Nothing.search EXCEPT ![n] = Blank]]
  BY BlankType DEF Known, Nothing
<1>7. LeftFold(ReadF, Nothing, one) = start
  <2>1. LeftFold(ReadF, Nothing, one) = ReadF[<<Nothing, h>>]  BY <1>5, FoldOne
  <2>2. ReadF[<<Nothing, h>>] = ReadLine(Nothing, h)  BY <1>2, NothingType, Steps
  <2> QED  BY <1>2, <1>6, <2>1, <2>2 DEF ReadLine
<1>8. PICK ws \in Seq(Words) : ws = Said(s)  BY SimpleText
<1>9. PICK line : line = [words |-> ws, cont |-> FALSE]  OBVIOUS
<1>10. ParseConf(<<h>> \o body)[n] = line
  <2>1. CASE s = << >>
    <3>1. DOMAIN s = {}  BY <2>1
    <3>2. body = << >>  BY <1>3, <3>1
    <3>3. one \o body = one  BY <3>2, ConcatEmptySeq
    <3>4. ParseConf(one) = start.search  BY <1>5, <1>7, ParseIs
    <3>5. start.search[n] = Blank  BY <1>6 DEF Nothing
    <3>6. ws = << >>  BY <1>8, <2>1, FoldEmpty DEF Said
    <3> QED  BY <1>5, <1>9, <3>3, <3>4, <3>5, <3>6 DEF Blank
  <2>2. CASE s # << >>
    <3>1. PICK m : m = [words |-> <<SearchKey>> \o ws, cont |-> FALSE]  OBVIOUS
    <3>2. body \in Seq(Line) /\ LogicalConf(body) = <<m>>
      BY <1>3, <1>8, <2>2, <3>1, BodyJoins
    <3>3. /\ SearchKey \in Words /\ SearchKey \notin Headers
      BY WordsAssumption DEF Words
    <3>4. PICK k \in Seq(Words) : k = <<SearchKey>> /\ Len(k) = 1 /\ k[1] = SearchKey
      <4>1. <<SearchKey>> \in Seq(Words)  BY <3>3
      <4> QED  BY <4>1
    <3>5. /\ k \o ws \in Seq(Words) /\ k \o ws # << >>
          /\ (k \o ws)[1] = SearchKey /\ Tail(k \o ws) = ws
      <4>1. /\ k \o ws \in Seq(Words) /\ Len(k \o ws) = 1 + Len(ws)
            /\ \A i \in 1..1+Len(ws) : (k \o ws)[i] = IF i <= 1 THEN k[i] ELSE ws[i - 1]
        BY <3>4, ConcatProperties
      <4>2. Len(ws) \in Nat  BY LenProperties
      <4>3. k \o ws # << >>  BY <4>1, <4>2, EmptySeq
      <4>4. (k \o ws)[1] = SearchKey  BY <3>4, <4>1, <4>2
      <4>5. PICK x : x = k \o ws  OBVIOUS
      <4>6. /\ Tail(x) \in Seq(Words) /\ Len(Tail(x)) = Len(x) - 1
            /\ \A i \in 1..Len(Tail(x)) : Tail(x)[i] = x[i + 1]
        BY <4>1, <4>3, <4>5, HeadTailProperties
      <4>7. Len(Tail(x)) = Len(ws)  BY <4>1, <4>2, <4>5, <4>6
      <4>8. ASSUME NEW i \in 1..Len(ws)  PROVE Tail(x)[i] = ws[i]
        <5>1. PICK j \in 1..1+Len(ws) : j = i + 1 /\ ~(j <= 1) /\ j - 1 = i  BY <4>2
        <5>2. x[j] = ws[i]  BY <4>1, <4>5, <5>1
        <5> QED  BY <4>6, <4>7, <5>1, <5>2
      <4>9. Tail(x) = ws  BY <4>6, <4>7, <4>8, SeqEqual
      <4> QED  BY <4>1, <4>3, <4>4, <4>5, <4>9
    <3>6. m \in Line  BY <3>1, <3>4, <3>5 DEF Line
    <3>7. ~IsHeader(m) /\ m.words # << >> /\ m.words[1] = SearchKey
      BY <3>1, <3>3, <3>4, <3>5 DEF IsHeader
    <3>8. [m EXCEPT !.words = Tail(@)] = line
      <4>1. Tail(m.words) = ws  BY <3>1, <3>4, <3>5
      <4>2. PICK v : m = [words |-> v, cont |-> FALSE]  BY <3>1
      <4>3. [m EXCEPT !.words = ws] = [words |-> ws, cont |-> FALSE]
        <5>1. [[words |-> v, cont |-> FALSE] EXCEPT !.words = ws]
                = [words |-> ws, cont |-> FALSE]
          BY SetWords
        <5> QED  BY <4>2, <5>1
      <4> QED  BY <1>9, <4>1, <4>3
    <3>9. ReadLine(start, m).search[n] = line
      <4>1. ReadLine(start, m) = [start EXCEPT !.search = [x \in Names |->
               IF x \in start.in THEN [m EXCEPT !.words = Tail(@)] ELSE start.search[x]]]
        BY <3>7 DEF ReadLine
      <4>2. n \in start.in  BY <1>6
      <4>3. ReadLine(start, m).search = [x \in Names |->
               IF x \in start.in THEN [m EXCEPT !.words = Tail(@)] ELSE start.search[x]]
        BY <4>1 DEF Known
      <4> QED  BY <3>8, <4>2, <4>3
    <3>10. LogicalConf(one \o body) = one \o <<m>>
      <4>1. PICK t : t = one \o body  OBVIOUS
      <4>2. Split(t, one, body)  BY <1>5, <3>2, <4>1 DEF Split
      <4>3. ReadApart(t, one, body)  BY <4>2, LogicalSplit
      <4> QED  BY <1>5, <3>2, <4>1, <4>3 DEF ReadApart
    <3>11. <<m>> \in Seq(Line)  BY <3>6
    <3>12. LeftFold(ReadF, Nothing, one \o <<m>>) = ReadLine(start, m)
      <4>1. PICK two \in Seq(Line) : two = <<m>>  BY <3>11
      <4>2. LeftFold(ReadF, Nothing, one \o two)
              = LeftFold(ReadF, LeftFold(ReadF, Nothing, one), two)
        BY FoldConcat
      <4>3. LeftFold(ReadF, start, <<m>>) = ReadF[<<start, m>>]  BY FoldOne
      <4>4. ReadF[<<start, m>>] = ReadLine(start, m)  BY <3>6, Steps
      <4> QED  BY <1>7, <4>1, <4>2, <4>3, <4>4
    <3>13. one \o body \in Seq(Line)  BY <3>2, ConcatProperties
    <3>14. ParseConf(one \o body) = ReadLine(start, m).search
      BY <3>10, <3>12, <3>13, ParseIs
    <3> QED  BY <1>5, <3>9, <3>14
  <2> QED  BY <2>1, <2>2
<1>11. Canonical(<<line>>) = ws  BY <1>8, <1>9, SimpleText, OneLine
<1>12. ConfHash(ConfOf(s, n))[n] = QueryHash(<<line>>)  BY <1>4, <1>10 DEF ConfHash
<1> QED  BY <1>8, <1>11, <1>12 DEF QueryHash, Digest

\* A search without comments and continued lines has one hash, whether it is
\* read from a Cloud export or from the stanza Splunk writes of it:
\* _clean_search and parse_savedsearches_conf bring it to the same words.
THEOREM HashIsIndependent == Spec => []HashIdentity
<1>1. HashInv => HashIdentity
  <2> SUFFICES ASSUME HashInv, IsCloud(file), NEW s, s = CloudSearch(file),
                      \A i \in DOMAIN s : ~s[i].cont /\ ~IsComment(s[i]),
                      NEW n \in Names
               PROVE  ConfHash(ConfOf(s, n))[n] = hash[n]
    BY DEF HashIdentity
  <2>1. s \in Seq(Line)  BY Kinds DEF HashInv, CloudSearch
  <2>2. s \in Seq(Simple)
    <3>1. \A i \in 1..Len(s) : s[i] \in Line  BY <2>1, ElementOfSeq
    <3>2. Len(s) \in Nat /\ DOMAIN s = 1..Len(s) /\ s = [i \in 1..Len(s) |-> s[i]]
      BY <2>1, LenProperties
    <3>3. \A i \in 1..Len(s) : s[i] \in Simple  BY <3>1, <3>2 DEF Simple
    <3> QED  BY <3>2, <3>3
  <2>3. CloudHash(file) = Digest(Said(s))  BY <2>2, CloudDigest DEF CloudHash
  <2>4. Digest(Said(s)) # NoDoc \/ Digest(Said(s)) = NoDigest
    <3>1. Said(s) \in Seq(Words)  BY <2>2, SimpleText
    <3>2. Said(s) \in Seq(Words \cup {Backslash})  BY <3>1, SeqMonotonic
    <3> QED  BY <3>2, LinesAssumption DEF Digest
  <2>5. hash[n] = Digest(Said(s))
    <3>1. ~IsConf(file)  BY DEF IsConf, IsCloud
    <3> QED  BY <2>3, <2>4, <3>1 DEF HashInv, Hashes
  <2> QED  BY <2>2, <2>5, StanzaDigest
<1> QED  BY <1>1, HashHolds, PTL

(***************************************************************************)
(* Documents.                                                              *)
(***************************************************************************)
FirstGood(s) == {i \in 1..Len(s) : s[i] # Garbage}

\* Which document is hashed: the first good one for Elastic, else the first.
LEMMA RuleAtIs ==
  ASSUME NEW f, f.kind \in DocKinds
  PROVE  /\ f.kind = "elastic" =>
              RuleAt(f) = IF FirstGood(f.docs) # {} THEN Min(FirstGood(f.docs)) ELSE 0
         /\ f.kind # "elastic" =>
              RuleAt(f) = IF \/ f.docs = << >> \/ Garbage \in ToSet(f.docs)
                             \/ f.kind = "kql-sentinel" /\ f.array
                          THEN 0 ELSE 1
<1>1. ASSUME f.kind = "elastic"
      PROVE  RuleAt(f) = IF FirstGood(f.docs) # {} THEN Min(FirstGood(f.docs)) ELSE 0
  <2>1. RuleAt(f) = SelectInSeq(f.docs, LAMBDA d : d # Garbage)
    BY <1>1, Zenon DEF RuleAt
  <2> QED  BY <2>1 DEF SelectInSeq, FirstGood
<1>2. ASSUME f.kind # "elastic"
      PROVE  RuleAt(f) = IF \/ f.docs = << >> \/ Garbage \in ToSet(f.docs)
                            \/ f.kind = "kql-sentinel" /\ f.array
                         THEN 0 ELSE 1
  BY <1>2, Zenon DEF RuleAt
<1> QED  BY <1>1, <1>2

\* The document that is hashed is one.
LEMMA RuleAtIn ==
  ASSUME NEW f \in DocFile, RuleAt(f) # 0
  PROVE  RuleAt(f) \in DOMAIN f.docs /\ f.docs[RuleAt(f)] \in Body
<1>1. PICK s \in Seq(Body \cup {Garbage}) : s = f.docs  BY DEF DocFile
<1>2. /\ Len(s) \in Nat /\ DOMAIN s = 1..Len(s)
      /\ \A i \in 1..Len(s) : s[i] \in Body \cup {Garbage}
  BY LenProperties, ElementOfSeq
<1>3. f.kind \in DocKinds  BY DEF DocFile
<1>4. CASE f.kind = "elastic"
  <2>1. RuleAt(f) = Min(FirstGood(s)) /\ FirstGood(s) # {}
    BY <1>1, <1>3, <1>4, RuleAtIs
  <2>2. FirstGood(s) \subseteq Nat  BY DEF FirstGood
  <2>3. \E m \in FirstGood(s) : \A t \in FirstGood(s) : m <= t
    BY <2>1, <2>2, Least
  <2>4. Min(FirstGood(s)) \in FirstGood(s)  BY <2>3 DEF Min
  <2> QED  BY <1>1, <1>2, <2>1, <2>4 DEF FirstGood
<1>5. CASE f.kind # "elastic"
  <2>1. RuleAt(f) = 1 /\ s # << >> /\ Garbage \notin ToSet(s)
    BY <1>1, <1>3, <1>5, RuleAtIs
  <2>2. 1 \in 1..Len(s)  BY <1>2, <2>1, EmptySeq
  <2>3. s[1] # Garbage  BY <1>2, <2>1, <2>2 DEF ToSet
  <2> QED  BY <1>1, <1>2, <2>1, <2>2, <2>3
<1> QED  BY <1>4, <1>5

\* What parses where decides which document that is.
SamePlaces(f, g) ==
  /\ f.kind = g.kind /\ DOMAIN f.docs = DOMAIN g.docs
  /\ \A d \in DOMAIN f.docs : f.docs[d] = Garbage <=> g.docs[d] = Garbage
  /\ f.kind = "kql-sentinel" => f.array = g.array

\* It is at the same place if good and bad documents are.
LEMMA RuleAtSame ==
  ASSUME NEW f \in DocFile, NEW g \in DocFile, SamePlaces(f, g)
  PROVE  RuleAt(f) = RuleAt(g)
<1>1. PICK s \in Seq(Body \cup {Garbage}) : s = f.docs  BY DEF DocFile
<1>2. PICK t \in Seq(Body \cup {Garbage}) : t = g.docs  BY DEF DocFile
<1>3. /\ Len(s) \in Nat /\ DOMAIN s = 1..Len(s)
      /\ Len(t) \in Nat /\ DOMAIN t = 1..Len(t)
  BY LenProperties
<1>4. Len(t) = Len(s)
  <2>1. 1..Len(s) = 1..Len(t)  BY <1>1, <1>2, <1>3 DEF SamePlaces
  <2>2. PICK m \in Nat, n \in Nat : m = Len(s) /\ n = Len(t)  BY <1>3
  <2>3. ~(m < n)
    <3>1. m < n => n \in 1..n /\ n \notin 1..m  BY <2>2
    <3> QED  BY <2>1, <2>2, <3>1
  <2>4. ~(n < m)
    <3>1. n < m => m \in 1..m /\ m \notin 1..n  BY <2>2
    <3> QED  BY <2>1, <2>2, <3>1
  <2> QED  BY <2>2, <2>3, <2>4
<1>5. \A i \in 1..Len(s) : s[i] = Garbage <=> t[i] = Garbage
  BY <1>1, <1>2, <1>3 DEF SamePlaces
<1>6. f.kind \in DocKinds /\ g.kind = f.kind  BY DEF DocFile, SamePlaces
<1>7. CASE f.kind = "elastic"
  <2>1. FirstGood(s) = FirstGood(t)  BY <1>4, <1>5 DEF FirstGood
  <2> QED  BY <1>1, <1>2, <1>6, <1>7, <2>1, RuleAtIs
<1>8. CASE f.kind # "elastic"
  <2>1. s = << >> <=> t = << >>  BY <1>4, EmptySeq
  <2>2. Garbage \in ToSet(s) <=> Garbage \in ToSet(t)
    BY <1>3, <1>4, <1>5 DEF ToSet
  <2>3. f.kind = "kql-sentinel" => f.array = g.array  BY DEF SamePlaces
  <2>4. (f.kind = "kql-sentinel" /\ f.array) <=> (g.kind = "kql-sentinel" /\ g.array)
    BY <1>6, <2>3
  <2>5. RuleAt(f) = IF \/ s = << >> \/ Garbage \in ToSet(s)
                       \/ f.kind = "kql-sentinel" /\ f.array THEN 0 ELSE 1
    BY <1>1, <1>6, <1>8, RuleAtIs
  <2>6. RuleAt(g) = IF \/ t = << >> \/ Garbage \in ToSet(t)
                       \/ g.kind = "kql-sentinel" /\ g.array THEN 0 ELSE 1
    BY <1>2, <1>6, <1>8, RuleAtIs
  <2> QED  BY <2>1, <2>2, <2>4, <2>5, <2>6
<1> QED  BY <1>7, <1>8

\* Stamps are stripped where there are any, queries never.
LEMMA StampIsVolatile ==
  ASSUME NEW kind \in DocKinds
  PROVE  /\ kind # "sigma" => "stamp" \in Volatile(kind)
         /\ "query" \notin Volatile(kind)
<1>1. kind = "sigma" => Volatile(kind) = {}  BY Zenon DEF Volatile
<1>2. kind = "elastic" => Volatile(kind) = {"id", "stamp"}  BY DEF Volatile
<1>3. kind = "kql-sentinel" => Volatile(kind) = {"id", "name", "stamp"}
  BY DEF Volatile
<1>4. kind = "kql-m365d" => Volatile(kind) = {"id", "enabled", "stamp"}
  BY DEF Volatile
<1> QED  BY <1>1, <1>2, <1>3, <1>4 DEF DocKinds

\* Documents that differ in volatile fields and wrappers hash alike.
LEMMA SameDocsSameHash ==
  ASSUME NEW f \in DocFile, NEW g \in DocFile, WellFormed(f), WellFormed(g),
         SameDocs(f, g), Documented(f), Documented(g)
  PROVE  DocHash(f) = DocHash(g)
<1>1. f.kind = g.kind /\ f.kind \in DocKinds  BY DEF SameDocs, DocFile
<1>2. SamePlaces(f, g)
  <2>1. ASSUME NEW d \in DOMAIN f.docs
        PROVE  f.docs[d] = Garbage <=> g.docs[d] = Garbage
    BY DEF SameDocs
  <2>2. ASSUME f.kind = "kql-sentinel"  PROVE f.array = g.array
    <3>1. ~f.array /\ ~g.array /\ f.array \in BOOLEAN /\ g.array \in BOOLEAN
      BY <1>1, <2>2 DEF Documented, DocFile
    <3> QED  BY <3>1
  <2> QED  BY <1>1, <2>1, <2>2 DEF SamePlaces, SameDocs
<1>3. RuleAt(f) = RuleAt(g)  BY <1>2, RuleAtSame
<1>4. CASE RuleAt(f) = 0  BY <1>3, <1>4 DEF DocHash
<1>5. CASE RuleAt(f) # 0
  <2>1. PICK r : r = RuleAt(f) /\ r = RuleAt(g) /\ r # 0  BY <1>3, <1>5
  <2>2. /\ r \in DOMAIN f.docs /\ f.docs[r] \in Body /\ g.docs[r] \in Body
    BY <2>1, RuleAtIn
  <2>3. /\ ~(f.wrapped /\ ~Unwraps(f)) /\ ~(g.wrapped /\ ~Unwraps(g))
    BY <1>1 DEF WellFormed, Documented, Unwraps
  <2>4. DocHash(f) = Stripped(f, f.docs[r]) /\ DocHash(g) = Stripped(g, g.docs[r])
    BY <2>1, <2>3 DEF DocHash
  <2>5. PICK b \in Body, c \in Body : b = f.docs[r] /\ c = g.docs[r]  BY <2>2
  <2>6. ASSUME NEW x \in Fields \ Volatile(f.kind)  PROVE b[x] = c[x]
    <3>1. CASE b = c  BY <3>1
    <3>2. CASE b # c
      <4>1. f.kind # "sigma" /\ c = [b EXCEPT !.stamp = c.stamp]
        BY <2>2, <2>5, <3>2 DEF SameDocs
      <4>2. x # "stamp"  BY <1>1, <2>6, <4>1, StampIsVolatile
      <4> QED  BY <2>6, <4>1, <4>2 DEF Body
    <3> QED  BY <3>1, <3>2
  <2>7. Restrict(b, Fields \ Volatile(f.kind)) = Restrict(c, Fields \ Volatile(f.kind))
    BY <2>6 DEF Restrict
  <2> QED  BY <1>1, <2>4, <2>5, <2>7 DEF Stripped
<1> QED  BY <1>4, <1>5

\* In a file of documents every name has the hash of the one document.
LEMMA DocHashes ==
  ASSUME NEW f, IsDoc(f)
  PROVE  Hashes(f) = [n \in Names |-> IF DocHash(f) = NoDoc THEN NoDigest
                                      ELSE DocHash(f)]
<1>1. ~IsConf(f) /\ ~IsCloud(f)  BY DEF IsConf, IsCloud, IsDoc, DocKinds
<1> QED  BY <1>1 DEF Hashes

\* To export an unchanged rule again moves no hash: the server's stamps are
\* struck out, the documented wrappers are taken off (_load_rule_dict of
\* Elastic and KQL), and every Cloud shape gives the same search.
THEOREM ReexportsMoveNothing == Spec => ReexportKeepsHash
<1>1. ASSUME HashInv, Next, IsDoc(file), SameDocs(file, file'),
             Documented(file), Documented(file')
      PROVE  hash' = hash
  <2>1. FileOK(file) /\ FileOK(file') /\ hash' = Hashes(file') /\ hash = Hashes(file)
    BY <1>1, StepType DEF HashInv
  <2>2. IsDoc(file')  BY <1>1 DEF IsDoc, SameDocs
  <2>3. PICK f, g : f = file /\ g = file'  OBVIOUS
  <2>4. /\ f \in DocFile /\ WellFormed(f) /\ g \in DocFile /\ WellFormed(g)
    BY <1>1, <2>1, <2>2, <2>3, Kinds
  <2>5. SameDocs(f, g) /\ Documented(f) /\ Documented(g)  BY <1>1, <2>3
  <2>6. DocHash(f) = DocHash(g)  BY <2>4, <2>5, SameDocsSameHash
  <2>7. Hashes(f) = Hashes(g)  BY <1>1, <2>2, <2>3, <2>6, DocHashes
  <2> QED  BY <2>1, <2>3, <2>7
<1>2. ASSUME HashInv, Next, IsCloud(file), file.search # << >>,
             file' = [file EXCEPT !.shape = file'.shape]
      PROVE  hash' = hash
  <2>1. file \in CloudFile  BY <1>2, Kinds DEF HashInv
  <2>2. file'.search = file.search /\ file'.kind = file.kind
    <3>1. PICK x : x = file'.shape  OBVIOUS
    <3>2. PICK g : g = [file EXCEPT !.shape = x]  OBVIOUS
    <3>3. g.search = file.search /\ g.kind = file.kind  BY <2>1, <3>2 DEF CloudFile
    <3>4. file' = g  BY <1>2, <3>1, <3>2
    <3> QED  BY <3>3, <3>4
  <2>3. CloudHash(file') = CloudHash(file)  BY <1>2, <2>2 DEF CloudHash, CloudSearch
  <2>4. Hashes(file') = Hashes(file)
    BY <1>2, <2>2, <2>3 DEF Hashes, IsCloud, IsConf
  <2> QED  BY <1>2, <2>4, StepType DEF HashInv
<1>3. HashInv /\ [Next]_vars =>
        [\/ IsDoc(file) /\ SameDocs(file, file')
              /\ Documented(file) /\ Documented(file')
         \/ /\ IsCloud(file) /\ file.search # << >>
            /\ file' = [file EXCEPT !.shape = file'.shape]
         => hash' = hash]_file
  BY <1>1, <1>2 DEF vars
<1> QED  BY <1>3, HashHolds, PTL DEF Spec, ReexportKeepsHash

\* The document a new record is named after is the one that is hashed.
LEMMA NamedIsHashed ==
  ASSUME NEW f \in DocFile, RuleAt(f) # 0
  PROVE  NamedAt(f) = RuleAt(f)
<1>1. f.kind \in DocKinds  BY DEF DocFile
<1>2. CASE f.kind = "elastic"
  <2>1. NamedAt(f) = SelectInSeq(f.docs, LAMBDA d : d # Garbage)
    BY <1>2, Zenon DEF NamedAt
  <2>2. NamedAt(f) = IF FirstGood(f.docs) # {} THEN Min(FirstGood(f.docs)) ELSE 0
    BY <2>1 DEF SelectInSeq, FirstGood
  <2> QED  BY <1>1, <1>2, <2>2, RuleAtIs
<1>3. CASE f.kind = "sigma"  BY <1>3, Zenon DEF NamedAt
<1>4. CASE f.kind \in {"kql-sentinel", "kql-m365d"}
  <2>1. NamedAt(f) = IF f.docs = << >> \/ Garbage \in ToSet(f.docs) THEN 0 ELSE 1
    <3>1. f.kind = "kql-sentinel" \/ f.kind = "kql-m365d"  BY <1>4
    <3>2. f.kind # "elastic" /\ f.kind # "sigma"  BY <3>1
    <3> QED  BY <1>4, <3>2, Zenon DEF NamedAt
  <2> QED  BY <1>1, <1>4, <2>1, RuleAtIs
<1> QED  BY <1>1, <1>2, <1>3, <1>4 DEF DocKinds

\* A query that changes shows in the digest; a document that is not hashed
\* does not.
OtherQuery(f, g, d) ==
  /\ f \in DocFile /\ g \in DocFile /\ d \in DOMAIN f.docs
  /\ f.docs[d] # Garbage /\ g.docs[d] # Garbage /\ g.docs # f.docs
  /\ \E v : g = [f EXCEPT !.docs[d].query = v]

\* Another query moves the hash if and only if it is the hashed document's.
LEMMA QueryShows ==
  ASSUME NEW f, NEW g, NEW d, OtherQuery(f, g, d), RuleAt(f) # 0
  PROVE  (DocHash(g) # DocHash(f)) <=> d = RuleAt(f)
<1>17. /\ f \in DocFile /\ g \in DocFile /\ d \in DOMAIN f.docs
       /\ f.docs[d] # Garbage /\ g.docs[d] # Garbage /\ g.docs # f.docs
  BY DEF OtherQuery
<1>18. PICK v : g = [f EXCEPT !.docs[d].query = v]  BY DEF OtherQuery
<1> USE <1>17, <1>18
<1>1. /\ g.kind = f.kind /\ g.array = f.array /\ g.wrapped = f.wrapped
      /\ g.beside = f.beside
      /\ g.docs = [f.docs EXCEPT ![d] = [f.docs[d] EXCEPT !.query = v]]
  BY DEF DocFile
<1>2. PICK s \in Seq(Body \cup {Garbage}) : s = f.docs  BY DEF DocFile
<1>3. /\ DOMAIN s = 1..Len(s) /\ \A i \in 1..Len(s) : s[i] \in Body \cup {Garbage}
  BY LenProperties, ElementOfSeq
<1>4. PICK b \in Body : b = s[d]  BY <1>2, <1>3
<1>5. PICK c : c = [b EXCEPT !.query = v]  OBVIOUS
<1>6. PICK t : t = g.docs  OBVIOUS
<1>7. t = [s EXCEPT ![d] = c]  BY <1>1, <1>2, <1>4, <1>5, <1>6
<1>8. DOMAIN t = DOMAIN s /\ t[d] = c /\ \A i \in DOMAIN s : i # d => t[i] = s[i]
  BY <1>2, <1>7
<1>9. SamePlaces(f, g)
  <2>1. \A i \in DOMAIN f.docs : f.docs[i] = Garbage <=> g.docs[i] = Garbage
    BY <1>2, <1>6, <1>8
  <2> QED  BY <1>1, <1>2, <1>6, <1>8, <2>1 DEF SamePlaces
<1>10. PICK r : r = RuleAt(f) /\ r = RuleAt(g) /\ r \in DOMAIN s /\ r # 0
  BY <1>2, <1>9, RuleAtSame, RuleAtIn
<1>11. c["query"] = v /\ DOMAIN b = Fields /\ "query" \in Fields
  BY <1>4, <1>5 DEF Body, Fields
<1>12. b["query"] # v
  <2>1. ASSUME b["query"] = v  PROVE FALSE
    <3>1. c = b  BY <1>4, <1>5, <1>11, <2>1 DEF Body
    <3>2. t = s
      <4>1. s = [i \in 1..Len(s) |-> s[i]]  BY LenProperties
      <4>2. \A i \in DOMAIN s : t[i] = s[i]  BY <1>4, <1>8, <3>1
      <4>3. t = [i \in DOMAIN s |-> t[i]]  BY <1>7
      <4> QED  BY <1>3, <4>1, <4>2, <4>3
    <3> QED  BY <1>2, <1>6, <3>2
  <2> QED  BY <2>1
<1>13. PICK x, y : x = s[r] /\ y = t[r]  OBVIOUS
<1>14. /\ DocHash(f) = IF f.wrapped /\ ~Unwraps(f) THEN [rule |-> x, beside |-> f.beside]
                       ELSE Stripped(f, x)
       /\ DocHash(g) = IF f.wrapped /\ ~Unwraps(f) THEN [rule |-> y, beside |-> f.beside]
                       ELSE Stripped(f, y)
  BY <1>1, <1>2, <1>6, <1>10, <1>13 DEF DocHash, Unwraps, Stripped
<1>15. CASE d # r  BY <1>2, <1>8, <1>10, <1>13, <1>14, <1>15
<1>16. CASE d = r
  <2>1. x = b /\ y = c  BY <1>4, <1>8, <1>13, <1>16
  <2>2. x["query"] # y["query"]  BY <1>11, <1>12, <2>1
  <2>3. [rule |-> x, beside |-> f.beside] # [rule |-> y, beside |-> f.beside]
    <3>1. x # y  BY <2>2
    <3> QED  BY <3>1
  <2>4. Stripped(f, x) # Stripped(f, y)
    <3>1. f.kind \in DocKinds  BY DEF DocFile
    <3>2. "query" \in Fields \ Volatile(f.kind)  BY <1>11, <3>1, StampIsVolatile
    <3>3. \A z : Stripped(f, z)["query"] = z["query"]
      BY <3>2 DEF Stripped, Restrict
    <3> QED  BY <2>2, <3>3
  <2> QED  BY <1>10, <1>14, <1>16, <2>3, <2>4
<1> QED  BY <1>15, <1>16, <1>10

\* The query that a new record is about is the query it is pinned to: the
\* document that names the record (_read_rule_meta and its kin in `ddr new`)
\* is the one _load_rule_dict takes, and its query is never struck out.
THEOREM TheNamedIsPinned == Spec => TheNamedRuleIsPinned
<1>1. ASSUME HashInv, Next, IsDoc(file), NEW d \in DOMAIN file.docs,
             Garbage \notin {file.docs[d], file'.docs[d]},
             file'.docs # file.docs,
             file' = [file EXCEPT !.docs[d].query = file'.docs[d].query],
             \A n \in Names : hash[n] # NoDigest, NEW n \in Names
      PROVE  (hash'[n] # hash[n]) <=> d = NamedAt(file)
  <2>1. FileOK(file) /\ FileOK(file') /\ hash' = Hashes(file') /\ hash = Hashes(file)
    BY <1>1, StepType DEF HashInv
  <2>2. IsDoc(file')  BY <1>1, StepType DEF HashInv
  <2>3. PICK f, g, v : f = file /\ g = file' /\ v = file'.docs[d].query  OBVIOUS
  <2>4. f \in DocFile /\ g \in DocFile  BY <1>1, <2>1, <2>2, <2>3, Kinds
  <2>5. /\ d \in DOMAIN f.docs /\ f.docs[d] # Garbage /\ g.docs[d] # Garbage
        /\ g.docs # f.docs /\ g = [f EXCEPT !.docs[d].query = v]
    BY <1>1, <2>3
  <2>6. PICK h, k : h = DocHash(f) /\ k = DocHash(g)  OBVIOUS
  <2>7. /\ hash[n] = IF h = NoDoc THEN NoDigest ELSE h
        /\ hash'[n] = IF k = NoDoc THEN NoDigest ELSE k
    BY <1>1, <2>1, <2>2, <2>3, <2>6, DocHashes
  <2>8. h # NoDoc /\ hash[n] = h /\ h # NoDigest  BY <1>1, <2>7
  <2>9. RuleAt(f) # 0  BY <2>6, <2>8 DEF DocHash
  <2>10. (k # h) <=> d = RuleAt(f)
    <3>1. OtherQuery(f, g, d)  BY <2>4, <2>5 DEF OtherQuery
    <3>2. (DocHash(g) # DocHash(f)) <=> d = RuleAt(f)
      BY <2>9, <3>1, QueryShows
    <3> QED  BY <2>6, <3>2
  <2>11. NamedAt(f) = RuleAt(f)  BY <2>4, <2>9, NamedIsHashed
  <2> QED  BY <2>3, <2>7, <2>8, <2>10, <2>11
<1>2. HashInv /\ [Next]_vars =>
        [IsDoc(file) =>
           \A d \in DOMAIN file.docs :
             /\ Garbage \notin {file.docs[d], file'.docs[d]}
             /\ file'.docs # file.docs
             /\ file' = [file EXCEPT !.docs[d].query = file'.docs[d].query]
             /\ \A n \in Names : hash[n] # NoDigest
             => \A n \in Names : (hash'[n] # hash[n]) <=> d = NamedAt(file)]_file
  BY <1>1 DEF vars
<1> QED  BY <1>2, HashHolds, PTL DEF Spec, TheNamedRuleIsPinned

(***************************************************************************)
(* One stanza at a time: which stanza a line of a conf file counts for.    *)
(***************************************************************************)

\* Two readers in the same stanza that know the same of stanza n.
Agree(a, b, n) == a.in = b.in /\ a.search[n] = b.search[n]

\* The stanza a reader is in after a line.
LEMMA ReadIn ==
  ASSUME NEW acc \in Known, NEW l \in Line
  PROVE  /\ ~IsHeader(l) => ReadLine(acc, l).in = acc.in
         /\ IsHeader(l) => ReadLine(acc, l).in =
              IF HeaderName(l) = Default THEN {} ELSE {HeaderName(l)}
<1>1. acc = [in |-> acc.in, search |-> acc.search]  BY DEF Known
<1> QED  BY <1>1 DEF ReadLine

\* The search it knows of a stanza after a line.
LEMMA ReadSearch ==
  ASSUME NEW acc \in Known, NEW l \in Line, NEW n \in Names
  PROVE  ReadLine(acc, l).search[n] =
           IF IsHeader(l) THEN IF HeaderName(l) = n THEN Blank ELSE acc.search[n]
           ELSE IF l.words # << >> /\ l.words[1] = SearchKey /\ n \in acc.in
                THEN [l EXCEPT !.words = Tail(@)]
                ELSE acc.search[n]
<1>1. /\ acc = [in |-> acc.in, search |-> acc.search]
      /\ acc.search \in [Names -> Line]
  BY DEF Known
<1>2. Default \notin Names  BY WordsAssumption
<1>3. CASE IsHeader(l) /\ HeaderName(l) = Default
  <2>1. ReadLine(acc, l).search = acc.search  BY <1>1, <1>3 DEF ReadLine
  <2> QED  BY <1>2, <1>3, <2>1
<1>4. CASE IsHeader(l) /\ HeaderName(l) # Default
  <2>1. HeaderName(l) \in Names  BY <1>4, HeaderType
  <2>2. ReadLine(acc, l).search = [acc.search EXCEPT ![HeaderName(l)] = Blank]
    BY <1>4 DEF ReadLine
  <2> QED  BY <1>1, <1>4, <2>1, <2>2
<1>5. CASE ~IsHeader(l) /\ l.words # << >> /\ l.words[1] = SearchKey
  <2>1. ReadLine(acc, l).search = [x \in Names |->
          IF x \in acc.in THEN [l EXCEPT !.words = Tail(@)] ELSE acc.search[x]]
    BY <1>1, <1>5 DEF ReadLine
  <2> QED  BY <1>5, <2>1
<1>6. CASE ~IsHeader(l) /\ ~(l.words # << >> /\ l.words[1] = SearchKey)
  BY <1>6 DEF ReadLine
<1> QED  BY <1>3, <1>4, <1>5, <1>6

\* Readers that agree on a stanza still do after the same line,
LEMMA ReadAgree ==
  ASSUME NEW a \in Known, NEW b \in Known, NEW n \in Names, Agree(a, b, n),
         NEW l \in Line
  PROVE  Agree(ReadLine(a, l), ReadLine(b, l), n)
<1>1. ReadLine(a, l).in = ReadLine(b, l).in
  <2>1. CASE IsHeader(l)
    <3>1. PICK x : x = IF HeaderName(l) = Default THEN {} ELSE {HeaderName(l)}
      OBVIOUS
    <3>2. ReadLine(a, l).in = x  BY <2>1, <3>1, ReadIn
    <3>3. ReadLine(b, l).in = x  BY <2>1, <3>1, ReadIn
    <3> QED  BY <3>2, <3>3
  <2>2. CASE ~IsHeader(l)
    <3>1. ReadLine(a, l).in = a.in  BY <2>2, ReadIn
    <3>2. ReadLine(b, l).in = b.in  BY <2>2, ReadIn
    <3> QED  BY <3>1, <3>2 DEF Agree
  <2> QED  BY <2>1, <2>2
<1>2. a.in = b.in /\ a.search[n] = b.search[n]  BY DEF Agree
<1>3. ReadLine(a, l).search[n] = ReadLine(b, l).search[n]
  <2>1. CASE IsHeader(l)  BY <1>2, <2>1, ReadSearch
  <2>2. CASE ~IsHeader(l) /\ ~(l.words # << >> /\ l.words[1] = SearchKey /\ n \in a.in)
    <3>1. ReadLine(a, l).search[n] = a.search[n]  BY <2>2, ReadSearch
    <3>2. ReadLine(b, l).search[n] = b.search[n]  BY <1>2, <2>2, ReadSearch
    <3> QED  BY <1>2, <3>1, <3>2
  <2>3. CASE ~IsHeader(l) /\ l.words # << >> /\ l.words[1] = SearchKey /\ n \in a.in
    <3>1. ReadLine(a, l).search[n] = [l EXCEPT !.words = Tail(@)]
      BY <2>3, ReadSearch
    <3>2. ReadLine(b, l).search[n] = [l EXCEPT !.words = Tail(@)]
      BY <1>2, <2>3, ReadSearch
    <3> QED  BY <3>1, <3>2
  <2> QED  BY <2>1, <2>2, <2>3
<1> QED  BY <1>1, <1>3 DEF Agree

\* A line that is no header says nothing of the stanzas it is not in.
LEMMA NotHere ==
  ASSUME NEW a \in Known, NEW n \in Names, n \notin a.in, NEW l \in Line,
         ~IsHeader(l)
  PROVE  Agree(ReadLine(a, l), a, n)
<1>1. ReadLine(a, l).in = a.in  BY ReadIn
<1>2. ReadLine(a, l).search[n] = a.search[n]  BY ReadSearch
<1> QED  BY <1>1, <1>2 DEF Agree

\* ... and after the same lines.
LEMMA FoldAgree ==
  ASSUME NEW a \in Known, NEW b \in Known, NEW n \in Names, Agree(a, b, n),
         NEW q \in Seq(Line)
  PROVE  Agree(LeftFold(ReadF, a, q), LeftFold(ReadF, b, q), n)
<1> DEFINE T == {s \in Seq(Line) :
                   Agree(LeftFold(ReadF, a, s), LeftFold(ReadF, b, s), n)}
<1>1. << >> \in T
  <2>1. << >> \in Seq(Line)  BY EmptySeq
  <2> QED  BY <2>1, FoldEmpty
<1>2. ASSUME NEW s \in Seq(Line), NEW l \in Line, s \in T
      PROVE  Append(s, l) \in T
  <2>1. PICK c \in Known, d \in Known :
          c = LeftFold(ReadF, a, s) /\ d = LeftFold(ReadF, b, s)
    BY ReadLineFold
  <2>2. /\ LeftFold(ReadF, a, Append(s, l)) = ReadF[<<c, l>>]
        /\ LeftFold(ReadF, b, Append(s, l)) = ReadF[<<d, l>>]
    BY <2>1, FoldAppend
  <2>3. ReadF[<<c, l>>] = ReadLine(c, l) /\ ReadF[<<d, l>>] = ReadLine(d, l)
    BY Steps
  <2>4. Agree(c, d, n)  BY <1>2, <2>1
  <2>5. Agree(ReadLine(c, l), ReadLine(d, l), n)  BY <2>4, ReadAgree
  <2>6. Append(s, l) \in Seq(Line)  BY AppendProperties
  <2> QED  BY <2>2, <2>3, <2>5, <2>6
<1> HIDE DEF T
<1>3. Seq(Line) \subseteq T  BY <1>1, <1>2, ByAppending
<1>4. q \in T  BY <1>3
<1> QED  BY <1>4 DEF T

\* The last header of p is that of n.
Under(p, n) ==
  \E j \in 1..Len(p) :
    /\ IsHeader(p[j]) /\ HeaderName(p[j]) = n
    /\ \A k \in 1..Len(p) : k > j => ~IsHeader(p[k])

\* The header above the next line.
LEMMA UnderAppend ==
  ASSUME NEW p \in Seq(Line), NEW x \in Line
  PROVE  /\ IsHeader(x) => Under(Append(p, x), HeaderName(x))
         /\ ~IsHeader(x) => \A n : Under(p, n) => Under(Append(p, x), n)
<1>1. PICK m \in Nat : m = Len(p)  BY LenProperties
<1>2. PICK a : a = Append(p, x)  OBVIOUS
<1>3. /\ Len(a) = m + 1 /\ a[m + 1] = x /\ \A j \in 1..m : a[j] = p[j]
  BY <1>1, <1>2, AppendProperties
<1>4. ASSUME IsHeader(x)  PROVE Under(a, HeaderName(x))
  <2>1. PICK j \in 1..Len(a) : j = m + 1 /\ a[j] = x  BY <1>3
  <2>2. \A k \in 1..Len(a) : ~(k > j)  BY <1>3, <2>1
  <2> QED  BY <1>4, <2>1, <2>2 DEF Under
<1>5. ASSUME ~IsHeader(x), NEW n, Under(p, n)  PROVE Under(a, n)
  <2>1. PICK j \in 1..m :
          /\ IsHeader(p[j]) /\ HeaderName(p[j]) = n
          /\ \A k \in 1..m : k > j => ~IsHeader(p[k])
    BY <1>1, <1>5 DEF Under
  <2>2. IsHeader(a[j]) /\ HeaderName(a[j]) = n /\ j \in 1..Len(a)
    BY <1>3, <2>1
  <2>3. ASSUME NEW k \in 1..Len(a), k > j  PROVE ~IsHeader(a[k])
    <3>1. CASE k = m + 1  BY <1>3, <1>5, <3>1
    <3>2. CASE k # m + 1
      <4>1. k \in 1..m  BY <1>3, <3>2
      <4> QED  BY <1>3, <2>1, <2>3, <4>1
    <3> QED  BY <3>1, <3>2
  <2> QED  BY <2>2, <2>3 DEF Under
<1> QED  BY <1>2, <1>4, <1>5

Begins(l) == l.words # << >> /\ l.words[1] \in Headers

\* Lines that begin no stanza make no header when joined.
LEMMA GlueBegins ==
  ASSUME NEW k \in Line, NEW l \in Line, ~Begins(k), ~Begins(l)
  PROVE  ~Begins(Glue(k, l)) /\ ~IsHeader(Glue(k, l))
<1>1. PICK a \in Seq(Words), b \in Seq(Words) : a = k.words /\ b = l.words
  BY LineType
<1>2. PICK c : c = a \o b  OBVIOUS
<1>3. Glue(k, l).words = c  BY <1>1, <1>2 DEF Glue
<1>4. ASSUME c # << >>  PROVE c[1] \notin Headers
  <2>1. CASE a = << >>
    <3>1. c = b  BY <1>2, <2>1, ConcatEmptySeq
    <3> QED  BY <1>1, <1>4, <3>1 DEF Begins
  <2>2. CASE a # << >>
    <3>1. Len(a) \in Nat /\ Len(a) # 0 /\ Len(b) \in Nat
      BY <2>2, EmptySeq, LenProperties
    <3>2. \A j \in 1..Len(a)+Len(b) : c[j] = IF j <= Len(a) THEN a[j] ELSE b[j - Len(a)]
      BY <1>2, ConcatProperties
    <3>3. 1 \in 1..Len(a)+Len(b) /\ 1 <= Len(a)  BY <3>1
    <3>4. c[1] = a[1]  BY <3>2, <3>3
    <3> QED  BY <1>1, <2>2, <3>4 DEF Begins
  <2> QED  BY <2>1, <2>2
<1> QED  BY <1>3, <1>4 DEF Begins, IsHeader

\* The reader is in the stanza of the last header, if in any, and every
\* logical line that begins like a header is one.
Follows(p) ==
  /\ \A n \in LeftFold(ReadF, Nothing, LogicalConf(p)).in : Under(p, n)
  /\ LogicalConf(p) # << >> /\ Begins(Last(LogicalConf(p)))
       => IsHeader(Last(LogicalConf(p)))

\* If headers stand alone in a text, they do in the lines before its last.
LEMMA HeadersStandBefore ==
  ASSUME NEW p \in Seq(Line), NEW x \in Line, HeadersStand(Append(p, x))
  PROVE  /\ HeadersStand(p)
         /\ Begins(x) => IsHeader(x) /\ (p # << >> => ~Last(p).cont)
<1>1. PICK m \in Nat : m = Len(p)  BY LenProperties
<1>2. PICK a : a = Append(p, x)  OBVIOUS
<1>3. /\ DOMAIN a = 1..m+1 /\ a[m + 1] = x /\ \A j \in 1..m : a[j] = p[j]
      /\ DOMAIN p = 1..m
  BY <1>1, <1>2, AppendProperties, LenProperties
<1>4. \A j \in 1..m+1 : a[j].words # << >> /\ a[j].words[1] \in Headers
        => IsHeader(a[j]) /\ (j > 1 => ~a[j - 1].cont)
  BY <1>2, <1>3 DEF HeadersStand
<1>5. HeadersStand(p)
  <2>1. ASSUME NEW j \in 1..m, p[j].words # << >>, p[j].words[1] \in Headers
        PROVE  IsHeader(p[j]) /\ (j > 1 => ~p[j - 1].cont)
    <3>1. a[j] = p[j] /\ j \in 1..m+1  BY <1>3
    <3>2. IsHeader(p[j])  BY <1>4, <2>1, <3>1
    <3>3. ASSUME j > 1  PROVE ~p[j - 1].cont
      <4>1. PICK h \in 1..m : h = j - 1  BY <3>3
      <4>2. ~a[j - 1].cont  BY <1>4, <2>1, <3>1, <3>3
      <4> QED  BY <1>3, <4>1, <4>2
    <3> QED  BY <3>2, <3>3
  <2> QED  BY <1>3, <2>1 DEF HeadersStand
<1>6. ASSUME Begins(x)  PROVE IsHeader(x) /\ (p # << >> => ~Last(p).cont)
  <2>1. PICK j \in 1..m+1 : j = m + 1 /\ j - 1 = m /\ a[j] = x  BY <1>3
  <2>2. IsHeader(x) /\ (j > 1 => ~a[j - 1].cont)
    BY <1>4, <1>6, <2>1 DEF Begins
  <2>3. ASSUME p # << >>  PROVE ~Last(p).cont
    <3>1. m # 0  BY <1>1, <2>3, EmptySeq
    <3>2. j > 1 /\ m \in 1..m  BY <2>1, <3>1
    <3>3. a[j - 1] = p[m]  BY <1>3, <2>1, <3>2
    <3> QED  BY <1>1, <2>2, <3>2, <3>3 DEF Last
  <2> QED  BY <2>2, <2>3
<1> QED  BY <1>5, <1>6

\* A reader in the stanza of the header above it is so one line later,
LEMMA FollowsOn ==
  ASSUME NEW p \in Seq(Line), NEW x \in Line, HeadersStand(Append(p, x)), Follows(p)
  PROVE  Follows(Append(p, x))
<1>1. PICK S \in Seq(Line) : S = LogicalConf(p)  BY ParseIs
<1>2. PICK acc \in Known : acc = LeftFold(ReadF, Nothing, S)
  BY <1>1, ParseIs
<1>3. LogicalConf(Append(p, x)) = JoinConf(S, x)  BY <1>1, OneMore
<1>4. /\ \A n \in acc.in : Under(p, n)
      /\ S # << >> /\ Begins(Last(S)) => IsHeader(Last(S))
  BY <1>1, <1>2 DEF Follows
<1>5. Begins(x) => IsHeader(x) /\ (p # << >> => ~Last(p).cont)
  BY HeadersStandBefore
<1>6. IsHeader(x) => Begins(x)  BY DEF IsHeader, Begins
<1>7. CASE S # << >> /\ Last(S).cont /\ ~IsComment(x)
  <2>1. PICK f \in Seq(Line), k \in Line : f = Front(S) /\ k = Last(S) /\ S = Append(f, k)
    BY <1>7, FrontLast
  <2>2. PICK g \in Line : g = Glue(k, x)  BY GlueType
  <2>3. JoinConf(S, x) = Append(f, g)  BY <1>7, <2>1, <2>2 DEF JoinConf, GlueLast
  <2>4. ~IsHeader(k) /\ ~Begins(k)  BY <1>4, <1>7, <2>1 DEF IsHeader
  <2>5. p # << >> /\ Last(p).cont  BY <1>1, <1>7, LastCont
  <2>6. ~Begins(x) /\ ~IsHeader(x)  BY <1>5, <1>6, <2>5
  <2>7. ~Begins(g) /\ ~IsHeader(g)  BY <2>2, <2>4, <2>6, GlueBegins
  <2>8. PICK b \in Known : b = LeftFold(ReadF, Nothing, f)
    BY ReadLineFold, NothingType
  <2>9. /\ LeftFold(ReadF, Nothing, Append(f, k)) = ReadF[<<b, k>>]
        /\ LeftFold(ReadF, Nothing, Append(f, g)) = ReadF[<<b, g>>]
    BY <2>8, FoldAppend
  <2>10. ReadF[<<b, k>>] = ReadLine(b, k) /\ ReadF[<<b, g>>] = ReadLine(b, g)
    BY Steps
  <2>11. ReadLine(b, k).in = b.in /\ ReadLine(b, g).in = b.in
    BY <2>4, <2>7, ReadIn
  <2>12. LeftFold(ReadF, Nothing, Append(f, g)).in = acc.in
    BY <1>2, <2>1, <2>9, <2>10, <2>11
  <2>13. \A n \in acc.in : Under(Append(p, x), n)  BY <1>4, <2>6, UnderAppend
  <2>14. Last(Append(f, g)) = g  BY OfAppend
  <2>15. LogicalConf(Append(p, x)) = Append(f, g)  BY <1>3, <2>3
  <2> QED  BY <2>7, <2>12, <2>13, <2>14, <2>15 DEF Follows
<1>8. CASE ~(S # << >> /\ Last(S).cont /\ ~IsComment(x))
  <2>1. LogicalConf(Append(p, x)) = Append(S, x)  BY <1>3, <1>8 DEF JoinConf
  <2>2. LeftFold(ReadF, Nothing, Append(S, x)) = ReadF[<<acc, x>>]
    BY <1>2, FoldAppend
  <2>3. ReadF[<<acc, x>>] = ReadLine(acc, x)  BY Steps
  <2>4. ASSUME NEW n \in ReadLine(acc, x).in  PROVE Under(Append(p, x), n)
    <3>1. CASE IsHeader(x)
      <4>1. n = HeaderName(x)
        <5>1. CASE HeaderName(x) = Default
          <6>1. ReadLine(acc, x).in = {}  BY <3>1, <5>1, ReadIn
          <6> QED  BY <2>4, <6>1
        <5>2. CASE HeaderName(x) # Default
          <6>1. ReadLine(acc, x).in = {HeaderName(x)}  BY <3>1, <5>2, ReadIn
          <6> QED  BY <2>4, <6>1
        <5> QED  BY <5>1, <5>2
      <4> QED  BY <3>1, <4>1, UnderAppend
    <3>2. CASE ~IsHeader(x)
      <4>1. ReadLine(acc, x).in = acc.in  BY <3>2, ReadIn
      <4>2. Under(p, n)  BY <1>4, <2>4, <4>1
      <4> QED  BY <3>2, <4>2, UnderAppend
    <3> QED  BY <3>1, <3>2
  <2>5. Last(Append(S, x)) = x  BY OfAppend
  <2> QED  BY <1>5, <2>1, <2>2, <2>3, <2>4, <2>5 DEF Follows
<1> QED  BY <1>7, <1>8

\* ... and hence, by induction, at every line.
LEMMA ReaderFollows ==
  ASSUME NEW p \in Seq(Line), HeadersStand(p)
  PROVE  Follows(p)
<1> DEFINE T == {s \in Seq(Line) : HeadersStand(s) => Follows(s)}
<1>1. << >> \in T
  <2>1. LogicalConf(<< >>) = << >> /\ << >> \in Seq(Line)  BY NoLines, EmptySeq
  <2>2. LeftFold(ReadF, Nothing, << >>) = Nothing  BY FoldEmpty
  <2>3. Nothing.in = {}  BY DEF Nothing
  <2>4. Follows(<< >>)  BY <2>1, <2>2, <2>3 DEF Follows
  <2> QED  BY <2>1, <2>4
<1>2. ASSUME NEW s \in Seq(Line), NEW x \in Line, s \in T
      PROVE  Append(s, x) \in T
  <2>1. ASSUME HeadersStand(Append(s, x))  PROVE Follows(Append(s, x))
    <3>1. HeadersStand(s)  BY <2>1, HeadersStandBefore
    <3>2. Follows(s)  BY <1>2, <3>1
    <3> QED  BY <2>1, <3>2, FollowsOn
  <2>2. Append(s, x) \in Seq(Line)  BY AppendProperties
  <2> QED  BY <2>1, <2>2
<1> HIDE DEF T
<1>3. Seq(Line) \subseteq T  BY <1>1, <1>2, ByAppending
<1>4. p \in T  BY <1>3
<1> QED  BY <1>4 DEF T

\* What the model calls the header above is the last one.
LEMMA AboveIs ==
  ASSUME NEW t \in Seq(Line), NEW i \in 1..Len(t), ~IsHeader(t[i]),
         NEW p, NEW q, Parts(t, i, p, q), NEW n, Under(p, n)
  PROVE  HeaderAbove(t, i) = {n}
<1>0. p \in Seq(Line) /\ Len(p) = i - 1 /\ \A j \in 1..i-1 : p[j] = t[j]
  BY DEF Parts
<1>1. PICK j \in 1..i-1 :
        /\ IsHeader(p[j]) /\ HeaderName(p[j]) = n
        /\ \A k \in 1..i-1 : k > j => ~IsHeader(p[k])
  BY <1>0 DEF Under
<1>2. PICK I : I = {k \in 1..i : IsHeader(t[k])}  OBVIOUS
<1>3. Len(t) \in Nat  BY LenProperties
<1>4. j \in I /\ j # 0 /\ j \in Nat /\ HeaderName(t[j]) = n
  BY <1>0, <1>1, <1>2, <1>3
<1>5. ASSUME NEW k \in I  PROVE j >= k
  <2>1. k \in 1..i /\ IsHeader(t[k])  BY <1>2
  <2>2. k # i  BY <2>1
  <2>3. k \in 1..i-1  BY <1>3, <2>1, <2>2
  <2>4. IsHeader(p[k])  BY <1>0, <2>1, <2>3
  <2> QED  BY <1>1, <2>3, <2>4
<1>6. I \subseteq 1..i  BY <1>2
<1>7. Max(I) = j
  <2>1. \A m \in I : (\A k \in I : m >= k) => m = j
    <3>1. ASSUME NEW m \in I, \A k \in I : m >= k  PROVE m = j
      <4>1. m >= j /\ j >= m /\ m \in 1..i /\ j \in 1..i
        BY <1>4, <1>5, <1>6, <3>1
      <4> QED  BY <1>3, <4>1
    <3> QED  BY <3>1
  <2> QED  BY <1>4, <1>5, <2>1 DEF Max
<1>8. SelectLastInSubSeq(t, 1, i, IsHeader) = j
  <2>1. SelectLastInSubSeq(t, 1, i, IsHeader) = IF I # {} THEN Max(I) ELSE 0
    BY <1>2 DEF SelectLastInSubSeq
  <2> QED  BY <1>4, <1>7, <2>1
<1> QED  BY <1>4, <1>8 DEF HeaderAbove

\* A line of another stanza.
LEMMA LineElsewhere ==
  ASSUME NEW p \in Seq(Line), Done(p), NEW q \in Seq(Line), NEW n \in Names,
         NEW P, P = LogicalConf(p), NEW Q, Q = LogicalConf(q),
         NEW acc, acc = LeftFold(ReadF, Nothing, P), n \notin acc.in,
         NEW x \in Line, ~x.cont, ~IsHeader(x)
  PROVE  ParseConf(Append(p, x) \o q)[n] = LeftFold(ReadF, acc, Q).search[n]
<1>1. P \in Seq(Line) /\ Q \in Seq(Line) /\ acc \in Known  BY ParseIs
<1>2. PICK s \in Seq(Line), w \in Seq(Line) : s = Append(p, x) /\ w = Append(P, x)
  BY <1>1, AppendProperties
<1>3. s \o q \in Seq(Line)  BY <1>2, ConcatProperties
<1>4. LogicalConf(s \o q) = w \o Q
  <2>1. PICK u : u = s \o q  OBVIOUS
  <2>2. Between(u, p, x, q)  BY <1>2, <2>1 DEF Between
  <2>3. ReadAround(u, p, x, q)  BY <2>2, LineBetween
  <2> QED  BY <1>2, <2>1, <2>3 DEF ReadAround
<1>5. PICK r \in Known : r = ReadLine(acc, x)  BY <1>1, ReadType
<1>6. LeftFold(ReadF, Nothing, w) = r
  <2>1. LeftFold(ReadF, Nothing, w) = ReadF[<<acc, x>>]  BY <1>1, <1>2, FoldAppend
  <2> QED  BY <1>1, <1>5, <2>1, Steps
<1>7. LeftFold(ReadF, Nothing, w \o Q) = LeftFold(ReadF, r, Q)
  <2>1. w \in Seq(Line) /\ Q \in Seq(Line)  BY <1>1, <1>2
  <2>2. LeftFold(ReadF, Nothing, w \o Q)
          = LeftFold(ReadF, LeftFold(ReadF, Nothing, w), Q)
    BY <2>1, FoldConcat
  <2> QED  BY <1>6, <2>2
<1>8. ParseConf(s \o q) = LeftFold(ReadF, r, Q).search
  BY <1>3, <1>4, <1>7, ParseIs
<1>9. Agree(r, acc, n)  BY <1>1, <1>5, NotHere
<1>10. Agree(LeftFold(ReadF, r, Q), LeftFold(ReadF, acc, Q), n)
  BY <1>1, <1>5, <1>9, FoldAgree
<1> QED  BY <1>2, <1>8, <1>10 DEF Agree

\* A text whose headers stand, and one line of it that stands alone: no
\* stanza but that of the header above changes.
LEMMA OtherStanzas ==
  ASSUME NEW t \in Seq(Line), NEW u \in Seq(Line), HeadersStand(t),
         NEW i \in 1..Len(t), NEW m \in Line, u = [t EXCEPT ![i] = m],
         StandsAlone(t, i), ~m.cont, ~IsHeader(m),
         NEW n \in Names, n \notin HeaderAbove(t, i)
  PROVE  ParseConf(u)[n] = ParseConf(t)[n]
<1>1. PICK l \in Line : l = t[i]  BY ElementOfSeq
<1>2. ~l.cont /\ ~IsHeader(l)  BY <1>1 DEF StandsAlone
<1>3. PICK p, q : Parts(t, i, p, q)  BY Around
<1>4. /\ p \in Seq(Line) /\ q \in Seq(Line) /\ Len(p) = i - 1
      /\ \A j \in 1..i-1 : p[j] = t[j]
      /\ t = Append(p, l) \o q /\ u = Append(p, m) \o q
  BY <1>1, <1>3 DEF Parts
<1>5. /\ Len(t) \in Nat /\ DOMAIN t = 1..Len(t) /\ DOMAIN p = 1..i-1
  BY <1>4, LenProperties
<1>6. Done(p)
  <2>1. CASE i = 1
    <3>1. p = << >>  BY <1>4, <2>1, EmptySeq
    <3> QED  BY <3>1 DEF Done
  <2>2. CASE i # 1
    <3>1. PICK k \in 1..i-1 : k = i - 1  BY <2>2
    <3>2. ~t[k].cont  BY <2>2, <3>1 DEF StandsAlone
    <3>3. Last(p) = t[k]  BY <1>4, <3>1 DEF Last
    <3> QED  BY <3>2, <3>3 DEF Done
  <2> QED  BY <2>1, <2>2
<1>7. HeadersStand(p)
  <2>1. ASSUME NEW j \in 1..i-1, p[j].words # << >>, p[j].words[1] \in Headers
        PROVE  IsHeader(p[j]) /\ (j > 1 => ~p[j - 1].cont)
    <3>1. p[j] = t[j] /\ j \in DOMAIN t  BY <1>4, <1>5
    <3>2. IsHeader(t[j]) /\ (j > 1 => ~t[j - 1].cont)
      BY <2>1, <3>1 DEF HeadersStand
    <3>3. ASSUME j > 1  PROVE ~p[j - 1].cont
      <4>1. PICK k \in 1..i-1 : k = j - 1  BY <3>3
      <4> QED  BY <1>4, <3>2, <3>3, <4>1
    <3> QED  BY <3>1, <3>2, <3>3
  <2> QED  BY <1>5, <2>1 DEF HeadersStand
<1>8. PICK P \in Seq(Line), Q \in Seq(Line) : P = LogicalConf(p) /\ Q = LogicalConf(q)
  BY <1>4, ParseIs
<1>9. PICK acc \in Known : acc = LeftFold(ReadF, Nothing, P)  BY <1>4, <1>8, ParseIs
<1>10. n \notin acc.in
  <2>1. ASSUME n \in acc.in  PROVE FALSE
    <3>1. Follows(p)  BY <1>4, <1>7, ReaderFollows
    <3>2. Under(p, n)  BY <1>8, <1>9, <2>1, <3>1 DEF Follows
    <3>3. ~IsHeader(t[i])  BY <1>1, <1>2
    <3>4. HeaderAbove(t, i) = {n}  BY <1>3, <3>2, <3>3, AboveIs
    <3> QED  BY <3>4
  <2> QED  BY <2>1
<1>11. /\ ParseConf(Append(p, l) \o q)[n] = LeftFold(ReadF, acc, Q).search[n]
       /\ ParseConf(Append(p, m) \o q)[n] = LeftFold(ReadF, acc, Q).search[n]
  <2>1. /\ p \in Seq(Line) /\ q \in Seq(Line) /\ P = LogicalConf(p)
        /\ Q = LogicalConf(q) /\ acc = LeftFold(ReadF, Nothing, P)
    BY <1>4, <1>8, <1>9
  <2>2. ASSUME NEW x \in Line, ~x.cont, ~IsHeader(x)
        PROVE  ParseConf(Append(p, x) \o q)[n] = LeftFold(ReadF, acc, Q).search[n]
    BY <1>6, <1>10, <2>1, <2>2, LineElsewhere
  <2> QED  BY <1>2, <2>2
<1> QED  BY <1>4, <1>11

\* Whoever edits a line of one stanza, or of [default], changes the hash of
\* no record but those about that stanza (parse_savedsearches_conf).
THEOREM StanzasAreApart == Spec => OneStanzaAtATime
<1>1. ASSUME HashInv, Next, IsConf(file), HeadersStand(file.text),
             NEW i \in DOMAIN file.text, Changed(file.text, file'.text, i),
             StandsAlone(file.text, i), StandsAlone(file'.text, i),
             NEW n \in Names \ HeaderAbove(file.text, i)
      PROVE  hash'[n] = hash[n]
  <2>1. /\ FileOK(file) /\ FileOK(file') /\ IsConf(file')
        /\ hash' = Hashes(file') /\ hash = Hashes(file)
    BY <1>1, StepType DEF HashInv
  <2>2. PICK t \in Seq(Line), u \in Seq(Line) : t = file.text /\ u = file'.text
    BY <1>1, <2>1, Kinds
  <2>3. i \in 1..Len(t) /\ Len(u) = Len(t)  BY <1>1, <2>2, LenProperties DEF Changed
  <2>4. PICK m \in Line : m = u[i]  BY <2>3, ElementOfSeq
  <2>5. u = [t EXCEPT ![i] = m] /\ ~m.cont /\ ~IsHeader(m)
    BY <1>1, <2>2, <2>4 DEF Changed, StandsAlone
  <2>6. HeadersStand(t) /\ StandsAlone(t, i) /\ n \in Names /\ n \notin HeaderAbove(t, i)
    BY <1>1, <2>2
  <2>7. ParseConf(u)[n] = ParseConf(t)[n]
    <3>1. HeadersStand(t) /\ StandsAlone(t, i) /\ n \notin HeaderAbove(t, i)
      BY <2>6
    <3>2. u = [t EXCEPT ![i] = m]  BY <2>5
    <3>3. ~m.cont /\ ~IsHeader(m)  BY <2>5
    <3>4. i \in 1..Len(t) /\ n \in Names  BY <2>3, <2>6
    <3> HIDE <2>6, <2>5
    <3> QED  BY <3>1, <3>2, <3>3, <3>4, OtherStanzas
  <2>8. hash' = ConfHash(u) /\ hash = ConfHash(t)
    BY <1>1, <2>1, <2>2 DEF Hashes
  <2> QED  BY <2>6, <2>7, <2>8 DEF ConfHash
<1>2. HashInv /\ [Next]_vars =>
        [IsConf(file) /\ HeadersStand(file.text) =>
           \A i \in DOMAIN file.text :
             /\ Changed(file.text, file'.text, i)
             /\ StandsAlone(file.text, i) /\ StandsAlone(file'.text, i)
             => \A n \in Names \ HeaderAbove(file.text, i) : hash'[n] = hash[n]]_file
  BY <1>1 DEF vars
<1> QED  BY <1>2, HashHolds, PTL DEF Spec, OneStanzaAtATime
=============================================================================
