------------------------------ MODULE RuleFile ------------------------------
(***************************************************************************)
(* One rule file and the hashes that `ddr` computes from it, while people  *)
(* edit it and servers export it again.  The records that pin the file     *)
(* live or die by two things: an edit of the rule must show in its hash,   *)
(* and nothing else may.                                                   *)
(***************************************************************************)
EXTENDS SplText, RuleDoc

CONSTANTS
  ConfLines,   \* lines people write into savedsearches.conf
  SplLines,    \* lines of a search in a Cloud export
  EaiData,     \* what `eai:data` of an export may hold
  MaxLines,    \* bound: lines of a text
  MaxDocs,     \* bound: documents of a file
  InitFiles    \* the files to begin with

ASSUME LinesAssumption ==
  /\ ConfLines \subseteq Line /\ SplLines \subseteq Line
  /\ EaiData \subseteq Seq(Line)
  /\ MaxLines \in Nat /\ MaxDocs \in Nat
  /\ NoDoc \notin Seq(Words \cup {Backslash})

ConfFile == [kind : {"conf"}, text : Seq(Line)]
CloudFile ==
  [kind : {"cloud"}, shape : CloudShapes, search : Seq(Line), data : EaiData]

\* Nothing longer than the bound, no wrapper where none can be.
FileOK(f) ==
  \/ f \in ConfFile /\ Len(f.text) <= MaxLines
  \/ f \in CloudFile /\ Len(f.search) <= MaxLines
  \/ f \in DocFile /\ WellFormed(f)

ASSUME InitAssumption == \A f \in InitFiles : FileOK(f)

VARIABLES
  file,   \* the rule file
  hash    \* what a ref of each name gets from it

vars == <<file, hash>>

IsConf(f)  == f.kind = "conf"
IsCloud(f) == f.kind = "cloud"
IsDoc(f)   == f.kind \in DocKinds

\* A conf file answers by name; the others have one answer, NoDigest if it
\* is none.
Hashes(f) ==
  IF IsConf(f) THEN ConfHash(f.text)
  ELSE LET h == IF IsCloud(f) THEN CloudHash(f) ELSE DocHash(f)
       IN  [n \in Names |-> IF h = NoDoc THEN NoDigest ELSE h]

Saved(f) ==
  /\ file' = f
  /\ hash' = Hashes(f)

(***************************************************************************)
(* Edits of a text: that of a conf file, or the search of an export.       *)
(***************************************************************************)
IsText(f) == IsConf(f) \/ IsCloud(f)
Text(f)   == IF IsConf(f) THEN f.text ELSE f.search
WithText(f, t) ==
  IF IsConf(f) THEN [f EXCEPT !.text = t] ELSE [f EXCEPT !.search = t]
LinesFor(f) == IF IsConf(f) THEN ConfLines ELSE SplLines

InsertLine(i, l) ==
  /\ Len(Text(file)) < MaxLines
  /\ Saved(WithText(file, InsertAt(Text(file), i, l)))

ChangeLine(i, l) ==
  /\ l # Text(file)[i]
  /\ Saved(WithText(file, [Text(file) EXCEPT ![i] = l]))

\* Line i is continued on a new line after its first k words.
WrapLine(i, k) ==
  LET l     == Text(file)[i]
      start == [words |-> SubSeq(l.words, 1, k), cont |-> TRUE]
      rest  == [l EXCEPT !.words = SubSeq(@, k + 1, Len(@))]
  IN  /\ Len(Text(file)) < MaxLines
      /\ Saved(WithText(file,
           InsertAt([Text(file) EXCEPT ![i] = start], i + 1, rest)))

\* How Splunk writes a search of several lines into stanza n.
ConfOf(spl, n) ==
  <<[words |-> <<Header(n)>>, cont |-> FALSE]>>
    \o [i \in DOMAIN spl |->
          [words |-> (IF i = 1 THEN <<SearchKey>> ELSE << >>) \o spl[i].words,
           cont  |-> i < Len(spl) \/ spl[i].cont]]

(***************************************************************************)
(* Exports, and edits of documents.                                        *)
(***************************************************************************)
\* Another client writes the same search.
ReshapeCloud(shape) ==
  /\ shape # file.shape
  /\ Saved([file EXCEPT !.shape = shape])

SetField(d, field, v) ==
  /\ file.docs[d] # Garbage /\ file.docs[d][field] # v
  /\ Saved([file EXCEPT !.docs[d][field] = v])

Garble(d) ==
  /\ file.docs[d] # Garbage
  /\ Saved([file EXCEPT !.docs[d] = Garbage])

Mend(d, doc) ==
  /\ file.docs[d] = Garbage
  /\ Saved([file EXCEPT !.docs[d] = doc])

AddDoc(doc) ==
  LET f == [file EXCEPT !.docs = Append(@, doc)]
  IN  Len(file.docs) < MaxDocs /\ WellFormed(f) /\ Saved(f)

\* Another API call exports the same rules.
Rewrap(wrapped, array, beside) ==
  LET f == [file EXCEPT !.wrapped = wrapped, !.array = array, !.beside = beside]
  IN  f # file /\ WellFormed(f) /\ Saved(f)

(***************************************************************************)
(* Specification.                                                          *)
(***************************************************************************)
Init == file \in InitFiles /\ hash = Hashes(file)

TextEdit ==
  /\ IsText(file)
  /\ \/ \E i \in 1 .. Len(Text(file)) + 1, l \in LinesFor(file) : InsertLine(i, l)
     \/ \E i \in DOMAIN Text(file) :
          \/ \E l \in LinesFor(file) : ChangeLine(i, l)
          \/ \E k \in 1 .. Len(Text(file)[i].words) : WrapLine(i, k)

DocEdit ==
  /\ IsDoc(file)
  /\ \/ \E d \in DOMAIN file.docs :
          \/ \E field \in Fields, v \in Vals : SetField(d, field, v)
          \/ Garble(d)
          \/ \E doc \in Body : Mend(d, doc)
     \/ \E doc \in Body : AddDoc(doc)
     \/ \E wrapped, array \in BOOLEAN, beside \in 0 .. 3 :
          Rewrap(wrapped, array, beside)

Next ==
  \/ TextEdit
  \/ IsCloud(file) /\ \E shape \in CloudShapes : ReshapeCloud(shape)
  \/ DocEdit

Spec == Init /\ [][Next]_vars

(***************************************************************************)
(* Properties.                                                             *)
(***************************************************************************)

\* Types; nothing is the hash of no words (compute_query_hash).
TypeOK ==
  /\ FileOK(file)
  /\ DOMAIN hash = Names /\ \A n \in Names : hash[n] # << >>

\* Only line i changes, or is there.
Changed(t, u, i)  == Len(t) = Len(u) /\ u = [t EXCEPT ![i] = u[i]]
Inserted(t, u, i) == Len(u) = Len(t) + 1 /\ u = InsertAt(t, i, u[i])

\* Nothing of line i is joined to the lines around it, and it is no header.
StandsAlone(t, i) ==
  /\ ~t[i].cont /\ ~IsHeader(t[i])
  /\ i > 1 => ~t[i - 1].cont

\* The header a reader of the file sees above line i, none or one.
HeaderAbove(t, i) ==
  LET h == SelectLastInSubSeq(t, 1, i, IsHeader)
  IN  IF h = 0 THEN {} ELSE {HeaderName(t[h])}

\* Every header is a line of its own: no backslash above it swallows it, and
\* none is continued.
HeadersStand(t) ==
  \A i \in DOMAIN t :
    t[i].words # << >> /\ t[i].words[1] \in Headers
      => IsHeader(t[i]) /\ (i > 1 => ~t[i - 1].cont)

\* Whoever edits a line of one stanza, or of [default], changes the hash of
\* no record but those about that stanza (parse_savedsearches_conf).
OneStanzaAtATime ==
  [][IsConf(file) /\ HeadersStand(file.text) =>
       \A i \in DOMAIN file.text :
         /\ Changed(file.text, file'.text, i)
         /\ StandsAlone(file.text, i) /\ StandsAlone(file'.text, i)
         => \A n \in Names \ HeaderAbove(file.text, i) : hash'[n] = hash[n]]_file

\* A comment may be put anywhere but into a continued line: in a conf file
\* and in a search, the two readers of comments agree on that.
CommentsAreFree ==
  [][IsText(file) /\ Text(file) # << >> =>
       \A i \in 1 .. Len(Text(file)) + 1 :
         /\ Inserted(Text(file), Text(file'), i)
         /\ IsComment(Text(file')[i]) /\ StandsAlone(Text(file'), i)
         => hash' = hash]_file

\* A line may be continued on the next one wherever it has a space, unless
\* a word with '#' comes first there: continuations may be chained.
WrappingIsFree ==
  [][IsText(file) =>
       \A i \in DOMAIN Text(file) :
         /\ \E k \in DOMAIN Text(file)[i].words : WrapLine(i, k)
         /\ ~IsComment(Text(file')[i + 1])
         => hash' = hash]_file

\* Taken out of Cloud and written into a conf file, the search has the same
\* hash: what _clean_search and the conf reader do to it comes to the same.
\* Comments are left out: on a line that goes on, the two treat them
\* differently.
HashIdentity ==
  IsCloud(file) =>
    LET spl == CloudSearch(file)
    IN  (\A i \in DOMAIN spl : ~spl[i].cont /\ ~IsComment(spl[i]))
        => \A n \in Names : ConfHash(ConfOf(spl, n))[n] = hash[n]

\* The same rules but for what a server stamps on them, under a documented
\* wrapper: Sentinel exports one rule, Elastic wraps it with two more keys
\* at the most, and a Sigma rule has no server.
SameDocs(f, g) ==
  /\ f.kind = g.kind /\ DOMAIN f.docs = DOMAIN g.docs
  /\ \A d \in DOMAIN f.docs :
       \/ f.docs[d] = g.docs[d]
       \/ /\ f.kind # "sigma" /\ Garbage \notin {f.docs[d], g.docs[d]}
          /\ g.docs[d] = [f.docs[d] EXCEPT !.stamp = g.docs[d].stamp]
Documented(f) ==
  (f.kind = "kql-sentinel" => ~f.array) /\ (f.kind = "elastic" => f.beside <= 2)

\* To export an unchanged rule again, by whichever API call, moves no hash.
ReexportKeepsHash ==
  [][\/ IsDoc(file) /\ SameDocs(file, file')
          /\ Documented(file) /\ Documented(file')
     \/ /\ IsCloud(file) /\ file.search # << >>
        /\ file' = [file EXCEPT !.shape = file'.shape]
     => hash' = hash]_file

\* The query that a new record is about is the query it is pinned to: an
\* edit of it shows in the hash, one of its neighbours in the file does not.
TheNamedRuleIsPinned ==
  [][IsDoc(file) =>
       \A d \in DOMAIN file.docs :
         /\ Garbage \notin {file.docs[d], file'.docs[d]}
         /\ file'.docs # file.docs
         /\ file' = [file EXCEPT !.docs[d].query = file'.docs[d].query]
         /\ \A n \in Names : hash[n] # NoDigest
         => \A n \in Names : (hash'[n] # hash[n]) <=> d = NamedAt(file)]_file
=============================================================================
