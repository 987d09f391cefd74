------------------------------ MODULE SplText ------------------------------
(***************************************************************************)
(* Splunk searches as text: what `query_hash` is the hash of.              *)
(*                                                                         *)
(* A text is a sequence of physical lines, a line its words and whether it *)
(* ends in a backslash.  White space, CRLF and a byte order mark at the    *)
(* start are gone with the split into words.  A digest is the sequence of  *)
(* canonical words itself: SHA-256 is taken to be injective.               *)
(***************************************************************************)
EXTENDS Naturals, SequencesExt

CONSTANTS
  Names,      \* stanza names
  Default,    \* the name of the [default] stanza
  Comments,   \* words that start with '#'
  SearchKey,  \* "search ="
  OtherKey,   \* any other "key ="
  Plain,      \* all other words
  Backslash,  \* a backslash that joins nothing
  NoDigest    \* nothing a hash can be computed from

Header(n) == [stanza |-> n]
Headers   == {Header(n) : n \in Names \cup {Default}}
Words     == Plain \cup Comments \cup {SearchKey, OtherKey} \cup Headers
Line      == [words : Seq(Words), cont : BOOLEAN]
Blank     == [words |-> << >>, cont |-> FALSE]

ASSUME WordsAssumption ==
  /\ Default \notin Names /\ SearchKey # OtherKey
  /\ Plain \cap (Comments \cup {SearchKey, OtherKey, Backslash}) = {}
  /\ Comments \cap {SearchKey, OtherKey, Backslash} = {}
  /\ Backslash \notin {SearchKey, OtherKey}
  /\ (Plain \cup Comments \cup {SearchKey, OtherKey, Backslash}) \cap Headers = {}
  /\ NoDigest # << >>

IsComment(l) == l.words # << >> /\ l.words[1] \in Comments

\* Mutant: a continuation is good for one more line only.
GlueOnce(k, l) == [words |-> k.words \o l.words, cont |-> FALSE]

\* The backslash goes, the line goes on.
Glue(k, l) == [words |-> k.words \o l.words, cont |-> l.cont]
GlueLast(ls, l) == Append(Front(ls), Glue(Last(ls), l))

\* The words of a logical line; a backslash it still has is one of them.
Spelled(l) == IF l.cont THEN Append(l.words, Backslash) ELSE l.words

(***************************************************************************)
(* canonicalize_spl and compute_query_hash.                                *)
(***************************************************************************)
Join(ls, l) ==
  IF ls # << >> /\ Last(ls).cont THEN GlueLast(ls, l) ELSE Append(ls, l)

\* The words so far and those of the next logical line, unless it is a
\* comment.
Say(ws, l)       == IF IsComment(l) THEN ws ELSE ws \o Spelled(l)
Uncomment(ls, l) == IF IsComment(l) THEN ls ELSE Append(ls, l)

\* Mutant: comment lines are dropped before lines are joined, so that one
\* behind a comment that goes on stays.
CanonicalCommentsFirst(text) ==
  FoldLeft(Say, << >>, FoldLeft(Join, << >>, FoldLeft(Uncomment, << >>, text)))

\* Mutant: comment lines stay.
CanonicalWithComments(text) ==
  FoldLeft(LAMBDA ws, l : ws \o Spelled(l), << >>, FoldLeft(Join, << >>, text))

Canonical(text) == FoldLeft(Say, << >>, FoldLeft(Join, << >>, text))

\* Mutant: a search of comments only has a hash, too.
QueryHashOfNothing(text) == Canonical(text)

\* What is left has to be something.
QueryHash(text) ==
  IF Canonical(text) = << >> THEN NoDigest ELSE Canonical(text)

(***************************************************************************)
(* savedsearches.conf.                                                     *)
(***************************************************************************)
\* Other than Join, a raw comment line is never joined to the line before.
JoinConf(ls, l) ==
  IF ls # << >> /\ Last(ls).cont /\ ~IsComment(l) THEN GlueLast(ls, l)
  ELSE Append(ls, l)

\* '[' first and ']' last.  Text between two such words is one odd name,
\* which nobody looks up.
IsHeader(l) ==
  /\ l.words # << >> /\ ~l.cont
  /\ l.words[1] \in Headers /\ Last(l.words) \in Headers
HeaderName(l) ==
  IF Len(l.words) = 1 THEN l.words[1].stanza ELSE Default

\* Mutant: a [default] header leaves the current stanza alone.
ReadLineDefault(acc, l) ==
  IF IsHeader(l) THEN
    IF HeaderName(l) = Default THEN acc
    ELSE [in |-> {HeaderName(l)}, search |-> [acc.search EXCEPT ![HeaderName(l)] = Blank]]
  ELSE IF l.words # << >> /\ l.words[1] = SearchKey THEN
    [acc EXCEPT !.search = [n \in Names |->
       IF n \in acc.in THEN [l EXCEPT !.words = Tail(@)] ELSE acc.search[n]]]
  ELSE acc

\* One logical line: a header starts its stanza afresh ([default] none), the
\* last `search` of a stanza wins, and anything else says nothing of it.
ReadLine(acc, l) ==
  IF IsHeader(l) THEN
    IF HeaderName(l) = Default THEN [acc EXCEPT !.in = {}]
    ELSE [in |-> {HeaderName(l)}, search |-> [acc.search EXCEPT ![HeaderName(l)] = Blank]]
  ELSE IF l.words # << >> /\ l.words[1] = SearchKey THEN
    [acc EXCEPT !.search = [n \in Names |->
       IF n \in acc.in THEN [l EXCEPT !.words = Tail(@)] ELSE acc.search[n]]]
  ELSE acc

\* The `search` of each stanza as one line; a stanza that is missing, or has
\* none, gives a blank one.
ParseConf(text) ==
  FoldLeft(ReadLine, [in |-> {}, search |-> [n \in Names |-> Blank]],
           FoldLeft(JoinConf, << >>, text)).search

\* All stanzas at once, as a refresh of a record with several refs needs.
ConfHash(text) ==
  LET search == ParseConf(text)
  IN  [n \in Names |-> QueryHash(<<search[n]>>)]

(***************************************************************************)
(* servicesNS exports: [shape, search, data], the texts of the first       *)
(* entry, with its line breaks inside the JSON strings.                    *)
(***************************************************************************)
CloudShapes == {"entry", "content", "minimal"}

\* `search`, or `eai:data` if it is the empty string; only the minimal shape
\* has no second chance.
CloudSearch(c) ==
  IF c.search = << >> /\ c.shape # "minimal" THEN c.data ELSE c.search

\* A canonical sequence of words read as a text again.
AsText(ws) ==
  IF ws # << >> /\ Last(ws) = Backslash
  THEN <<[words |-> Front(ws), cont |-> TRUE]>>
  ELSE <<[words |-> ws, cont |-> FALSE]>>

\* Canonicalised once by _clean_search and once more by compute_query_hash.
CloudHash(c) == QueryHash(AsText(Canonical(CloudSearch(c))))
=============================================================================
