------------------------------ MODULE Filters ------------------------------
(***************************************************************************)
(* Filter expressions and what the exporters make of them.  An expression  *)
(* is a sequence of tokens: names, and "not", "and", "or", "(", ")" in     *)
(* whatever spelling its language has.  A name is a Sigma selection or one *)
(* condition of a native filter.  What an expression means is the set of   *)
(* events it is true of, an event being the set of names true of it.       *)
(***************************************************************************)
EXTENDS Naturals, SequencesExt

CONSTANTS
  Names,      \* names
  Form,       \* how each would be written as a condition of KQL
  Otherwise   \* which condition it is if its wildcards are read as letters,
              \* its letters as wildcards, or its escapes as they stand

\* An unquoted value, a quoted one, with a wildcard, a `?`, an escape, and what
\* the Elastic exporter cannot read: a quoted operator word, a range, a * ...
Forms == {"word", "word*", "word?", "quoted", "quoted*", "escaped", "other"}

ASSUME NamesAssumption == Names \cap {"not", "and", "or", "(", ")"} = {}
ASSUME FormAssumption  == Form \in [Names -> Forms] /\ Otherwise \in [Names -> Names]

Tokens == Names \cup {"not", "and", "or", "(", ")"}
Events == SUBSET Names

(***************************************************************************)
(* Meaning: "or" binds least, "not" most.  The meanings of a malformed     *)
(* expression are {}, those of any other a singleton.                      *)
(***************************************************************************)
MeaningsAt(level, t) ==
  LET Pos == DOMAIN t
      Of[s \in {"or", "and", "not"} \X Pos \X Pos] ==
        LET i == s[2]
            j == s[3]
            Splits(op) == {k \in (i + 1) .. (j - 1) : t[k] = op}
        IN
        CASE s[1] = "or" -> Of[<<"and", i, j>>] \cup
               UNION {{l \cup r : l \in Of[<<"or", i, k - 1>>],
                                  r \in Of[<<"and", k + 1, j>>]} : k \in Splits("or")}
          [] s[1] = "and" -> Of[<<"not", i, j>>] \cup
               UNION {{l \cap r : l \in Of[<<"and", i, k - 1>>],
                                  r \in Of[<<"not", k + 1, j>>]} : k \in Splits("and")}
          [] s[1] = "not" ->
               IF i = j /\ t[i] \in Names THEN {{e \in Events : t[i] \in e}}
               ELSE IF i < j /\ t[i] = "not"
                 THEN {Events \ m : m \in Of[<<"not", i + 1, j>>]}
               ELSE IF i + 1 < j /\ t[i] = "(" /\ t[j] = ")"
                 THEN Of[<<"or", i + 1, j - 1>>]
               ELSE {}
  IN  IF t = << >> THEN {} ELSE Of[<<level, 1, Len(t)>>]

Meanings(t)   == MeaningsAt("or", t)
WellFormed(t) == Meanings(t) # {}

\* A name, a group, or the negation of one: nothing is joined to it.
IsUnary(t) == MeaningsAt("not", t) # {}

Negated(t) == <<"not", "(">> \o t \o <<")">>

(***************************************************************************)
(* export-splunk of a Sigma record.                                        *)
(***************************************************************************)
\* Mutant: the parentheses stay in, the `not` is forgotten.
StripNotOnly(t, apart) ==
  IF apart /\ Len(t) > 1 /\ t[1] = "not" THEN [inner |-> Tail(t), had |-> FALSE]
  ELSE [inner |-> t, had |-> FALSE]

\* ^not\s+\(?(.+?)\)?$ takes one parenthesis off either end, each for itself.
\* apart: there is white space behind the `not`, and no line break anywhere.
StripNot(t, apart) ==
  IF apart /\ Len(t) > 1 /\ t[1] = "not"
  THEN LET r == Tail(t)
           s == IF r[1] = "(" /\ Len(r) > 1 THEN Tail(r) ELSE r
       IN  [inner |-> IF Last(r) = ")" /\ Len(r) > 1 THEN Front(s) ELSE s,
            had   |-> TRUE]
  ELSE [inner |-> t, had |-> FALSE]

\* What pySigma, which rejects what is malformed, compiles, negated again.
SplunkClauseOfSigma(t, apart) ==
  LET c == StripNot(t, apart)
  IN  IF c.had THEN {Events \ m : m \in Meanings(c.inner)}
      ELSE Meanings(c.inner)

(***************************************************************************)
(* export-splunk of a Splunk record.                                       *)
(***************************************************************************)
\* Mutant: with the regular expression of the Sigma branch.
NormalizeLikeSigma(t) == StripNot(t, TRUE).inner

\* ^NOT\s*\((.+)\)$
NormalizeSplunkFilter(t) ==
  IF Len(t) > 3 /\ t[1] = "not" /\ t[2] = "(" /\ Last(t) = ")"
  THEN SubSeq(t, 3, Len(t) - 1)
  ELSE t

SplunkClause(t) == Meanings(Negated(NormalizeSplunkFilter(t)))

(***************************************************************************)
(* export-kql.                                                             *)
(***************************************************************************)
KqlClause(t) == Meanings(Negated(t))

(***************************************************************************)
(* export-elastic-exception: an item matches what all of its entries do.   *)
(***************************************************************************)
\* The parts between one "and" and the next.
AddToken(parts, tok) ==
  IF tok = "and" THEN Append(parts, << >>)
  ELSE [parts EXCEPT ![Len(parts)] = Append(@, tok)]

Parts(t) == FoldLeft(AddToken, <<<< >>>>, t)

\* A quoted value is split like anything else, and then neither part of it
\* can be read.
IsSimple(part) == Len(part) = 1 /\ part[1] \in Names /\ Form[part[1]] # "other"

\* Mutant: without _WILDCARD_RE.
EntryTypeNoWildcard(c) == "match"

\* A `match` compares letter by letter, in a `wildcard` * and ? are wildcards.
EntryType(c) == IF Form[c] \in {"word*", "word?"} THEN "wildcard" ELSE "match"

\* The types of entry that compare as KQL does: to it, * is a wildcard and ? a
\* letter.  An entry has a quoted value as it was written, with its escapes.
KqlReading(c) ==
  CASE Form[c] \in {"word", "quoted"}   -> {"match", "wildcard"}
    [] Form[c] \in {"word*", "quoted*"} -> {"wildcard"}
    [] Form[c] = "word?"                -> {"match"}
    [] Form[c] = "escaped"              -> {}

Entry(c) ==
  [type    |-> EntryType(c),
   matches |-> IF EntryType(c) \in KqlReading(c) THEN c ELSE Otherwise[c]]

ParseKqlFilter(t) ==
  IF \/ ToSet(t) \cap {"(", ")", "or", "not"} # {}
     \/ \E part \in ToSet(Parts(t)) : ~IsSimple(part)
  THEN [entries |-> {}, manual |-> TRUE]
  ELSE [entries |-> {Entry(part[1]) : part \in ToSet(Parts(t))}, manual |-> FALSE]

\* An item without entries excludes nothing until someone fills it in.
ElasticClause(t) ==
  LET item == ParseKqlFilter(t)
  IN  IF item.manual THEN {Events}
      ELSE {{e \in Events : \E entry \in item.entries : entry.matches \notin e}}
=============================================================================
