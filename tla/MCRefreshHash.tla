--------------------------- MODULE MCRefreshHash ---------------------------
(***************************************************************************)
(* Instances of RefreshHash for TLC.  q1 and q1x are cosmetic variants.    *)
(***************************************************************************)
EXTENDS RefreshHash, FiniteSets, TLC

CONSTANTS n1, n2, NoName, a, b, q1, q1x, q2, d1, d2, b1, b2, r1, r2

CanonDef == [q \in Queries |-> IF q = q2 THEN d2 ELSE d1]

File(q) == [n \in Names |-> q]
\* A conf file in which the stanza n1 holds q and there is nothing else.
Conf(q) == [n \in Names |-> IF n = n1 THEN q ELSE NoQuery]

Rec(k, f, p, h) ==
  [kind |-> k, form |-> f, body |-> b1,
   refs |-> [i \in Refs |-> [name |-> n1, path |-> p[i], hash |-> h[i]]]]

\* One ref: every kind, both forms, every path, with --rule / --conf runs.
OneRecords ==
  {Rec(k, "plural", [i \in Refs |-> p], [i \in Refs |-> h]) :
     k \in Kinds, p \in {a, Remote, NoPath}, h \in {d1, NoDigest}}
  \cup {Rec(k, "singular", [i \in Refs |-> a], [i \in Refs |-> d1]) :
     k \in {"sigma", "splunk"}}
OneNameless ==
  {[rec EXCEPT !.refs = [i \in Refs |-> [rec.refs[i] EXCEPT !.name = NoName]]] :
     rec \in {x \in OneRecords : x.kind = "splunk"}}
OneInit == OneRecords \cup OneNameless
OneContents == {File(NoQuery), File(q1), File(q1x), File(q2), Conf(q2)}

\* Two refs, on two files, on one, or with one of them remote.
TwoInit ==
  {Rec(k, "plural", p, h) :
     k \in {"sigma", "splunk", "elastic"},
     p \in {<<a, b>>, <<a, a>>, <<a, Remote>>},
     h \in {<<d1, d2>>, <<d1, NoDigest>>}}
TwoContents == {File(NoQuery), File(q1), File(q2)}

\* Two runs at once on two refs, in files with two stanzas.
RaceInit ==
  {[Rec(k, "plural", <<a, b>>, <<d1, NoDigest>>) EXCEPT !.refs[2].name = n2] :
     k \in {"splunk", "elastic"}}
Stanzas(q, p) ==
  [n \in Names |-> IF n = n1 THEN q ELSE IF n = n2 THEN p ELSE NoQuery]
RaceContents == {File(NoQuery), Stanzas(q1, q2), File(q2)}

RunnerSymmetry == Permutations(Runners)
=============================================================================
