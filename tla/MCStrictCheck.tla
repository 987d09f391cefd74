--------------------------- MODULE MCStrictCheck ---------------------------
(***************************************************************************)
(* Instances of StrictCheck for TLC.                                       *)
(***************************************************************************)
EXTENDS StrictCheck

CONSTANTS n1, n2, NoName, Empty, a, q1, q2, d1, d2, b1, r1, v1

CanonDef == [q \in Queries |-> IF q = q2 THEN d2 ELSE d1]

File(q) == [n \in Names |-> q]

\* A conf file with two stanzas.
Conf(q, p) == [n \in Names |-> IF n = n1 THEN q ELSE IF n = n2 THEN p ELSE NoQuery]

Rec(k, n, p, h) ==
  [kind |-> k, form |-> "plural", body |-> b1,
   refs |-> [i \in Refs |-> [name |-> n[i], path |-> p[i], hash |-> h[i]]]]

\* Two refs; the name of a stanza may be missing from a Splunk record, or empty.
StrictInit ==
  {Rec(k, <<n1, n2>>, p, h) :
     k \in {"sigma", "splunk", "elastic"},
     p \in {<<a, a>>, <<a, Remote>>, <<Remote, a>>},
     h \in {<<d1, d2>>, <<d1, NoDigest>>}}
  \cup {Rec("splunk", <<n1, n>>, <<a, a>>, <<d1, d1>>) : n \in {NoName, Empty}}

StrictContents == {File(NoQuery), File(q1), Conf(q1, q2), Conf(q2, q2)}
=============================================================================
