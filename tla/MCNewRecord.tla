---------------------------- MODULE MCNewRecord ----------------------------
(***************************************************************************)
(* Instances of NewRecord for TLC: a checkout with a directory of records  *)
(* that mirrors the directory of rules, so that a path read in the wrong   *)
(* directory finds another rule.                                           *)
(***************************************************************************)
EXTENDS NewRecord

CONSTANTS n1, d1, d2

Near    == [inside |-> TRUE, at |-> <<"ddr", "rules", "a">>, suffix |-> ".json"]
Far     == [inside |-> TRUE, at |-> <<"rules", "a">>, suffix |-> ".ndjson"]
Opt     == [inside |-> FALSE, at |-> <<"opt", "a">>, suffix |-> ".conf"]

MCRecs  == {<<"ddr", "r">>}
MCDirs  == {<< >>, <<"ddr">>, <<"rules", "win">>}
MCRoots == {<<"x">>, <<"y", "z">>}

Holding(sh, h) == [shape |-> sh, of |-> [n \in Names |-> h]]

\* A file of every shape; a rule that lies where another one is read has
\* another digest, or none.
MCContents == {Holding("conf", d1), Holding("cloud", d2), Holding("rule", d2)}
MCRules    == {Near, Far, Opt}
=============================================================================
