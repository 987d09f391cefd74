----------------------------- MODULE MCRuleFile -----------------------------
(***************************************************************************)
(* Two stanzas, texts of up to MaxLines lines out of those below, and      *)
(* exports of up to MaxDocs rules.                                         *)
(***************************************************************************)
EXTENDS RuleFile

CONSTANTS A, B, Def, wA, wB, wHash

MCNames == {A, B}

Open(ws)   == [words |-> ws, cont |-> TRUE]
Closed(ws) == [words |-> ws, cont |-> FALSE]

MCConfLines ==
  {Closed(<<Header(A)>>), Closed(<<Header(B)>>), Closed(<<Header(Def)>>),
   Closed(<<SearchKey, wA>>), Open(<<SearchKey, wA>>), Open(<<wB>>),
   Closed(<<wB>>), Closed(<<wHash, wA>>), Open(<<wHash>>)}

MCSplLines ==
  {Closed(<<wA>>), Closed(<<wA, wB>>), Open(<<wA>>), Closed(<<wHash, wA>>),
   Closed(<<wB, wHash>>), Blank}

MCEaiData == {<< >>, <<Closed(<<wB>>)>>}

DocOf(v) == [field \in Fields |-> v]

MCInitFiles ==
  {[kind |-> "conf", text |-> <<Closed(<<Header(A)>>)>>]}
  \cup {[kind |-> "cloud", shape |-> "entry", search |-> << >>, data |-> eai] :
          eai \in MCEaiData}
  \cup {[kind |-> k, docs |-> <<DocOf(CHOOSE v \in Vals : TRUE)>>,
         array |-> FALSE, wrapped |-> FALSE, beside |-> 0] : k \in DocKinds}
=============================================================================
