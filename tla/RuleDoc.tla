------------------------------ MODULE RuleDoc ------------------------------
(***************************************************************************)
(* Rule files of the other kinds: Sigma YAML, Elastic NDJSON, Sentinel and *)
(* Microsoft 365 Defender JSON.  A file is a sequence of documents: lines  *)
(* for Elastic, the elements of an array (or one bare object) for the rest.*)
(* Key order, comments and layout are gone with the fields; a digest is    *)
(* what is serialised: SHA-256 is taken to be injective.                   *)
(***************************************************************************)
EXTENDS Naturals, SequencesExt

CONSTANTS
  Vals,      \* what a field may hold
  Garbage,   \* a document that does not parse
  NoDoc      \* no digest

DocKinds == {"sigma", "elastic", "kql-sentinel", "kql-m365d"}

\* One field for each way the kinds differ: `stamp` stands for what a server
\* writes (created_at, etag, lastRunTime...).
Fields == {"query", "name", "id", "enabled", "stamp"}
Body   == [Fields -> Vals]

\* wrapped: each document is the value of "rule" (Elastic) or "properties"
\* (Sentinel), next to as many other keys as `beside` says.
DocFile == [kind : DocKinds, docs : Seq(Body \cup {Garbage}),
            array : BOOLEAN, wrapped : BOOLEAN, beside : 0 .. 3]

\* What an array, a wrapper and a second document can be around.
WellFormed(f) ==
  /\ f.wrapped => f.kind \in {"elastic", "kql-sentinel"}
  /\ f.beside > 0 => f.wrapped
  /\ f.array => f.kind \in {"kql-sentinel", "kql-m365d"}
  /\ f.kind # "elastic" /\ ~f.array => Len(f.docs) <= 1

ASSUME DocAssumption == Garbage \notin Body

\* Volatile fields and, for Sentinel, the keys of the envelope.
Volatile(kind) ==
  CASE kind = "sigma"        -> {}
    [] kind = "elastic"      -> {"id", "stamp"}
    [] kind = "kql-sentinel" -> {"id", "name", "stamp"}
    [] kind = "kql-m365d"    -> {"id", "enabled", "stamp"}

(***************************************************************************)
(* The _load_rule_dict functions.                                          *)
(***************************************************************************)
\* Mutant: the last rule of an NDJSON export.
LastRule(f) == SelectLastInSeq(f.docs, LAMBDA d : d # Garbage)

\* Which document is hashed, 0 if none.  Elastic passes over lines that do
\* not parse; elsewhere one bad document spoils the file.  Sentinel takes no
\* array, M365D the first element of one.
RuleAt(f) ==
  CASE f.kind = "elastic" -> SelectInSeq(f.docs, LAMBDA d : d # Garbage)
    [] f.kind # "elastic" ->
         IF \/ f.docs = << >> \/ Garbage \in ToSet(f.docs)
            \/ f.kind = "kql-sentinel" /\ f.array
         THEN 0 ELSE 1

\* Mutant: a wrapper is never taken off.
UnwrapsNot(f) == f.kind = "kql-sentinel"

\* Sentinel takes any envelope off, Elastic one of at most three keys.
Unwraps(f) == f.kind = "kql-sentinel" \/ f.beside <= 2

Stripped(f, body) == Restrict(body, Fields \ Volatile(f.kind))

\* A wrapper that stays on is hashed with all it holds: volatile fields are
\* struck out at the top only.
DocHash(f) ==
  IF RuleAt(f) = 0 THEN NoDoc
  ELSE LET body == f.docs[RuleAt(f)]
       IN  IF f.wrapped /\ ~Unwraps(f) THEN [rule |-> body, beside |-> f.beside]
           ELSE Stripped(f, body)

(***************************************************************************)
(* `ddr new`.                                                              *)
(***************************************************************************)
\* The document a new record takes its rule_id and name from, 0 if it keeps
\* the placeholders.  Elastic and KQL have code of their own for it; for
\* Sigma it is the document that is hashed.
NamedAt(f) ==
  CASE f.kind = "elastic" -> SelectInSeq(f.docs, LAMBDA d : d # Garbage)
    [] f.kind = "sigma"   -> RuleAt(f)
    [] f.kind \in {"kql-sentinel", "kql-m365d"} ->
         IF f.docs = << >> \/ Garbage \in ToSet(f.docs) THEN 0 ELSE 1
=============================================================================
