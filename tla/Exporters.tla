----------------------------- MODULE Exporters -----------------------------
(***************************************************************************)
(* A record is drafted field by field, and at any moment one of the four   *)
(* export commands may be run on it.                                       *)
(***************************************************************************)
EXTENDS Filters, RecordModel

CONSTANTS
  Operands,     \* what an author joins to a filter
  FirstFilters, \* filters to begin with
  MaxTokens,    \* bound: tokens of a filter
  NoExport      \* nothing was exported from the draft as it stands

ASSUME FiltersAssumption ==
  /\ FirstFilters \cup Operands \subseteq Seq(Tokens)
  /\ MaxTokens \in Nat
  /\ \A f \in FirstFilters : Len(f) <= MaxTokens

VARIABLES
  draft,  \* the record on disk
  out     \* the last export of it

vars == <<draft, out>>

Commands == {"export-sigma-filter", "export-splunk",
             "export-elastic-exception", "export-kql"}

(***************************************************************************)
(* Edits.                                                                  *)
(***************************************************************************)
Edited(d) == d # draft /\ draft' = d /\ out' = NoExport

\* A suppress record as `ddr new` scaffolds it.
Scaffold(k, f, apart) ==
  [kind |-> k, single |-> {}, plural |-> {<<Ref>>}, decision |-> "suppress",
   tuning |-> k, filter |-> f, apart |-> apart, breaks |-> FALSE, status |-> "draft",
   expires_on |-> FALSE, retired_on |-> FALSE, succession |-> FALSE]

\* Bound: fields are edited under a first filter only, since none of what
\* they decide looks at the filter beyond its being blank.
EditField ==
  /\ draft.filter \in FirstFilters \cup {<< >>}
  /\ \/ \E k \in Kinds \cup {"missing"} : Edited([draft EXCEPT !.kind = k])
     \/ \E s \in {{}, {Ref}} : Edited([draft EXCEPT !.single = s])
     \/ \E s \in {{}, {<< >>}, {<<Ref>>}, {<<Ref, Ref>>}} :
          Edited([draft EXCEPT !.plural = s])
     \/ \E dec \in Decisions, k \in Kinds \cup {"unnamed", "missing"} :
          Edited([draft EXCEPT !.decision = dec, !.tuning = k])
     \/ \E s \in Statuses : Edited([draft EXCEPT !.status = s])
     \/ \E field \in {"expires_on", "retired_on", "succession", "breaks", "apart"} :
          Edited([draft EXCEPT ![field] = ~@])

\* What an author makes of a filter, a slip with a token too few included.
MadeOf(t) ==
  {<<"not">> \o t, <<"(">> \o t \o <<")">>}
    \cup {t \o <<"and">> \o o : o \in Operands}
    \cup {t \o <<"or">> \o o : o \in Operands}
    \cup {RemoveAt(t, i) : i \in DOMAIN t}

\* Bound: filters are written in scaffolds, with one slip at the most.
EditFilter ==
  /\ draft = Scaffold(draft.kind, draft.filter, draft.apart)
  /\ ~draft.apart => draft.kind = "sigma"
  /\ \E f \in FirstFilters
          \cup (IF WellFormed(draft.filter) THEN MadeOf(draft.filter) ELSE {}) :
       Len(f) <= MaxTokens /\ Edited([draft EXCEPT !.filter = f])

(***************************************************************************)
(* Exports.                                                                *)
(***************************************************************************)
Refused == [exit |-> 1]
Emitted(clause, warned) == [exit |-> 0, clause |-> clause, warned |-> warned]

\* Mutant: what the compiler rejects is emitted, empty.
EmittedAnyway(clause, warned) == Emitted(clause, warned)

\* Nothing is emitted when the compiler rejects the expression.
EmittedIf(clause, warned) ==
  IF clause = {} THEN Refused ELSE Emitted(clause, warned)

\* Every exporter reads the fields of the tuning it is for; one of another
\* kind does not have them, which is caught like any other error.
\* The Sigma filter takes the condition as it is.
SigmaFilterOf(d) ==
  IF d.kind # "sigma" \/ d.decision # "suppress" \/ TuningKind(d) # "sigma"
  THEN Refused
  ELSE Emitted(Meanings(d.filter), FALSE)

\* Mutant: a tuning without `logsource` is taken, too.
SplunkOfAnyone(d, installed) ==
  IF d.decision # "suppress" THEN Refused
  ELSE IF d.kind = "splunk" THEN Emitted(SplunkClause(d.filter), FALSE)
  ELSE IF ~installed THEN Refused
  ELSE EmittedIf(SplunkClauseOfSigma(d.filter, d.apart), ~StripNot(d.filter, d.apart).had)

\* No guard on kind: a record for yet another backend fails because its
\* tuning has no `logsource`.  sigma-to-spl may not be installed.
SplunkOf(d, installed) ==
  IF d.decision # "suppress" THEN Refused
  ELSE IF d.kind = "splunk" THEN
    IF TuningKind(d) # "splunk" THEN Refused ELSE Emitted(SplunkClause(d.filter), FALSE)
  ELSE IF ~installed \/ TuningKind(d) # "sigma" THEN Refused
  ELSE EmittedIf(SplunkClauseOfSigma(d.filter, d.apart), ~StripNot(d.filter, d.apart).had)

ElasticOf(d) ==
  IF d.kind # "elastic" \/ d.decision # "suppress" \/ TuningKind(d) # "elastic"
  THEN Refused
  ELSE Emitted(ElasticClause(d.filter), ParseKqlFilter(d.filter).manual)

\* Title and rationale are put behind one `//` each: what follows a line
\* break in them is no comment, and no query either.
KqlKinds == {"kql-sentinel", "kql-m365d"}
KqlOf(d) ==
  IF d.kind \notin KqlKinds \/ d.decision # "suppress" \/ TuningKind(d) \notin KqlKinds
  THEN Refused
  ELSE Emitted(IF d.breaks THEN {} ELSE KqlClause(d.filter), FALSE)

Result(cmd, installed, d) ==
  CASE ~Valid(d) -> Refused
    [] Valid(d) /\ cmd = "export-sigma-filter"      -> SigmaFilterOf(d)
    [] Valid(d) /\ cmd = "export-splunk"            -> SplunkOf(d, installed)
    [] Valid(d) /\ cmd = "export-elastic-exception" -> ElasticOf(d)
    [] Valid(d) /\ cmd = "export-kql"               -> KqlOf(d)

Export(cmd, installed) ==
  /\ out = NoExport
  /\ out' = [cmd |-> cmd, installed |-> installed,
             result |-> Result(cmd, installed, draft)]
  /\ UNCHANGED draft

(***************************************************************************)
(* Specification.                                                          *)
(***************************************************************************)
Init ==
  /\ \E k \in Kinds, f \in FirstFilters : draft = Scaffold(k, f, TRUE)
  /\ out = NoExport

Next ==
  \/ EditField
  \/ EditFilter
  \/ \E cmd \in Commands : Export(cmd, TRUE)
  \/ Export("export-splunk", FALSE)

Spec == Init /\ [][Next]_vars

(***************************************************************************)
(* Properties.                                                             *)
(***************************************************************************)
\* Types; compiled SPL means something, and only one thing.
TypeOK ==
  /\ draft \in Draft(Seq(Tokens))
  /\ Len(draft.filter) <= MaxTokens
  /\ out # NoExport => out.cmd \in Commands /\ out.result.exit \in {0, 1}
  /\ /\ out # NoExport /\ out.result.exit = 0
     /\ out.cmd = "export-splunk" /\ draft.kind = "sigma"
     => \E m \in SUBSET Events : out.result.clause = {m}

\* refresh-hash, which reads the YAML itself, works on the refs that the
\* model (and so validate, expire-check and the exporters) sees.
RefreshSeesTheRecord ==
  Valid(draft) =>
    RefreshKind(draft) = draft.kind /\ RefreshRefs(draft) = ModelRefs(draft)

CommandsFor(kind) ==
  CASE kind = "sigma"   -> {"export-sigma-filter", "export-splunk"}
    [] kind = "splunk"  -> {"export-splunk"}
    [] kind = "elastic" -> {"export-elastic-exception"}
    [] kind \in KqlKinds -> {"export-kql"}

Exported(cmd) == out # NoExport /\ out.cmd = cmd /\ out.result.exit = 0

\* Nothing but a valid suppression leaves as an exclusion, and only in the
\* language of its backend: export-splunk has no guard on that.
NoForeignExport ==
  out # NoExport /\ out.result.exit = 0 =>
    /\ Valid(draft) /\ draft.decision = "suppress"
    /\ out.cmd \in CommandsFor(draft.kind)

\* The conditions of docs/design/v0.2-splunk-export.md:99-104: with a `not` in
\* front, that of one name or of one group.
IsListed(t) ==
  /\ WellFormed(t)
  /\ t[1] = "not" => t[2] # "not" /\ IsUnary(Tail(t))

\* What validates as a suppression ships, by each of the commands for its
\* backend, whatever its filter; only as SPL, a Sigma condition has to be of a
\* form that is listed.  A blank one, or `not (a) and (b)`, validates, too,
\* but pySigma gets `` or `a) and (b`, and export-splunk exits 1.
SuppressionsShip ==
  /\ Valid(draft) /\ draft.decision = "suppress"
  /\ out # NoExport /\ out.cmd \in CommandsFor(draft.kind) /\ out.installed
  /\ draft.kind = "sigma" /\ out.cmd = "export-splunk" => IsListed(draft.filter)
  => out.result.exit = 0

\* A Sigma record suppresses the same events whether it ships as a Sigma
\* filter or as SPL, if a `not` in front negates all there is.
SameEventsInSpl ==
  LET t == draft.filter
  IN  /\ Exported("export-splunk") /\ draft.kind = "sigma"
      /\ WellFormed(t) /\ (t[1] = "not" => IsUnary(t))
      => out.result.clause = Meanings(t)

\* docs/design/v0.2-splunk-export.md:53 has a warning wherever that `not`
\* does not: without one, nothing has changed.
NoSilentChange ==
  /\ Exported("export-splunk") /\ draft.kind = "sigma"
  /\ WellFormed(draft.filter) /\ ~out.result.warned
  => out.result.clause = Meanings(draft.filter)

\* The false positives a native filter describes: in SPL it may be written
\* with or without the NOT around it.
FalsePositives(t) ==
  IF draft.kind = "splunk" /\ t[1] = "not" /\ t[2] = "(" THEN SubSeq(t, 3, Len(t) - 1)
  ELSE t

\* A native clause lets everything through but the false positives.  Left out
\* are an SPL filter that begins with NOT ( and goes on after the parenthesis,
\* which can be read both ways, and prose that breaks out of its comment.
ExactlyTheFalsePositives ==
  LET t == draft.filter
  IN  /\ Exported("export-kql") \/ (Exported("export-splunk") /\ draft.kind = "splunk")
      /\ WellFormed(t) /\ ~draft.breaks
      /\ draft.kind = "splunk" /\ t[1] = "not" /\ t[2] = "(" => IsUnary(t)
      => out.result.clause = {Events \ m : m \in Meanings(FalsePositives(t))}

FormsIn(t) == {Form[c] : c \in ToSet(t) \cap Names}

\* An Elastic item either excludes what the filter describes, or excludes
\* nothing and says that it has to be filled in.  Left out are filters with a
\* quoted *, a ? or an escape: their items exclude something else, or more.
EntriesOrManual ==
  Exported("export-elastic-exception") =>
    /\ out.result.warned => out.result.clause = {Events}
    /\ ~out.result.warned => WellFormed(draft.filter)
    /\ /\ ~out.result.warned
       /\ FormsIn(draft.filter) \cap {"quoted*", "word?", "escaped"} = {}
       => out.result.clause = {Events \ m : m \in Meanings(draft.filter)}

\* docs/design/v0.6-elastic-target.md:231 has a `wildcard` entry of a quoted
\* value with a * in it.
StarsAreWildcards ==
  Exported("export-elastic-exception") /\ ~out.result.warned =>
    \A c \in ToSet(draft.filter) \cap Names :
      Form[c] \in {"word*", "quoted*"} =>
        [type |-> "wildcard", matches |-> c] \in ParseKqlFilter(draft.filter).entries
=============================================================================
