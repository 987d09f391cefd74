-------------------------- MODULE Exporters_proofs --------------------------
(***************************************************************************)
(* Proofs about Exporters, for any names, filters and bounds.              *)
(***************************************************************************)
EXTENDS Exporters, Filters_proofs

(***************************************************************************)
(* refresh-hash and the model read the same refs.                          *)
(***************************************************************************)

\* A record that validates has a kind, and refs under a key both look at.
LEMMA SameRefs ==
  ASSUME NEW d, Valid(d)
  PROVE  RefreshKind(d) = d.kind /\ RefreshRefs(d) = ModelRefs(d)
<1>1. d.kind \in Kinds /\ ModelRefs(d) # << >>
  BY DEF Valid, ValidTarget
<1>2. RefreshKind(d) = d.kind
  BY <1>1 DEF RefreshKind, Kinds
<1>3. CASE d.plural # {}
  BY <1>2, <1>3 DEF RefreshRefs, ModelRefs
<1>4. CASE d.plural = {}
  BY <1>1, <1>2, <1>4 DEF RefreshRefs, ModelRefs
<1> QED  BY <1>2, <1>3, <1>4

\* What refresh-hash, which never validates, rehashes in a valid record are
\* the refs that validate, expire-check and the exporters see.
THEOREM RefsAgree == Spec => []RefreshSeesTheRecord
<1>1. RefreshSeesTheRecord  BY SameRefs DEF RefreshSeesTheRecord
<1> QED  BY <1>1, PTL

(***************************************************************************)
(* No export for another backend.                                          *)
(***************************************************************************)

\* A command that ends with exit code 0 was the right one for the record.
LEMMA ResultIsOwn ==
  ASSUME NEW d, NEW installed, NEW cmd \in Commands,
         Result(cmd, installed, d).exit = 0
  PROVE  /\ Valid(d) /\ d.decision = "suppress"
         /\ cmd \in CommandsFor(d.kind)
<1>1. Refused.exit # 0  BY DEF Refused
<1>2. Valid(d)  BY <1>1 DEF Result
<1>3. d.kind \in Kinds  BY <1>2 DEF Valid, ValidTarget
<1>4. CASE cmd = "export-sigma-filter"
  <2>1. Result(cmd, installed, d) = SigmaFilterOf(d)  BY <1>2, <1>4 DEF Result
  <2>2. d.kind = "sigma" /\ d.decision = "suppress"  BY <1>1, <2>1 DEF SigmaFilterOf
  <2> QED  BY <1>2, <1>4, <2>2 DEF CommandsFor, KqlKinds
<1>5. CASE cmd = "export-splunk"
  <2>1. Result(cmd, installed, d) = SplunkOf(d, installed)  BY <1>2, <1>5 DEF Result
  <2>2. /\ d.decision = "suppress"
        /\ d.kind = "splunk" \/ TuningKind(d) = "sigma"
    BY <1>1, <2>1 DEF SplunkOf
  <2>3. d.kind \in {"sigma", "splunk"}  BY <1>2, <2>2 DEF Valid
  <2> QED  BY <1>2, <1>5, <2>2, <2>3 DEF CommandsFor, KqlKinds
<1>6. CASE cmd = "export-elastic-exception"
  <2>1. Result(cmd, installed, d) = ElasticOf(d)  BY <1>2, <1>6 DEF Result
  <2>2. d.kind = "elastic" /\ d.decision = "suppress"  BY <1>1, <2>1 DEF ElasticOf
  <2> QED  BY <1>2, <1>6, <2>2 DEF CommandsFor, KqlKinds
<1>7. CASE cmd = "export-kql"
  <2>1. Result(cmd, installed, d) = KqlOf(d)  BY <1>2, <1>7 DEF Result
  <2>2. d.kind \in KqlKinds /\ d.decision = "suppress"  BY <1>1, <2>1 DEF KqlOf
  <2> QED  BY <1>2, <1>7, <2>2 DEF CommandsFor, KqlKinds
<1> QED  BY <1>4, <1>5, <1>6, <1>7 DEF Commands

\* The last export is one of the draft as it stands.
ExportInv ==
  out # NoExport =>
    /\ out.cmd \in Commands
    /\ out.result = Result(out.cmd, out.installed, draft)

\* Whatever is edited and exported in whatever order, there is no export that
\* the draft did not bring about.
LEMMA LastExport == Spec => []ExportInv
<1>1. Init => ExportInv  BY DEF Init, ExportInv
<1>2. ExportInv /\ [Next]_vars => ExportInv'
  <2> SUFFICES ASSUME ExportInv, [Next]_vars  PROVE ExportInv'
    OBVIOUS
  <2>1. ASSUME NEW d, Edited(d)  PROVE ExportInv'
    BY <2>1 DEF Edited, ExportInv
  <2>2. CASE EditField  BY <2>1, <2>2 DEF EditField
  <2>3. CASE EditFilter  BY <2>1, <2>3 DEF EditFilter
  <2>4. ASSUME NEW cmd \in Commands, NEW installed, Export(cmd, installed)
        PROVE  ExportInv'
    <3>1. /\ draft' = draft /\ out'.cmd = cmd /\ out'.installed = installed
          /\ out'.result = Result(cmd, installed, draft)
      BY <2>4 DEF Export
    <3> QED  BY <3>1 DEF ExportInv
  <2>5. CASE UNCHANGED vars  BY <2>5 DEF vars, ExportInv
  <2>6. "export-splunk" \in Commands  BY DEF Commands
  <2> QED  BY <2>2, <2>3, <2>4, <2>5, <2>6 DEF Next
<1> QED  BY <1>1, <1>2, PTL DEF Spec

\* Whatever is edited and exported in whatever order, an exclusion is only
\* ever emitted from a valid suppression, in the language of its backend.
THEOREM ExportsAreOwn == Spec => []NoForeignExport
<1>1. ExportInv => NoForeignExport
  BY ResultIsOwn DEF ExportInv, NoForeignExport
<1> QED  BY <1>1, LastExport, PTL

(***************************************************************************)
(* Types.                                                                  *)
(***************************************************************************)
LEMMA OneToken ==
  ASSUME NEW tok \in Tokens
  PROVE  <<tok>> \in Seq(Tokens)
OBVIOUS

\* A scaffold that grows by an operator and another one is one of tokens.
LEMMA Longer ==
  ASSUME NEW t \in Seq(Tokens), NEW o \in Seq(Tokens), NEW op \in Tokens
  PROVE  t \o <<op>> \o o \in Seq(Tokens)
<1>1. PICK one \in Seq(Tokens) : one = <<op>>  BY OneToken
<1>2. PICK u \in Seq(Tokens) : u = t \o one  BY ConcatProperties
<1>3. u \o o \in Seq(Tokens)  BY ConcatProperties
<1> QED  BY <1>1, <1>2, <1>3

\* So is what a slip leaves of it.
LEMMA TokenTooFew ==
  ASSUME NEW t \in Seq(Tokens), NEW i \in DOMAIN t
  PROVE  RemoveAt(t, i) \in Seq(Tokens)
<1>1. PICK n \in Nat : n = Len(t) /\ DOMAIN t = 1..n  BY LenProperties
<1>2. PICK k \in 0..n : k = i - 1  BY <1>1
<1>3. PICK a \in Seq(Tokens) : a = SubSeq(t, 1, i - 1)
  <2>1. SubSeq(t, 1, k) \in Seq(Tokens)  BY <1>1, <1>2, FirstPart
  <2> QED  BY <1>2, <2>1
<1>4. PICK b \in Seq(Tokens) : b = SubSeq(t, i + 1, Len(t))
  <2>1. PICK j \in 0..n : j = i  BY <1>1
  <2>2. SubSeq(t, j + 1, Len(t)) \in Seq(Tokens)  BY <1>1, LastPart
  <2> QED  BY <2>1, <2>2
<1>5. a \o b \in Seq(Tokens)  BY ConcatProperties
<1> QED  BY <1>3, <1>4, <1>5 DEF RemoveAt

\* What is made of a filter is an expression, if not always a sound one.
LEMMA EditedFilter ==
  ASSUME NEW t \in Seq(Tokens)
  PROVE  MadeOf(t) \subseteq Seq(Tokens)
<1>0. {"not", "(", ")"} \subseteq Tokens  BY DEF Tokens
<1>1. PICK no \in Seq(Tokens) : no = <<"not">>  BY <1>0, OneToken
<1>2. PICK open \in Seq(Tokens) : open = <<"(">>  BY <1>0, OneToken
<1>3. PICK close \in Seq(Tokens) : close = <<")">>  BY <1>0, OneToken
<1>4. no \o t \in Seq(Tokens)  BY ConcatProperties
<1>5. PICK u \in Seq(Tokens) : u = open \o t  BY ConcatProperties
<1>6. u \o close \in Seq(Tokens)  BY ConcatProperties
<1>7. ASSUME NEW op \in {"and", "or"}, NEW o \in Operands
      PROVE  t \o <<op>> \o o \in Seq(Tokens)
  <2>1. op \in Tokens /\ o \in Seq(Tokens)  BY FiltersAssumption DEF Tokens
  <2> QED  BY <2>1, Longer
<1>8. <<"not">> \o t \in Seq(Tokens) /\ <<"(">> \o t \o <<")">> \in Seq(Tokens)
  BY <1>1, <1>2, <1>3, <1>4, <1>5, <1>6
<1>9. \A i \in DOMAIN t : RemoveAt(t, i) \in Seq(Tokens)  BY TokenTooFew
<1>10. ASSUME NEW f \in MadeOf(t)  PROVE f \in Seq(Tokens)
  <2>1. \/ f \in {<<"not">> \o t, <<"(">> \o t \o <<")">>}
        \/ f \in {t \o <<"and">> \o o : o \in Operands}
        \/ f \in {t \o <<"or">> \o o : o \in Operands}
        \/ f \in {RemoveAt(t, i) : i \in DOMAIN t}
    BY Zenon DEF MadeOf
  <2>2. CASE f \in {<<"not">> \o t, <<"(">> \o t \o <<")">>}
    BY <1>8, <2>2
  <2>3. CASE f \in {t \o <<"and">> \o o : o \in Operands}
    <3>1. PICK o \in Operands : f = t \o <<"and">> \o o  BY <2>3, Zenon
    <3> QED  BY <1>7, <3>1
  <2>4. CASE f \in {t \o <<"or">> \o o : o \in Operands}
    <3>1. PICK o \in Operands : f = t \o <<"or">> \o o  BY <2>4, Zenon
    <3> QED  BY <1>7, <3>1
  <2>5. CASE f \in {RemoveAt(t, i) : i \in DOMAIN t}
    <3>1. PICK i \in DOMAIN t : f = RemoveAt(t, i)  BY <2>5, Zenon
    <3> QED  BY <1>9, <3>1
  <2> QED  BY <2>1, <2>2, <2>3, <2>4, <2>5, Zenon
<1> QED  BY <1>10

DraftInv ==
  draft \in Draft(Seq(Tokens)) /\ Len(draft.filter) <= MaxTokens

\* The record stays one that can be written, the filter in it an expression.
LEMMA DraftsAreRecords == Spec => []DraftInv
<1>1. Init => DraftInv
  <2> SUFFICES ASSUME Init  PROVE DraftInv  OBVIOUS
  <2>1. PICK k \in Kinds, f \in FirstFilters : draft = Scaffold(k, f, TRUE)
    BY DEF Init
  <2>2. f \in Seq(Tokens) /\ Len(f) <= MaxTokens  BY FiltersAssumption
  <2>4. draft.filter = f  BY <2>1 DEF Scaffold
  <2>5. draft \in Draft(Seq(Tokens))
    BY <2>1, <2>2 DEF Scaffold, Draft, Kinds, Decisions, Statuses
  <2> QED  BY <2>2, <2>4, <2>5 DEF DraftInv
<1>2. DraftInv /\ [Next]_vars => DraftInv'
  <2> SUFFICES ASSUME DraftInv, [Next]_vars  PROVE DraftInv'
    OBVIOUS
  <2>0. /\ draft \in Draft(Seq(Tokens)) /\ draft.filter \in Seq(Tokens)
        /\ Len(draft.filter) <= MaxTokens
    BY DEF DraftInv, Draft
  <2>1. ASSUME NEW d, Edited(d), d \in Draft(Seq(Tokens)), d.filter = draft.filter
        PROVE  DraftInv'
    BY <2>0, <2>1 DEF Edited, DraftInv
  <2>2. CASE EditField
    <3>1. ASSUME NEW k \in Kinds \cup {"missing"}, Edited([draft EXCEPT !.kind = k])
          PROVE  DraftInv'
      <4>1. PICK d : d = [draft EXCEPT !.kind = k]  OBVIOUS
      <4>2. d \in Draft(Seq(Tokens)) /\ d.filter = draft.filter  BY <2>0, <4>1 DEF Draft, Decisions
      <4> QED  BY <2>1, <3>1, <4>1, <4>2
    <3>2. ASSUME NEW s \in {{}, {Ref}}, Edited([draft EXCEPT !.single = s])
          PROVE  DraftInv'
      <4>1. PICK d : d = [draft EXCEPT !.single = s]  OBVIOUS
      <4>2. d \in Draft(Seq(Tokens)) /\ d.filter = draft.filter  BY <2>0, <4>1 DEF Draft, Decisions
      <4> QED  BY <2>1, <3>2, <4>1, <4>2
    <3>3. ASSUME NEW s \in {{}, {<< >>}, {<<Ref>>}, {<<Ref, Ref>>}},
                 Edited([draft EXCEPT !.plural = s])
          PROVE  DraftInv'
      <4>1. PICK d : d = [draft EXCEPT !.plural = s]  OBVIOUS
      <4>2. d \in Draft(Seq(Tokens)) /\ d.filter = draft.filter  BY <2>0, <4>1 DEF Draft, Decisions
      <4> QED  BY <2>1, <3>3, <4>1, <4>2
    <3>4. ASSUME NEW dec \in Decisions, NEW k \in Kinds \cup {"unnamed", "missing"},
                 Edited([draft EXCEPT !.decision = dec, !.tuning = k])
          PROVE  DraftInv'
      <4>1. PICK e : e = [draft EXCEPT !.decision = dec]  OBVIOUS
      <4>2. e \in Draft(Seq(Tokens)) /\ e.filter = draft.filter
        BY <2>0, <4>1 DEF Draft
      <4>3. PICK d : d = [e EXCEPT !.tuning = k]  OBVIOUS
      <4>4. d \in Draft(Seq(Tokens)) /\ d.filter = draft.filter
        BY <4>2, <4>3 DEF Draft
      <4>5. d = [draft EXCEPT !.decision = dec, !.tuning = k]
        BY <2>0, <4>1, <4>3 DEF Draft
      <4> QED  BY <2>1, <3>4, <4>4, <4>5
    <3>5. ASSUME NEW s \in Statuses, Edited([draft EXCEPT !.status = s])
          PROVE  DraftInv'
      <4>1. PICK d : d = [draft EXCEPT !.status = s]  OBVIOUS
      <4>2. d \in Draft(Seq(Tokens)) /\ d.filter = draft.filter  BY <2>0, <4>1 DEF Draft, Decisions
      <4> QED  BY <2>1, <3>5, <4>1, <4>2
    <3>6. ASSUME NEW field \in {"expires_on", "retired_on", "succession", "breaks", "apart"},
                 Edited([draft EXCEPT ![field] = ~@])
          PROVE  DraftInv'
      <4>1. PICK d : d = [draft EXCEPT ![field] = ~@]  OBVIOUS
      <4>2. PICK z \in Draft(Seq(Tokens)) : z = draft  BY <2>0
      <4>3. CASE field = "expires_on"
        <5>1. d = [z EXCEPT !.expires_on = ~@]  BY <4>1, <4>2, <4>3
        <5>2. d \in Draft(Seq(Tokens)) /\ d.filter = z.filter  BY <5>1 DEF Draft
        <5> QED  BY <2>1, <3>6, <4>1, <4>2, <5>2
      <4>4. CASE field = "retired_on"
        <5>1. d = [z EXCEPT !.retired_on = ~@]  BY <4>1, <4>2, <4>4
        <5>2. d \in Draft(Seq(Tokens)) /\ d.filter = z.filter  BY <5>1 DEF Draft
        <5> QED  BY <2>1, <3>6, <4>1, <4>2, <5>2
      <4>5. CASE field = "succession"
        <5>1. d = [z EXCEPT !.succession = ~@]  BY <4>1, <4>2, <4>5
        <5>2. d \in Draft(Seq(Tokens)) /\ d.filter = z.filter  BY <5>1 DEF Draft
        <5> QED  BY <2>1, <3>6, <4>1, <4>2, <5>2
      <4>6. CASE field = "breaks"
        <5>1. d = [z EXCEPT !.breaks = ~@]  BY <4>1, <4>2, <4>6
        <5>2. d \in Draft(Seq(Tokens)) /\ d.filter = z.filter  BY <5>1 DEF Draft
        <5> QED  BY <2>1, <3>6, <4>1, <4>2, <5>2
      <4>7. CASE field = "apart"
        <5>1. d = [z EXCEPT !.apart = ~@]  BY <4>1, <4>2, <4>7
        <5>2. d \in Draft(Seq(Tokens)) /\ d.filter = z.filter  BY <5>1 DEF Draft
        <5> QED  BY <2>1, <3>6, <4>1, <4>2, <5>2
      <4> QED  BY <3>6, <4>3, <4>4, <4>5, <4>6, <4>7
    <3> QED  BY <2>2, <3>1, <3>2, <3>3, <3>4, <3>5, <3>6 DEF EditField
  <2>3. CASE EditFilter
    <3>1. ASSUME NEW f \in Seq(Tokens), Len(f) <= MaxTokens,
                 Edited([draft EXCEPT !.filter = f])
          PROVE  DraftInv'
      <4>1. PICK d : d = [draft EXCEPT !.filter = f]  OBVIOUS
      <4>3. d \in Draft(Seq(Tokens)) /\ d.filter = f  BY <2>0, <4>1 DEF Draft
      <4>4. draft' = d  BY <3>1, <4>1 DEF Edited
      <4> QED  BY <3>1, <4>3, <4>4 DEF DraftInv
    <3>3. PICK f \in FirstFilters
                    \cup (IF WellFormed(draft.filter) THEN MadeOf(draft.filter) ELSE {}) :
            Len(f) <= MaxTokens /\ Edited([draft EXCEPT !.filter = f])
      BY <2>3 DEF EditFilter
    <3>4. MadeOf(draft.filter) \subseteq Seq(Tokens)  BY <2>0, EditedFilter
    <3>5. f \in Seq(Tokens)  BY <3>3, <3>4, FiltersAssumption
    <3> QED  BY <3>1, <3>3, <3>5
  <2>4. ASSUME NEW cmd, NEW installed, Export(cmd, installed)  PROVE DraftInv'
    BY <2>0, <2>4 DEF Export, DraftInv
  <2>5. CASE UNCHANGED vars  BY <2>0, <2>5 DEF vars, DraftInv
  <2> QED  BY <2>2, <2>3, <2>4, <2>5 DEF Next
<1> QED  BY <1>1, <1>2, PTL DEF Spec

(***************************************************************************)
(* What validates ships.                                                   *)
(***************************************************************************)

\* Validation asks for all that an exporter asks for, except that a Sigma
\* condition can be compiled.
LEMMA ValidShips ==
  ASSUME NEW d, Valid(d), d.decision = "suppress",
         NEW cmd, cmd \in CommandsFor(d.kind), NEW installed, installed,
         d.kind = "sigma" /\ cmd = "export-splunk"
           => SplunkClauseOfSigma(d.filter, d.apart) # {}
  PROVE  Result(cmd, installed, d).exit = 0
<1>1. /\ d.kind \in Kinds /\ TuningKind(d) = d.kind
  BY DEF Valid, ValidTarget
<1>2. \A clause, warned : Emitted(clause, warned).exit = 0  BY DEF Emitted
<1>3. CASE d.kind = "sigma"
  <2>1. cmd \in {"export-sigma-filter", "export-splunk"}
    BY <1>3 DEF CommandsFor, KqlKinds
  <2>2. CASE cmd = "export-sigma-filter"
    <3>1. Result(cmd, installed, d) = SigmaFilterOf(d)  BY <2>2 DEF Result
    <3> QED  BY <1>1, <1>2, <1>3, <3>1 DEF SigmaFilterOf
  <2>3. CASE cmd = "export-splunk"
    <3>1. Result(cmd, installed, d) = SplunkOf(d, installed)  BY <2>3 DEF Result
    <3>2. EmittedIf(SplunkClauseOfSigma(d.filter, d.apart), ~StripNot(d.filter, d.apart).had).exit = 0
      BY <1>2, <1>3, <2>3 DEF EmittedIf
    <3> QED  BY <1>1, <1>3, <3>1, <3>2 DEF SplunkOf
  <2> QED  BY <2>1, <2>2, <2>3
<1>4. CASE d.kind = "splunk"
  <2>1. cmd = "export-splunk"  BY <1>4 DEF CommandsFor, KqlKinds
  <2>2. Result(cmd, installed, d) = SplunkOf(d, installed)  BY <2>1 DEF Result
  <2> QED  BY <1>1, <1>2, <1>4, <2>2 DEF SplunkOf
<1>5. CASE d.kind = "elastic"
  <2>1. cmd = "export-elastic-exception"  BY <1>5 DEF CommandsFor, KqlKinds
  <2>2. Result(cmd, installed, d) = ElasticOf(d)  BY <2>1 DEF Result
  <2> QED  BY <1>1, <1>2, <1>5, <2>2 DEF ElasticOf
<1>6. CASE d.kind \in KqlKinds
  <2>1. cmd = "export-kql"  BY <1>6 DEF CommandsFor, KqlKinds
  <2>2. Result(cmd, installed, d) = KqlOf(d)  BY <2>1 DEF Result
  <2> QED  BY <1>1, <1>2, <1>6, <2>2 DEF KqlOf
<1> QED  BY <1>1, <1>3, <1>4, <1>5, <1>6 DEF Kinds, KqlKinds

\* Whatever is edited and exported in whatever order, each command for the
\* backend of a record that validates as a suppression emits it: no exporter
\* has a guard that check_record_constraints and its kin do not imply, but
\* pySigma, and it has none for a name or group, negated or not negated.
THEOREM ValidSuppressionsShip == Spec => []SuppressionsShip
<1>1. DraftInv /\ ExportInv => SuppressionsShip
  <2> SUFFICES ASSUME DraftInv, ExportInv,
                      Valid(draft), draft.decision = "suppress", out # NoExport,
                      out.cmd \in CommandsFor(draft.kind), out.installed,
                      draft.kind = "sigma" /\ out.cmd = "export-splunk"
                        => IsListed(draft.filter)
               PROVE  out.result.exit = 0
    BY DEF SuppressionsShip
  <2>1. PICK t \in Seq(Tokens) : t = draft.filter  BY DEF DraftInv, Draft
  <2>2. ASSUME IsListed(t)  PROVE SplunkClauseOfSigma(t, draft.apart) # {}
    BY <2>2, NegationCompiles DEF IsListed
  <2>3. out.result = Result(out.cmd, out.installed, draft)  BY DEF ExportInv
  <2>4. Result(out.cmd, out.installed, draft).exit = 0
    BY <2>1, <2>2, ValidShips
  <2> QED  BY <2>3, <2>4
<1> QED  BY <1>1, LastExport, DraftsAreRecords, PTL

(***************************************************************************)
(* What an export that succeeds has in it.                                 *)
(***************************************************************************)
LEMMA EmittedClause ==
  ASSUME NEW d, NEW installed, NEW cmd, Result(cmd, installed, d).exit = 0
  PROVE  /\ cmd = "export-splunk" /\ d.kind = "sigma" =>
              /\ Result(cmd, installed, d).clause = SplunkClauseOfSigma(d.filter, d.apart)
              /\ SplunkClauseOfSigma(d.filter, d.apart) # {}
         /\ cmd = "export-splunk" /\ d.kind = "splunk" =>
              Result(cmd, installed, d).clause = SplunkClause(d.filter)
         /\ cmd = "export-kql" /\ ~d.breaks =>
              Result(cmd, installed, d).clause = KqlClause(d.filter)
         /\ cmd = "export-elastic-exception" =>
              /\ Result(cmd, installed, d).clause = ElasticClause(d.filter)
              /\ Result(cmd, installed, d).warned = ParseKqlFilter(d.filter).manual
<1>1. Refused.exit # 0  BY DEF Refused
<1>2. \A clause, warned : /\ Emitted(clause, warned).clause = clause
                          /\ Emitted(clause, warned).warned = warned
  BY DEF Emitted
<1>3. CASE cmd = "export-splunk"
  <2>1. Result(cmd, installed, d) = SplunkOf(d, installed)
    BY <1>1, <1>3 DEF Result
  <2>2. CASE d.kind = "sigma"
    <3>1. Result(cmd, installed, d) =
            EmittedIf(SplunkClauseOfSigma(d.filter, d.apart), ~StripNot(d.filter, d.apart).had)
      BY <1>1, <2>1, <2>2 DEF SplunkOf
    <3> QED  BY <1>1, <1>2, <1>3, <2>2, <3>1 DEF EmittedIf
  <2>3. CASE d.kind = "splunk"
    <3>1. Result(cmd, installed, d) = Emitted(SplunkClause(d.filter), FALSE)
      BY <1>1, <2>1, <2>3 DEF SplunkOf
    <3>2. Result(cmd, installed, d).clause = SplunkClause(d.filter)
      BY <1>2, <3>1
    <3> QED  BY <1>3, <2>3, <3>2, Zenon
  <2> QED  BY <1>3, <2>2, <2>3
<1>4. CASE cmd = "export-kql"
  <2>1. Result(cmd, installed, d) = KqlOf(d)  BY <1>1, <1>4 DEF Result
  <2>2. ASSUME ~d.breaks  PROVE Result(cmd, installed, d) = Emitted(KqlClause(d.filter), FALSE)
    BY <1>1, <2>1, <2>2 DEF KqlOf
  <2> QED  BY <1>2, <1>4, <2>2
<1>5. CASE cmd = "export-elastic-exception"
  <2>1. Result(cmd, installed, d) = ElasticOf(d)  BY <1>1, <1>5 DEF Result
  <2>2. Result(cmd, installed, d) =
          Emitted(ElasticClause(d.filter), ParseKqlFilter(d.filter).manual)
    BY <1>1, <2>1 DEF ElasticOf
  <2> QED  BY <1>2, <1>5, <2>2
<1> QED  BY <1>3, <1>4, <1>5

\* An exporter succeeds or exits 1.
LEMMA ExitCodes ==
  ASSUME NEW d, NEW installed, NEW cmd \in Commands
  PROVE  Result(cmd, installed, d).exit \in {0, 1}
<1>1. Refused.exit = 1 /\ \A clause, warned : Emitted(clause, warned).exit = 0
  BY DEF Refused, Emitted
<1>2. CASE ~Valid(d)  BY <1>1, <1>2 DEF Result
<1>3. CASE Valid(d) /\ cmd = "export-sigma-filter"
  BY <1>1, <1>3 DEF Result, SigmaFilterOf
<1>4. CASE Valid(d) /\ cmd = "export-splunk"
  BY <1>1, <1>4 DEF Result, SplunkOf, EmittedIf
<1>5. CASE Valid(d) /\ cmd = "export-elastic-exception"
  BY <1>1, <1>5 DEF Result, ElasticOf
<1>6. CASE Valid(d) /\ cmd = "export-kql"
  BY <1>1, <1>6 DEF Result, KqlOf
<1> QED  BY <1>2, <1>3, <1>4, <1>5, <1>6 DEF Commands

\* The record stays one that can be written, and SPL that was compiled from
\* a Sigma condition means something, and only one thing: the grammar is not
\* ambiguous, whatever build_spl makes of a `not` in front.
THEOREM TypeCorrect == Spec => []TypeOK
<1>1. DraftInv /\ ExportInv => TypeOK
  <2> SUFFICES ASSUME DraftInv, ExportInv  PROVE TypeOK  OBVIOUS
  <2>1. draft.filter \in Seq(Tokens)  BY DEF DraftInv, Draft
  <2>2. ASSUME out # NoExport
        PROVE  out.cmd \in Commands /\ out.result.exit \in {0, 1}
    BY <2>2, ExitCodes DEF ExportInv
  <2>3. ASSUME out # NoExport, out.result.exit = 0,
               out.cmd = "export-splunk", draft.kind = "sigma"
        PROVE  \E m \in SUBSET Events : out.result.clause = {m}
    <3>1. PICK cmd, installed : /\ cmd = out.cmd /\ installed = out.installed
                                /\ out.result = Result(cmd, installed, draft)
      BY <2>3 DEF ExportInv
    <3>2. /\ out.result.clause = SplunkClauseOfSigma(draft.filter, draft.apart)
          /\ SplunkClauseOfSigma(draft.filter, draft.apart) # {}
      BY <2>3, <3>1, EmittedClause
    <3>3. PICK t \in Seq(Tokens) : t = draft.filter  BY <2>1
    <3>4. \E m \in SUBSET Events : SplunkClauseOfSigma(t, draft.apart) = {m}
      BY <3>2, <3>3, SigmaClauseOne
    <3> QED  BY <3>2, <3>3, <3>4
  <2> QED  BY <2>2, <2>3 DEF TypeOK, DraftInv
<1> QED  BY <1>1, LastExport, DraftsAreRecords, PTL

(***************************************************************************)
(* What the exports mean.                                                  *)
(***************************************************************************)

\* The SPL compiled from a Sigma condition is true of the events that the
\* condition is true of, whatever the condition, if a `not` in front of it
\* negates all there is: taking off its parentheses changes nothing then.
THEOREM SplMeansTheCondition == Spec => []SameEventsInSpl
<1>1. DraftInv /\ ExportInv => SameEventsInSpl
  <2> SUFFICES ASSUME DraftInv, ExportInv, Exported("export-splunk"),
                      draft.kind = "sigma", WellFormed(draft.filter),
                      draft.filter[1] = "not" => IsUnary(draft.filter)
               PROVE  out.result.clause = Meanings(draft.filter)
    BY DEF SameEventsInSpl
  <2>1. PICK t \in Seq(Tokens) : t = draft.filter  BY DEF DraftInv, Draft
  <2>2. PICK cmd, installed : /\ cmd = "export-splunk" /\ installed = out.installed
                              /\ out.result = Result(cmd, installed, draft)
                              /\ Result(cmd, installed, draft).exit = 0
    BY DEF ExportInv, Exported
  <2>3. out.result.clause = SplunkClauseOfSigma(t, draft.apart) /\ SplunkClauseOfSigma(t, draft.apart) # {}
    BY <2>1, <2>2, EmittedClause
  <2>4. WellFormed(t) /\ (t[1] = "not" => IsUnary(t))  BY <2>1
  <2>5. SplunkClauseOfSigma(t, draft.apart) = Meanings(t)  BY <2>3, <2>4, SigmaClause
  <2> QED  BY <2>1, <2>3, <2>5
<1> QED  BY <1>1, LastExport, DraftsAreRecords, PTL

\* The clause made of a native filter is false of the events the filter
\* describes and of no others, whatever the filter: it stays one piece
\* under the NOT that is put before it.
THEOREM NativeClausesAreExact == Spec => []ExactlyTheFalsePositives
<1>1. DraftInv /\ ExportInv => ExactlyTheFalsePositives
  <2> SUFFICES ASSUME DraftInv, ExportInv,
                      Exported("export-kql") \/ (Exported("export-splunk") /\ draft.kind = "splunk"),
                      WellFormed(draft.filter), ~draft.breaks,
                      draft.kind = "splunk" /\ draft.filter[1] = "not" /\ draft.filter[2] = "("
                        => IsUnary(draft.filter)
               PROVE  out.result.clause =
                        {Events \ m : m \in Meanings(FalsePositives(draft.filter))}
    BY DEF ExactlyTheFalsePositives
  <2>1. PICK t \in Seq(Tokens) : t = draft.filter  BY DEF DraftInv, Draft
  <2>2. PICK cmd, installed : /\ cmd = out.cmd /\ installed = out.installed
                              /\ cmd \in Commands
                              /\ out.result = Result(cmd, installed, draft)
                              /\ Result(cmd, installed, draft).exit = 0
    BY DEF ExportInv, Exported
  <2>3. CASE cmd = "export-kql"
    <3>1. draft.kind # "splunk"
      <4>1. "export-kql" \in CommandsFor(draft.kind)  BY <2>2, <2>3, ResultIsOwn
      <4> QED  BY <4>1 DEF CommandsFor, KqlKinds
    <3>2. FalsePositives(draft.filter) = t  BY <2>1, <3>1 DEF FalsePositives
    <3>3. out.result.clause = KqlClause(t)  BY <2>1, <2>2, <2>3, EmittedClause
    <3>4. WellFormed(t)  BY <2>1
    <3> QED  BY <3>2, <3>3, <3>4, KqlClauseIs
  <2>4. CASE cmd = "export-splunk" /\ draft.kind = "splunk"
    <3>1. out.result.clause = SplunkClause(t)  BY <2>1, <2>2, <2>4, EmittedClause
    <3>2. CASE t[1] = "not" /\ t[2] = "("
      <4>1. FalsePositives(draft.filter) = SubSeq(t, 3, Len(t) - 1)
        BY <2>1, <2>4, <3>2 DEF FalsePositives
      <4>2. IsUnary(t)  BY <2>1, <2>4, <3>2
      <4>3. SplunkClause(t) = {Events \ m : m \in Meanings(SubSeq(t, 3, Len(t) - 1))}
        BY <3>2, <4>2, SplunkClauseWithNot
      <4> QED  BY <3>1, <4>1, <4>3
    <3>3. CASE ~(t[1] = "not" /\ t[2] = "(")
      <4>1. FalsePositives(draft.filter) = t  BY <2>1, <3>3 DEF FalsePositives
      <4>2. WellFormed(t)  BY <2>1
      <4>3. SplunkClause(t) = {Events \ m : m \in Meanings(t)}
        BY <3>3, <4>2, SplunkClauseWithout
      <4> QED  BY <3>1, <4>1, <4>3
    <3> QED  BY <3>2, <3>3
  <2> QED  BY <2>2, <2>3, <2>4 DEF Exported
<1> QED  BY <1>1, LastExport, DraftsAreRecords, PTL

\* An exception item that is left to be filled in excludes nothing.  Another
\* one excludes the events its filter is true of, if that is an `and` of plain
\* values, quoted or not, and of wildcards that are not quoted.
THEOREM ItemsAreExact == Spec => []EntriesOrManual
<1>1. DraftInv /\ ExportInv => EntriesOrManual
  <2> SUFFICES ASSUME DraftInv, ExportInv, Exported("export-elastic-exception")
               PROVE  /\ out.result.warned => out.result.clause = {Events}
                      /\ ~out.result.warned => WellFormed(draft.filter)
                      /\ /\ ~out.result.warned
                         /\ FormsIn(draft.filter) \cap {"quoted*", "word?", "escaped"} = {}
                         => out.result.clause = {Events \ m : m \in Meanings(draft.filter)}
    BY DEF EntriesOrManual
  <2>1. PICK t \in Seq(Tokens) : t = draft.filter  BY DEF DraftInv, Draft
  <2>2. PICK cmd, installed : /\ cmd = "export-elastic-exception" /\ installed = out.installed
                              /\ out.result = Result(cmd, installed, draft)
                              /\ Result(cmd, installed, draft).exit = 0
    BY DEF ExportInv, Exported
  <2>3. /\ out.result.clause = ElasticClause(t)
        /\ out.result.warned = ParseKqlFilter(t).manual
    BY <2>1, <2>2, EmittedClause
  <2>4. ASSUME FormsIn(t) \cap {"quoted*", "word?", "escaped"} = {}
        PROVE  EntriesFit(t)
    <3>1. ASSUME NEW c \in ToSet(t) \cap Names, Form[c] # "other"
          PROVE  Entry(c).matches = c
      <4>1. Form[c] \in Forms  BY FormAssumption
      <4>2. Form[c] \notin {"quoted*", "word?", "escaped"}
        BY <2>4, <3>1 DEF FormsIn
      <4>3. Form[c] \in {"word", "word*", "quoted"}  BY <3>1, <4>1, <4>2 DEF Forms
      <4>4. EntryType(c) \in KqlReading(c)  BY <4>3 DEF EntryType, KqlReading
      <4> QED  BY <4>4 DEF Entry
    <3> QED  BY <3>1 DEF EntriesFit
  <2> QED  BY <2>1, <2>3, <2>4, ElasticClauseIs
<1> QED  BY <1>1, LastExport, DraftsAreRecords, PTL
=============================================================================
