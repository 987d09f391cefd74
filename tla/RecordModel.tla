---------------------------- MODULE RecordModel ----------------------------
(***************************************************************************)
(* The record as it is written and as the model reads it: which YAML is a  *)
(* decision record, and which refs it has.  Keys that decide nothing here, *)
(* formats of ids and dates among them, are taken to be in order.          *)
(***************************************************************************)
EXTENDS Naturals, Sequences

CONSTANTS
  Ref,     \* a ref
  NoRef    \* the empty mapping refresh-hash starts from when there is none

Kinds     == {"sigma", "splunk", "elastic", "kql-sentinel", "kql-m365d"}
Decisions == {"suppress", "accept-risk", "deprecate"}
Statuses  == {"draft", "active", "retired"}

\* single and plural are sets of at most one value: {} is a key not there.
\* The keys of a ref, and whether it is rule_ref(s) or query_ref(s), go with
\* kind; the keys of a tuning with its own kind, or with "sigma".  succession
\* stands for superseded_by or retirement_reason; breaks says that the title
\* or the first 120 characters of the rationale have a line break in them,
\* apart that the filter has none, and white space behind a `not` in front.
Draft(expressions) ==
  [kind     : Kinds \cup {"missing"},
   single   : {{}, {Ref}},
   plural   : {{}, {<< >>}, {<<Ref>>}, {<<Ref, Ref>>}},
   decision : Decisions,
   tuning   : Kinds \cup {"unnamed", "missing"},
   filter   : expressions,
   apart    : BOOLEAN,
   breaks   : BOOLEAN,
   status   : Statuses,
   expires_on : BOOLEAN, retired_on : BOOLEAN, succession : BOOLEAN]

TheOne(s) == CHOOSE x \in s : TRUE

(***************************************************************************)
(* Refs.                                                                   *)
(***************************************************************************)
\* Mutant: the singular key wins.
SingularFirst(d) ==
  IF d.single # {} /\ d.kind \in {"sigma", "splunk"} THEN <<TheOne(d.single)>>
  ELSE IF d.plural # {} THEN TheOne(d.plural)
  ELSE << >>

\* The older singular key of Sigma and Splunk targets stands in for the
\* plural one and is dropped when both are there.
ModelRefs(d) ==
  IF d.plural # {} THEN TheOne(d.plural)
  ELSE IF d.single # {} /\ d.kind \in {"sigma", "splunk"} THEN <<TheOne(d.single)>>
  ELSE << >>

\* refresh-hash reads the YAML, not the model.
RefreshKind(d) == IF d.kind = "missing" THEN "sigma" ELSE d.kind
RefreshRefs(d) ==
  IF d.plural # {} THEN TheOne(d.plural)
  ELSE IF RefreshKind(d) \in {"sigma", "splunk"} THEN
    IF d.single # {} THEN <<TheOne(d.single)>> ELSE <<NoRef>>
  ELSE << >>

(***************************************************************************)
(* What validates.                                                         *)
(***************************************************************************)
ValidTarget(d) ==
  /\ d.kind \in Kinds
  /\ d.single # {} => d.kind \in {"sigma", "splunk"}
  /\ ModelRefs(d) # << >>

\* v0.1 and v0.2 tunings have no kind.
TuningKind(d) == IF d.tuning = "unnamed" THEN "sigma" ELSE d.tuning

\* A native filter must not be blank; a Sigma condition may be.
ValidDecision(d) ==
  IF d.decision = "suppress"
  THEN d.tuning # "missing" /\ (TuningKind(d) # "sigma" => d.filter # << >>)
  ELSE d.tuning = "missing"

ValidLifecycle(d) ==
  /\ d.status = "retired" => d.retired_on
  /\ d.succession => d.status = "retired"

\* Mutant: no check that a tuning is for its target.
ValidUnmatched(d) ==
  /\ ValidTarget(d) /\ ValidDecision(d) /\ ValidLifecycle(d)
  /\ d.status = "active" /\ d.decision # "deprecate" => d.expires_on

Valid(d) ==
  /\ ValidTarget(d) /\ ValidDecision(d) /\ ValidLifecycle(d)
  /\ d.status = "active" /\ d.decision # "deprecate" => d.expires_on
  /\ d.decision = "suppress" => TuningKind(d) = d.kind
=============================================================================
