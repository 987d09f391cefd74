---------------------------- MODULE StrictCheck ----------------------------
(***************************************************************************)
(* `ddr validate --strict` on the record that refresh-hash runs rewrite:   *)
(* load, validate, then compare the hash of each ref with its rule.  The   *)
(* check only reads; everything of RefreshHash may happen between two of   *)
(* its steps.                                                              *)
(***************************************************************************)
EXTENDS RefreshHash

CONSTANTS
  Validators,   \* processes that run validate --strict
  Missing       \* the name of a ref without the key, which does not validate

ASSUME MissingAssumption == Missing \in Nameless

VARIABLES
  vpc,      \* where each validation is, or what it said of the file
  vcopy,    \* the record it has loaded
  vidx,     \* the ref it is at
  warned,   \* refs it has warned about
  \* history:
  vgot,     \* digests each ref's rule has had since it loaded the record
  settled   \* refresh runs that had left the record settled when it loaded,
            \* undisturbed ever since

vlocal == <<vpc, vcopy, vidx, warned>>
vvars  == <<vlocal, vgot, settled>>
allvars == <<vars, vvars>>

\* The fields that DDRRecord.model_validate requires of a ref, of those that
\* a record here can lack; an empty name is a name.
Valid(rec) ==
  \A i \in Refs :
    /\ rec.kind # "sigma" => rec.refs[i].name # Missing
    /\ rec.kind = "sigma" =>
         rec.refs[i].hash # NoDigest /\ rec.refs[i].path # NoPath

\* What the check computes from a content.  Unlike refresh-hash, it has no
\* guard on an empty name, which a Cloud export is not asked for.
ComparedIn(kind, n, c) ==
  IF c[n] = NoQuery \/ (kind # "splunk" /\ ~Uniform(c)) THEN NoDigest ELSE Canon[c[n]]

\* Mutant: every ref is looked up under the first one's name.
ComparedFirst(rec, i, d) ==
  LET p == rec.refs[i].path
  IN  IF p \in Paths THEN ComparedIn(rec.kind, rec.refs[1].name, d[p]) ELSE NoDigest

\* ... for ref i of a record on the rule files d, if its path is a local one.
Compared(rec, i, d) ==
  LET p == rec.refs[i].path
  IN  IF p \in Paths THEN ComparedIn(rec.kind, rec.refs[i].name, d[p]) ELSE NoDigest

VInit ==
  /\ Init
  /\ vpc = [v \in Validators |-> "idle"]
  /\ vcopy = [v \in Validators |-> NoRecord]
  /\ vidx = [v \in Validators |-> 1]
  /\ warned = [v \in Validators |-> {}]
  /\ vgot = [v \in Validators |-> [i \in Refs |-> {}]]
  /\ settled = [v \in Validators |-> {}]

Settled(r) == pc[r] = "ok" /\ calm[r] /\ override[r] = NoPath

\* What a validation says of a file it cannot compare: an empty one is no
\* DDR file ("No DDR records found"), any other is a failure.
VReject(v) ==
  /\ vpc[v] # "refs"
  /\ file \in Records => ~Valid(file)
  /\ vpc' = [vpc EXCEPT ![v] = IF file = NoRecord THEN "none" ELSE "FAIL"]
  /\ vcopy' = [vcopy EXCEPT ![v] = file]
  /\ warned' = [warned EXCEPT ![v] = {}]
  /\ vgot' = [vgot EXCEPT ![v] = [i \in Refs |-> {}]]
  /\ settled' = [settled EXCEPT ![v] = {}]
  /\ UNCHANGED <<vars, vidx>>

\* Mutant: what does not validate is compared, too.
VLoadUnchecked(v) ==
  /\ vpc[v] # "refs"
  /\ file \in Records
  /\ vpc' = [vpc EXCEPT ![v] = IF file.kind = "sigma" THEN "OK" ELSE "refs"]
  /\ vcopy' = [vcopy EXCEPT ![v] = file]
  /\ vidx' = [vidx EXCEPT ![v] = 1]
  /\ warned' = [warned EXCEPT ![v] = {}]
  /\ vgot' = [vgot EXCEPT ![v] = [i \in Refs |-> {Compared(file, i, disk)}]]
  /\ settled' = [settled EXCEPT ![v] = {r \in Runners : Settled(r)}]
  /\ UNCHANGED vars

\* The drift checks look at Splunk, Elastic and KQL targets; each returns at
\* once on any other kind, so no check is made for Sigma.
VLoad(v) ==
  /\ vpc[v] # "refs"
  /\ file \in Records /\ Valid(file)
  /\ vpc' = [vpc EXCEPT ![v] = IF file.kind = "sigma" THEN "OK" ELSE "refs"]
  /\ vcopy' = [vcopy EXCEPT ![v] = file]
  /\ vidx' = [vidx EXCEPT ![v] = 1]
  /\ warned' = [warned EXCEPT ![v] = {}]
  /\ vgot' = [vgot EXCEPT ![v] = [i \in Refs |-> {Compared(file, i, disk)}]]
  /\ settled' = [settled EXCEPT ![v] = {r \in Runners : Settled(r)}]
  /\ UNCHANGED vars

\* Mutant: a rule that cannot be hashed counts as drifted.
DriftsMissing(v) ==
  LET ref == vcopy[v].refs[vidx[v]]
      h   == Compared(vcopy[v], vidx[v], disk)
  IN  ref.hash # NoDigest /\ h # ref.hash

\* No stored hash, no local path, or a rule that cannot be hashed: nothing
\* is said of drift, whatever the reason.
Drifts(v) ==
  LET ref == vcopy[v].refs[vidx[v]]
      h   == Compared(vcopy[v], vidx[v], disk)
  IN  ref.hash # NoDigest /\ h # NoDigest /\ h # ref.hash

\* Mutant: a ref that cannot be checked ends the check.
VCheckRefReturns(v) ==
  /\ vpc[v] = "refs" /\ vidx[v] \in Refs
  /\ warned' = [warned EXCEPT ![v] = IF Drifts(v) THEN @ \cup {vidx[v]} ELSE @]
  /\ vidx' = [vidx EXCEPT ![v] =
       IF Compared(vcopy[v], @, disk) = NoDigest
       THEN NRefs + 1 ELSE @ + 1]
  /\ UNCHANGED <<vars, vpc, vcopy, vgot, settled>>

VCheckRef(v) ==
  /\ vpc[v] = "refs" /\ vidx[v] \in Refs
  /\ warned' = [warned EXCEPT ![v] = IF Drifts(v) THEN @ \cup {vidx[v]} ELSE @]
  /\ vidx' = [vidx EXCEPT ![v] = @ + 1]
  /\ UNCHANGED <<vars, vpc, vcopy, vgot, settled>>

VFinish(v) ==
  /\ vpc[v] = "refs" /\ vidx[v] \notin Refs
  /\ vpc' = [vpc EXCEPT ![v] = "OK"]
  /\ UNCHANGED <<vars, vcopy, vidx, warned, vgot, settled>>

Validate(v) == VReject(v) \/ VLoad(v) \/ VCheckRef(v) \/ VFinish(v)

\* Somebody else moves; what the validations could see is recorded.
World ==
  /\ Next
  /\ vgot' = [v \in Validators |-> [i \in Refs |->
       IF vpc[v] = "refs" /\ disk' # disk
       THEN vgot[v][i] \cup {Compared(vcopy[v], i, disk')}
       ELSE vgot[v][i]]]
  /\ settled' = [v \in Validators |-> {r \in settled[v] : Settled(r)'}]
  /\ UNCHANGED vlocal

VNext == World \/ \E v \in Validators : Validate(v)

VSpec == VInit /\ [][VNext]_allvars

(***************************************************************************)
(* Properties.                                                             *)
(***************************************************************************)

\* Types of the check's state; hashes are compared, and OK is said, of a record
\* that validates only, FAIL of one that does not, or of no record; and warnings
\* are about refs that have been looked at.
VTypeOK ==
  /\ vpc \in [Validators -> {"idle", "refs", "OK", "FAIL", "none"}]
  /\ vcopy \in [Validators -> Records \cup {NoRecord, Spoiled}]
  /\ vidx \in [Validators -> 1 .. NRefs + 1]
  /\ warned \in [Validators -> SUBSET Refs]
  /\ vgot \in [Validators -> [Refs -> SUBSET (Digests \cup {NoDigest})]]
  /\ settled \in [Validators -> SUBSET Runners]
  /\ \A v \in Validators :
       /\ vpc[v] \in {"refs", "OK"} => vcopy[v] \in Records /\ Valid(vcopy[v])
       /\ vpc[v] = "FAIL" => ~(vcopy[v] \in Records /\ Valid(vcopy[v]))
       /\ vpc[v] = "refs" => vcopy[v].kind # "sigma"
       /\ \A i \in warned[v] : i < vidx[v]

\* No false alarm: a warned ref's rule really had another hash than the
\* loaded record's at some moment of the validation.
WarningsAreReal ==
  \A v \in Validators : \A i \in warned[v] :
    vgot[v][i] \ {NoDigest, vcopy[v].refs[i].hash} # {}

\* A drift that lasts for the whole of a validation of a Splunk, Elastic or
\* KQL record is warned about, for every ref: a remote, missing or garbled
\* rule of one ref does not hide the drift of another.
LastingDriftIsWarned ==
  \A v \in Validators : vpc[v] = "OK" /\ vcopy[v].kind # "sigma" =>
    \A i \in Refs :
      /\ vcopy[v].refs[i].hash # NoDigest
      /\ vgot[v][i] \cap {NoDigest, vcopy[v].refs[i].hash} = {}
      => i \in warned[v]

\* A validation that starts after a refresh has exited 0, nobody touching
\* the record or the rules from the start of the refresh to the end of the
\* validation, has nothing to warn about.
QuietAfterRefresh ==
  \A v \in Validators : settled[v] # {} => warned[v] = {}
=============================================================================
