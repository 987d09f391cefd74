---------------------------- MODULE RefreshHash ----------------------------
(***************************************************************************)
(* `ddr refresh-hash`: one record file pins each of its rules by the hash  *)
(* of the rule's canonical text; a run of the command loads the record,    *)
(* hashes the rules one by one and, if a hash changed, truncates the file  *)
(* and dumps the record back.  Runs (people, CI, an editor task) share the *)
(* file and the rule sources with no lock, and a run can be killed.        *)
(*                                                                         *)
(* A path is the file it resolves to.  A content of a rule file is what a  *)
(* ref called n finds in it: a conf file answers by stanza name, a rule    *)
(* file or a Cloud export gives the same query whatever the name, and a    *)
(* file that is missing, garbled or has no such stanza gives NoQuery.      *)
(***************************************************************************)
EXTENDS Naturals

CONSTANTS
  NRefs,        \* how many refs the record lists
  Names,        \* stanza names a ref may carry
  Nameless,     \* of them, the missing name and the empty one
  Paths,        \* local rule files
  Remote,       \* an http(s) path_or_url
  NoPath,       \* no path_or_url, or no --rule / --conf override
  Queries,      \* rule texts
  NoQuery,      \* nothing a hash can be computed from
  Digests,      \* hashes
  NoDigest,     \* no hash
  Canon,        \* canonicalise and hash: cosmetic variants share a digest
  Contents,     \* what a rule file may hold
  Bodies,       \* the curated rest of the record
  Repoints,     \* what the author may change a path_or_url to
  InitRecords,  \* the records the file may start with
  NoRecord,     \* an empty file; a process that holds no record
  Spoiled,      \* a file holding the tails of two dumps
  Runners       \* processes that run refresh-hash

Refs  == 1 .. NRefs
Kinds == {"sigma", "splunk", "elastic", "kql-sentinel", "kql-m365d"}
Forms == {"singular", "plural"}
Ref   == [name : Names, path : Paths \cup {Remote, NoPath},
          hash : Digests \cup {NoDigest}]
Records == [kind : Kinds, form : Forms, body : Bodies, refs : [Refs -> Ref]]

ASSUME SizesAssumption == NRefs \in Nat \ {0} /\ Nameless \subseteq Names
ASSUME MarksAssumption ==
  /\ Remote \notin Paths /\ NoPath \notin Paths
  /\ NoQuery \notin Queries /\ NoDigest \notin Digests
  /\ NoRecord \notin Records /\ Spoiled \notin Records /\ NoRecord # Spoiled
ASSUME HashAssumption ==
  /\ Canon \in [Queries -> Digests]
  /\ Contents \subseteq [Names -> Queries \cup {NoQuery}]
\* The singular form exists for Sigma and Splunk only and holds one ref.
ASSUME RecordsAssumption ==
  /\ Repoints \subseteq Paths \cup {Remote, NoPath}
  /\ InitRecords \subseteq Records
  /\ \A rec \in InitRecords :
       rec.form = "singular" => NRefs = 1 /\ rec.kind \in {"sigma", "splunk"}

VARIABLES
  file,      \* the record file
  disk,      \* the rule files
  pc,        \* where each run is, or how it ended
  copy,      \* the record a run has loaded and is updating
  idx,       \* the ref a run is at
  changed,   \* any_changed
  override,  \* --rule / --conf of a run, else NoPath
  \* history:
  base,      \* the record as the run loaded it
  got,       \* digests each ref's rule has had since the run loaded it
  calm,      \* nobody else has touched the record or a rule since then
  past,      \* digests found under each ref's name since the beginning
  last,      \* the last whole record the file held
  hurt       \* a run was killed with the file open, or two writes collided

files   == <<file, disk>>
local   == <<pc, copy, idx, changed, override>>
history == <<base, got, calm, past, last, hurt>>
vars    == <<files, local, history>>

Running == {"refs", "dump"}
Ended   == {"ok", "failed", "killed"}

(***************************************************************************)
(* Hashing.                                                                *)
(***************************************************************************)
Uniform(c) == \A m, n \in Names : c[m] = c[n]

\* What the command of that kind computes from a content for a ref called n.
FoundIn(kind, n, c) ==
  IF \/ c[n] = NoQuery
     \/ kind = "splunk" /\ n \in Nameless
     \/ kind # "splunk" /\ ~Uniform(c)
  THEN NoDigest
  ELSE Canon[c[n]]

\* The same for ref i of a record, looked up at p on the rule files d.
Found(rec, i, p, d) ==
  IF p \in Paths THEN FoundIn(rec.kind, rec.refs[i].name, d[p]) ELSE NoDigest

AllOrNothing(kind) == kind \in {"sigma", "splunk"}

\* Mutant: the stored path wins over the override.
SourceStored(r, i) == IF copy[r].refs[i].path # NoPath
                      THEN copy[r].refs[i].path ELSE override[r]

\* The rule file a run reads for ref i: the override first, then path_or_url.
Source(r, i) == IF override[r] # NoPath THEN override[r]
                ELSE copy[r].refs[i].path

\* Mutant: every ref is looked up under the first one's name.
NewHashFirst(r) == Found(copy[r], 1, Source(r, idx[r]), disk)

NewHash(r) == Found(copy[r], idx[r], Source(r, idx[r]), disk)

\* Mutant: the record is migrated to the plural form on the way.
SetHashPlural(rec, i, h) ==
  [rec EXCEPT !.refs[i].hash = h, !.form = "plural"]

SetHash(rec, i, h) == [rec EXCEPT !.refs[i].hash = h]

SameButHashes(a, b) ==
  /\ a.kind = b.kind /\ a.form = b.form /\ a.body = b.body
  /\ \A i \in Refs : /\ a.refs[i].name = b.refs[i].name
                     /\ a.refs[i].path = b.refs[i].path

\* Two records whose dumps have the same length: every hash is as long as
\* any other, an absent one is not written.
SameLength(a, b) ==
  /\ SameButHashes(a, b)
  /\ \A i \in Refs : a.refs[i].hash = NoDigest <=> b.refs[i].hash = NoDigest

(***************************************************************************)
(* A run.                                                                  *)
(***************************************************************************)
\* r writes the file: only r may go on as if it were alone.
AloneIs(r) == [q \in Runners |-> calm[q] /\ q = r]

\* The process ends: its memory is gone, only the exit code is left.
End(r, how) ==
  /\ pc' = [pc EXCEPT ![r] = how]
  /\ copy' = [copy EXCEPT ![r] = NoRecord]
  /\ base' = [base EXCEPT ![r] = NoRecord]
  /\ got' = [got EXCEPT ![r] = [i \in Refs |-> {}]]
  /\ idx' = [idx EXCEPT ![r] = 1]
  /\ changed' = [changed EXCEPT ![r] = FALSE]

\* Mutant: the error is reported but the run goes on.
RefuseAndGoOn(r, o) ==
  /\ pc[r] \notin Running
  /\ file \notin Records \/ (o # NoPath /\ NRefs > 1)
  /\ pc' = [pc EXCEPT ![r] = "refs"]
  /\ override' = [override EXCEPT ![r] = o]
  /\ calm' = [calm EXCEPT ![r] = TRUE]
  /\ UNCHANGED <<files, copy, idx, changed, base, got, past, last, hurt>>

\* Exit 1 before anything is read: no mapping in the file, or an override
\* for a record with several refs.
Refuse(r, o) ==
  /\ pc[r] \notin Running
  /\ file \notin Records \/ (o # NoPath /\ NRefs > 1)
  /\ End(r, "failed")
  /\ override' = [override EXCEPT ![r] = o]
  /\ calm' = [calm EXCEPT ![r] = TRUE]
  /\ UNCHANGED <<files, past, last, hurt>>

\* Mutant: the file is opened for writing at once.
LoadForWriting(r, o) ==
  /\ pc[r] \notin Running
  /\ file \in Records
  /\ o = NoPath \/ NRefs = 1
  /\ file' = NoRecord
  /\ pc' = [pc EXCEPT ![r] = "refs"]
  /\ copy' = [copy EXCEPT ![r] = file]
  /\ idx' = [idx EXCEPT ![r] = 1]
  /\ changed' = [changed EXCEPT ![r] = FALSE]
  /\ override' = [override EXCEPT ![r] = o]
  /\ base' = [base EXCEPT ![r] = file]
  /\ got' = [got EXCEPT ![r] = [i \in Refs |->
       {Found(file, i, IF o # NoPath THEN o ELSE file.refs[i].path, disk)}]]
  /\ calm' = [calm EXCEPT ![r] = TRUE]
  /\ UNCHANGED <<disk, past, last, hurt>>

Load(r, o) ==
  /\ pc[r] \notin Running
  /\ file \in Records
  /\ o = NoPath \/ NRefs = 1
  /\ pc' = [pc EXCEPT ![r] = "refs"]
  /\ copy' = [copy EXCEPT ![r] = file]
  /\ idx' = [idx EXCEPT ![r] = 1]
  /\ changed' = [changed EXCEPT ![r] = FALSE]
  /\ override' = [override EXCEPT ![r] = o]
  /\ base' = [base EXCEPT ![r] = file]
  /\ got' = [got EXCEPT ![r] = [i \in Refs |->
       {Found(file, i, IF o # NoPath THEN o ELSE file.refs[i].path, disk)}]]
  /\ calm' = [calm EXCEPT ![r] = TRUE]
  /\ UNCHANGED <<files, past, last, hurt>>

\* Mutant: a first hash does not count as a change.
ReadRefKnown(r) ==
  /\ pc[r] = "refs" /\ idx[r] \in Refs
  /\ NewHash(r) # NoDigest
  /\ copy' = [copy EXCEPT ![r] = SetHash(@, idx[r], NewHash(r))]
  /\ changed' = [changed EXCEPT ![r] =
       @ \/ copy[r].refs[idx[r]].hash \notin {NoDigest, NewHash(r)}]
  /\ idx' = [idx EXCEPT ![r] = @ + 1]
  /\ UNCHANGED <<files, pc, override, history>>

\* Mutant: the last ref alone decides whether anything changed.
ReadRefLast(r) ==
  /\ pc[r] = "refs" /\ idx[r] \in Refs
  /\ NewHash(r) # NoDigest
  /\ copy' = [copy EXCEPT ![r] = SetHash(@, idx[r], NewHash(r))]
  /\ changed' = [changed EXCEPT ![r] =
       copy[r].refs[idx[r]].hash # NewHash(r)]
  /\ idx' = [idx EXCEPT ![r] = @ + 1]
  /\ UNCHANGED <<files, pc, override, history>>

\* A rule was found: compare, and keep the new hash in the loaded record.
ReadRef(r) ==
  /\ pc[r] = "refs" /\ idx[r] \in Refs
  /\ NewHash(r) # NoDigest
  /\ copy' = [copy EXCEPT ![r] = SetHash(@, idx[r], NewHash(r))]
  /\ changed' = [changed EXCEPT ![r] =
       @ \/ copy[r].refs[idx[r]].hash # NewHash(r)]
  /\ idx' = [idx EXCEPT ![r] = @ + 1]
  /\ UNCHANGED <<files, pc, override, history>>

\* Mutant: a skipped ref is tried again and again.
SkipRefRetry(r) ==
  /\ pc[r] = "refs" /\ idx[r] \in Refs
  /\ NewHash(r) = NoDigest
  /\ ~AllOrNothing(copy[r].kind)
  /\ UNCHANGED vars

\* Elastic and KQL: a ref whose rule cannot be hashed is skipped.
SkipRef(r) ==
  /\ pc[r] = "refs" /\ idx[r] \in Refs
  /\ NewHash(r) = NoDigest
  /\ ~AllOrNothing(copy[r].kind)
  /\ idx' = [idx EXCEPT ![r] = @ + 1]
  /\ UNCHANGED <<files, pc, copy, changed, override, history>>

\* Mutant: Sigma and Splunk skip, too.
AbortRefSkips(r) ==
  /\ pc[r] = "refs" /\ idx[r] \in Refs
  /\ NewHash(r) = NoDigest
  /\ AllOrNothing(copy[r].kind)
  /\ idx' = [idx EXCEPT ![r] = @ + 1]
  /\ UNCHANGED <<files, pc, copy, changed, override, history>>

\* Sigma and Splunk: it ends the run with exit code 1.
AbortRef(r) ==
  /\ pc[r] = "refs" /\ idx[r] \in Refs
  /\ NewHash(r) = NoDigest
  /\ AllOrNothing(copy[r].kind)
  /\ End(r, "failed")
  /\ UNCHANGED <<files, override, calm, past, last, hurt>>

FinishUnchanged(r) ==
  /\ pc[r] = "refs" /\ idx[r] \notin Refs /\ ~changed[r]
  /\ End(r, "ok")
  /\ UNCHANGED <<files, override, calm, past, last, hurt>>

\* Mutant: the file is opened without truncation ("r+").
TruncateNot(r) ==
  /\ pc[r] = "refs" /\ idx[r] \notin Refs /\ changed[r]
  /\ pc' = [pc EXCEPT ![r] = "dump"]
  /\ calm' = AloneIs(r)
  /\ UNCHANGED <<files, copy, idx, changed, override, base, got, past, last, hurt>>

\* Mutant: the dump is forgotten.
TruncateOnly(r) ==
  /\ pc[r] = "refs" /\ idx[r] \notin Refs /\ changed[r]
  /\ file' = NoRecord
  /\ calm' = AloneIs(r)
  /\ End(r, "ok")
  /\ UNCHANGED <<disk, override, past, last, hurt>>

\* open(path, "w") empties the file.
Truncate(r) ==
  /\ pc[r] = "refs" /\ idx[r] \notin Refs /\ changed[r]
  /\ pc' = [pc EXCEPT ![r] = "dump"]
  /\ file' = NoRecord
  /\ calm' = AloneIs(r)
  /\ UNCHANGED <<disk, copy, idx, changed, override, base, got, past, last, hurt>>

\* What the file may hold once r has dumped into it.  If somebody wrote
\* since r truncated it, the tail of a longer text stays behind r's.
Written(r) ==
  IF file = NoRecord THEN {copy[r]}
  ELSE IF file \in Records /\ SameLength(file, copy[r]) THEN {copy[r]}
  ELSE {copy[r], Spoiled}

Dump(r) ==
  /\ pc[r] = "dump"
  /\ file' \in Written(r)
  /\ last' = IF file' = Spoiled THEN last ELSE copy[r]
  /\ hurt' = (hurt \/ file' = Spoiled)
  /\ calm' = AloneIs(r)
  /\ End(r, "ok")
  /\ UNCHANGED <<disk, override, past>>

Kill(r) ==
  /\ pc[r] \in Running
  /\ hurt' = (hurt \/ pc[r] = "dump")
  /\ End(r, "killed")
  /\ UNCHANGED <<files, override, calm, past, last>>

(***************************************************************************)
(* Everybody else: rule owners, the record's author, version control.      *)
(***************************************************************************)
Nobody == [q \in Runners |-> FALSE]

EditSource(p, c) ==
  /\ c # disk[p]
  /\ disk' = [disk EXCEPT ![p] = c]
  /\ got' = [r \in Runners |-> [i \in Refs |->
       IF pc[r] \in Running
       THEN got[r][i] \cup {Found(copy[r], i, Source(r, i), disk')}
       ELSE got[r][i]]]
  /\ past' = [i \in Refs |->
       past[i] \cup ({FoundIn(last.kind, last.refs[i].name, c)} \ {NoDigest})]
  /\ calm' = Nobody
  /\ UNCHANGED <<file, local, base, last, hurt>>

\* The author saves the record with another body, or another path of a ref.
SaveRecord(rec) ==
  /\ file' = rec
  /\ last' = rec
  /\ calm' = Nobody
  /\ UNCHANGED <<disk, local, base, got, past, hurt>>

Annotate(b) ==
  /\ file \in Records /\ file.body # b
  /\ SaveRecord([file EXCEPT !.body = b])

Repoint(i, p) ==
  /\ file \in Records /\ file.refs[i].path # p
  /\ SaveRecord([file EXCEPT !.refs[i].path = p])

\* A damaged file is taken back from version control.
Restore ==
  /\ hurt /\ file \notin Records
  /\ file' = last
  /\ hurt' = FALSE
  /\ calm' = Nobody
  /\ UNCHANGED <<disk, local, base, got, past, last>>

(***************************************************************************)
(* Specification.                                                          *)
(***************************************************************************)
Init ==
  /\ file \in InitRecords
  /\ disk \in [Paths -> Contents]
  /\ pc = [r \in Runners |-> "idle"]
  /\ copy = [r \in Runners |-> NoRecord]
  /\ idx = [r \in Runners |-> 1]
  /\ changed = [r \in Runners |-> FALSE]
  /\ override = [r \in Runners |-> NoPath]
  /\ base = [r \in Runners |-> NoRecord]
  /\ got = [r \in Runners |-> [i \in Refs |-> {}]]
  /\ calm = [r \in Runners |-> FALSE]
  /\ past = [i \in Refs |-> {file.refs[i].hash} \cup
       ({Found(file, i, p, disk) : p \in Paths} \ {NoDigest})]
  /\ last = file
  /\ hurt = FALSE

\* A started run goes on by itself.
Progress(r) ==
  \/ ReadRef(r) \/ SkipRef(r) \/ AbortRef(r)
  \/ FinishUnchanged(r) \/ Truncate(r) \/ Dump(r)

Run(r) ==
  \/ \E o \in Paths \cup {NoPath} : Refuse(r, o) \/ Load(r, o)
  \/ Progress(r)
  \/ Kill(r)

Others ==
  \/ \E p \in Paths, c \in Contents : EditSource(p, c)
  \/ \E b \in Bodies : Annotate(b)
  \/ \E i \in Refs, p \in Repoints : Repoint(i, p)
  \/ Restore

Next == (\E r \in Runners : Run(r)) \/ Others

Spec == Init /\ [][Next]_vars

\* A process that has been started is scheduled until it ends; nothing
\* obliges anybody to start one, to edit or to restore.
FairSpec == Spec /\ \A r \in Runners : WF_vars(Progress(r))
(***************************************************************************)
(* Properties.                                                             *)
(***************************************************************************)

\* Every variable stays in its domain; a process holds a record exactly
\* while it runs (the locals of cmd_refresh_hash live for one call).
TypeOK ==
  /\ file \in Records \cup {NoRecord, Spoiled}
  /\ disk \in [Paths -> Contents]
  /\ pc \in [Runners -> {"idle"} \cup Running \cup Ended]
  /\ copy \in [Runners -> Records \cup {NoRecord}]
  /\ idx \in [Runners -> 1 .. NRefs + 1]
  /\ changed \in [Runners -> BOOLEAN]
  /\ override \in [Runners -> Paths \cup {NoPath}]
  /\ base \in [Runners -> Records \cup {NoRecord}]
  /\ got \in [Runners -> [Refs -> SUBSET (Digests \cup {NoDigest})]]
  /\ calm \in [Runners -> BOOLEAN]
  /\ past \in [Refs -> SUBSET (Digests \cup {NoDigest})]
  /\ last \in Records
  /\ hurt \in BOOLEAN
  /\ \A r \in Runners : pc[r] \in Running <=> copy[r] # NoRecord
  /\ \A r \in Runners : pc[r] \in Running <=> base[r] # NoRecord

\* The hash a run is about to write for ref i: a digest that very ref's rule
\* had while the run was on, or (Elastic, KQL) the one it loaded, if the rule
\* could not be hashed at some moment of the run.
FreshFor(r, i) ==
  LET h == copy[r].refs[i].hash IN
  \/ h \in got[r][i] \ {NoDigest}
  \/ /\ ~AllOrNothing(copy[r].kind)
     /\ NoDigest \in got[r][i]
     /\ h = base[r].refs[i].hash

\* "Write all updated refs back in one file write": when a run opens the
\* file, every ref has been settled.  A Sigma or Splunk run that could not
\* hash one of its rules never gets here, so it writes none of the others;
\* no ref gets another ref's hash, nor one older than the run.
WritesAreFresh ==
  \A r \in Runners : pc[r] = "dump" => \A i \in Refs : FreshFor(r, i)

\* A run nobody interfered with changes nothing of the record but hashes
\* (the form, the paths, the curated body come back as they were) and
\* leaves a whole record, whatever other runs did before it.
WritesOnlyHashes ==
  [][\A r \in Runners :
       pc[r] = "dump" /\ pc'[r] = "ok" /\ calm[r]
         => file' \in Records /\ SameButHashes(file', last)]_vars

\* Refs of a record whose rule can be hashed on the rule files d, with a
\* result that is not the stored hash: what a refresh would change.
Outdated(rec, d) ==
  {i \in Refs : LET h == Found(rec, i, rec.refs[i].path, d)
                IN  h # NoDigest /\ h # rec.refs[i].hash}

\* A refresh without override that exits 0, with nobody interfering, leaves
\* nothing outdated: `validate --strict` is quiet after it, and a second
\* refresh finds every hash unchanged ("every refresh is idempotent").
RefreshSettles ==
  \A r \in Runners :
    pc[r] = "ok" /\ calm[r] /\ override[r] = NoPath
      => file \in Records /\ Outdated(file, disk) = {}

\* The file is unreadable only between the open and the dump of some run,
\* unless a run was killed there or two of them wrote over each other.
IntactAtRest ==
  file \notin Records => hurt \/ \E r \in Runners : pc[r] = "dump"

\* Every run ends, with an exit code or killed: no ref stalls the loop.
RunsEnd == \A r \in Runners : pc[r] \in Running ~> pc[r] \in Ended

\* A file found empty while a run rewrites it is a record again later on,
\* unless the rewriting went wrong.
FileComesBack == (file = NoRecord /\ ~hurt) ~> (file \in Records \/ hurt)

\* What the strict check reports as drift of refs with a name (cli.py:1071:
\* "run 'ddr refresh-hash {fp}' to update"); a Sigma record is never reported.
Warned(rec, d) ==
  {i \in Outdated(rec, d) : rec.kind # "sigma" /\ rec.refs[i].hash # NoDigest}

\* ... so after the run it asks for, with nobody interfering, the warning
\* is gone.
RefreshClearsWarning ==
  \A r \in Runners :
    /\ pc[r] \in {"ok", "failed"} /\ calm[r] /\ override[r] = NoPath
    /\ file \in Records
    => Warned(file, disk) = {}
(***************************************************************************)
(* The abstract view: pins, where they may come from, readable or not.     *)
(***************************************************************************)
Promise == INSTANCE HashStore WITH
  pin      <- [i \in Refs |-> last.refs[i].hash],
  past     <- past,
  readable <- file \in Records

\* However runs, edits, kills and restores interleave, the file behaves as
\* a store of pins: each whole record that appears in it carries only
\* digests its own rules have had, all of them published at once.
KeepsPromise == Promise!Spec
=============================================================================
