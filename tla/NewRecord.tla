----------------------------- MODULE NewRecord -----------------------------
(***************************************************************************)
(* `ddr new`: which path and hash a new record gets from its rule file,    *)
(* and whether `refresh-hash` and `validate --strict` find that file again *)
(* from it.  The record stores a path as text; the commands that read it   *)
(* back start from another directory, and a checkout moves.                *)
(*                                                                         *)
(* A location is the sequence of names from the root of the file system.   *)
(* Rule files lie in the checkout or outside of it.  A refresh is one step *)
(* here; RefreshHash takes it apart.                                       *)
(***************************************************************************)
EXTENDS Naturals, SequencesExt

CONSTANTS
  Rules,      \* places a rule file may be at
  Recs,       \* places a record may be at: sequences of names in the checkout
  Dirs,       \* directories of the checkout people stand in
  Roots,      \* where the checkout may be
  Kinds,      \* target kinds in use
  Names,      \* stanza names
  Digests, NoDigest,
  Contents,   \* what a rule file may hold
  NoFile, NoPath,
  Remote      \* the value of --source-url

Formats == {"auto", "conf", "cloud-json"}
Shapes  == {"conf", "cloud", "rule"}
Place   == [inside : BOOLEAN, at : Seq(STRING), suffix : {".conf", ".json", ".ndjson", ""}]
\* Where a rule file is when the checkout is at r.
Where(r, s) == IF s.inside THEN r \o s.at ELSE s.at
\* The text of a path: absolute, or up some directories and down again.
Local   == [abs : BOOLEAN, up : Nat, down : Seq(STRING)]
PathText == Local \cup {NoPath, Remote}
Record  == [kind : Kinds, name : Names, path : PathText,
            hash : Digests \cup {NoDigest}]
NoRecord == NoFile

ASSUME PlacesAssumption ==
  /\ Rules \subseteq Place /\ NoFile \notin Rules
  /\ Recs \subseteq Seq(STRING) \ {<< >>}
  /\ Dirs \subseteq Seq(STRING) /\ Roots \subseteq Seq(STRING)
  /\ Kinds \subseteq {"sigma", "splunk", "elastic", "kql-sentinel", "kql-m365d"}
  /\ \A s \in Rules : s.suffix = ".ndjson" => "elastic" \in Kinds
  /\ NoPath \notin Local /\ Remote \notin Local /\ NoPath # Remote
\* There is one file at a location, wherever the checkout is.
ASSUME DistinctAssumption ==
  \A r \in Roots : \A s, t \in Rules : Where(r, s) = Where(r, t) => s = t
ASSUME ContentsAssumption ==
  /\ Contents \subseteq [shape : Shapes, of : [Names -> Digests \cup {NoDigest}]]
  /\ NoFile \notin Contents /\ NoFile \notin Record /\ NoDigest \notin Digests

VARIABLES
  root,     \* where the checkout is
  text,     \* what each rule file holds
  record,   \* what each record file holds
  \* history, for each record:
  about,    \* the rule file it was made from
  from,     \* the directory `ddr new` was called in
  sound,    \* nothing has happened that the recorded path cannot survive
  own,      \* digests its rule file has had since
  fresh     \* made without --format, and its rule file not edited since

history == <<about, from, sound, own, fresh>>
vars    == <<root, text, record, history>>

(***************************************************************************)
(* Paths.                                                                  *)
(***************************************************************************)
At(s)  == Where(root, s)
Dir(f) == root \o Front(f)

Below(d, loc) ==
  [abs |-> FALSE, up |-> 0, down |-> SubSeq(loc, Len(d) + 1, Len(loc))]

Resolve(d, p) ==
  IF p.abs THEN p.down
  ELSE SubSeq(d, 1, IF p.up <= Len(d) THEN Len(d) - p.up ELSE 0) \o p.down

\* The ways to name a location on the command line in directory d.
Spellings(d, loc) ==
  LET common == Len(LongestCommonPrefix({d, loc}))
  IN  {[abs |-> TRUE, up |-> 0, down |-> loc],
       [abs |-> FALSE, up |-> Len(d) - common,
        down |-> SubSeq(loc, common + 1, Len(loc))]}

\* Mutant: the directory of --output is not considered.
PathOrUrlNoOutput(d, arg, f, output) ==
  LET loc == Resolve(d, arg)
  IN  IF IsPrefix(d, loc) THEN Below(d, loc) ELSE arg

\* Relative to the current directory d, else to the directory of --output,
\* else the argument as it was given.
PathOrUrl(d, arg, f, output) ==
  LET loc == Resolve(d, arg)
  IN  IF IsPrefix(d, loc) THEN Below(d, loc)
      ELSE IF output /\ IsPrefix(Dir(f), loc) THEN Below(Dir(f), loc)
      ELSE arg

(***************************************************************************)
(* Hashes.                                                                 *)
(***************************************************************************)
ByShape(s, shape, n) ==
  IF text[s] # NoFile /\ text[s].shape = shape THEN text[s].of[n] ELSE NoDigest

IsServicesNSJson(s) ==
  s.suffix = ".json" /\ text[s] # NoFile /\ text[s].shape = "cloud"

\* Mutant: the suffix of the file does not matter to `ddr new`.
UseCloudAnySuffix(s, format) ==
  CASE format = "cloud-json" -> TRUE
    [] format = "conf"       -> FALSE
    [] format = "auto"       -> text[s] # NoFile /\ text[s].shape = "cloud"

\* Which parser `ddr new --target splunk` takes.
UseCloud(s, format) ==
  CASE format = "cloud-json" -> TRUE
    [] format = "conf"       -> FALSE
    [] format = "auto"       -> s.suffix # ".conf" /\ IsServicesNSJson(s)

SplunkHash(s, cloud, n) == ByShape(s, IF cloud THEN "cloud" ELSE "conf", n)

\* What refresh-hash and the strict check compute from a file.
HashOf(kind, n, s) ==
  IF kind = "splunk" THEN SplunkHash(s, IsServicesNSJson(s), n)
  ELSE ByShape(s, "rule", n)

\* Mutant: refresh-hash resolves every path in the current directory.
BaseHere(f, d) == d

\* Where a stored path starts from: the current directory d of refresh-hash
\* for Sigma, the directory of the record for the others.
Base(f, d) == IF record[f].kind = "sigma" THEN d ELSE Dir(f)

\* The rule files a record leads to, none or one.
Reached(f, base) ==
  IF record[f] # NoRecord /\ record[f].path \in {NoPath, Remote} THEN {}
  ELSE {s \in Rules : At(s) = Resolve(base, record[f].path)}

HashThere(f, base) ==
  LET found == {HashOf(record[f].kind, record[f].name, s) : s \in Reached(f, base)}
  IN  IF found = {} THEN NoDigest ELSE CHOOSE h \in found : TRUE

(***************************************************************************)
(* ddr new.                                                                *)
(***************************************************************************)
\* The recorded path leads back to the rule: it starts where the command
\* that reads it will start from.
Anchored(kind, f, d, arg, output, loc) ==
  \/ d = Dir(f)
  \/ kind = "sigma" /\ (IsPrefix(d, loc) \/ ~IsPrefix(Dir(f), loc))
  \/ kind # "sigma" /\ ~IsPrefix(d, loc)
       /\ (arg.abs \/ (output /\ IsPrefix(Dir(f), loc)))

\* _write_scaffold: an existing file is overwritten.
Scaffold(f, kind, n, path, h) ==
  /\ record' = [record EXCEPT ![f] =
       [kind |-> kind, name |-> n, path |-> path, hash |-> h]]
  /\ UNCHANGED <<root, text>>

\* A scaffold of rule file s, named arg in directory d.
FromRule(f, kind, n, d, s, arg, output, url, h, auto) ==
  /\ Scaffold(f, kind, n,
       IF url THEN Remote ELSE PathOrUrl(d, arg, f, output), h)
  /\ about' = [about EXCEPT ![f] = s]
  /\ from' = [from EXCEPT ![f] = d]
  /\ sound' = [sound EXCEPT ![f] = Anchored(kind, f, d, arg, output, At(s))]
  /\ own' = [own EXCEPT ![f] = {h, HashOf(kind, n, s)}]
  /\ fresh' = [fresh EXCEPT ![f] = auto]

\* A Splunk record: the parser must find the stanza and a search in it.  A
\* Cloud export names its search itself.
NewSplunk(f, n, d, s, arg, output, url, format) ==
  LET h == SplunkHash(s, UseCloud(s, format), n)
  IN  /\ h # NoDigest
      /\ FromRule(f, "splunk", n, d, s, arg, output, url, h, format = "auto")

\* Mutant: a rule that cannot be hashed is recorded without a hash.
NewSigmaUnhashed(f, n, d, s, arg, output, url) ==
  /\ text[s] # NoFile
  /\ FromRule(f, "sigma", n, d, s, arg, output, url,
              HashOf("sigma", n, s), TRUE)

\* Sigma: the rule must load and hash.
NewSigma(f, n, d, s, arg, output, url) ==
  LET h == HashOf("sigma", n, s)
  IN  /\ h # NoDigest
      /\ FromRule(f, "sigma", n, d, s, arg, output, url, h, TRUE)

\* Elastic and KQL: any file will do, no hash is computed.
NewQuery(f, kind, n, d, s, arg, output, url) ==
  /\ text[s] # NoFile
  /\ FromRule(f, kind, n, d, s, arg, output, url, NoDigest, TRUE)

\* Splunk with --name only, Elastic and KQL without a source file.
NewBare(f, kind, n, d) ==
  /\ Scaffold(f, kind, n, NoPath, NoDigest)
  /\ about' = [about EXCEPT ![f] = NoFile]
  /\ from' = [from EXCEPT ![f] = d]
  /\ sound' = [sound EXCEPT ![f] = FALSE]
  /\ own' = [own EXCEPT ![f] = {}]
  /\ fresh' = [fresh EXCEPT ![f] = FALSE]

(***************************************************************************)
(* Later: refresh-hash in some directory, and everybody else.              *)
(***************************************************************************)
Refresh(f, d) ==
  /\ record[f] # NoRecord
  /\ LET h == HashThere(f, Base(f, d))
     IN  record' = [record EXCEPT ![f].hash = IF h = NoDigest THEN @ ELSE h]
  /\ sound' = [sound EXCEPT ![f] =
       @ /\ (record[f].kind = "sigma" => d = from[f])]
  /\ UNCHANGED <<root, text, about, from, own, fresh>>

EditRule(s, c) ==
  /\ c # text[s]
  /\ text' = [text EXCEPT ![s] = c]
  /\ UNCHANGED <<root, record, about, from, sound>>
  /\ own' = [f \in Recs |->
       IF record[f] # NoRecord /\ about[f] = s
       THEN own[f] \cup {HashOf(record[f].kind, record[f].name, s)'}
       ELSE own[f]]
  /\ fresh' = [f \in Recs |-> fresh[f] /\ about[f] # s]

\* The whole checkout is cloned elsewhere.  A path survives if it is
\* relative and leads into the checkout, or absolute and leads out of it.
Relocate(r) ==
  /\ r # root
  /\ root' = r
  /\ sound' = [f \in Recs |->
       /\ sound[f] /\ record[f].path \in Local
       /\ record[f].path.abs # about[f].inside]
  /\ from' = [f \in Recs |->
       IF IsPrefix(root, from[f])
       THEN r \o SubSeq(from[f], Len(root) + 1, Len(from[f])) ELSE from[f]]
  /\ UNCHANGED <<text, record, about, own, fresh>>

(***************************************************************************)
(* Specification.                                                          *)
(***************************************************************************)
Init ==
  /\ root \in Roots
  /\ text \in [Rules -> Contents \cup {NoFile}]
  /\ record = [f \in Recs |-> NoRecord]
  /\ about = [f \in Recs |-> NoFile]
  /\ from = [f \in Recs |-> << >>]
  /\ sound = [f \in Recs |-> FALSE]
  /\ own = [f \in Recs |-> {}]
  /\ fresh = [f \in Recs |-> FALSE]

\* A file called *.ndjson is taken for Elastic rules, whatever --target says.
Target(asked, s) == IF s.suffix = ".ndjson" THEN "elastic" ELSE asked

New(f, d, n) ==
  \/ \E s \in Rules : \E arg \in Spellings(d, At(s)), output, url \in BOOLEAN,
                      kind \in {Target(asked, s) : asked \in Kinds} :
       \/ kind = "sigma" /\ NewSigma(f, n, d, s, arg, output, url)
       \/ /\ kind = "splunk"
          /\ \E format \in Formats :
               NewSplunk(f, n, d, s, arg, output, url, format)
       \/ /\ kind \notin {"sigma", "splunk"}
          /\ NewQuery(f, kind, n, d, s, arg, output, url)
  \/ \E kind \in Kinds \ {"sigma"} : NewBare(f, kind, n, d)

Next ==
  \/ \E f \in Recs, dir \in Dirs :
       \/ \E n \in Names : New(f, root \o dir, n)
       \/ Refresh(f, root \o dir)
  \/ \E s \in Rules, c \in Contents \cup {NoFile} : EditRule(s, c)
  \/ \E r \in Roots : Relocate(r)

Spec == Init /\ [][Next]_vars

(***************************************************************************)
(* Properties.                                                             *)
(***************************************************************************)

\* Types; a Sigma record never lacks its hash (the schema requires one).
TypeOK ==
  /\ root \in Roots
  /\ text \in [Rules -> Contents \cup {NoFile}]
  /\ record \in [Recs -> Record \cup {NoRecord}]
  /\ \A f \in Recs : record[f] # NoRecord /\ record[f].kind = "sigma"
       => record[f].hash # NoDigest

\* The directory a record's path will be read in: for Sigma the one `ddr
\* new` was called in, if the author stays there.
Anchor(f) == Base(f, from[f])

\* A record that was written next to where its path starts from leads to
\* its own rule file and to no other, wherever the checkout is now.
PathFindsRule ==
  \A f \in Recs : sound[f] /\ record[f].path \in Local
    => Reached(f, Anchor(f)) = {about[f]}

\* However often it is refreshed, and from whatever directory (Sigma: from
\* the one it was made in), such a record never pins the text of another
\* rule file, nor one its own rule file did not have.
PinIsOwn ==
  \A f \in Recs : sound[f] => record[f].hash \in own[f] \cup {NoDigest}

\* The hash `ddr new` has stored is the hash refresh-hash computes: as long
\* as the rule file is as it was, `validate --strict` has nothing to say and
\* a refresh changes nothing, whichever parser the file's looks select.
NewAgreesWithRefresh ==
  \A f \in Recs :
    /\ sound[f] /\ fresh[f]
    /\ record[f].path \in Local /\ record[f].hash # NoDigest
    => HashThere(f, Anchor(f)) = record[f].hash
=============================================================================
