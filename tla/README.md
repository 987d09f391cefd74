# Verification of `ddr` (Detection Decision Records)

TLA+ models of the `ddr` command line tool, model-checked with TLC, and proofs
about its core checked with TLAPS.  Paths below are relative to the repository.

## 1. The system

`ddr` keeps *decision records*: YAML files that say why a detection rule is
tuned, which rule it is about (by a path and a hash of the rule's canonical
text), and until when.  The program (`src/ddr/cli.py`, the pydantic model
`src/ddr/models/record.py`, the hash modules under `src/ddr/_internal/`, the
exporters) has no server, no threads and no locks.  What is concurrent is its
*use*: people, CI jobs and editor tasks run commands on the same record files
and rule files while others edit, move and break them.

| Component | State | Operations | Hard behaviour |
| --- | --- | --- | --- |
| `refresh-hash` (`cli.py:1383-1733`) | the record file, the rule files, the locals of each run | load, hash each ref, compare, truncate, dump | concurrent runs and edits, kill between truncation and dump, one ref failing among many |
| strict drift check (`cli.py:1029-1186`) | the loaded record | hash each ref, warn | record and rules move on between load and comparison; must agree with refresh |
| sweeps: `validate`, `list`, `expire-check` (`cli.py:822-1274`) | a directory, the clock | list, read one by one, report, exit code | files change while they are read, listing in two parts, date boundaries, overflow |
| `ddr new` (`cli.py:89-766`) | rule file, new record | record path and hash | the path is written from one directory and read from another |
| record model (`record.py`) | - | coercion, constraints | constraints across fields |
| rule hashes, conf and SPL canonicalisation, Cloud exports (`_internal/`) | the rule file | pure functions of it | two parsers, two codes that pick a rule, exports that differ in wrapping and stamps |
| exporters (`exporters/`, `cli.py:1277-1380`, `1736-1837`) | the record | four commands, pure translations | keep the meaning of a negated condition; refuse what is not theirs |
| schema export and drift check (`_internal/schema_*.py`) | - | comparison | none |

Components meet in files only.  `new` writes what `refresh-hash` rewrites and
`validate --strict` compares; the sweeps read what any of them or an author has
left.  What makes each correct:

* **refresh-hash**: a stored hash is one that this ref's own rule has had; hashes
  are replaced together or not at all (Sigma, Splunk) or ref by ref (Elastic,
  KQL); nothing but hashes changes; the file is not lost; a refresh settles.
* **strict check**: no false alarm, no lasting drift missed, quiet after a refresh.
* **sweeps**: an expired record is reported, with notice if notice was asked for;
  two commands that compute the same thing agree; exit code 0 means what it says.
* **new**: the recorded path leads back to the rule, the recorded hash is the one
  the other commands compute.
* **hashes**: an edit of the rule a record names shows in its hash; comments, line
  breaks, neighbours in the file and repeated exports do not.
* **exporters**: what validates as a suppression ships, in its own language and no
  other, and excludes what the record describes or says that it could not.

## 2. Modules

| Module | Models |
| --- | --- |
| `HashStore` | abstract: each ref has a pin; all pins are published at once, each from the digests its rule has had; the store may be unreadable for a while |
| `RefreshHash` | `refresh-hash`, any number of runs, killers, editors, version control |
| `RefreshHash_proofs` | theorems about it |
| `StrictCheck` | `validate --strict` on the same record; extends `RefreshHash`, all of whose steps may come between two of the check's |
| `Survey` | abstract: a command looks once at each path, in any order, at some moment between its start and its end, says what the text it finds deserves, and ends as what it has said tells |
| `Sweep` | `validate`, `list`, `expire-check` over a directory, with a clock |
| `NewRecord` | `ddr new` and how its paths and hashes are read back |
| `StrictCheck_proofs`, `Sweep_proofs`, `NewRecord_proofs` | theorems about these three |
| `SplText` | searches as text: `canonicalize_spl`, `compute_query_hash`, the conf reader, Cloud exports (operators) |
| `RuleDoc` | rule documents of the other kinds: which one is hashed, unwrapped and stripped how (operators) |
| `RuleFile` | one rule file under edits and exports, and the hashes from it; extends both |
| `RuleFile_proofs` | theorems about it |
| `SequenceLemmas` | lemmas on prefixes and left folds that `NewRecord_proofs`, `RuleFile_proofs` and `Filters_proofs` share |
| `Filters` | filter expressions, what they mean, and what each exporter makes of them (operators) |
| `Filters_proofs` | theorems and lemmas about them, for expressions of any length |
| `RecordModel` | the record as written and as the pydantic model reads it (operators) |
| `Exporters` | a record drafted field by field and exported by any command; extends both |
| `Exporters_proofs` | theorems about it |
| `MCRefreshHash`, `MCStrictCheck`, `MCSweep`, `MCNewRecord`, `MCRuleFile`, `MCExporters` | instances for TLC |

In every module a definition whose comment starts with *Mutant* is a broken
version of the one after it.  `Spec` never uses it; substituting it must violate
a property, which shows that the property depends on the code.

### RefreshHash

`file` is the record file and `disk` the rule files.  `pc`, `copy`, `idx`,
`changed`, `override` are the locals of each run: where it is, the dictionary
`data`, the loop counter, `any_changed`, `--rule`/`--conf`.

| Code | Action |
| --- | --- |
| not a mapping, or an override with several refs: exit 1 | `Refuse` |
| `loader.load`, choice of the handler | `Load` |
| one turn of the loop, hash computed | `ReadRef` |
| ... not computed, Elastic and KQL (`continue`) | `SkipRef` |
| ... not computed, Sigma and Splunk (`Exit(1)`, or an exception) | `AbortRef` |
| `if not any_changed: return` | `FinishUnchanged` |
| `open(path, "w")` | `Truncate` |
| `writer.dump` and close | `Dump` |

`Kill`, `EditSource`, `Annotate`, `Repoint` and `Restore` are the outside world.
`EditSource` may replace a rule between any two refs.  `Dump` after somebody else
wrote may leave a spoiled file (`Written`): each process writes from offset 0 of
its own descriptor, so a longer text stays behind a shorter one.

`base`, `got`, `calm`, `past`, `last`, `hurt` are history: they never guard a
step of a run and only serve to state properties (`Restore` alone reads `hurt`
and `last`: it is what version control remembers).

Abstractions.  A content of a rule file is a function from ref names to rule
texts; missing, garbled and stanza-less files all give `NoQuery`, because every
handler treats them alike.  `Canon` stands for canonicalise-and-hash; two texts
may share a digest.  A path is the file it resolves to (`NewRecord` is about
resolution).  Reading and hashing one rule file is one step.  A kill during the
dump leaves the file empty: records fit the write buffer, so the text reaches the
file at the flush on close.  The body is the parsed data: comments of the YAML
text are not kept by the code either.  The override is the option that matters to
the kind, `--conf` for Splunk, `--rule` for the rest.

### StrictCheck

`VLoad` is the load and the schema check, `VCheckRef` one turn of a drift loop
with its early `continue`s and its swallowed exceptions, `VFinish` the end,
`VReject` a file that fails or is passed over.  `World` is any step of
`RefreshHash`.  `vgot` and `settled` are history.

`Compared` is what the check computes (`cli.py:1041-1069`, `1085-1106`).  It is apart
from `Found`, which is what a refresh computes (`1518-1568`), because the code has both,
too: they differ for a Splunk ref with an empty name, which the check compares and a
refresh refuses (see below).  `Missing` is the name of a ref without the key, which does
not validate; an empty name does.

### Sweep

`Start` takes the time and lists the `*.yml` files; `ListYaml` lists the `*.yaml` files,
for `validate` before any file is read, for `list` and `expire-check`, which go through
a generator, only when the `*.yml` files have been read.  `ListFlags` and `CheckFlags`
are the two codes that compute whether a record is expired or due (`cli.py:875-887`,
`1220-1246`); an overflow is the same sum in both, and has one operator (`Overflows`).
`only` is the set of `--expired` and `--due` that `list` was given; both are computed
before any row is filtered.  `ReadFile` reads and marks one file, `Die` is the
`OverflowError` of a review date outside the `try`, `Finish` computes the exit code.  `Edit`, `Move` and `Tick` are the world.  Days stand for instants, and dates
without a zone are taken as UTC, as in the code.  `promise` is the day up to which
an expire-check has been silent on a file.

`Asked` is what a command was asked and the moment it started, `Judge` what it says of a
text, so asked.  `Remarks` is what it has said, file by file: of a file it has still to list
or to read, nothing yet.  With that as what is said, `Sweep` implements `Survey`: an author
who takes a file away before the command looks for it is a path passed over, one who does so
between listing and reading is a path read and found missing (a FAIL of `validate`).  A file
that is renamed from `*.yml` to `*.yaml` meanwhile is two paths, and may be reported under both.

### NewRecord

Locations are sequences of names; `PathOrUrl` is `_compute_path_or_url`, one action
per handler of `new` (`NewSigma`, `NewSplunk`, `NewQuery` for Elastic and KQL,
`NewBare` without a rule file).  `Target` is the inference of an Elastic target from
a file named `*.ndjson`, whatever `--target` says.  `Base` is where a stored path is resolved: the
current directory for a Sigma refresh, the directory of the record for the
others.  `Relocate` is a clone elsewhere.  A refresh is a single step here.
`sound` is history: it says that the record was made where its path can be read
again (in the directory of the record, or by an absolute path, or by the
`--output` branch) and that nothing has happened that such a path cannot
survive.  Symbolic links are not modelled.

### RuleFile

`file` is a rule file of any kind and `hash` what a ref of each name gets from it
(`Hashes`, the dispatch at `cli.py:1545-1560` and `1692-1716`).  The actions are
edits and exports; the code is in the operators.  `FileOK` says what rule files there
may be, `InitFiles` is any set of those.

A text is a sequence of physical lines, a line its words and whether it ends in a
backslash: both readers only look at first and last words, at backslashes and at
white space, which the split into words takes away, with CRLF and a byte order mark.
`Join` is the joiner of `canonicalize_spl`, `JoinConf` that of the conf reader (a
comment line is not joined to the line before), `ReadLine` one turn of its loop.
`CloudHash` canonicalises twice, as `_clean_search` and `compute_query_hash` do.

A rule document is a function from five fields, one for each way in which the kinds
strip: `query` (always hashed), `name` (struck out for Sentinel), `id` (for all but
Sigma), `enabled` (for M365D), `stamp` (a server's fields).  `wrapped` and `beside`
are the envelope of Elastic and Sentinel exports.  `RuleAt` is the document that the
hash module loads, `NamedAt` the one `ddr new` names the record after.  A digest is
what is serialised: SHA-256 and the serialisation are taken to be injective.

### Exporters

`draft` is the record on disk as YAML, valid or not; `out` the last export of it.
`EditField` and `EditFilter` are the author, `Export` is one run of a command:
`_load_record`, the guards in their order, the translation, the exit code.

An expression is a sequence of tokens; what it means is the set of events it is
true of.  `Meanings` is the grammar (`or` binds least, `not` most) and is external:
pySigma, Splunk and Kusto read filters by it.  `StripNot` and
`NormalizeSplunkFilter` are the two regular expressions, `ParseKqlFilter` the
splitter of the Elastic exporter.  `apart` says that the first regular expression may match:
there is white space behind the `not` (`not(a)` has none), and no line break in the filter.

A name of a native filter stands for one condition, and `Form` for how its value would be
written in KQL; a form `other` is one that none of the three patterns of the Elastic
exporter reads, an `and` in a quoted value among them.  `EntryType` is the type of the
entry made of a condition, by those patterns in their order.  Whether the entry compares as
the condition does is `KqlReading`, which is external: to KQL a `*` is a wildcard, in quotes,
too, and a `?` a letter; to Elastic a `match` compares letter by letter, in a `wildcard`
both are wildcards.  Where the two readings differ the entry is true of another condition,
`Otherwise`.

The model of the two stripping functions, of how the Elastic exporter splits a filter and of
the text functions of `SplText` was compared with the Python functions on thousands of random
inputs.

`RecordModel` has the fields that decide something.  `ModelRefs` is what the
validators of a target make of singular and plural keys, `RefreshRefs` what
`refresh-hash` reads by itself from the same YAML.

## 3. Runs

| Run | Question | Bounds |
| --- | --- | --- |
| `refresh_one` | every kind, form, path and override, one ref; termination, the file comes back | 1 run at a time, 2 rule files, 5 contents with a cosmetic variant, fairness |
| `refresh_race` | two runs on one file, two refs, two stanzas, an author editing the body; refinement of `HashStore` | 2 runs (symmetric), 2 refs, 2 rule files, 3 contents, 2 bodies |
| `strict_check` | check against refreshes and edits, all kinds of failure of one ref | 1 run, 1 check, 2 refs, records with a missing and with an empty name |
| `sweep_one` | 7 records of all sorts, 3 days, of which the last is the end of the calendar; every sweep ends; refinement of `Survey` | 1 sweep, 2 files, fairness |
| `sweep_two` | agreement of two sweeps | 2 sweeps (symmetric), 2 files |
| `new_record` | Sigma, Elastic and Splunk, conf and Cloud export, every option | 3 directories, 3 rule files, one of them `.ndjson`, 2 roots |
| `rule_files` | what moves a hash and what does not | conf and search texts of up to 4 lines out of 9 and 6, 2 stanzas and `[default]`, 2 documents |
| `exports` | who ships and what an exclusion means | filters of up to 9 tokens over 3 names, one with a wildcard and one that the Elastic exporter cannot read, every combination of the other fields |

Four more runs (`refresh_warned`, `sweep_list`, `sigma_lowering`, `elastic_stars`) are
expected to fail; see below.  In `elastic_stars` the third name has a wildcard in quotes.

Why the bounds are enough.  A ref can be disturbed by its neighbour, by a second
run and by an edit; two refs, two runs and two or three contents let each happen
in any order, and a third of any kind takes the role of one of the two.  Two
digests are needed to be wrong, a third adds no outcome to any comparison.  In
`Sweep` two files separate `*.yml` from `*.yaml` and one file's failure from the
other's report; three days with lead times 0 and 1 put a date before, on and
after every boundary.  In `NewRecord` the directory of records holds a mirror of the
directory of rules, so that a path read from the wrong place finds a wrong file
rather than none.  In `RuleFile` four lines hold a header, a search continued over
two lines and one more header or comment, in any order; a continuation of a
continuation needs three.  In `Exporters` nine tokens hold a negated group of two
operands with a negation or a group in it on either side of an operator, and one
slip (a token too few) makes every unbalanced form of those.  Fields are edited while
the filter is the first one or blank, because no guard looks at a filter beyond its
being blank; filters grow in scaffolds.

Symmetry is used for runs and sweeps only, in runs without liveness properties.
Deadlock is checked everywhere.

### What is checked

| Property | Says |
| --- | --- |
| `WritesAreFresh` | what a run writes for a ref is a digest of that ref's rule from the time of the run, or for kinds that skip the hash it loaded |
| `WritesOnlyHashes` | an undisturbed run changes hashes and nothing else, and leaves a whole record |
| `RefreshSettles` | after an undisturbed exit 0 nothing is outdated |
| `IntactAtRest` | the file is unreadable only while being written, or after a kill or a collision |
| `KeepsPromise` | `RefreshHash` implements `HashStore` |
| `RunsEnd`, `FileComesBack`, `SweepsEnd` | progress |
| `WarningsAreReal`, `LastingDriftIsWarned`, `QuietAfterRefresh` | the drift warnings are right, complete and consistent with refresh |
| `LapsedIsReported`, `SilenceIsAPromise`, `ListAgreesWithCheck`, `ValidateIsAGate` | the sweeps' reports and exit codes mean what they should |
| `LooksOnce` | `Sweep` implements `Survey`: what is said of files that change meanwhile, too, is what one look at each justifies |
| `OneStanzaAtATime` | an edit in one stanza moves no hash of another |
| `CommentsAreFree`, `WrappingIsFree` | comments and line breaks move no hash |
| `HashIdentity` | a search has one hash from a Cloud export and from a conf file |
| `ReexportKeepsHash` | wrapping and server stamps move no hash |
| `TheNamedRuleIsPinned` | the hash follows the rule the record was named after, and no other |
| `RefreshSeesTheRecord` | the raw YAML and the model give the same kind and refs of a valid record |
| `NoForeignExport`, `SuppressionsShip` | the right command exports, and no other does |
| `SameEventsInSpl`, `ExactlyTheFalsePositives`, `EntriesOrManual` | an exclusion keeps its meaning, or is left to a person |
| `PathFindsRule`, `PinIsOwn`, `NewAgreesWithRefresh` | what `new` records is found again and is the rule's own |

### Where code and documents disagree

Four runs are expected to fail; each checks a sentence of the repository.

* `refresh_warned`: the drift warning says to run `refresh-hash`, which for a Splunk
  record with a remote or missing ref aborts and changes nothing (`cli.py:1527`).
* `sweep_list`: `list` "always exits 0"; it dies of an overflow (`cli.py:887`).
* `sigma_lowering`: "warn on complex boolean"; `not a and b` becomes `NOT (a AND b)`
  with no warning (`exporters/splunk.py:15`).  `SameEventsInSpl` says what does hold:
  a `not` that negates all there is keeps its meaning, and so does a condition
  without one.
* `elastic_stars`: "Wildcard: `'process.parent.executable : "/usr/bin/chef*"'` → `wildcard`
  entry" (`docs/design/v0.6-elastic-target.md:231`; the example at 163 has one, too); the
  pattern for quoted values comes first and makes a `match` entry, in which the `*` is a
  letter, with no MANUAL warning (`exporters/elastic_exception.py:43-45`).

More were met while modelling and have no run: each is visible in a few lines of
code, and no interleaving is needed to see it.

Paths and records:

* `cli.py:97-98`: "Fall back to absolute (caller emits NOTE)"; a relative argument with
  `..` out of both directories is kept as typed, and no note is printed (`cli.py:118`).
* `spec/ddr-v0.5.md:42`: "Records written by v0.5 tooling always emit the plural form";
  refresh writes the singular form back (`cli.py:1472`).  `WritesOnlyHashes` states
  what the code does, the form is kept.
* `docs/design/v0.4-splunk-completeness.md:137`: "every drift is a warning"; Sigma has
  no drift check (`cli.py:976`).
* `spec/ddr-v0.1.md:133` requires `activated_on` "if status is `active` or `retired`";
  no code checks it (`record.py:301`).
* `PLAN-v0.8-splunk-cloud.md:267`: with `--output elsewhere/ddr.yml` the path "is
  relative to `elsewhere/`"; the current directory is tried first (`cli.py:107`), which
  is why `PathFindsRule` needs its premise.
* A Splunk ref with an empty name validates (`record.py:122`); if it has a Cloud export the
  strict check compares it and asks for `refresh-hash`, which exits 1: "name is missing"
  (`cli.py:1514-1516`).
* `docs/design/v0.3-splunk-native-target.md:170`: targets without a kind default to
  `sigma`; `refresh-hash` does so (`cli.py:1406`), the discriminated union rejects
  them (`record.py:263`).

Hashes:

* `_internal/splunk_cloud.py:15-16`: "the same SPL string produces the same hash";
  not if a comment stands on a line after a backslash: the conf reader
  (`splunk_conf.py:38`) does not join it, `canonicalize_spl` (`91-97`) does.  This is
  the premise of `HashIdentity`.
* A header on the line after a backslash is swallowed by the line before
  (`splunk_conf.py:39`); hence `HeadersStand` in `OneStanzaAtATime`.
* Elastic unwraps `{"rule": ...}` of at most three keys (`elastic_hash.py:59`), `ddr new`
  one of any size (`cli.py:313`).  A first line that does not parse is passed over by
  both, so that garbling a rule silently pins the next.
* A Sentinel export that is an array is never hashable, though `ddr new` names its
  first element (`sentinel_hash.py:50`, `cli.py:379`).
* `record.py:184` describes `rule_id` of a Sentinel ref as the ARM name or GUID; `ddr new`
  takes the display name of an ARM export (`cli.py:384-387`).

Exports:

* `spec/CHANGELOG.md:53` has title and rationale of a KQL fragment "in comments"; only
  their first lines are (`kql_fragment.py:41-42`).  `breaks` is this case.
* `record.py:326`: a Sigma tuning is "losslessly exportable"; selections called `condition`
  or `rules` are overwritten (`sigma_filter.py:42-43`).
* An unbalanced `not (a or b` is repaired by the stripping and compiles.
* A blank Sigma condition, `not not (a)` and `not (a) and (b)` validate (`record.py:325-340`
  asks for a string), but pySigma gets nothing, `not (a` or `a) and (b`, and `export-splunk`
  exits 1 (`exporters/splunk.py:15`, `95-98`).  `IsListed` in `SuppressionsShip` leaves
  them out; the other commands ship whatever validates.
* `not(a)` and a condition over several lines are not stripped (`exporters/splunk.py:15`
  asks for white space and does not cross a line break); they keep their meaning and are
  warned about.
* `NOT (a) OR (b)` of a Splunk filter is taken apart to `a) OR (b` (`exporters/splunk.py:16`);
  hence the premise of `ExactlyTheFalsePositives`.
* To an exception entry a `?` in an unquoted value is a wildcard, to KQL a letter, and the
  escapes of a quoted value stay in it as written (`exporters/elastic_exception.py:25-26`);
  `EntriesOrManual` leaves both out, and the quoted `*`.
* No exporter looks at the lifecycle: a draft or retired suppression exports, too.

### Fairness

Only `WF(Progress)` of a process that has been started, as the operating system
schedules it.  Nobody is obliged to start a command, to edit or to restore, and a
kill may come at any point.

## 4. Proofs

Every invariant and every action property of a passing run is a theorem; what is left to
TLC alone is liveness.  Each theorem holds for every value of the constants, from the named
assumptions of its module alone; TLC evaluates those on every run.

### RefreshHash_proofs

Any number of refs, runs, rule files, contents and records.  Assumed: there is at
least one ref; the marks are not values; `Canon` maps texts to digests; the initial
records are records, and the singular form has one ref.

| Theorem | Statement |
| --- | --- |
| `TypeCorrect` | `Spec => []TypeOK` |
| `FileIntactAtRest` | `Spec => []IntactAtRest` |
| `WritesFresh` | `Spec => []WritesAreFresh` |
| `OnlyHashesWritten` | `Spec => WritesOnlyHashes` |
| `RefinesHashStore` | `Spec => KeepsPromise` |
| `RefreshesSettle` | `Spec => []RefreshSettles` |

`TypeOK` is inductive.  `IntactAtRest` is inductive given it.  `WritesAreFresh` is not:
it speaks of a run that is about to dump, and says nothing about the refs done so far.
The proofs strengthen it to an invariant of a run: while a run is on, every ref below
its counter is settled, the others still have the hash that was loaded, the names and
paths of the copy are those of the loaded record, and the current digest of each ref's
rule is among those recorded.  It is proved for one run (`ReadRefRun`, `SkipRefRun`)
and carried over steps of other runs by frame lemmas (`RunFrame`, `EndFrame`).  For
`WritesOnlyHashes` and `RefreshSettles` a second invariant (`SettleInv`) says that a run
nobody has disturbed loaded the last whole record, and what such a run knows of the refs
behind it; for the refinement a third one says that every digest in the file or in a
run's copy is in `past`.  The step proof has one case per action.  Lemmas about `Found`
(its result is a digest or none; it depends on the kind, the name and the path only)
are stated once.

### StrictCheck_proofs

Any number of validations beside the runs; the same assumptions.

| Theorem | Statement |
| --- | --- |
| `VTypeCorrect` | `VSpec => []VTypeOK` |
| `AlarmsAreReal` | `VSpec => []WarningsAreReal` |
| `LastingDriftNoticed` | `VSpec => []LastingDriftIsWarned` |
| `QuietAfterwards` | `VSpec => []QuietAfterRefresh` |

A step of a check is a stutter of `RefreshHash` (lemma `ChecksOnlyRead`), so that all
that is proved there holds here (`FileFacts`).  `VTypeCorrect` says besides that hashes are
compared, and `OK` is said, of records that validate only, `FAIL` of no such record.  `AlarmsAreReal` and `LastingDriftNoticed` follow
from `CheckInv`: what a rule hashes to now is among the digests it has had since the
load, and a ref that was looked at is warned about if it has only had others than the
recorded one, and only if it has had another.  `QuietInv` says that the refresh a
validation counts on was undisturbed and that, while it compares, the file is the
record it loaded; it needs what `SettleInv` says of a file at rest, and `ComparedIsFound`:
on a ref with a name, the code of the check and that of the refresh compute the same.

### Sweep_proofs

Any directory, number of commands and records, any clock and calendar.  Assumed: the
`.yaml` files are among the files, the marks are not records, lead times and bounds are
numbers, and the clock ends no later than the calendar.

| Theorem | Statement |
| --- | --- |
| `TypeCorrect` | `Spec => []TypeOK` |
| `LapsesReported` | `Spec => []LapsedIsReported` |
| `ListAndCheckAgree` | `Spec => []ListAgreesWithCheck` |
| `ValidateGates` | `Spec => []ValidateIsAGate` |
| `SilencePromises` | `Spec => []SilenceIsAPromise` |
| `RefinesSurvey` | `Spec => LooksOnce` |

`LapsedIsReported`, `ListAgreesWithCheck` and `ValidateIsAGate` follow from one
invariant, `SaidInv`: of a file that nobody
has touched a command has said what its text deserves, unless it has still to read it,
and its exit code is that of its report.  For `ListAgreesWithCheck` the two codes are
shown to give the same flags (`SameFlags`).  A frame lemma (`SaidFrame`) carries it over the
steps of other commands.  For `SilenceIsAPromise` a second one, `PromiseInv`, says that an
active record expires no earlier than the day up to which an expire-check was silent
about it.

The other properties speak of files nobody touched, `RefinesSurvey` of all.  Each action of a
sweep is one of `Survey`: `Start` begins or gives up, `ListYaml` passes over
the missing `*.yaml` files, `ReadFile` looks, `Die` fails, `Finish` ends; authors and the
clock are the world.  It needs `SilentInv`, that nothing has been said of a file which is still to
be listed or read (passing over would otherwise leave an old remark), and from `SaidInv`
that no `*.yaml` file is to be read before they are listed (or one could be read twice).

### NewRecord_proofs

Any rule files, directories and places of the checkout, paths of any length.  Assumed:
locations are sequences of names; two rule files are at different locations wherever
the checkout is; the marks are neither locations nor digests.

| Theorem | Statement |
| --- | --- |
| `TypeCorrect` | `Spec => []TypeOK` |
| `PathsFindRules` | `Spec => []PathFindsRule` |
| `PinsAreOwn` | `Spec => []PinIsOwn` |
| `NewAndRefreshAgree` | `Spec => []NewAgreesWithRefresh` |

The first part of the module is about sequences of names as paths: the common prefix of
two locations, that a path below its base, or relative to it by way of `..`, resolves to
what it was made from (`CommonPrefix`, `BelowResolves`, `SpellingsLead`, `ResolveUnder`).
`PathFindsRule` alone is not inductive, since it says nothing of where the checkout may be
moved; `LeadInv` adds that a relative path never climbs out of the checkout, and so
survives `Relocate`.  `OwnInv` says that the history `own` has the digest of the rule as it
is, that the recorded hash is in it, and that it is the current one if nobody has touched
the file.

### RuleFile_proofs

Texts of any length over any words, files of any number of documents, any names.
Assumed: the kinds of words are apart, lines are lines, the garbled document is none,
and the initial files are files there may be.

| Theorem | Statement |
| --- | --- |
| `TypeCorrect` | `Spec => []TypeOK` |
| `CommentsNeverCount` | `Spec => CommentsAreFree` |
| `WrappingNeverCounts` | `Spec => WrappingIsFree` |
| `HashIsIndependent` | `Spec => []HashIdentity` |
| `StanzasAreApart` | `Spec => OneStanzaAtATime` |
| `ReexportsMoveNothing` | `Spec => ReexportKeepsHash` |
| `TheNamedIsPinned` | `Spec => TheNamedRuleIsPinned` |

The inductive invariant is short, `HashInv`: the file is one there may be, and `hash` is
what the code computes of it.  What is hard is in the operators.  Both readers are left
folds over the lines, one by way of the community modules' `MapThenFoldSet`;
`SequenceLemmas` shows that such a fold obeys the laws for the empty sequence, `Append`
and `\o`, by induction in the form that speaks of the least element of a set, because the
library's induction theorems take an operator and cannot be instantiated here.

* Joining physical to logical lines splits at any line that is neither continued nor a
  continuation (`LogicalSplit`, `LineBetween`): a comment or a break changes one logical
  line only, and that one in nothing that the hash is taken of.
* `OneStanzaAtATime`: at every line the conf reader is in the stanza of the last header
  (`Follows`), by appending line after line; two folds that agree up to the edited line,
  and read the same lines after it, agree in every other stanza (`FoldAgree`).
* Documents: an export that changes envelope and stamps only keeps the place of the
  document that is hashed (`SamePlaces`, `RuleAtSame`), and an edit of its query shows
  in its digest (`QueryShows`).

### Filters_proofs

Expressions of any length over any names, however written as conditions of KQL.  Assumed:
names are no operators, and `Form` and `Otherwise` are functions of them.  `MeaningsAt`
is a function that a `CHOOSE` picks by its recursion on pairs of positions; nothing about
it can be expanded before there is shown to be such a function.

* *There is one* (`ReadingExists`): a part of a text is given a size, its length first and
  its level second, and the recursion only ever looks at parts of a smaller one; functions
  that solve it up to a size extend to the next (`SolveMore`).  Hence `ReadingSolves`, by
  which everything below unfolds it.
* *A part means what it means by itself* (`Shifted`, `PartMeans`): by the least size at
  which two readings of the same words could differ.
* *The grammar is not ambiguous* (`MeaningsOne`): what means something closes the
  parentheses it opens, and has no operator outside of them that binds less than its level
  (`PartsBalanced`).  So an expression splits at one place only, the last operator of its
  level outside parentheses (`SplitPlace`), and by induction over the size at most one
  meaning comes of it (`PartsOne`).
* *The forms the exporters handle*: a name, a negation, a group (`UnaryForms`); what a listed
  condition is stripped to compiles (`NegationCompiles`);
  `NOT ( ... )` around an expression (`NegatedMeans`); the words between the parentheses
  that `_strip_not` takes off one by one (`SigmaClause`), where an expression without its
  last parenthesis means nothing (`WithoutItsEnd`); and a text whose parts between `and` are
  simple, which is their conjunction (`SimplePartsMean`).  The last is by appending word
  after word: `Parts` is a left fold, and an empty part is where the text begins or comes
  after an `and` (`InParts`); an entry that compares as KQL does is true of its condition
  (`EntriesFit`).

### Exporters_proofs

Any names, filters, bounds and orders of edits.  Assumed besides: filters are sequences of
tokens, and a first filter fits the bound.

| Theorem | Statement |
| --- | --- |
| `RefsAgree` | `Spec => []RefreshSeesTheRecord` |
| `ExportsAreOwn` | `Spec => []NoForeignExport` |
| `ValidSuppressionsShip` | `Spec => []SuppressionsShip` |
| `TypeCorrect` | `Spec => []TypeOK` |
| `SplMeansTheCondition` | `Spec => []SameEventsInSpl` |
| `NativeClausesAreExact` | `Spec => []ExactlyTheFalsePositives` |
| `ItemsAreExact` | `Spec => []EntriesOrManual` |

The first is a fact about every record that validates (`SameRefs`): it has a kind, and
refs under a key that both readers look at.  For the others the invariant is `ExportInv`:
the last export is one of the draft as it stands, because an edit takes it back.  The core
of the second is `ResultIsOwn`: a command that exits 0 has gone through its guards, or,
for `export-splunk`, which has none on the kind, through a tuning with the Sigma fields,
which the kind match of validation lets through for Sigma targets only.  The third is the
converse (`ValidShips`): validation implies every guard of an exporter but the verdict of
pySigma, which a condition of a listed form passes.  For the other four
a second invariant, `DraftInv`, says that the draft stays a record with an expression in it,
well formed or not; `EmittedClause` says which clause a command that exits 0 has emitted,
and what it means is what `Filters_proofs` shows.

### Only model-checked

`RunsEnd`, `FileComesBack`, `SweepsEnd`: liveness under fairness, which the prover has no
means for.  The four runs that are expected to fail show what does not hold, and have
nothing to prove.

## 5. Not modelled

* The text of reports and scaffolds, the free-text lint (one regular expression over
  prose), the `--status`, `--target` and `--decision` filters of `list`: no state, one
  comparison each.
* The schema export and its drift check: a library generates the schema, one comparison
  compares it.
* Formats of ids, dates, hashes and versions, provenance, scope and extensions in a
  record: checks of one field each.
* The `savedsearches` stanza around an exported clause, titles and ids of exports, and
  the selections of a Sigma filter.  pySigma and sigma-to-spl are external: they are taken
  to compile a condition to SPL that means the same.
* Regular expressions and JSON below the level of tokens and fields: white space inside a
  filter beyond what `apart` says of it, nested volatile fields, numbers that print alike.

## 6. Plan

1. `Sweep` over a directory that a refresh is rewriting (the emptied record that
   `validate` passes over).
2. A Cloud export with several entries, if the code comes to look for the name.
