------------------------------- MODULE Sweep -------------------------------
(***************************************************************************)
(* `ddr validate`, `ddr list` and `ddr expire-check` over a directory.     *)
(* Each reads the files one by one while authors edit, move and break them *)
(* and time goes by; expiry is computed from the dates of a record against *)
(* the moment the command started, never stored.                           *)
(*                                                                         *)
(* A file holds a record, a text that is no DDR record (another mapping,   *)
(* an empty file), a text that does not load, or is not there.  Times are  *)
(* days; MaxDate is the end of the calendar.                               *)
(***************************************************************************)
EXTENDS Naturals

CONSTANTS
  NFiles,    \* files are numbered in the order the commands read them
  YamlFiles, \* those named *.yaml; the others are *.yml
  Records,   \* the records authors write
  None,      \* an optional field that is not set
  Absent, NotDDR, Garbled,
  Ahead,     \* values of --days-ahead
  Filters,   \* sets of --expired and --due
  MaxNow,    \* bound on the clock
  MaxDate,   \* the last date that can be represented
  Sweepers

Files    == 1 .. NFiles
Texts    == Records \cup {Absent, NotDDR, Garbled}
Commands == {"validate", "list", "expire-check"}
Marks    == {"OK", "FAIL", "ROW", "EXPIRED", "SOON", "DUE"}

Statuses == {"draft", "active", "retired"}
DayOpt   == Nat \cup {None}
\* The fields of a record that validation and the reports look at.
Record == [status : Statuses, deprecates : BOOLEAN,
           retired : BOOLEAN, closed : BOOLEAN, expires : DayOpt,
           reviewed : DayOpt, cadence : DayOpt]

ASSUME FilesAssumption == NFiles \in Nat /\ YamlFiles \subseteq Files
ASSUME TextsAssumption ==
  /\ None \notin Nat /\ Records \subseteq Record
  /\ Absent \notin Record /\ NotDDR \notin Record /\ Garbled \notin Record
  /\ Absent # NotDDR /\ Absent # Garbled /\ NotDDR # Garbled
ASSUME FiltersAssumption == Filters \subseteq SUBSET {"EXPIRED", "DUE"}
ASSUME TimeAssumption ==
  Ahead \subseteq Nat /\ MaxNow \in Nat /\ MaxDate \in Nat /\ MaxNow <= MaxDate

VARIABLES
  text,    \* what each file holds
  now,     \* the clock
  pc,      \* "idle", "sweeping", or the exit: "zero", "one", "traceback"
  cmd,     \* the command of each sweep
  ahead,   \* its --days-ahead
  only,    \* which of --expired and --due it was given
  start,   \* its now
  todo,    \* files listed and not yet read
  listed,  \* whether the *.yaml files have been listed
  report,  \* what it has said of each file
  \* history:
  stable,  \* files that have not changed since the sweep started
  promise  \* the day up to which expire-check has been silent on the file
           \* as it is, if it has

world == <<text, now>>
sweep == <<pc, cmd, ahead, only, start, todo, listed, report>>
vars  == <<world, sweep, stable, promise>>

(***************************************************************************)
(* Records.                                                                *)
(***************************************************************************)

\* The constraints of Lifecycle; closed stands for superseded_by and
\* retirement_reason.
ValidLifecycle(rec) ==
  /\ rec.status = "retired" => rec.retired
  /\ rec.closed => rec.status = "retired"
  /\ rec.cadence # 0

\* ... and of DDRRecord over the fields modelled.
Valid(rec) ==
  /\ ValidLifecycle(rec)
  /\ rec.status = "active" /\ ~rec.deprecates => rec.expires # None

\* The text is a record that the reports look at; all others are passed over.
Readable(t) == IF t \in Record THEN Valid(t) ELSE FALSE

Expired(rec, t) ==
  rec.status = "active" /\ rec.expires # None /\ rec.expires < t

Reviewed(rec) ==
  rec.status = "active" /\ rec.cadence # None /\ rec.reviewed # None

Due(rec, t) == Reviewed(rec) /\ rec.reviewed + rec.cadence < t

\* reviewed + cadence is past the end of the calendar: OverflowError.
Overflows(rec) == Reviewed(rec) /\ rec.reviewed + rec.cadence > MaxDate

\* Mutant: one day ahead is no lead time.
SoonFromTwo(rec, t, n) ==
  /\ rec.status = "active" /\ rec.expires # None /\ n > 1
  /\ t <= rec.expires /\ rec.expires <= t + n

Soon(rec, t, n) ==
  /\ rec.status = "active" /\ rec.expires # None /\ n > 0
  /\ t <= rec.expires /\ rec.expires <= t + n

\* Mutant: a text that does not load is passed over, as by list.
ValidateMarksLoaded(t) ==
  IF t \in {NotDDR, Garbled} THEN {}
  ELSE IF Readable(t) THEN {"OK"} ELSE {"FAIL"}

\* What each command says of a text.
ValidateMarks(t) ==
  IF t = NotDDR THEN {}
  ELSE IF Readable(t) THEN {"OK"} ELSE {"FAIL"}

\* The flags of a row of list.
ListFlags(rec, day) ==
  {m \in {"EXPIRED"} : Expired(rec, day)} \cup {m \in {"DUE"} : Due(rec, day)}

\* A row is printed if it has every flag asked for, and shows all it has.
ListMarks(t, day, o) ==
  IF ~Readable(t) THEN {}
  ELSE IF o \subseteq ListFlags(t, day) THEN {"ROW"} \cup ListFlags(t, day) ELSE {}

\* Mutant: a review is due on the day itself.
CheckFlagsOnTheDay(rec, day) ==
  IF rec.status # "active" THEN {}
  ELSE {m \in {"EXPIRED"} : rec.expires # None /\ rec.expires < day}
       \cup {m \in {"DUE"} : rec.cadence # None /\ rec.reviewed # None
                             /\ rec.reviewed + rec.cadence <= day}

\* expire-check passes over what is not active, and then has its own reading
\* of the dates.
CheckFlags(rec, day) ==
  IF rec.status # "active" THEN {}
  ELSE {m \in {"EXPIRED"} : rec.expires # None /\ rec.expires < day}
       \cup {m \in {"DUE"} : rec.cadence # None /\ rec.reviewed # None
                             /\ rec.reviewed + rec.cadence < day}

CheckMarks(t, day, n) ==
  IF ~Readable(t) THEN {}
  ELSE CheckFlags(t, day) \cup {m \in {"SOON"} : Soon(t, day, n)}

(***************************************************************************)
(* A sweep.                                                                *)
(***************************************************************************)
Present(fs) == {f \in fs : text[f] # Absent}
Fresh       == [f \in Files |-> {}]

\* A command begins by listing the *.yml files.
Start(s, c, n, o) ==
  /\ pc[s] # "sweeping"
  /\ cmd' = [cmd EXCEPT ![s] = c]
  /\ ahead' = [ahead EXCEPT ![s] = IF c = "expire-check" THEN n ELSE 0]
  /\ only' = [only EXCEPT ![s] = IF c = "list" THEN o ELSE {}]
  /\ start' = [start EXCEPT ![s] = now]
  /\ report' = [report EXCEPT ![s] = Fresh]
  /\ stable' = [stable EXCEPT ![s] = Files]
  /\ todo' = [todo EXCEPT ![s] = Present(Files \ YamlFiles)]
  /\ listed' = [listed EXCEPT ![s] = FALSE]
  /\ pc' = [pc EXCEPT ![s] =
       IF c = "expire-check" /\ now + n > MaxDate THEN "traceback" ELSE "sweeping"]
  /\ UNCHANGED <<world, promise>>

\* Mutant: only *.yml files are looked for.
ListYamlNot(s) ==
  /\ pc[s] = "sweeping" /\ ~listed[s]
  /\ cmd[s] = "validate" \/ todo[s] = {}
  /\ listed' = [listed EXCEPT ![s] = TRUE]
  /\ UNCHANGED <<world, pc, cmd, ahead, only, start, todo, report, stable, promise>>

\* It lists the *.yaml files: validate before it reads any file, the others
\* when the *.yml files have been read.
ListYaml(s) ==
  /\ pc[s] = "sweeping" /\ ~listed[s]
  /\ cmd[s] = "validate" \/ todo[s] = {}
  /\ todo' = [todo EXCEPT ![s] = @ \cup Present(YamlFiles)]
  /\ listed' = [listed EXCEPT ![s] = TRUE]
  /\ UNCHANGED <<world, pc, cmd, ahead, only, start, report, stable, promise>>

\* What a sweep was asked, and when.
Asked(s) == [cmd |-> cmd[s], ahead |-> ahead[s], only |-> only[s], start |-> start[s]]
Asks     == [cmd : Commands, ahead : Ahead \cup {0}, only : Filters \cup {{}},
             start : 0 .. MaxNow]

Judge(a, t) ==
  CASE a.cmd = "validate"     -> ValidateMarks(t)
    [] a.cmd = "list"         -> ListMarks(t, a.start, a.only)
    [] a.cmd = "expire-check" -> CheckMarks(t, a.start, a.ahead)

\* Mutant: each file is judged as of the moment it is read.
MarkedNow(s, t) == Judge([Asked(s) EXCEPT !.start = now], t)

Marked(s, t) == Judge(Asked(s), t)

\* The day until which to look ahead is past the end of the calendar.
Hopeless(a) == a.cmd = "expire-check" /\ a.start + a.ahead > MaxDate

\* A sweep that computes review dates dies on one it cannot represent, and
\* takes its whole report with it.
Fatal(a, t) == a.cmd # "validate" /\ Readable(t) /\ Overflows(t)
Dies(s, t)  == Fatal(Asked(s), t)

\* Files are read in the order of their sorted paths, *.yml before *.yaml.
IsNext(s, f) ==
  /\ f \in todo[s] /\ \A g \in todo[s] : f <= g
  /\ cmd[s] = "validate" => listed[s]

\* Mutant: the file stays on the list.
ReadFileAgain(s) ==
  /\ pc[s] = "sweeping"
  /\ \E f \in Files :
       /\ IsNext(s, f)
       /\ ~Dies(s, text[f])
       /\ report' = [report EXCEPT ![s][f] = Marked(s, text[f])]
  /\ UNCHANGED <<world, pc, cmd, ahead, only, start, todo, listed, stable, promise>>

ReadFile(s) ==
  /\ pc[s] = "sweeping"
  /\ \E f \in Files :
       /\ IsNext(s, f)
       /\ ~Dies(s, text[f])
       /\ report' = [report EXCEPT ![s][f] = Marked(s, text[f])]
       /\ todo' = [todo EXCEPT ![s] = @ \ {f}]
  /\ UNCHANGED <<world, pc, cmd, ahead, only, start, listed, stable, promise>>

Die(s) ==
  /\ pc[s] = "sweeping"
  /\ \E f \in Files : IsNext(s, f) /\ Dies(s, text[f])
  /\ pc' = [pc EXCEPT ![s] = "traceback"]
  /\ todo' = [todo EXCEPT ![s] = {}]
  /\ report' = [report EXCEPT ![s] = Fresh]
  /\ UNCHANGED <<world, cmd, ahead, only, start, listed, stable, promise>>

Said(said, m) == \E f \in Files : m \in said[f]

Passes(a, said) ==
  CASE a.cmd = "validate"     -> Said(said, "OK") /\ ~Said(said, "FAIL")
    [] a.cmd = "list"         -> TRUE
    [] a.cmd = "expire-check" -> ~\E m \in {"EXPIRED", "SOON", "DUE"} : Said(said, m)

ExitsZero(s) == Passes(Asked(s), report[s])

\* Files on which an expire-check that ends now has been silent as to expiry.
Silent(s) ==
  {f \in stable[s] : /\ cmd[s] = "expire-check"
                     /\ report[s][f] \cap {"EXPIRED", "SOON"} = {}}

\* Mutant: the *.yaml files are not waited for.
FinishEarly(s) ==
  /\ pc[s] = "sweeping" /\ todo[s] = {}
  /\ pc' = [pc EXCEPT ![s] = IF ExitsZero(s) THEN "zero" ELSE "one"]
  /\ promise' = promise
  /\ UNCHANGED <<world, cmd, ahead, only, start, todo, listed, report, stable>>

Finish(s) ==
  /\ pc[s] = "sweeping" /\ todo[s] = {} /\ listed[s]
  /\ pc' = [pc EXCEPT ![s] = IF ExitsZero(s) THEN "zero" ELSE "one"]
  /\ promise' = [f \in Files |->
       IF f \in Silent(s) /\ (promise[f] = None \/ promise[f] < start[s] + ahead[s])
       THEN start[s] + ahead[s] ELSE promise[f]]
  /\ UNCHANGED <<world, cmd, ahead, only, start, todo, listed, report, stable>>

(***************************************************************************)
(* Authors and the clock.                                                  *)
(***************************************************************************)
Touch(fs) ==
  /\ stable' = [s \in Sweepers |-> stable[s] \ fs]
  /\ promise' = [f \in Files |-> IF f \in fs THEN None ELSE promise[f]]

Edit(f, t) ==
  /\ text[f] # t
  /\ text' = [text EXCEPT ![f] = t]
  /\ Touch({f})
  /\ UNCHANGED <<now, sweep>>

Move(f, g) ==
  /\ text[f] # Absent /\ text[g] = Absent
  /\ text' = [text EXCEPT ![g] = text[f], ![f] = Absent]
  /\ Touch({f, g})
  /\ UNCHANGED <<now, sweep>>

Tick ==
  /\ now < MaxNow
  /\ now' = now + 1
  /\ UNCHANGED <<text, sweep, stable, promise>>

(***************************************************************************)
(* Specification.                                                          *)
(***************************************************************************)
Init ==
  /\ text \in [Files -> Texts]
  /\ now = 0
  /\ pc = [s \in Sweepers |-> "idle"]
  /\ cmd = [s \in Sweepers |-> "validate"]
  /\ ahead = [s \in Sweepers |-> 0]
  /\ only = [s \in Sweepers |-> {}]
  /\ start = [s \in Sweepers |-> 0]
  /\ todo = [s \in Sweepers |-> {}]
  /\ listed = [s \in Sweepers |-> TRUE]
  /\ report = [s \in Sweepers |-> Fresh]
  /\ stable = [s \in Sweepers |-> {}]
  /\ promise = [f \in Files |-> None]

Progress(s) == ListYaml(s) \/ ReadFile(s) \/ Die(s) \/ Finish(s)

Next ==
  \/ \E s \in Sweepers :
       \/ \E c \in Commands, n \in Ahead, o \in Filters :
            Start(s, c, n, o)
       \/ Progress(s)
  \/ \E f \in Files, t \in Texts : Edit(f, t)
  \/ \E f, g \in Files : Move(f, g)
  \/ Tick

Spec == Init /\ [][Next]_vars

\* A command that has been started runs to its end.
FairSpec == Spec /\ \A s \in Sweepers : WF_vars(Progress(s))
(***************************************************************************)
(* Properties.                                                             *)
(***************************************************************************)

\* Types; a sweep that is over has nothing left to read.
TypeOK ==
  /\ text \in [Files -> Texts]
  /\ now \in 0 .. MaxNow
  /\ pc \in [Sweepers -> {"idle", "sweeping", "zero", "one", "traceback"}]
  /\ cmd \in [Sweepers -> Commands]
  /\ ahead \in [Sweepers -> Nat]
  /\ only \in [Sweepers -> SUBSET {"EXPIRED", "DUE"}]
  /\ start \in [Sweepers -> 0 .. MaxNow]
  /\ todo \in [Sweepers -> SUBSET Files]
  /\ listed \in [Sweepers -> BOOLEAN]
  /\ report \in [Sweepers -> [Files -> SUBSET Marks]]
  /\ stable \in [Sweepers -> SUBSET Files]
  /\ promise \in [Files -> Nat \cup {None}]
  /\ \A s \in Sweepers : pc[s] \in {"zero", "one"} => todo[s] = {} /\ listed[s]

Reported(s) == pc[s] \in {"zero", "one"}

\* An active record that had expired when expire-check or list started, and
\* whose file nobody touched meanwhile, is reported, *.yml or *.yaml alike,
\* whatever happens to the other files and whether or not list was asked for
\* the expired only; expire-check then exits 1.
LapsedIsReported ==
  \A s \in Sweepers :
    cmd[s] # "validate" /\ Reported(s) /\ only[s] \subseteq {"EXPIRED"} =>
      \A f \in stable[s] :
        Readable(text[f]) /\ text[f] \in Record /\ Expired(text[f], start[s])
          => /\ "EXPIRED" \in report[s][f]
             /\ cmd[s] = "expire-check" => pc[s] = "one"

\* "--expired and --due mirror expire-check logic": a list and an
\* expire-check started at the same time agree on every file that nobody
\* touched, though they read it at different moments: list shows what has
\* all the flags it was asked for, with the flags that expire-check reports.
ListAgreesWithCheck ==
  \A s, u \in Sweepers :
    /\ cmd[s] = "list" /\ cmd[u] = "expire-check"
    /\ Reported(s) /\ Reported(u) /\ start[s] = start[u]
    => \A f \in stable[s] \cap stable[u] :
         LET flags == report[u][f] \cap {"EXPIRED", "DUE"}
         IN  report[s][f] \ {"ROW"} = IF only[s] \subseteq flags THEN flags ELSE {}

\* expire-check --days-ahead N that is silent on a file promises that no
\* sweep will find its record expired for the next N days, if nobody touches
\* it: run every N days, it never reports an expiry it has not announced.
SilenceIsAPromise ==
  \A s \in Sweepers : \A f \in stable[s] :
    "EXPIRED" \in report[s][f] /\ promise[f] # None => promise[f] < start[s]

\* A validate that exits 0 has passed every record nobody touched meanwhile,
\* and there was no text among the untouched files that fails to load or to
\* validate.
ValidateIsAGate ==
  \A s \in Sweepers : cmd[s] = "validate" /\ pc[s] = "zero" =>
    \A f \in stable[s] :
      \/ text[f] \in {Absent, NotDDR}
      \/ Readable(text[f]) /\ "OK" \in report[s][f]

\* Files a sweep under way still has to list or to read.
Unread(s, f) == f \in todo[s] \/ (~listed[s] /\ f \in YamlFiles)

\* What a sweep has said, file by file.
SaidOf(s) ==
  [f \in Files |->
    IF pc[s] = "sweeping" /\ Unread(s, f) THEN {"UNREAD"} ELSE report[s][f]]

Requests == [s \in Sweepers |-> Asked(s)]
Remarks  == [s \in Sweepers |-> SaidOf(s)]

View == INSTANCE Survey WITH
          Times <- 0 .. MaxNow, Unsaid <- {"UNREAD"},
          ask <- Requests, stage <- pc, said <- Remarks

\* Files that authors write, move and break while a command reads the
\* directory are not left out: of every path it says what one look at it,
\* between start and end, justifies as of its start.  No path is judged twice
\* or by a text it no longer had, none that was there is passed over, and the
\* exit code is that of what was said.
LooksOnce == View!Spec

\* Every command ends.
SweepsEnd == \A s \in Sweepers : pc[s] = "sweeping" ~> pc[s] # "sweeping"

\* cli.py:838: "read-only, always exits 0".
ListExitsZero ==
  \A s \in Sweepers : cmd[s] = "list" => pc[s] \notin {"one", "traceback"}
=============================================================================
