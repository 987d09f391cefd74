---------------------------- MODULE Sweep_proofs ----------------------------
(***************************************************************************)
(* Proofs about Sweep, for any number of files, of sweeps at a time, of    *)
(* records authors write, and however far the clock and the calendar go.   *)
(***************************************************************************)
EXTENDS Sweep, TLAPS

(***************************************************************************)
(* Type correctness.                                                       *)
(***************************************************************************)

\* What a command says of a text, and what it lists, is well typed.
LEMMA MarkedType ==
  ASSUME NEW s \in Sweepers, cmd[s] \in Commands, NEW t
  PROVE  Marked(s, t) \in SUBSET Marks
BY DEF Marked, Judge, Asked, ValidateMarks, ListMarks, CheckMarks,
   ListFlags, CheckFlags, Marks, Commands

\* The files that are there are files.
LEMMA PresentType ==
  ASSUME NEW fs \in SUBSET Files
  PROVE  Present(fs) \in SUBSET Files
BY DEF Present

\* The initial states are well typed.
LEMMA TypeInit == Init => TypeOK
<1> SUFFICES ASSUME Init PROVE TypeOK  OBVIOUS
<1>1. Fresh \in [Files -> SUBSET Marks]  BY DEF Fresh
<1> QED  BY <1>1, TimeAssumption DEF Init, TypeOK, Commands

\* The steps of a sweep.
LEMMA StartType ==
  ASSUME TypeOK, NEW s \in Sweepers, NEW c \in Commands, NEW n \in Ahead,
         NEW o \in Filters, Start(s, c, n, o)
  PROVE  TypeOK'
<1>1. UNCHANGED <<text, now, promise>>  BY DEF Start, world
<1>2. cmd' \in [Sweepers -> Commands]  BY DEF Start, TypeOK
<1>3. ahead' \in [Sweepers -> Nat]  BY TimeAssumption DEF Start, TypeOK
<1>4. only' \in [Sweepers -> SUBSET {"EXPIRED", "DUE"}]
  BY FiltersAssumption DEF Start, TypeOK
<1>5. start' \in [Sweepers -> 0 .. MaxNow]  BY DEF Start, TypeOK
<1>6. report' \in [Sweepers -> [Files -> SUBSET Marks]]
  <2>1. Fresh \in [Files -> SUBSET Marks]  BY DEF Fresh
  <2> QED  BY <2>1 DEF Start, TypeOK
<1>7. stable' \in [Sweepers -> SUBSET Files]  BY DEF Start, TypeOK
<1>8. /\ todo' \in [Sweepers -> SUBSET Files]
      /\ listed' \in [Sweepers -> BOOLEAN]
  <2>1. Present(Files \ YamlFiles) \in SUBSET Files  BY PresentType
  <2> QED  BY <2>1 DEF Start, TypeOK
<1>9. pc' \in [Sweepers -> {"idle", "sweeping", "zero", "one", "traceback"}]
  BY DEF Start, TypeOK
<1>10. ASSUME NEW u \in Sweepers, pc'[u] \in {"zero", "one"}
       PROVE  todo'[u] = {} /\ listed'[u]
  <2>1. CASE u # s
    BY <1>10, <2>1 DEF Start, TypeOK
  <2>2. CASE u = s
    BY <1>10, <2>2 DEF Start, TypeOK
  <2> QED  BY <2>1, <2>2
<1> QED
  BY <1>1, <1>2, <1>3, <1>4, <1>5, <1>6, <1>7, <1>8, <1>9, <1>10 DEF TypeOK

\* The next step of a sweep keeps the types.
LEMMA ProgressType ==
  ASSUME TypeOK, NEW s \in Sweepers, Progress(s)
  PROVE  TypeOK'
<1>1. CASE ListYaml(s)
  <2>1. Present(YamlFiles) \in SUBSET Files  BY FilesAssumption, PresentType
  <2>2. todo' \in [Sweepers -> SUBSET Files]  BY <1>1, <2>1 DEF ListYaml, TypeOK
  <2>3. listed' \in [Sweepers -> BOOLEAN]  BY <1>1 DEF ListYaml, TypeOK
  <2>4. \A u \in Sweepers : pc'[u] \in {"zero", "one"} => todo'[u] = {} /\ listed'[u]
    BY <1>1 DEF ListYaml, TypeOK
  <2> QED  BY <1>1, <2>2, <2>3, <2>4 DEF ListYaml, TypeOK, world
<1>2. CASE ReadFile(s)
  <2>1. PICK f \in Files :
          /\ report' = [report EXCEPT ![s][f] = Marked(s, text[f])]
          /\ todo' = [todo EXCEPT ![s] = @ \ {f}]
    BY <1>2 DEF ReadFile
  <2>2. Marked(s, text[f]) \in SUBSET Marks  BY MarkedType DEF TypeOK
  <2>3. report' \in [Sweepers -> [Files -> SUBSET Marks]]
    BY <2>1, <2>2 DEF TypeOK
  <2>4. todo' \in [Sweepers -> SUBSET Files]  BY <2>1 DEF TypeOK
  <2>5. \A u \in Sweepers : pc'[u] \in {"zero", "one"} => todo'[u] = {} /\ listed'[u]
    BY <1>2, <2>1 DEF ReadFile, TypeOK
  <2> QED  BY <1>2, <2>3, <2>4, <2>5 DEF ReadFile, TypeOK, world
<1>3. CASE Die(s)
  <2>1. Fresh \in [Files -> SUBSET Marks]  BY DEF Fresh
  <2>2. report' \in [Sweepers -> [Files -> SUBSET Marks]]
    BY <1>3, <2>1 DEF Die, TypeOK
  <2>3. /\ todo' \in [Sweepers -> SUBSET Files]
        /\ pc' \in [Sweepers -> {"idle", "sweeping", "zero", "one", "traceback"}]
    BY <1>3 DEF Die, TypeOK
  <2>4. \A u \in Sweepers : pc'[u] \in {"zero", "one"} => todo'[u] = {} /\ listed'[u]
    BY <1>3 DEF Die, TypeOK
  <2> QED  BY <1>3, <2>2, <2>3, <2>4 DEF Die, TypeOK, world
<1>4. CASE Finish(s)
  <2>1. start[s] + ahead[s] \in Nat  BY TimeAssumption DEF TypeOK
  <2>2. promise' \in [Files -> Nat \cup {None}]
    BY <1>4, <2>1 DEF Finish, TypeOK
  <2>3. pc' \in [Sweepers -> {"idle", "sweeping", "zero", "one", "traceback"}]
    BY <1>4 DEF Finish, TypeOK
  <2>4. \A u \in Sweepers : pc'[u] \in {"zero", "one"} => todo'[u] = {} /\ listed'[u]
    BY <1>4 DEF Finish, TypeOK
  <2> QED  BY <1>4, <2>2, <2>3, <2>4 DEF Finish, TypeOK, world
<1> QED  BY <1>1, <1>2, <1>3, <1>4 DEF Progress

\* So does the history of an author's step.
LEMMA TouchType ==
  ASSUME TypeOK, NEW fs, Touch(fs)
  PROVE  /\ stable' \in [Sweepers -> SUBSET Files]
         /\ promise' \in [Files -> Nat \cup {None}]
BY DEF TypeOK, Touch

\* No step breaks the types.
LEMMA TypeNext == TypeOK /\ [Next]_vars => TypeOK'
<1> SUFFICES ASSUME TypeOK, [Next]_vars PROVE TypeOK'  OBVIOUS
<1>1. ASSUME NEW f \in Files, NEW t \in Texts, Edit(f, t) PROVE TypeOK'
  <2>1. text' \in [Files -> Texts]  BY <1>1 DEF Edit, TypeOK
  <2> QED  BY <1>1, <2>1, TouchType DEF Edit, TypeOK, sweep
<1>2. ASSUME NEW f \in Files, NEW g \in Files, Move(f, g) PROVE TypeOK'
  <2>1. text' \in [Files -> Texts]  BY <1>2 DEF Move, TypeOK, Texts
  <2> QED  BY <1>2, <2>1, TouchType DEF Move, TypeOK, sweep
<1>3. CASE Tick
  <2>1. now' \in 0 .. MaxNow  BY <1>3, TimeAssumption DEF Tick, TypeOK
  <2> QED  BY <1>3, <2>1 DEF Tick, TypeOK, sweep
<1>4. CASE UNCHANGED vars  BY <1>4 DEF vars, world, sweep, TypeOK
<1> QED  BY <1>1, <1>2, <1>3, <1>4, StartType, ProgressType DEF Next

\* Every variable keeps its domain; a sweep that is over has read all it
\* listed, and has listed the *.yaml files too.
THEOREM TypeCorrect == Spec => []TypeOK
BY TypeInit, TypeNext, PTL DEF Spec

(***************************************************************************)
(* What a sweep has said of the files nobody touched.                      *)
(***************************************************************************)

\* What the report says of f when f has been like this from the start of the
\* sweep: a file that is not there is not listed.
Deserved(s, f) ==
  IF Unread(s, f) \/ text[f] = Absent THEN {} ELSE Marked(s, text[f])

\* A sweep under way, or over, has said of the untouched files what it had
\* to say, and listed none of them that is not there; its exit code is that
\* of its report.  One that has not begun or has died has said nothing.
SaidOK(s) ==
  /\ pc[s] \in {"sweeping", "zero", "one"} =>
       /\ \A f \in stable[s] : report[s][f] = Deserved(s, f)
       /\ \A f \in stable[s] \cap todo[s] : text[f] # Absent
       /\ ~listed[s] => todo[s] \cap YamlFiles = {}
  /\ pc[s] \in {"idle", "traceback"} => report[s] = Fresh
  /\ Reported(s) => (pc[s] = "zero" <=> ExitsZero(s))

SaidInv == \A s \in Sweepers : SaidOK(s)

\* An active record that expires does so no earlier than the day up to which
\* expire-check has been silent on its file.
PromiseInv ==
  \A f \in Files :
    /\ promise[f] # None
    /\ Readable(text[f]) /\ text[f].status = "active" /\ text[f].expires # None
    => text[f].expires >= promise[f]

\* A step of another process, or of an author on files that have been
\* touched already, or are now, leaves what u has said in place.
LEMMA SaidFrame ==
  ASSUME NEW u \in Sweepers, SaidOK(u), stable[u] \subseteq Files,
         pc'[u] = pc[u], cmd'[u] = cmd[u], ahead'[u] = ahead[u],
         only'[u] = only[u], start'[u] = start[u], todo'[u] = todo[u],
         listed'[u] = listed[u], report'[u] = report[u],
         stable'[u] \subseteq stable[u],
         \A f \in stable'[u] : text'[f] = text[f]
  PROVE  SaidOK(u)'
<1>1. ASSUME NEW f \in stable'[u] PROVE Deserved(u, f)' = Deserved(u, f)
  <2>1. Marked(u, text[f])' = Marked(u, text[f])  BY DEF Marked, Judge, Asked
  <2> QED  BY <2>1 DEF Deserved, Unread
<1>2. ExitsZero(u)' <=> ExitsZero(u)  BY DEF ExitsZero, Passes, Asked, Said
<1>3. Reported(u)' <=> Reported(u)  BY DEF Reported
<1> QED  BY <1>1, <1>2, <1>3 DEF SaidOK

\* The other sweeps when s takes a step and no file changes.
LEMMA OthersSaid ==
  ASSUME TypeOK, SaidInv, NEW s \in Sweepers, NEW u \in Sweepers \ {s},
         text' = text, pc'[u] = pc[u], cmd'[u] = cmd[u], ahead'[u] = ahead[u],
         only'[u] = only[u], start'[u] = start[u], todo'[u] = todo[u],
         listed'[u] = listed[u], report'[u] = report[u], stable'[u] = stable[u]
  PROVE  SaidOK(u)'
BY SaidFrame DEF SaidInv, TypeOK

\* A sweep that starts has said nothing, and listed what is there.
LEMMA StartSaid ==
  ASSUME TypeOK, NEW s \in Sweepers, NEW c \in Commands, NEW n \in Ahead,
         NEW o \in Filters, Start(s, c, n, o)
  PROVE  SaidOK(s)'
<1>1. /\ text' = text /\ cmd'[s] = c /\ report'[s] = Fresh /\ stable'[s] = Files
  BY DEF Start, TypeOK, world
<1>2. \A f \in Files : report'[s][f] = {}  BY <1>1 DEF Fresh
<1>3. /\ todo'[s] = Present(Files \ YamlFiles) /\ listed'[s] = FALSE
      /\ pc'[s] \in {"sweeping", "traceback"}
  BY DEF Start, TypeOK
<1>4. \A f \in Files : Deserved(s, f)' = {}
  BY <1>1, <1>3 DEF Deserved, Unread, Present
<1>5. /\ \A f \in todo'[s] : text'[f] # Absent
      /\ todo'[s] \cap YamlFiles = {}
  BY <1>1, <1>3 DEF Present
<1>6. Fresh' = Fresh  BY DEF Fresh
<1> QED  BY <1>1, <1>2, <1>3, <1>4, <1>5, <1>6 DEF SaidOK, Reported

\* The *.yaml files that are listed now have not been spoken of; the others
\* are not there.
LEMMA ListYamlSaid ==
  ASSUME TypeOK, NEW s \in Sweepers, SaidOK(s), ListYaml(s)
  PROVE  SaidOK(s)'
<1>1. /\ UNCHANGED <<text, pc, cmd, ahead, only, start, report, stable>>
      /\ pc[s] = "sweeping" /\ ~listed[s]
      /\ todo'[s] = todo[s] \cup Present(YamlFiles) /\ listed'[s] = TRUE
  BY DEF ListYaml, TypeOK, world
<1>2. ASSUME NEW f \in stable[s] PROVE Deserved(s, f)' = Deserved(s, f)
  <2>1. Marked(s, text[f])' = Marked(s, text[f])
    BY <1>1 DEF Marked, Judge, Asked
  <2>2. CASE f \in YamlFiles
    BY <1>1, <2>2 DEF Deserved, Unread, Present
  <2>3. CASE f \notin YamlFiles
    BY <1>1, <2>1, <2>3 DEF Deserved, Unread, Present
  <2> QED  BY <2>2, <2>3
<1>3. \A f \in stable[s] \cap todo'[s] : text'[f] # Absent
  BY <1>1 DEF Present, SaidOK
<1> QED  BY <1>1, <1>2, <1>3 DEF SaidOK, Reported

\* A file that has been read is judged, and the others are as they were.
LEMMA ReadFileSaid ==
  ASSUME TypeOK, NEW s \in Sweepers, SaidOK(s), ReadFile(s)
  PROVE  SaidOK(s)'
<1>1. /\ UNCHANGED <<text, pc, cmd, ahead, only, start, listed, stable>>
      /\ pc[s] = "sweeping"
  BY DEF ReadFile, world
<1>2. PICK f \in Files :
        /\ f \in todo[s]
        /\ report' = [report EXCEPT ![s][f] = Marked(s, text[f])]
        /\ todo' = [todo EXCEPT ![s] = @ \ {f}]
  BY DEF ReadFile, IsNext
<1>3. /\ todo'[s] = todo[s] \ {f} /\ report'[s][f] = Marked(s, text[f])
      /\ \A g \in Files \ {f} : report'[s][g] = report[s][g]
  BY <1>2 DEF TypeOK
<1>4. listed[s] \/ f \notin YamlFiles  BY <1>1, <1>2 DEF SaidOK
<1>5. ASSUME NEW g \in stable[s] PROVE report'[s][g] = Deserved(s, g)'
  <2>1. g \in Files  BY DEF TypeOK
  <2>2. Marked(s, text[g])' = Marked(s, text[g])  BY <1>1 DEF Marked, Judge, Asked
  <2>3. CASE g = f
    <3>1. ~Unread(s, f)'  BY <1>1, <1>3, <1>4 DEF Unread
    <3>2. text[f] # Absent  BY <1>1, <1>2, <2>3 DEF SaidOK
    <3> QED  BY <1>1, <1>3, <2>2, <2>3, <3>1, <3>2 DEF Deserved
  <2>4. CASE g # f
    <3>1. Unread(s, g)' <=> Unread(s, g)  BY <1>1, <1>3, <2>4 DEF Unread
    <3>2. report[s][g] = Deserved(s, g)  BY <1>1 DEF SaidOK
    <3> QED  BY <1>1, <1>3, <2>1, <2>2, <2>4, <3>1, <3>2 DEF Deserved
  <2> QED  BY <2>3, <2>4
<1> QED  BY <1>1, <1>3, <1>5 DEF SaidOK, Reported

\* A sweep that has died has said nothing.
LEMMA DieSaid ==
  ASSUME TypeOK, NEW s \in Sweepers, Die(s)
  PROVE  SaidOK(s)'
<1>1. pc'[s] = "traceback" /\ report'[s] = Fresh  BY DEF Die, TypeOK
<1>2. Fresh' = Fresh  BY DEF Fresh
<1> QED  BY <1>1, <1>2 DEF SaidOK, Reported

\* A sweep ends with the exit code of its report.
LEMMA FinishSaid ==
  ASSUME TypeOK, NEW s \in Sweepers, SaidOK(s), Finish(s)
  PROVE  SaidOK(s)'
<1>1. /\ UNCHANGED <<text, cmd, ahead, only, start, todo, listed, report, stable>>
      /\ pc[s] = "sweeping" /\ listed[s]
      /\ pc'[s] = IF ExitsZero(s) THEN "zero" ELSE "one"
  BY DEF Finish, TypeOK, world
<1>2. ASSUME NEW f \in stable[s] PROVE Deserved(s, f)' = Deserved(s, f)
  <2>1. Marked(s, text[f])' = Marked(s, text[f])  BY <1>1 DEF Marked, Judge, Asked
  <2> QED  BY <1>1, <2>1 DEF Deserved, Unread
<1>3. ExitsZero(s)' <=> ExitsZero(s)  BY <1>1 DEF ExitsZero, Passes, Asked, Said
<1> QED  BY <1>1, <1>2, <1>3 DEF SaidOK, Reported

\* No step makes a report wrong about untouched files.
LEMMA SaidNext == TypeOK /\ SaidInv /\ [Next]_vars => SaidInv'
<1> SUFFICES ASSUME TypeOK, SaidInv, [Next]_vars PROVE SaidInv'  OBVIOUS
<1>1. ASSUME NEW s \in Sweepers, SaidOK(s)',
             text' = text,
             \A u \in Sweepers \ {s} :
               /\ pc'[u] = pc[u] /\ cmd'[u] = cmd[u] /\ ahead'[u] = ahead[u]
               /\ only'[u] = only[u] /\ start'[u] = start[u]
               /\ todo'[u] = todo[u] /\ listed'[u] = listed[u]
               /\ report'[u] = report[u] /\ stable'[u] = stable[u]
      PROVE  SaidInv'
  BY <1>1, OthersSaid DEF SaidInv
<1>2. ASSUME NEW s \in Sweepers, NEW c \in Commands, NEW n \in Ahead,
             NEW o \in Filters, Start(s, c, n, o)
      PROVE  SaidInv'
  <2>1. SaidOK(s)'  BY <1>2, StartSaid
  <2> QED  BY <1>1, <1>2, <2>1 DEF Start, world, TypeOK
<1>3. ASSUME NEW s \in Sweepers, ListYaml(s) PROVE SaidInv'
  <2>1. SaidOK(s)'  BY <1>3, ListYamlSaid DEF SaidInv
  <2> QED  BY <1>1, <1>3, <2>1 DEF ListYaml, world, TypeOK
<1>4. ASSUME NEW s \in Sweepers, ReadFile(s) PROVE SaidInv'
  <2>1. SaidOK(s)'  BY <1>4, ReadFileSaid DEF SaidInv
  <2> QED  BY <1>1, <1>4, <2>1 DEF ReadFile, world, TypeOK
<1>5. ASSUME NEW s \in Sweepers, Die(s) PROVE SaidInv'
  <2>1. SaidOK(s)'  BY <1>5, DieSaid
  <2> QED  BY <1>1, <1>5, <2>1 DEF Die, world, TypeOK
<1>6. ASSUME NEW s \in Sweepers, Finish(s) PROVE SaidInv'
  <2>1. SaidOK(s)'  BY <1>6, FinishSaid DEF SaidInv
  <2> QED  BY <1>1, <1>6, <2>1 DEF Finish, world, TypeOK
<1>7. ASSUME NEW fs, Touch(fs), UNCHANGED sweep,
             \A f \in Files \ fs : text'[f] = text[f]
      PROVE  SaidInv'
  <2> SUFFICES ASSUME NEW u \in Sweepers PROVE SaidOK(u)'  BY DEF SaidInv
  <2>1. stable'[u] = stable[u] \ fs  BY <1>7 DEF Touch
  <2>2. stable[u] \subseteq Files /\ SaidOK(u)  BY DEF TypeOK, SaidInv
  <2> QED  BY <1>7, <2>1, <2>2, SaidFrame DEF sweep
<1>8. ASSUME NEW f \in Files, NEW t \in Texts, Edit(f, t) PROVE SaidInv'
  BY <1>7, <1>8 DEF Edit, TypeOK
<1>9. ASSUME NEW f \in Files, NEW g \in Files, Move(f, g) PROVE SaidInv'
  BY <1>7, <1>9 DEF Move, TypeOK
<1>10. ASSUME UNCHANGED <<text, sweep, stable>> PROVE SaidInv'
  BY <1>10, SaidFrame DEF SaidInv, TypeOK, sweep
<1>11. CASE Tick  BY <1>10, <1>11 DEF Tick
<1>12. CASE UNCHANGED vars  BY <1>10, <1>12 DEF vars, world
<1> QED
  BY <1>2, <1>3, <1>4, <1>5, <1>6, <1>8, <1>9, <1>11, <1>12 DEF Next, Progress

\* SaidInv holds in every reachable state.
LEMMA SaidHolds == Spec => []SaidInv
<1>1. Init => SaidInv
  BY DEF Init, SaidInv, SaidOK, Reported
<1> QED  BY <1>1, TypeCorrect, SaidNext, PTL DEF Spec

\* What a sweep that is over has said of a file nobody touched.
LEMMA SaidAtEnd ==
  ASSUME TypeOK, SaidInv, NEW s \in Sweepers, Reported(s), NEW f \in stable[s]
  PROVE  report[s][f] = IF text[f] = Absent THEN {} ELSE Marked(s, text[f])
<1>1. todo[s] = {} /\ listed[s]  BY DEF TypeOK, Reported
<1>2. ~Unread(s, f)  BY <1>1 DEF Unread
<1>3. report[s][f] = Deserved(s, f)  BY DEF SaidInv, SaidOK, Reported
<1> QED  BY <1>2, <1>3 DEF Deserved

\* ... spelled out for the commands that report expiry: a file that is not
\* there is not readable either.
LEMMA CheckAtEnd ==
  ASSUME TypeOK, SaidInv, NEW s \in Sweepers, NEW f \in stable[s],
         Reported(s) \/ (pc[s] = "sweeping" /\ todo[s] = {} /\ listed[s]),
         cmd[s] = "expire-check"
  PROVE  report[s][f] = CheckMarks(text[f], start[s], ahead[s])
<1>1. todo[s] = {} /\ listed[s]  BY DEF TypeOK, Reported
<1>2. ~Unread(s, f)  BY <1>1 DEF Unread
<1>3. report[s][f] = Deserved(s, f)  BY DEF SaidInv, SaidOK, Reported
<1>4. Marked(s, text[f]) = CheckMarks(text[f], start[s], ahead[s])
  BY DEF Marked, Judge, Asked
<1>5. ~Readable(Absent)  BY TextsAssumption DEF Readable
<1> QED  BY <1>2, <1>3, <1>4, <1>5 DEF Deserved, CheckMarks

\* ... and for list.
LEMMA ListAtEnd ==
  ASSUME TypeOK, SaidInv, NEW s \in Sweepers, NEW f \in stable[s],
         Reported(s), cmd[s] = "list"
  PROVE  report[s][f] = ListMarks(text[f], start[s], only[s])
<1>1. Marked(s, text[f]) = ListMarks(text[f], start[s], only[s])
  BY DEF Marked, Judge, Asked
<1>2. ~Readable(Absent)  BY TextsAssumption DEF Readable
<1> QED  BY <1>1, <1>2, SaidAtEnd DEF ListMarks

\* However authors edit and move files meanwhile: an expired record whose
\* file nobody touched is in the report, and expire-check exits 1 for it.
THEOREM LapsesReported == Spec => []LapsedIsReported
<1>1. TypeOK /\ SaidInv => LapsedIsReported
  <2> SUFFICES ASSUME TypeOK, SaidInv, NEW s \in Sweepers,
                      cmd[s] # "validate", Reported(s),
                      only[s] \subseteq {"EXPIRED"},
                      NEW f \in stable[s],
                      Readable(text[f]), Expired(text[f], start[s])
               PROVE  /\ "EXPIRED" \in report[s][f]
                      /\ cmd[s] = "expire-check" => pc[s] = "one"
    BY DEF LapsedIsReported
  <2>1. /\ "EXPIRED" \in ListFlags(text[f], start[s])
        /\ "EXPIRED" \in CheckFlags(text[f], start[s])
    BY DEF ListFlags, CheckFlags, Expired
  <2>2. CASE cmd[s] = "list"
    <3>1. only[s] \subseteq ListFlags(text[f], start[s])  BY <2>1
    <3>2. report[s][f] = ListMarks(text[f], start[s], only[s])
      BY <2>2, ListAtEnd
    <3>3. "EXPIRED" \in report[s][f]  BY <2>1, <3>1, <3>2 DEF ListMarks
    <3> QED  BY <2>2, <3>3
  <2>3. CASE cmd[s] = "expire-check"
    <3>1. report[s][f] = CheckMarks(text[f], start[s], ahead[s])
      BY <2>3, CheckAtEnd
    <3>2. f \in Files /\ "EXPIRED" \in report[s][f]
      BY <2>1, <3>1 DEF CheckMarks, TypeOK
    <3>3. ~ExitsZero(s)  BY <2>3, <3>1, <3>2 DEF ExitsZero, Passes, Asked, Said
    <3> QED  BY <3>2, <3>3 DEF SaidInv, SaidOK, Reported
  <2> QED  BY <2>2, <2>3 DEF TypeOK, Commands
<1> QED  BY <1>1, TypeCorrect, SaidHolds, PTL

\* What list shows of a record is what expire-check reports of it.
LEMMA SameFlags ==
  ASSUME NEW rec, NEW day
  PROVE  ListFlags(rec, day) = CheckFlags(rec, day)
BY DEF ListFlags, CheckFlags, Expired, Due, Reviewed

\* list and expire-check agree on what nobody touched, whenever they read it.
THEOREM ListAndCheckAgree == Spec => []ListAgreesWithCheck
<1>1. TypeOK /\ SaidInv => ListAgreesWithCheck
  <2> SUFFICES ASSUME TypeOK, SaidInv, NEW s \in Sweepers, NEW u \in Sweepers,
                      cmd[s] = "list", cmd[u] = "expire-check",
                      Reported(s), Reported(u), start[s] = start[u],
                      NEW f \in stable[s] \cap stable[u]
               PROVE  LET flags == report[u][f] \cap {"EXPIRED", "DUE"}
                      IN  report[s][f] \ {"ROW"} =
                            IF only[s] \subseteq flags THEN flags ELSE {}
    BY DEF ListAgreesWithCheck
  <2> DEFINE day   == start[s]
             found == IF Readable(text[f]) THEN CheckFlags(text[f], day) ELSE {}
  <2>1. CheckFlags(text[f], day) \subseteq {"EXPIRED", "DUE"}  BY DEF CheckFlags
  <2>2. report[u][f] \cap {"EXPIRED", "DUE"} = found
    <3>1. report[u][f] = CheckMarks(text[f], day, ahead[u])  BY CheckAtEnd
    <3> QED  BY <2>1, <3>1 DEF CheckMarks
  <2>3. report[s][f] \ {"ROW"} = IF only[s] \subseteq found THEN found ELSE {}
    <3>1. report[s][f] = ListMarks(text[f], day, only[s])  BY ListAtEnd
    <3> QED  BY <2>1, <3>1, SameFlags DEF ListMarks
  <2> QED  BY <2>2, <2>3
<1> QED  BY <1>1, TypeCorrect, SaidHolds, PTL

\* A validate that exits 0 has let nothing pass that does not validate.
THEOREM ValidateGates == Spec => []ValidateIsAGate
<1>1. TypeOK /\ SaidInv => ValidateIsAGate
  <2> SUFFICES ASSUME TypeOK, SaidInv, NEW s \in Sweepers,
                      cmd[s] = "validate", pc[s] = "zero",
                      NEW f \in stable[s], text[f] \notin {Absent, NotDDR}
               PROVE  Readable(text[f]) /\ "OK" \in report[s][f]
    BY DEF ValidateIsAGate
  <2>1. Reported(s) /\ f \in Files  BY DEF Reported, TypeOK
  <2>2. report[s][f] = ValidateMarks(text[f])
    <3>1. Marked(s, text[f]) = ValidateMarks(text[f])  BY DEF Marked, Judge, Asked
    <3> QED  BY <2>1, <3>1, SaidAtEnd
  <2>3. ExitsZero(s)  BY <2>1 DEF SaidInv, SaidOK
  <2>4. ~Said(report[s], "FAIL")  BY <2>3 DEF ExitsZero, Passes, Asked
  <2>5. "FAIL" \notin report[s][f]  BY <2>1, <2>4 DEF Said
  <2> QED  BY <2>2, <2>5 DEF ValidateMarks
<1> QED  BY <1>1, TypeCorrect, SaidHolds, PTL

(***************************************************************************)
(* Silence is a promise.                                                   *)
(***************************************************************************)

\* A check that is silent on a record's expiry, n days ahead, means that the
\* record does not expire before the n days are over.
LEMMA SilenceMeans ==
  ASSUME NEW t, Readable(t), t.status = "active", t.expires # None,
         NEW day \in Nat, NEW n \in Nat,
         CheckMarks(t, day, n) \cap {"EXPIRED", "SOON"} = {}
  PROVE  t.expires >= day + n
<1>1. t \in Record /\ t.expires \in Nat  BY DEF Readable, Record, DayOpt
<1>2. ~Expired(t, day)  BY DEF CheckMarks, CheckFlags, Expired
<1>3. ~Soon(t, day, n)  BY DEF CheckMarks
<1> QED  BY <1>1, <1>2, <1>3 DEF Expired, Soon

\* A sweep is silent only about what does not expire within the days; authors
\* who change that end the promise.
LEMMA PromiseNext ==
  TypeOK /\ SaidInv /\ PromiseInv /\ [Next]_vars => PromiseInv'
<1> SUFFICES ASSUME TypeOK, SaidInv, PromiseInv, [Next]_vars PROVE PromiseInv'
  OBVIOUS
\* Files whose promise is gone, or which are as they were.
<1>1. ASSUME \A f \in Files :
               promise'[f] = None \/ (promise'[f] = promise[f] /\ text'[f] = text[f])
      PROVE  PromiseInv'
  BY <1>1 DEF PromiseInv
<1>2. ASSUME NEW s \in Sweepers, Finish(s) PROVE PromiseInv'
  <2> SUFFICES ASSUME NEW f \in Files, promise'[f] # None,
                      Readable(text[f]), text[f].status = "active",
                      text[f].expires # None
               PROVE  text[f].expires >= promise'[f]
    BY <1>2 DEF Finish, world, PromiseInv
  <2>1. CASE promise'[f] = promise[f]  BY <2>1 DEF PromiseInv
  <2>2. CASE promise'[f] # promise[f]
    <3>1. promise'[f] = start[s] + ahead[s] /\ f \in Silent(s)
      BY <1>2, <2>2 DEF Finish
    <3>2. /\ f \in stable[s] /\ cmd[s] = "expire-check"
          /\ report[s][f] \cap {"EXPIRED", "SOON"} = {}
      BY <3>1 DEF Silent
    <3>3. report[s][f] = CheckMarks(text[f], start[s], ahead[s])
      BY <1>2, <3>2, CheckAtEnd DEF Finish
    <3>4. start[s] \in Nat /\ ahead[s] \in Nat  BY TimeAssumption DEF TypeOK
    <3> QED  BY <3>1, <3>2, <3>3, <3>4, SilenceMeans
  <2> QED  BY <2>1, <2>2
<1>3. ASSUME NEW s \in Sweepers, NEW c \in Commands, NEW n \in Ahead,
             NEW o \in Filters, Start(s, c, n, o)
      PROVE  PromiseInv'
  BY <1>1, <1>3 DEF Start, world
<1>4. ASSUME NEW s \in Sweepers, ListYaml(s) \/ ReadFile(s) \/ Die(s)
      PROVE  PromiseInv'
  BY <1>1, <1>4 DEF ListYaml, ReadFile, Die, world
<1>5. ASSUME NEW f \in Files, NEW t \in Texts, Edit(f, t) PROVE PromiseInv'
  BY <1>1, <1>5 DEF Edit, Touch, TypeOK
<1>6. ASSUME NEW f \in Files, NEW g \in Files, Move(f, g) PROVE PromiseInv'
  BY <1>1, <1>6 DEF Move, Touch, TypeOK
<1>7. CASE Tick  BY <1>1, <1>7 DEF Tick
<1>8. CASE UNCHANGED vars  BY <1>1, <1>8 DEF vars, world
<1> QED
  BY <1>2, <1>3, <1>4, <1>5, <1>6, <1>7, <1>8 DEF Next, Progress

\* No sweep ever reports an expiry within the days for which an expire-check
\* --days-ahead was silent on the file as it is.
THEOREM SilencePromises == Spec => []SilenceIsAPromise
<1>1. Init => PromiseInv  BY DEF Init, PromiseInv
<1>2. TypeOK /\ SaidInv /\ PromiseInv => SilenceIsAPromise
  <2> SUFFICES ASSUME TypeOK, SaidInv, PromiseInv, NEW s \in Sweepers,
                      NEW f \in stable[s], "EXPIRED" \in report[s][f],
                      promise[f] # None
               PROVE  promise[f] < start[s]
    BY DEF SilenceIsAPromise
  <2>1. f \in Files  BY DEF TypeOK
  <2>2. report[s][f] = Deserved(s, f)
    <3>1. report[s][f] # {}  OBVIOUS
    <3>2. report[s] # Fresh  BY <2>1, <3>1 DEF Fresh
    <3>3. pc[s] \in {"sweeping", "zero", "one"}
      BY <3>2 DEF SaidInv, SaidOK, TypeOK
    <3> QED  BY <3>3 DEF SaidInv, SaidOK
  <2>3. "EXPIRED" \in Marked(s, text[f])  BY <2>2 DEF Deserved
  <2>4. Readable(text[f]) /\ Expired(text[f], start[s])
    <3>1. CASE cmd[s] = "validate"
      <4>1. Marked(s, text[f]) = ValidateMarks(text[f])  BY <3>1 DEF Marked, Judge, Asked
      <4> QED  BY <2>3, <4>1 DEF ValidateMarks
    <3>2. CASE cmd[s] = "list"
      <4>1. Marked(s, text[f]) = ListMarks(text[f], start[s], only[s])
        BY <3>2 DEF Marked, Judge, Asked
      <4> QED  BY <2>3, <4>1 DEF ListMarks, ListFlags
    <3>3. CASE cmd[s] = "expire-check"
      <4>1. Marked(s, text[f]) = CheckMarks(text[f], start[s], ahead[s])
        BY <3>3 DEF Marked, Judge, Asked
      <4> QED  BY <2>3, <4>1 DEF CheckMarks, CheckFlags, Expired
    <3> QED  BY <3>1, <3>2, <3>3 DEF TypeOK, Commands
  <2>5. text[f].expires \in Nat
    BY <2>4 DEF Readable, Expired, Record, DayOpt
  <2>6. text[f].expires >= promise[f]  BY <2>1, <2>4 DEF PromiseInv, Expired
  <2>7. promise[f] \in Nat /\ start[s] \in Nat  BY <2>1, TimeAssumption DEF TypeOK
  <2> QED  BY <2>4, <2>5, <2>6, <2>7 DEF Expired
<1> QED  BY <1>1, <1>2, PromiseNext, TypeCorrect, SaidHolds, PTL DEF Spec

(***************************************************************************)
(* One look at each file.                                                  *)
(***************************************************************************)

\* A sweep under way has said nothing of the files it has still to list or
\* to read, whatever has become of them.
SilentOn(s) ==
  pc[s] = "sweeping" => \A f \in Files : Unread(s, f) => report[s][f] = {}

SilentInv == \A s \in Sweepers : SilentOn(s)

\* A step of somebody else.
LEMMA SilentFrame ==
  ASSUME NEW u \in Sweepers, SilentOn(u), pc'[u] = pc[u], todo'[u] = todo[u],
         listed'[u] = listed[u], report'[u] = report[u]
  PROVE  SilentOn(u)'
BY DEF SilentOn, Unread

\* The *.yml files come before the *.yaml files are listed, so that a file
\* that has been read is not read again.
LEMMA ReadOnce ==
  ASSUME TypeOK, SaidInv, NEW s \in Sweepers, NEW f \in todo[s], pc[s] = "sweeping",
         todo'[s] = todo[s] \ {f}, listed'[s] = listed[s]
  PROVE  /\ Unread(s, f) /\ ~Unread(s, f)'
         /\ \A g \in Files \ {f} : Unread(s, g)' <=> Unread(s, g)
<1>1. listed[s] \/ f \notin YamlFiles  BY DEF SaidInv, SaidOK
<1> QED  BY <1>1 DEF Unread

\* No step makes a sweep speak of a file it has not read.
LEMMA SilentNext == TypeOK /\ SaidInv /\ SilentInv /\ [Next]_vars => SilentInv'
<1> SUFFICES ASSUME TypeOK, SaidInv, SilentInv, [Next]_vars PROVE SilentInv'
  OBVIOUS
<1>1. ASSUME NEW s \in Sweepers, SilentOn(s)',
             \A u \in Sweepers \ {s} :
               /\ pc'[u] = pc[u] /\ todo'[u] = todo[u]
               /\ listed'[u] = listed[u] /\ report'[u] = report[u]
      PROVE  SilentInv'
  BY <1>1, SilentFrame DEF SilentInv
<1>2. ASSUME NEW s \in Sweepers, NEW c \in Commands, NEW n \in Ahead,
             NEW o \in Filters, Start(s, c, n, o)
      PROVE  SilentInv'
  <2>1. report'[s] = Fresh  BY <1>2 DEF Start, TypeOK
  <2>2. SilentOn(s)'  BY <2>1 DEF SilentOn, Fresh
  <2> QED  BY <1>1, <1>2, <2>2 DEF Start, TypeOK
<1>3. ASSUME NEW s \in Sweepers, ListYaml(s) PROVE SilentInv'
  <2>1. /\ pc[s] = "sweeping" /\ ~listed[s] /\ report' = report
        /\ todo'[s] = todo[s] \cup Present(YamlFiles) /\ listed'[s]
    BY <1>3 DEF ListYaml, TypeOK
  <2>2. \A f \in Files : Unread(s, f)' => Unread(s, f)
    BY <2>1 DEF Unread, Present
  <2>3. SilentOn(s)'  BY <2>1, <2>2 DEF SilentInv, SilentOn
  <2> QED  BY <1>1, <1>3, <2>3 DEF ListYaml, TypeOK
<1>4. ASSUME NEW s \in Sweepers, ReadFile(s) PROVE SilentInv'
  <2>1. PICK f \in Files :
          /\ f \in todo[s] /\ pc[s] = "sweeping" /\ pc' = pc /\ listed' = listed
          /\ report' = [report EXCEPT ![s][f] = Marked(s, text[f])]
          /\ todo' = [todo EXCEPT ![s] = @ \ {f}]
    BY <1>4 DEF ReadFile, IsNext
  <2>2. /\ todo'[s] = todo[s] \ {f} /\ listed'[s] = listed[s]
        /\ \A g \in Files \ {f} : report'[s][g] = report[s][g]
    BY <2>1 DEF TypeOK
  <2>3. /\ ~Unread(s, f)'
        /\ \A g \in Files \ {f} : Unread(s, g)' <=> Unread(s, g)
    BY <2>1, <2>2, ReadOnce
  <2>4. SilentOn(s)'  BY <2>1, <2>2, <2>3 DEF SilentInv, SilentOn
  <2> QED  BY <1>1, <2>1, <2>4 DEF TypeOK
<1>5. ASSUME NEW s \in Sweepers, Die(s) \/ Finish(s) PROVE SilentInv'
  <2>1. pc'[s] # "sweeping"  BY <1>5 DEF Die, Finish, TypeOK
  <2>2. SilentOn(s)'  BY <2>1 DEF SilentOn
  <2> QED  BY <1>1, <1>5, <2>2 DEF Die, Finish, TypeOK
<1>6. ASSUME UNCHANGED sweep PROVE SilentInv'
  BY <1>6, SilentFrame DEF SilentInv, sweep
<1>7. ASSUME NEW f \in Files, NEW t \in Texts, Edit(f, t) PROVE SilentInv'
  BY <1>6, <1>7 DEF Edit
<1>8. ASSUME NEW f \in Files, NEW g \in Files, Move(f, g) PROVE SilentInv'
  BY <1>6, <1>8 DEF Move
<1>9. CASE Tick  BY <1>6, <1>9 DEF Tick
<1>10. CASE UNCHANGED vars  BY <1>6, <1>10 DEF vars
<1> QED
  BY <1>2, <1>3, <1>4, <1>5, <1>7, <1>8, <1>9, <1>10 DEF Next, Progress

\* SilentInv holds in every reachable state.
LEMMA SilentHolds == Spec => []SilentInv
<1>1. Init => SilentInv  BY DEF Init, SilentInv, SilentOn
<1> QED  BY <1>1, TypeCorrect, SaidHolds, SilentNext, PTL DEF Spec

\* What has been said, and asked, after a step of s.
LEMMA OneSpeaks ==
  ASSUME NEW s \in Sweepers, NEW v, SaidOf(s)' = v,
         \A u \in Sweepers \ {s} :
           /\ pc'[u] = pc[u] /\ todo'[u] = todo[u]
           /\ listed'[u] = listed[u] /\ report'[u] = report[u]
  PROVE  Remarks' = [Remarks EXCEPT ![s] = v]
<1>1. \A u \in Sweepers \ {s} : SaidOf(u)' = SaidOf(u)  BY DEF SaidOf, Unread
<1> QED  BY <1>1 DEF Remarks

\* What has been asked when s begins.
LEMMA OneAsks ==
  ASSUME NEW s \in Sweepers, NEW a, Asked(s)' = a,
         \A u \in Sweepers \ {s} :
           /\ cmd'[u] = cmd[u] /\ ahead'[u] = ahead[u]
           /\ only'[u] = only[u] /\ start'[u] = start[u]
  PROVE  Requests' = [Requests EXCEPT ![s] = a]
<1>1. \A u \in Sweepers \ {s} : Asked(u)' = Asked(u)  BY DEF Asked
<1> QED  BY <1>1 DEF Requests

\* Nothing is asked when these are unchanged,
LEMMA SameAsks ==
  ASSUME UNCHANGED <<cmd, ahead, only, start>>
  PROVE  Requests' = Requests
BY DEF Requests, Asked

\* ... and nothing is said.
LEMMA SameRemarks ==
  ASSUME UNCHANGED <<pc, todo, listed, report>>
  PROVE  Remarks' = Remarks
BY DEF Remarks, SaidOf, Unread

\* The steps of a sweep are steps of the survey: a command begins,
LEMMA StartView ==
  ASSUME TypeOK, NEW s \in Sweepers, NEW c \in Commands, NEW n \in Ahead,
         NEW o \in Filters, Start(s, c, n, o)
  PROVE  View!Next
<1> DEFINE a == [cmd |-> c, ahead |-> IF c = "expire-check" THEN n ELSE 0,
                 only |-> IF c = "list" THEN o ELSE {}, start |-> now]
<1>1. /\ UNCHANGED <<text, now>> /\ pc[s] # "sweeping"
      /\ report'[s] = Fresh
  BY DEF Start, TypeOK, world
<1>2. \A u \in Sweepers \ {s} :
        /\ pc'[u] = pc[u] /\ todo'[u] = todo[u]
        /\ listed'[u] = listed[u] /\ report'[u] = report[u]
  BY DEF Start, TypeOK
<1>3. \A u \in Sweepers \ {s} :
        /\ cmd'[u] = cmd[u] /\ ahead'[u] = ahead[u]
        /\ only'[u] = only[u] /\ start'[u] = start[u]
  BY DEF Start, TypeOK
<1>4. Asked(s)' = a  BY DEF Start, TypeOK, Asked
<1>5. Requests' = [Requests EXCEPT ![s] = a]  BY <1>3, <1>4, OneAsks
<1>6. a \in Asks
  <2>1. now \in 0 .. MaxNow  BY DEF TypeOK
  <2> QED  BY <2>1 DEF Asks
<1>7. a.start = now /\ a.cmd = c  OBVIOUS
<1> HIDE DEF a
<1>8. ASSUME NEW e, NEW v, pc' = [pc EXCEPT ![s] = e], SaidOf(s)' = v
      PROVE  View!Begins(s, a, e, v)
  <2>1. Remarks' = [Remarks EXCEPT ![s] = v]  BY <1>2, <1>8, OneSpeaks
  <2> QED  BY <1>1, <1>5, <1>7, <1>8, <2>1 DEF View!Begins
<1>9. CASE c = "expire-check" /\ now + n > MaxDate
  <2>1. pc' = [pc EXCEPT ![s] = "traceback"]  BY <1>9 DEF Start
  <2>2. SaidOf(s)' = View!Nothing
    BY <1>1, <2>1 DEF TypeOK, SaidOf, Fresh, View!Nothing
  <2>3. Hopeless(a)  BY <1>9 DEF Hopeless, a
  <2>4. View!GiveUp(s, a)  BY <1>8, <2>1, <2>2, <2>3 DEF View!GiveUp
  <2> QED  BY <1>6, <2>4 DEF View!Next
<1>10. CASE ~(c = "expire-check" /\ now + n > MaxDate)
  <2>1. pc' = [pc EXCEPT ![s] = "sweeping"]  BY <1>10 DEF Start
  <2>2. PICK fs \in SUBSET Files : fs = Files \ YamlFiles  OBVIOUS
  <2>3. ASSUME NEW f \in Files
        PROVE  Unread(s, f)' <=> ~(f \in fs /\ text[f] = Absent)
    <3>1. todo'[s] = Present(Files \ YamlFiles) /\ listed'[s] = FALSE
      BY DEF Start, TypeOK
    <3> QED  BY <2>2, <3>1 DEF Unread, Present
  <2>4. SaidOf(s)' =
          [f \in Files |-> IF f \in fs /\ text[f] = Absent THEN {} ELSE {"UNREAD"}]
    <3>1. pc'[s] = "sweeping"  BY <2>1 DEF TypeOK
    <3>2. \A f \in Files : report'[s][f] = {}  BY <1>1 DEF Fresh
    <3> QED  BY <2>3, <3>1, <3>2 DEF SaidOf
  <2>5. View!Begin(s, a, fs)  BY <1>8, <2>1, <2>4 DEF View!Begin
  <2> QED  BY <1>6, <2>5 DEF View!Next
<1> QED  BY <1>9, <1>10

\* ... lists the *.yaml files, of which some are missing,
LEMMA ListYamlView ==
  ASSUME TypeOK, SaidInv, SilentInv, NEW s \in Sweepers, ListYaml(s)
  PROVE  View!PassOver(s, YamlFiles)
<1>1. /\ UNCHANGED <<text, now, pc, cmd, ahead, only, start, report>>
      /\ pc[s] = "sweeping" /\ ~listed[s] /\ todo[s] \cap YamlFiles = {}
      /\ todo'[s] = todo[s] \cup Present(YamlFiles) /\ listed'[s] = TRUE
  BY DEF ListYaml, TypeOK, world, SaidInv, SaidOK
<1>2. \A f \in YamlFiles : Unread(s, f)  BY <1>1 DEF Unread
<1>3. \A f \in Files : Unread(s, f)' <=>
                         Unread(s, f) /\ ~(f \in YamlFiles /\ text[f] = Absent)
  BY <1>1 DEF Unread, Present
<1>4. Remarks[s] = SaidOf(s)  BY DEF Remarks
<1>5. \A f \in YamlFiles : Remarks[s][f] = {"UNREAD"}
  BY <1>1, <1>2, <1>4, FilesAssumption DEF SaidOf
<1>6. SaidOf(s)' = [f \in Files |-> IF f \in YamlFiles /\ text[f] = Absent
                                    THEN {} ELSE Remarks[s][f]]
  <2>1. ASSUME NEW f \in Files
        PROVE  SaidOf(s)'[f] = IF f \in YamlFiles /\ text[f] = Absent
                               THEN {} ELSE SaidOf(s)[f]
    <3>1. f \in YamlFiles => report[s][f] = {}
      BY <1>1, <1>2 DEF SilentInv, SilentOn
    <3> QED  BY <1>1, <1>2, <1>3, <3>1 DEF SaidOf
  <2>2. SaidOf(s)' = [f \in Files |-> SaidOf(s)'[f]]  BY DEF SaidOf
  <2> QED  BY <1>4, <2>1, <2>2
<1>7. \A u \in Sweepers \ {s} :
        /\ pc'[u] = pc[u] /\ todo'[u] = todo[u]
        /\ listed'[u] = listed[u] /\ report'[u] = report[u]
  BY DEF ListYaml, TypeOK
<1>8. Requests' = Requests  BY <1>1, SameAsks
<1> QED  BY <1>1, <1>5, <1>6, <1>7, <1>8, OneSpeaks DEF View!PassOver

\* ... reads a file,
LEMMA ReadFileView ==
  ASSUME TypeOK, SaidInv, NEW s \in Sweepers, ReadFile(s)
  PROVE  \E f \in Files : View!Look(s, f)
<1>1. /\ UNCHANGED <<text, now, pc, cmd, ahead, only, start, listed>>
      /\ pc[s] = "sweeping"
  BY DEF ReadFile, world
<1>2. PICK f \in Files :
        /\ f \in todo[s] /\ ~Dies(s, text[f])
        /\ report' = [report EXCEPT ![s][f] = Marked(s, text[f])]
        /\ todo' = [todo EXCEPT ![s] = @ \ {f}]
  BY DEF ReadFile, IsNext
<1>3. /\ todo'[s] = todo[s] \ {f} /\ report'[s][f] = Marked(s, text[f])
      /\ \A g \in Files \ {f} : report'[s][g] = report[s][g]
  BY <1>2 DEF TypeOK
<1>4. /\ Unread(s, f) /\ ~Unread(s, f)'
      /\ \A g \in Files \ {f} : Unread(s, g)' <=> Unread(s, g)
  BY <1>1, <1>2, <1>3, ReadOnce
<1>5. Remarks[s] = SaidOf(s) /\ Requests[s] = Asked(s)  BY DEF Remarks, Requests
<1>6. Remarks[s][f] = {"UNREAD"}  BY <1>1, <1>4, <1>5 DEF SaidOf
<1>7. PICK m : m = Marked(s, text[f])  OBVIOUS
<1>8. SaidOf(s)' = [SaidOf(s) EXCEPT ![f] = m]
  <2>1. SaidOf(s)'[f] = m  BY <1>3, <1>4, <1>7 DEF SaidOf
  <2>2. \A g \in Files \ {f} : SaidOf(s)'[g] = SaidOf(s)[g]
    BY <1>1, <1>3, <1>4 DEF SaidOf
  <2>3. /\ SaidOf(s)' = [g \in Files |-> SaidOf(s)'[g]]
        /\ SaidOf(s) = [g \in Files |-> SaidOf(s)[g]]
    BY DEF SaidOf
  <2> QED  BY <2>1, <2>2, <2>3
<1>9. \A u \in Sweepers \ {s} :
        /\ pc'[u] = pc[u] /\ todo'[u] = todo[u]
        /\ listed'[u] = listed[u] /\ report'[u] = report[u]
  BY <1>1, <1>2 DEF TypeOK
<1>10. Remarks' = [Remarks EXCEPT ![s] = [SaidOf(s) EXCEPT ![f] = m]]
  BY <1>8, <1>9, OneSpeaks
<1>11. Remarks' = [Remarks EXCEPT ![s][f] = m]  BY <1>5, <1>10
<1>12. m = Judge(Requests[s], text[f])  BY <1>5, <1>7 DEF Marked
<1>13. ~Fatal(Requests[s], text[f])  BY <1>2, <1>5 DEF Dies
<1>14. Requests' = Requests  BY <1>1, SameAsks
<1> QED
  BY <1>1, <1>6, <1>11, <1>12, <1>13, <1>14 DEF View!Look

\* ... dies on one,
LEMMA DieView ==
  ASSUME TypeOK, NEW s \in Sweepers, Die(s)
  PROVE  \E f \in Files : View!Fail(s, f)
<1>1. PICK f \in Files : f \in todo[s] /\ Dies(s, text[f])  BY DEF Die, IsNext
<1>2. /\ UNCHANGED <<text, now, cmd, ahead, only, start>>
      /\ pc[s] = "sweeping" /\ pc' = [pc EXCEPT ![s] = "traceback"]
      /\ pc'[s] = "traceback" /\ report'[s] = Fresh
  BY DEF Die, TypeOK, world
<1>3. Remarks[s][f] = {"UNREAD"}  BY <1>1, <1>2 DEF Remarks, SaidOf, Unread
<1>4. Fatal(Requests[s], text[f])  BY <1>1 DEF Dies, Requests
<1>5. SaidOf(s)' = View!Nothing  BY <1>2 DEF SaidOf, Fresh, View!Nothing
<1>6. \A u \in Sweepers \ {s} :
        /\ pc'[u] = pc[u] /\ todo'[u] = todo[u]
        /\ listed'[u] = listed[u] /\ report'[u] = report[u]
  BY DEF Die, TypeOK
<1>7. Remarks' = [Remarks EXCEPT ![s] = View!Nothing]  BY <1>5, <1>6, OneSpeaks
<1>8. Requests' = Requests  BY <1>2, SameAsks
<1> QED  BY <1>2, <1>3, <1>4, <1>7, <1>8 DEF View!Fail

\* ... or ends.
LEMMA FinishView ==
  ASSUME TypeOK, NEW s \in Sweepers, Finish(s)
  PROVE  View!End(s)
<1>1. /\ UNCHANGED <<text, now, cmd, ahead, only, start, todo, listed, report>>
      /\ pc[s] = "sweeping" /\ todo[s] = {} /\ listed[s]
      /\ pc' = [pc EXCEPT ![s] = IF ExitsZero(s) THEN "zero" ELSE "one"]
  BY DEF Finish, world
<1>2. \A f \in Files : ~Unread(s, f) /\ ~Unread(s, f)'  BY <1>1 DEF Unread
<1>3. report[s] \in [Files -> SUBSET Marks]  BY DEF TypeOK
<1>4. SaidOf(s) = report[s] /\ SaidOf(s)' = report[s]
  BY <1>1, <1>2, <1>3 DEF SaidOf
<1>5. Remarks[s] = report[s] /\ Requests[s] = Asked(s)
  BY <1>4 DEF Remarks, Requests
<1>6. \A f \in Files : Remarks[s][f] # {"UNREAD"}
  BY <1>3, <1>5 DEF Marks
<1>7. \A u \in Sweepers \ {s} : pc'[u] = pc[u]  BY <1>1 DEF TypeOK
<1>8. Remarks' = [Remarks EXCEPT ![s] = report[s]]
  BY <1>1, <1>4, <1>7, OneSpeaks
<1>9. Remarks' = Remarks  BY <1>5, <1>8 DEF Remarks
<1>10. Requests' = Requests  BY <1>1, SameAsks
<1>11. ExitsZero(s) = Passes(Requests[s], Remarks[s])  BY <1>5 DEF ExitsZero
<1> QED  BY <1>1, <1>6, <1>9, <1>10, <1>11 DEF View!End

\* The initial states are initial states of the survey.
LEMMA ViewInit == Init => View!Init
<1> SUFFICES ASSUME Init PROVE View!Init  OBVIOUS
<1>1. Requests \in [Sweepers -> Asks]
  <2>1. 0 \in 0 .. MaxNow  BY TimeAssumption
  <2>2. \A s \in Sweepers : Asked(s) \in Asks
    BY <2>1 DEF Init, Asked, Asks, Commands
  <2> QED  BY <2>2 DEF Requests
<1>2. Remarks = [s \in Sweepers |-> View!Nothing]
  <2>1. ASSUME NEW s \in Sweepers PROVE SaidOf(s) = View!Nothing
    BY DEF Init, SaidOf, Fresh, View!Nothing
  <2> QED  BY <2>1 DEF Remarks
<1>3. text \in [Files -> Texts] /\ now \in 0 .. MaxNow
  BY TimeAssumption DEF Init
<1> QED  BY <1>1, <1>2, <1>3 DEF Init, View!Init

\* Every step is a step of the survey or leaves it alone.
LEMMA ViewNext ==
  TypeOK /\ TypeOK' /\ SaidInv /\ SilentInv /\ [Next]_vars => [View!Next]_(View!vars)
<1> SUFFICES ASSUME TypeOK, TypeOK', SaidInv, SilentInv, [Next]_vars
             PROVE  [View!Next]_(View!vars)
  OBVIOUS
<1>1. ASSUME UNCHANGED sweep
      PROVE  UNCHANGED <<Requests, pc, Remarks>>
  BY <1>1, SameAsks, SameRemarks DEF sweep
<1>2. ASSUME UNCHANGED sweep PROVE View!WorldMoves
  BY <1>1, <1>2 DEF View!WorldMoves, TypeOK
<1>3. ASSUME NEW s \in Sweepers, NEW c \in Commands, NEW n \in Ahead,
             NEW o \in Filters, Start(s, c, n, o)
      PROVE  View!Next
  BY <1>3, StartView
<1>4. ASSUME NEW s \in Sweepers, ListYaml(s) PROVE View!Next
  <2>1. YamlFiles \in SUBSET Files  BY FilesAssumption
  <2> QED  BY <1>4, <2>1, ListYamlView DEF View!Next
<1>5. ASSUME NEW s \in Sweepers, ReadFile(s) PROVE View!Next
  BY <1>5, ReadFileView DEF View!Next
<1>6. ASSUME NEW s \in Sweepers, Die(s) PROVE View!Next
  BY <1>6, DieView DEF View!Next
<1>7. ASSUME NEW s \in Sweepers, Finish(s) PROVE View!Next
  BY <1>7, FinishView DEF View!Next
<1>8. ASSUME NEW f \in Files, NEW t \in Texts, Edit(f, t) PROVE View!Next
  BY <1>2, <1>8 DEF Edit, View!Next
<1>9. ASSUME NEW f \in Files, NEW g \in Files, Move(f, g) PROVE View!Next
  BY <1>2, <1>9 DEF Move, View!Next
<1>10. CASE Tick  BY <1>2, <1>10 DEF Tick, View!Next
<1>11. CASE UNCHANGED vars  BY <1>1, <1>11 DEF vars, world, View!vars
<1> QED
  BY <1>3, <1>4, <1>5, <1>6, <1>7, <1>8, <1>9, <1>10, <1>11 DEF Next, Progress

\* validate, list and expire-check implement a survey that looks once at each
\* path, in whatever order it likes: whatever authors do to the files
\* meanwhile, each mark is what a text deserved that was there between start
\* and end, and the exit code is that of the marks.
THEOREM RefinesSurvey == Spec => LooksOnce
<1>1. Init => View!Init  BY ViewInit
<1>2. TypeOK /\ TypeOK' /\ SaidInv /\ SilentInv /\ [Next]_vars
        => [View!Next]_(View!vars)
  BY ViewNext
<1> QED
  BY <1>1, <1>2, TypeCorrect, SaidHolds, SilentHolds, PTL
  DEF Spec, LooksOnce, View!Spec
=============================================================================
