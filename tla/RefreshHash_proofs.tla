------------------------- MODULE RefreshHash_proofs -------------------------
(***************************************************************************)
(* Proofs about RefreshHash, for any number of refs, runs, rule files,     *)
(* contents and bodies.                                                    *)
(***************************************************************************)
EXTENDS RefreshHash, TLAPS

USE DEF Refs

(***************************************************************************)
(* Lemmas about the operators.                                             *)
(***************************************************************************)

\* Hashing gives a digest or none.
LEMMA FoundInType ==
  ASSUME NEW kind, NEW n \in Names, NEW c \in Contents
  PROVE  FoundIn(kind, n, c) \in Digests \cup {NoDigest}
<1>1. c \in [Names -> Queries \cup {NoQuery}]  BY HashAssumption
<1>2. c[n] # NoQuery => Canon[c[n]] \in Digests  BY <1>1, HashAssumption
<1> QED  BY <1>2 DEF FoundIn

\* What a ref finds in a rule file is a digest or none.
LEMMA FoundType ==
  ASSUME NEW rec \in Records, NEW i \in Refs, NEW p, NEW d \in [Paths -> Contents]
  PROVE  Found(rec, i, p, d) \in Digests \cup {NoDigest}
<1>1. rec.refs[i].name \in Names  BY DEF Records, Ref
<1>2. CASE p \in Paths
  <2>1. d[p] \in Contents  BY <1>2
  <2> QED  BY <1>1, <1>2, <2>1, FoundInType DEF Found
<1>3. CASE p \notin Paths  BY <1>3 DEF Found
<1> QED  BY <1>2, <1>3

\* Storing a hash in one ref leaves a record, and everything else of it.
LEMMA SetHashType ==
  ASSUME NEW rec \in Records, NEW i \in Refs, NEW h \in Digests \cup {NoDigest}
  PROVE  /\ SetHash(rec, i, h) \in Records
         /\ SameButHashes(SetHash(rec, i, h), rec)
         /\ SetHash(rec, i, h).refs[i].hash = h
         /\ \A j \in Refs \ {i} : SetHash(rec, i, h).refs[j] = rec.refs[j]
<1> DEFINE new == [rec.refs EXCEPT ![i] = [rec.refs[i] EXCEPT !.hash = h]]
<1>1. rec.refs \in [Refs -> Ref]  BY DEF Records
<1>2. [rec.refs[i] EXCEPT !.hash = h] \in Ref  BY <1>1 DEF Ref
<1>3. new \in [Refs -> Ref]  BY <1>1, <1>2
<1>4. SetHash(rec, i, h) = [rec EXCEPT !.refs = new]  BY DEF SetHash, Records
<1>5. /\ SetHash(rec, i, h) \in Records
      /\ SetHash(rec, i, h).refs = new
      /\ SetHash(rec, i, h).kind = rec.kind
      /\ SetHash(rec, i, h).form = rec.form
      /\ SetHash(rec, i, h).body = rec.body
  BY <1>3, <1>4 DEF Records
<1>6. /\ new[i].hash = h /\ new[i].name = rec.refs[i].name
      /\ new[i].path = rec.refs[i].path
  BY <1>1 DEF Ref
<1>7. \A j \in Refs \ {i} : new[j] = rec.refs[j]  BY <1>1
<1> QED  BY <1>5, <1>6, <1>7 DEF SameButHashes

\* The author's edits leave records.
LEMMA AnnotateType ==
  ASSUME NEW rec \in Records, NEW b \in Bodies
  PROVE  [rec EXCEPT !.body = b] \in Records
BY DEF Records

\* A record with another path in one ref is a record,
LEMMA RepointType ==
  ASSUME NEW rec \in Records, NEW i \in Refs, NEW p \in Repoints
  PROVE  [rec EXCEPT !.refs[i].path = p] \in Records
<1> DEFINE new == [rec.refs EXCEPT ![i] = [rec.refs[i] EXCEPT !.path = p]]
<1>1. rec.refs \in [Refs -> Ref]  BY DEF Records
<1>2. [rec.refs[i] EXCEPT !.path = p] \in Ref
  BY <1>1, RecordsAssumption DEF Ref
<1>3. new \in [Refs -> Ref]  BY <1>1, <1>2
<1>4. [rec EXCEPT !.refs[i].path = p] = [rec EXCEPT !.refs = new]
  BY DEF Records
<1> QED  BY <1>3, <1>4 DEF Records

\* ... of the same kind, with the same names and hashes.
LEMMA RepointKeeps ==
  ASSUME NEW rec \in Records, NEW i \in Refs, NEW p
  PROVE  LET new == [rec EXCEPT !.refs[i].path = p]
         IN  /\ new.kind = rec.kind
             /\ \A j \in Refs : /\ new.refs[j].name = rec.refs[j].name
                                /\ new.refs[j].hash = rec.refs[j].hash
<1>1. rec.refs \in [Refs -> Ref]  BY DEF Records
<1>2. rec.refs[i] \in Ref  BY <1>1
<1> QED  BY <1>1, <1>2 DEF Records, Ref

\* What a ref's rule hashes to depends on the curated part of the record only.
LEMMA FoundSame ==
  ASSUME NEW a, NEW b, SameButHashes(a, b), NEW i \in Refs, NEW p, NEW d
  PROVE  Found(a, i, p, d) = Found(b, i, p, d)
BY DEF SameButHashes, Found

(***************************************************************************)
(* Type correctness.                                                       *)
(***************************************************************************)

\* The part of TypeOK that is about the processes.
LocalsOK ==
  /\ pc \in [Runners -> {"idle"} \cup Running \cup Ended]
  /\ copy \in [Runners -> Records \cup {NoRecord}]
  /\ idx \in [Runners -> 1 .. NRefs + 1]
  /\ changed \in [Runners -> BOOLEAN]
  /\ base \in [Runners -> Records \cup {NoRecord}]
  /\ got \in [Runners -> [Refs -> SUBSET (Digests \cup {NoDigest})]]
  /\ \A r \in Runners : pc[r] \in Running <=> copy[r] # NoRecord
  /\ \A r \in Runners : pc[r] \in Running <=> base[r] # NoRecord

\* A process that ends leaves its locals well typed.
LEMMA EndType ==
  ASSUME TypeOK, NEW r \in Runners, NEW how \in Ended, End(r, how)
  PROVE  LocalsOK'
<1> USE DEF Ended, Running
<1>1. pc' \in [Runners -> {"idle"} \cup Running \cup Ended]  BY DEF TypeOK, End
<1>2. copy' \in [Runners -> Records \cup {NoRecord}]  BY DEF TypeOK, End
<1>3. idx' \in [Runners -> 1 .. NRefs + 1]  BY SizesAssumption DEF TypeOK, End
<1>4. changed' \in [Runners -> BOOLEAN]  BY DEF TypeOK, End
<1>5. base' \in [Runners -> Records \cup {NoRecord}]  BY DEF TypeOK, End
<1>6. got' \in [Runners -> [Refs -> SUBSET (Digests \cup {NoDigest})]]
  BY DEF TypeOK, End
<1>7. \A q \in Runners : pc'[q] \in Running <=> copy'[q] # NoRecord
  BY DEF TypeOK, End
<1>8. \A q \in Runners : pc'[q] \in Running <=> base'[q] # NoRecord
  BY DEF TypeOK, End
<1> QED  BY <1>1, <1>2, <1>3, <1>4, <1>5, <1>6, <1>7, <1>8 DEF LocalsOK

\* The initial states are well typed.
LEMMA TypeInit == Init => TypeOK
<1> SUFFICES ASSUME Init PROVE TypeOK  OBVIOUS
<1>1. file \in Records /\ last \in Records  BY RecordsAssumption DEF Init
<1>2. past \in [Refs -> SUBSET (Digests \cup {NoDigest})]
  <2> SUFFICES ASSUME NEW i \in Refs
               PROVE  {file.refs[i].hash} \cup
                        ({Found(file, i, p, disk) : p \in Paths} \ {NoDigest})
                      \in SUBSET (Digests \cup {NoDigest})
    BY DEF Init
  <2>1. file.refs[i].hash \in Digests \cup {NoDigest}  BY <1>1 DEF Records, Ref
  <2>2. \A p \in Paths : Found(file, i, p, disk) \in Digests \cup {NoDigest}
    BY <1>1, FoundType DEF Init
  <2> QED  BY <2>1, <2>2
<1>3. idx \in [Runners -> 1 .. NRefs + 1]  BY SizesAssumption DEF Init
<1>4. got \in [Runners -> [Refs -> SUBSET (Digests \cup {NoDigest})]]
  BY DEF Init
<1> QED  BY <1>1, <1>2, <1>3, <1>4 DEF Init, TypeOK, Running

\* A run's next hash is a digest or none, and its ref is one of the record.
LEMMA NewHashType ==
  ASSUME TypeOK, NEW r \in Runners, pc[r] = "refs", idx[r] \in Refs
  PROVE  copy[r] \in Records /\ NewHash(r) \in Digests \cup {NoDigest}
<1>1. copy[r] \in Records  BY DEF TypeOK, Running
<1> QED  BY <1>1, FoundType DEF TypeOK, NewHash

\* No step breaks the types.
LEMMA TypeNext == TypeOK /\ [Next]_vars => TypeOK'
<1> SUFFICES ASSUME TypeOK, [Next]_vars PROVE TypeOK'  OBVIOUS
<1>1. ASSUME NEW r \in Runners, NEW o \in Paths \cup {NoPath}, Refuse(r, o)
      PROVE  TypeOK'
  <2>1. LocalsOK'  BY <1>1, EndType DEF Refuse, Ended
  <2>2. override' \in [Runners -> Paths \cup {NoPath}]
        /\ calm' \in [Runners -> BOOLEAN]
    BY <1>1 DEF Refuse, TypeOK
  <2> QED  BY <1>1, <2>1, <2>2 DEF Refuse, TypeOK, LocalsOK, files
<1>2. ASSUME NEW r \in Runners, NEW o \in Paths \cup {NoPath}, Load(r, o)
      PROVE  TypeOK'
  <2>1. file \in Records  BY <1>2 DEF Load
  <2>2. \A i \in Refs : \A p :
          Found(file, i, p, disk) \in Digests \cup {NoDigest}
    BY <2>1, FoundType DEF TypeOK
  <2>3. got' \in [Runners -> [Refs -> SUBSET (Digests \cup {NoDigest})]]
    <3> DEFINE seen == [i \in Refs |->
                {Found(file, i, IF o # NoPath THEN o ELSE file.refs[i].path, disk)}]
    <3>1. seen \in [Refs -> SUBSET (Digests \cup {NoDigest})]  BY <2>2
    <3>2. got' = [got EXCEPT ![r] = seen]  BY <1>2 DEF Load
    <3> QED  BY <3>1, <3>2 DEF TypeOK
  <2>4. /\ pc' \in [Runners -> {"idle"} \cup Running \cup Ended]
        /\ copy' \in [Runners -> Records \cup {NoRecord}]
        /\ base' \in [Runners -> Records \cup {NoRecord}]
    BY <1>2, <2>1 DEF Load, TypeOK, Running
  <2>5. /\ idx' \in [Runners -> 1 .. NRefs + 1]
        /\ changed' \in [Runners -> BOOLEAN]
        /\ calm' \in [Runners -> BOOLEAN]
        /\ override' \in [Runners -> Paths \cup {NoPath}]
    BY <1>2, SizesAssumption DEF Load, TypeOK
  <2>6. \A q \in Runners : /\ pc'[q] \in Running <=> copy'[q] # NoRecord
                           /\ pc'[q] \in Running <=> base'[q] # NoRecord
    BY <1>2, <2>1, MarksAssumption DEF Load, TypeOK, Running
  <2> QED  BY <1>2, <2>3, <2>4, <2>5, <2>6 DEF Load, TypeOK, files
<1>3. ASSUME NEW r \in Runners, ReadRef(r) PROVE TypeOK'
  <2>1. copy[r] \in Records /\ NewHash(r) \in Digests \cup {NoDigest}
    BY <1>3, NewHashType DEF ReadRef
  <2>2. SetHash(copy[r], idx[r], NewHash(r)) \in Records
    BY <1>3, <2>1, SetHashType DEF ReadRef
  <2>3. copy' \in [Runners -> Records \cup {NoRecord}]
    BY <1>3, <2>2 DEF ReadRef, TypeOK
  <2>4. \A q \in Runners : pc'[q] \in Running <=> copy'[q] # NoRecord
    BY <1>3, <2>1, <2>2, MarksAssumption DEF ReadRef, TypeOK, Running
  <2>5. changed' \in [Runners -> BOOLEAN]  BY <1>3 DEF ReadRef, TypeOK
  <2>6. idx' \in [Runners -> 1 .. NRefs + 1]
    BY <1>3, SizesAssumption DEF ReadRef, TypeOK
  <2> QED  BY <1>3, <2>3, <2>4, <2>5, <2>6 DEF ReadRef, TypeOK, files, history
<1>4. ASSUME NEW r \in Runners, SkipRef(r) PROVE TypeOK'
  <2>1. idx' \in [Runners -> 1 .. NRefs + 1]
    BY <1>4, SizesAssumption DEF SkipRef, TypeOK
  <2> QED  BY <1>4, <2>1 DEF SkipRef, TypeOK, files, history
<1>5. ASSUME NEW r \in Runners, AbortRef(r) PROVE TypeOK'
  <2>1. LocalsOK'  BY <1>5, EndType DEF AbortRef, Ended
  <2> QED  BY <1>5, <2>1 DEF AbortRef, TypeOK, LocalsOK, files
<1>6. ASSUME NEW r \in Runners, FinishUnchanged(r) PROVE TypeOK'
  <2>1. LocalsOK'  BY <1>6, EndType DEF FinishUnchanged, Ended
  <2> QED  BY <1>6, <2>1 DEF FinishUnchanged, TypeOK, LocalsOK, files
<1>7. ASSUME NEW r \in Runners, Truncate(r) PROVE TypeOK'
  <2>1. pc' \in [Runners -> {"idle"} \cup Running \cup Ended]
    BY <1>7 DEF Truncate, TypeOK, Running
  <2>2. \A q \in Runners : /\ pc'[q] \in Running <=> copy'[q] # NoRecord
                           /\ pc'[q] \in Running <=> base'[q] # NoRecord
    BY <1>7 DEF Truncate, TypeOK, Running
  <2>3. calm' \in [Runners -> BOOLEAN]  BY <1>7 DEF Truncate, TypeOK, AloneIs
  <2> QED  BY <1>7, <2>1, <2>2, <2>3 DEF Truncate, TypeOK
<1>8. ASSUME NEW r \in Runners, Dump(r) PROVE TypeOK'
  <2>1. LocalsOK'  BY <1>8, EndType DEF Dump, Ended
  <2>2. copy[r] \in Records  BY <1>8 DEF Dump, TypeOK, Running
  <2>3. file' \in {copy[r], Spoiled}  BY <1>8 DEF Dump, Written
  <2>4. file' \in Records \cup {NoRecord, Spoiled} /\ last' \in Records
    BY <1>8, <2>2, <2>3 DEF Dump, TypeOK
  <2>5. calm' \in [Runners -> BOOLEAN] /\ hurt' \in BOOLEAN
    BY <1>8 DEF Dump, TypeOK, AloneIs
  <2> QED  BY <1>8, <2>1, <2>4, <2>5 DEF Dump, TypeOK, LocalsOK
<1>9. ASSUME NEW r \in Runners, Kill(r) PROVE TypeOK'
  <2>1. LocalsOK'  BY <1>9, EndType DEF Kill, Ended
  <2>2. hurt' \in BOOLEAN  BY <1>9 DEF Kill, TypeOK
  <2> QED  BY <1>9, <2>1, <2>2 DEF Kill, TypeOK, LocalsOK, files
<1>10. ASSUME NEW p \in Paths, NEW c \in Contents, EditSource(p, c) PROVE TypeOK'
  <2>1. disk' \in [Paths -> Contents]  BY <1>10 DEF EditSource, TypeOK
  <2>2. got' \in [Runners -> [Refs -> SUBSET (Digests \cup {NoDigest})]]
    <3> SUFFICES ASSUME NEW r \in Runners, NEW i \in Refs
                 PROVE  (IF pc[r] \in Running
                         THEN got[r][i] \cup {Found(copy[r], i, Source(r, i), disk')}
                         ELSE got[r][i]) \in SUBSET (Digests \cup {NoDigest})
      BY <1>10 DEF EditSource
    <3>1. pc[r] \in Running => copy[r] \in Records  BY DEF TypeOK
    <3>2. pc[r] \in Running =>
            Found(copy[r], i, Source(r, i), disk') \in Digests \cup {NoDigest}
      BY <3>1, <2>1, FoundType
    <3>3. got[r] \in [Refs -> SUBSET (Digests \cup {NoDigest})]  BY DEF TypeOK
    <3>4. got[r][i] \in SUBSET (Digests \cup {NoDigest})  BY <3>3
    <3> QED  BY <3>2, <3>4
  <2>3. past' \in [Refs -> SUBSET (Digests \cup {NoDigest})]
    <3> SUFFICES ASSUME NEW i \in Refs
                 PROVE  past[i] \cup
                          ({FoundIn(last.kind, last.refs[i].name, c)} \ {NoDigest})
                        \in SUBSET (Digests \cup {NoDigest})
      BY <1>10 DEF EditSource
    <3>1. last.refs[i].name \in Names  BY DEF TypeOK, Records, Ref
    <3>2. FoundIn(last.kind, last.refs[i].name, c) \in Digests \cup {NoDigest}
      BY <3>1, FoundInType
    <3> QED  BY <3>2 DEF TypeOK
  <2>4. calm' \in [Runners -> BOOLEAN]  BY <1>10 DEF EditSource, Nobody
  <2> QED  BY <1>10, <2>1, <2>2, <2>3, <2>4 DEF EditSource, TypeOK, local
<1>11. ASSUME NEW rec \in Records, SaveRecord(rec) PROVE TypeOK'
  BY <1>11 DEF SaveRecord, TypeOK, local, Nobody
<1>12. ASSUME NEW b \in Bodies, Annotate(b) PROVE TypeOK'
  <2>1. [file EXCEPT !.body = b] \in Records  BY <1>12, AnnotateType DEF Annotate
  <2> QED  BY <1>11, <1>12, <2>1 DEF Annotate
<1>13. ASSUME NEW i \in Refs, NEW p \in Repoints, Repoint(i, p) PROVE TypeOK'
  <2>1. [file EXCEPT !.refs[i].path = p] \in Records
    BY <1>13, RepointType DEF Repoint
  <2> QED  BY <1>11, <1>13, <2>1 DEF Repoint
<1>14. ASSUME Restore PROVE TypeOK'
  BY <1>14 DEF Restore, TypeOK, local, Nobody
<1>15. CASE UNCHANGED vars
  BY <1>15 DEF TypeOK, vars, files, local, history
<1> QED
  BY <1>1, <1>2, <1>3, <1>4, <1>5, <1>6, <1>7, <1>8, <1>9, <1>10, <1>12,
     <1>13, <1>14, <1>15 DEF Next, Run, Progress, Others

\* Every variable keeps its domain; a process holds a record exactly while
\* it runs.
THEOREM TypeCorrect == Spec => []TypeOK
<1>1. Init => TypeOK  BY TypeInit
<1>2. TypeOK /\ [Next]_vars => TypeOK'  BY TypeNext
<1> QED  BY <1>1, <1>2, PTL DEF Spec
(***************************************************************************)
(* The file is whole at rest.                                              *)
(***************************************************************************)

\* A record becomes unreadable only where IntactAtRest allows it.
LEMMA IntactNext == TypeOK /\ IntactAtRest /\ [Next]_vars => IntactAtRest'
<1> SUFFICES ASSUME TypeOK, IntactAtRest, [Next]_vars PROVE IntactAtRest'
  OBVIOUS
<1> USE DEF IntactAtRest
\* Steps that leave the file, hurt, and the runs at their dump alone.
<1>1. ASSUME file' = file, hurt' = hurt,
             \A q \in Runners : pc[q] = "dump" => pc'[q] = "dump"
      PROVE  IntactAtRest'
  BY <1>1
\* Steps that put a record in the file.
<1>2. ASSUME file' \in Records PROVE IntactAtRest'
  BY <1>2
<1>3. ASSUME NEW r \in Runners, NEW o \in Paths \cup {NoPath}, Refuse(r, o)
      PROVE  IntactAtRest'
  <2>1. \A q \in Runners : pc[q] = "dump" => pc'[q] = "dump"
    BY <1>3 DEF Refuse, End, TypeOK, Running
  <2> QED  BY <1>1, <1>3, <2>1 DEF Refuse, files
<1>4. ASSUME NEW r \in Runners, NEW o \in Paths \cup {NoPath}, Load(r, o)
      PROVE  IntactAtRest'
  BY <1>2, <1>4 DEF Load, files
<1>5. ASSUME NEW r \in Runners, ReadRef(r) \/ SkipRef(r) PROVE IntactAtRest'
  BY <1>1, <1>5 DEF ReadRef, SkipRef, files, history
<1>6. ASSUME NEW r \in Runners, AbortRef(r) \/ FinishUnchanged(r)
      PROVE  IntactAtRest'
  <2>1. \A q \in Runners : pc[q] = "dump" => pc'[q] = "dump"
    BY <1>6 DEF AbortRef, FinishUnchanged, End, TypeOK
  <2> QED  BY <1>1, <1>6, <2>1 DEF AbortRef, FinishUnchanged, files
<1>7. ASSUME NEW r \in Runners, Truncate(r) PROVE IntactAtRest'
  <2>1. pc'[r] = "dump"  BY <1>7 DEF Truncate, TypeOK
  <2> QED  BY <2>1
<1>8. ASSUME NEW r \in Runners, Dump(r) PROVE IntactAtRest'
  <2>1. copy[r] \in Records  BY <1>8 DEF Dump, TypeOK, Running
  <2>2. file' \in {copy[r], Spoiled}  BY <1>8 DEF Dump, Written
  <2> QED  BY <1>8, <2>1, <2>2 DEF Dump
<1>9. ASSUME NEW r \in Runners, Kill(r) PROVE IntactAtRest'
  <2>1. CASE pc[r] = "dump"  BY <1>9, <2>1 DEF Kill
  <2>2. CASE pc[r] # "dump"
    <3>1. \A q \in Runners : pc[q] = "dump" => pc'[q] = "dump"
      BY <1>9, <2>2 DEF Kill, End, TypeOK
    <3>2. hurt' = hurt  BY <1>9, <2>2 DEF Kill, TypeOK
    <3> QED  BY <1>1, <1>9, <3>1, <3>2 DEF Kill, files
  <2> QED  BY <2>1, <2>2
<1>10. ASSUME NEW p \in Paths, NEW c \in Contents, EditSource(p, c)
       PROVE  IntactAtRest'
  BY <1>1, <1>10 DEF EditSource, local
<1>11. ASSUME NEW b \in Bodies, Annotate(b) PROVE IntactAtRest'
  BY <1>2, <1>11, AnnotateType DEF Annotate, SaveRecord
<1>12. ASSUME NEW i \in Refs, NEW p \in Repoints, Repoint(i, p)
       PROVE  IntactAtRest'
  BY <1>2, <1>12, RepointType DEF Repoint, SaveRecord
<1>13. ASSUME Restore PROVE IntactAtRest'
  BY <1>2, <1>13 DEF Restore, TypeOK
<1>14. CASE UNCHANGED vars
  BY <1>1, <1>14 DEF vars, files, local, history
<1> QED
  BY <1>3, <1>4, <1>5, <1>6, <1>7, <1>8, <1>9, <1>10, <1>11, <1>12, <1>13,
     <1>14 DEF Next, Run, Progress, Others

\* The file is unreadable only while a run has it open, unless a run was
\* killed there or two of them collided: for any number of concurrent runs.
THEOREM FileIntactAtRest == Spec => []IntactAtRest
<1>1. Init => IntactAtRest  BY RecordsAssumption DEF Init, IntactAtRest
<1> QED  BY <1>1, TypeCorrect, IntactNext, PTL DEF Spec
(***************************************************************************)
(* What a run holds while it runs.                                         *)
(***************************************************************************)

\* Settled refs are fresh, the others as loaded; what a ref's rule hashes to
\* now is among what it has had since the load.
RunOK(r) ==
  pc[r] \in Running =>
    /\ SameButHashes(copy[r], base[r])
    /\ \A i \in Refs : Found(copy[r], i, Source(r, i), disk) \in got[r][i]
    /\ \A i \in Refs : i < idx[r] => FreshFor(r, i)
    /\ \A i \in Refs : i >= idx[r] =>
         copy[r].refs[i].hash = base[r].refs[i].hash
    /\ pc[r] = "dump" => idx[r] \notin Refs

RunInv == \A r \in Runners : RunOK(r)

\* Nobody else's step changes what a run holds.
LEMMA RunFrame ==
  ASSUME NEW q \in Runners, RunOK(q), disk' = disk,
         pc'[q] = pc[q], copy'[q] = copy[q], idx'[q] = idx[q],
         override'[q] = override[q], base'[q] = base[q], got'[q] = got[q]
  PROVE  RunOK(q)'
BY DEF RunOK, Source, Found, FreshFor

\* The other processes when r ends.
LEMMA EndFrame ==
  ASSUME TypeOK, RunInv, NEW r \in Runners, NEW how \in Ended, End(r, how),
         disk' = disk, \A q \in Runners \ {r} : override'[q] = override[q]
  PROVE  RunInv'
<1> SUFFICES ASSUME NEW q \in Runners PROVE RunOK(q)'  BY DEF RunInv
<1>1. CASE q = r
  <2>1. pc'[r] \notin Running  BY DEF End, TypeOK, Running, Ended
  <2> QED  BY <1>1, <2>1 DEF RunOK
<1>2. CASE q # r
  <2>1. /\ pc'[q] = pc[q] /\ copy'[q] = copy[q] /\ idx'[q] = idx[q]
        /\ base'[q] = base[q] /\ got'[q] = got[q]
    BY <1>2 DEF End, TypeOK
  <2> QED  BY <1>2, <2>1, RunFrame DEF RunInv
<1> QED  BY <1>1, <1>2

\* Reading a ref settles it, and only it.
LEMMA ReadRefRun ==
  ASSUME TypeOK, NEW r \in Runners, RunOK(r), ReadRef(r)
  PROVE  RunOK(r)'
<1> DEFINE i0 == idx[r]
           h  == NewHash(r)
           new == SetHash(copy[r], i0, h)
<1>1. /\ pc[r] = "refs" /\ pc'[r] = "refs" /\ i0 \in Refs /\ h # NoDigest
      /\ disk' = disk /\ override' = override /\ base' = base /\ got' = got
      /\ copy'[r] = new /\ idx'[r] = i0 + 1
  BY DEF ReadRef, TypeOK, files, history
<1>2. copy[r] \in Records /\ h \in Digests \cup {NoDigest}
  BY <1>1, NewHashType
<1>3. /\ SameButHashes(new, copy[r]) /\ new.refs[i0].hash = h
      /\ \A j \in Refs \ {i0} : new.refs[j] = copy[r].refs[j]
  BY <1>1, <1>2, SetHashType
<1>4. SameButHashes(new, base[r])
  BY <1>1, <1>3 DEF RunOK, Running, SameButHashes
<1>5. \A i \in Refs : Source(r, i)' = Source(r, i)
  BY <1>1, <1>3 DEF Source, SameButHashes
<1>6. \A i \in Refs : Found(new, i, Source(r, i), disk) \in got[r][i]
  BY <1>1, <1>3, FoundSame DEF RunOK, Running
<1>7. ASSUME NEW i \in Refs, i < i0 + 1 PROVE FreshFor(r, i)'
  <2>1. CASE i = i0
    <3>1. h \in got[r][i0]  BY <1>1 DEF RunOK, Running, NewHash
    <3> QED  BY <1>1, <1>3, <2>1, <3>1 DEF FreshFor
  <2>2. CASE i # i0
    <3>1. i < i0  BY <1>1, <1>7, <2>2, SizesAssumption
    <3>2. FreshFor(r, i)  BY <1>1, <3>1 DEF RunOK, Running
    <3>3. new.refs[i] = copy[r].refs[i] /\ new.kind = copy[r].kind
      BY <1>3, <2>2 DEF SameButHashes
    <3> QED  BY <1>1, <3>2, <3>3 DEF FreshFor
  <2> QED  BY <2>1, <2>2
<1>8. ASSUME NEW i \in Refs, i >= i0 + 1
      PROVE  new.refs[i].hash = base[r].refs[i].hash
  <2>1. i # i0 /\ i >= i0  BY <1>1, <1>8, SizesAssumption
  <2> QED  BY <1>1, <1>3, <2>1 DEF RunOK, Running
<1> QED  BY <1>1, <1>4, <1>5, <1>6, <1>7, <1>8 DEF RunOK, Found

\* Skipping a ref settles it with the hash it was loaded with.
LEMMA SkipRefRun ==
  ASSUME TypeOK, NEW r \in Runners, RunOK(r), SkipRef(r)
  PROVE  RunOK(r)'
<1>1. /\ pc[r] = "refs" /\ pc'[r] = "refs" /\ idx[r] \in Refs
      /\ NewHash(r) = NoDigest /\ ~AllOrNothing(copy[r].kind)
      /\ disk' = disk /\ override' = override /\ base' = base /\ got' = got
      /\ copy' = copy /\ idx'[r] = idx[r] + 1
  BY DEF SkipRef, TypeOK, files, history
<1>2. ASSUME NEW i \in Refs, i < idx[r] + 1 PROVE FreshFor(r, i)
  <2>1. CASE i = idx[r]
    <3>1. NoDigest \in got[r][i]  BY <1>1, <2>1 DEF RunOK, Running, NewHash
    <3>2. copy[r].refs[i].hash = base[r].refs[i].hash
      BY <1>1, <2>1, SizesAssumption DEF RunOK, Running
    <3> QED  BY <1>1, <3>1, <3>2 DEF FreshFor
  <2>2. CASE i # idx[r]
    <3>1. i < idx[r]  BY <1>1, <1>2, <2>2, SizesAssumption
    <3> QED  BY <1>1, <3>1 DEF RunOK, Running
  <2> QED  BY <2>1, <2>2
<1>3. ASSUME NEW i \in Refs, i >= idx[r] + 1
      PROVE  copy[r].refs[i].hash = base[r].refs[i].hash
  <2>1. i >= idx[r]  BY <1>1, <1>3, SizesAssumption
  <2> QED  BY <1>1, <2>1 DEF RunOK, Running
<1>4. \A i \in Refs : Source(r, i)' = Source(r, i)  BY <1>1 DEF Source
<1>5. \A i \in Refs : FreshFor(r, i)' <=> FreshFor(r, i)  BY <1>1 DEF FreshFor
<1>6. \A i \in Refs : Found(copy[r], i, Source(r, i), disk) \in got[r][i]
  BY <1>1 DEF RunOK, Running
<1>7. SameButHashes(copy[r], base[r])  BY <1>1 DEF RunOK, Running
<1> QED  BY <1>1, <1>2, <1>3, <1>4, <1>5, <1>6, <1>7 DEF RunOK

\* No step, of the run or of others, breaks what is known of a run.
LEMMA RunNext == TypeOK /\ RunInv /\ [Next]_vars => RunInv'
<1> SUFFICES ASSUME TypeOK, RunInv, [Next]_vars PROVE RunInv'  OBVIOUS
<1>1. ASSUME NEW r \in Runners, NEW o \in Paths \cup {NoPath}, Refuse(r, o)
      PROVE  RunInv'
  BY <1>1, EndFrame DEF Refuse, files, TypeOK, Ended
<1>2. ASSUME NEW r \in Runners, NEW o \in Paths \cup {NoPath}, Load(r, o)
      PROVE  RunInv'
  <2> SUFFICES ASSUME NEW q \in Runners PROVE RunOK(q)'  BY DEF RunInv
  <2>1. CASE q # r
    BY <1>2, <2>1, RunFrame DEF Load, files, TypeOK, RunInv
  <2>2. CASE q = r
    <3>1. /\ disk' = disk /\ pc'[r] = "refs" /\ copy'[r] = file
          /\ base'[r] = file /\ idx'[r] = 1 /\ override'[r] = o
      BY <1>2 DEF Load, files, TypeOK
    <3>2. \A i \in Refs : got'[r][i] =
            {Found(file, i, IF o # NoPath THEN o ELSE file.refs[i].path, disk)}
      BY <1>2 DEF Load, TypeOK
    <3>3. \A i \in Refs : Source(r, i)' =
            IF o # NoPath THEN o ELSE file.refs[i].path
      BY <3>1 DEF Source
    <3>4. \A i \in Refs : Found(file, i, Source(r, i)', disk) \in got'[r][i]
      BY <3>2, <3>3
    <3>5. \A i \in Refs : Found(copy[r], i, Source(r, i), disk)' =
                            Found(file, i, Source(r, i)', disk)
      BY <3>1 DEF Found
    <3>6. \A i \in Refs : ~(i < 1)  BY SizesAssumption
    <3> QED  BY <2>2, <3>1, <3>4, <3>5, <3>6 DEF RunOK, SameButHashes
  <2> QED  BY <2>1, <2>2
<1>3. ASSUME NEW r \in Runners, ReadRef(r) PROVE RunInv'
  <2> SUFFICES ASSUME NEW q \in Runners PROVE RunOK(q)'  BY DEF RunInv
  <2>1. CASE q # r
    BY <1>3, <2>1, RunFrame DEF ReadRef, files, history, TypeOK, RunInv
  <2>2. CASE q = r  BY <1>3, <2>2, ReadRefRun DEF RunInv
  <2> QED  BY <2>1, <2>2
<1>4. ASSUME NEW r \in Runners, SkipRef(r) PROVE RunInv'
  <2> SUFFICES ASSUME NEW q \in Runners PROVE RunOK(q)'  BY DEF RunInv
  <2>1. CASE q # r
    BY <1>4, <2>1, RunFrame DEF SkipRef, files, history, TypeOK, RunInv
  <2>2. CASE q = r  BY <1>4, <2>2, SkipRefRun DEF RunInv
  <2> QED  BY <2>1, <2>2
<1>5. ASSUME NEW r \in Runners, AbortRef(r) \/ FinishUnchanged(r) PROVE RunInv'
  BY <1>5, EndFrame DEF AbortRef, FinishUnchanged, files, Ended
<1>6. ASSUME NEW r \in Runners, Truncate(r) PROVE RunInv'
  <2> SUFFICES ASSUME NEW q \in Runners PROVE RunOK(q)'  BY DEF RunInv
  <2>1. CASE q # r
    BY <1>6, <2>1, RunFrame DEF Truncate, TypeOK, RunInv
  <2>2. CASE q = r
    <3>1. RunOK(r) /\ pc[r] = "refs" /\ idx[r] \notin Refs  BY <1>6 DEF Truncate, RunInv
    <3>2. /\ disk' = disk /\ copy' = copy /\ idx' = idx /\ override' = override
          /\ base' = base /\ got' = got
      BY <1>6 DEF Truncate
    <3>3. \A i \in Refs : /\ Source(r, i)' = Source(r, i)
                          /\ FreshFor(r, i)' <=> FreshFor(r, i)
      BY <3>2 DEF Source, FreshFor
    <3> QED  BY <2>2, <3>1, <3>2, <3>3 DEF RunOK, Running
  <2> QED  BY <2>1, <2>2
<1>7. ASSUME NEW r \in Runners, Dump(r) PROVE RunInv'
  BY <1>7, EndFrame DEF Dump, Ended
<1>8. ASSUME NEW r \in Runners, Kill(r) PROVE RunInv'
  BY <1>8, EndFrame DEF Kill, files, Ended
<1>9. ASSUME NEW p \in Paths, NEW c \in Contents, EditSource(p, c)
      PROVE  RunInv'
  <2> SUFFICES ASSUME NEW q \in Runners, pc'[q] \in Running PROVE RunOK(q)'
    BY DEF RunInv, RunOK
  <2>1. UNCHANGED <<pc, copy, idx, override, base>>
    BY <1>9 DEF EditSource, local
  <2>2. RunOK(q) /\ pc[q] \in Running  BY <2>1 DEF RunInv
  <2>3. \A i \in Refs : got'[q][i] =
          got[q][i] \cup {Found(copy[q], i, Source(q, i), disk')}
    BY <1>9, <2>2 DEF EditSource
  <2>4. \A i \in Refs : Source(q, i)' = Source(q, i)  BY <2>1 DEF Source
  <2>5. \A i \in Refs : Found(copy[q], i, Source(q, i), disk)' \in got'[q][i]
    BY <2>1, <2>3, <2>4 DEF Found
  <2>6. \A i \in Refs : FreshFor(q, i) => FreshFor(q, i)'
    BY <2>1, <2>3 DEF FreshFor
  <2>7. \A i \in Refs : i < idx[q] => FreshFor(q, i)'
    BY <2>2, <2>6 DEF RunOK
  <2> QED  BY <2>1, <2>2, <2>5, <2>7 DEF RunOK
<1>10. ASSUME NEW rec, SaveRecord(rec) PROVE RunInv'
  BY <1>10, RunFrame DEF SaveRecord, local, RunInv
<1>11. ASSUME NEW b \in Bodies, Annotate(b) PROVE RunInv'
  BY <1>10, <1>11 DEF Annotate
<1>12. ASSUME NEW i \in Refs, NEW p \in Repoints, Repoint(i, p) PROVE RunInv'
  BY <1>10, <1>12 DEF Repoint
<1>13. ASSUME Restore PROVE RunInv'
  BY <1>13, RunFrame DEF Restore, local, RunInv
<1>14. CASE UNCHANGED vars
  BY <1>14, RunFrame DEF vars, files, local, history, RunInv
<1> QED
  BY <1>1, <1>2, <1>3, <1>4, <1>5, <1>6, <1>7, <1>8, <1>9, <1>11, <1>12,
     <1>13, <1>14 DEF Next, Run, Progress, Others

\* RunInv holds in every reachable state.
LEMMA RunsHold == Spec => []RunInv
<1>1. Init => RunInv  BY DEF Init, RunInv, RunOK, Running
<1> QED  BY <1>1, TypeCorrect, RunNext, PTL DEF Spec

\* When a run opens the file, every ref has been settled during that run:
\* no ref is written with another's hash or one older than the run, and a
\* Sigma or Splunk run writes all refs or none.
THEOREM WritesFresh == Spec => []WritesAreFresh
<1>1. TypeOK /\ RunInv => WritesAreFresh
  <2> SUFFICES ASSUME TypeOK, RunInv, NEW r \in Runners, pc[r] = "dump",
                      NEW i \in Refs
               PROVE  FreshFor(r, i)
    BY DEF WritesAreFresh
  <2>1. idx[r] \in 1 .. NRefs + 1 /\ idx[r] \notin Refs
    BY DEF TypeOK, RunInv, RunOK, Running
  <2>2. i < idx[r]  BY <2>1, SizesAssumption
  <2> QED  BY <2>2 DEF RunInv, RunOK, Running
<1> QED  BY <1>1, TypeCorrect, RunsHold, PTL
(***************************************************************************)
(* An undisturbed run.                                                     *)
(***************************************************************************)

\* As long as nobody interferes, the record is the one the run loaded, and
\* only the run itself has taken it out of the file.
CalmOK(r) ==
  calm[r] =>
    /\ pc[r] = "refs" => file = base[r] /\ last = base[r]
    /\ pc[r] = "dump" => file = NoRecord /\ last = base[r]

CalmInv ==
  /\ file \in Records => last = file
  /\ \A r \in Runners : CalmOK(r)

\* A step that disturbs a run ends its calm.
LEMMA CalmNext == TypeOK /\ CalmInv /\ [Next]_vars => CalmInv'
<1> SUFFICES ASSUME TypeOK, CalmInv, [Next]_vars PROVE CalmInv'  OBVIOUS
<1> USE DEF CalmInv, CalmOK
\* A process that only reads moves on: nothing changes for the others.
<1>1. ASSUME NEW r \in Runners, file' = file, last' = last,
             \A q \in Runners \ {r} :
               pc'[q] = pc[q] /\ base'[q] = base[q] /\ calm'[q] = calm[q],
             CalmOK(r)'
      PROVE  CalmInv'
  BY <1>1
\* Nobody is calm any more.
<1>2. ASSUME calm' = Nobody, file' \in Records => last' = file' PROVE CalmInv'
  BY <1>2 DEF Nobody
<1>3. ASSUME NEW r \in Runners, NEW how \in Ended, End(r, how)
      PROVE  /\ pc'[r] \notin Running
             /\ \A q \in Runners \ {r} : pc'[q] = pc[q] /\ base'[q] = base[q]
  BY <1>3 DEF End, TypeOK, Ended, Running
<1>4. ASSUME NEW r \in Runners, NEW o \in Paths \cup {NoPath}, Refuse(r, o)
      PROVE  CalmInv'
  BY <1>1, <1>3, <1>4 DEF Refuse, files, Ended, Running, TypeOK
<1>5. ASSUME NEW r \in Runners, NEW o \in Paths \cup {NoPath}, Load(r, o)
      PROVE  CalmInv'
  BY <1>1, <1>5 DEF Load, files, TypeOK
<1>6. ASSUME NEW r \in Runners, ReadRef(r) \/ SkipRef(r) PROVE CalmInv'
  BY <1>1, <1>6 DEF ReadRef, SkipRef, files, history
<1>7. ASSUME NEW r \in Runners, AbortRef(r) \/ FinishUnchanged(r)
      PROVE  CalmInv'
  BY <1>1, <1>3, <1>7 DEF AbortRef, FinishUnchanged, files, Ended, Running
<1>8. ASSUME NEW r \in Runners, Truncate(r) PROVE CalmInv'
  BY <1>8, MarksAssumption DEF Truncate, AloneIs, TypeOK
<1>9. ASSUME NEW r \in Runners, Dump(r) PROVE CalmInv'
  <2>1. pc'[r] \notin Running  BY <1>3, <1>9 DEF Dump, Ended
  <2>2. \A q \in Runners : calm'[q] => q = r  BY <1>9 DEF Dump, AloneIs
  <2>3. file' \in Records => last' = file'
    BY <1>9, MarksAssumption DEF Dump, Written
  <2> QED  BY <2>1, <2>2, <2>3 DEF Running
<1>10. ASSUME NEW r \in Runners, Kill(r) PROVE CalmInv'
  BY <1>1, <1>3, <1>10 DEF Kill, files, Ended, Running
<1>11. ASSUME NEW p \in Paths, NEW c \in Contents, EditSource(p, c)
       PROVE  CalmInv'
  BY <1>2, <1>11 DEF EditSource
<1>12. ASSUME NEW rec, SaveRecord(rec) PROVE CalmInv'
  BY <1>2, <1>12 DEF SaveRecord
<1>13. ASSUME NEW b \in Bodies, Annotate(b) PROVE CalmInv'
  BY <1>12, <1>13 DEF Annotate
<1>14. ASSUME NEW i \in Refs, NEW p \in Repoints, Repoint(i, p) PROVE CalmInv'
  BY <1>12, <1>14 DEF Repoint
<1>15. ASSUME Restore PROVE CalmInv'  BY <1>2, <1>15 DEF Restore
<1>16. CASE UNCHANGED vars  BY <1>16 DEF vars, files, local, history
<1> QED
  BY <1>4, <1>5, <1>6, <1>7, <1>8, <1>9, <1>10, <1>11, <1>13, <1>14, <1>15,
     <1>16 DEF Next, Run, Progress, Others

\* CalmInv holds in every reachable state.
LEMMA CalmHolds == Spec => []CalmInv
<1>1. Init => CalmInv  BY DEF Init, CalmInv, CalmOK
<1> QED  BY <1>1, TypeCorrect, CalmNext, PTL DEF Spec

\* What an undisturbed run dumps is the last whole record with other hashes,
\* and it lands in the file as it is.
THEOREM OnlyHashesWritten == Spec => WritesOnlyHashes
<1> DEFINE Act == \A r \in Runners :
             pc[r] = "dump" /\ pc'[r] = "ok" /\ calm[r]
               => file' \in Records /\ SameButHashes(file', last)
<1>1. TypeOK /\ RunInv /\ CalmInv /\ [Next]_vars => [Act]_vars
  <2> SUFFICES ASSUME TypeOK, RunInv, CalmInv, [Next]_vars,
                      NEW r \in Runners, pc[r] = "dump", pc'[r] = "ok", calm[r]
               PROVE  file' \in Records /\ SameButHashes(file', last)
    OBVIOUS
  <2>1. file = NoRecord /\ last = base[r]  BY DEF CalmInv, CalmOK
  <2>2. SameButHashes(copy[r], base[r]) /\ copy[r] \in Records
    BY DEF RunInv, RunOK, Running, TypeOK
  <2>3. Dump(r)
    <3>1. pc' # pc  BY DEF TypeOK
    <3>2. Next  BY <3>1 DEF vars, local
    <3>3. pc # pc' => ~Others
      BY DEF Others, EditSource, Annotate, Repoint, SaveRecord, Restore, local
    <3>4. PICK q \in Runners : Run(q)  BY <3>1, <3>2, <3>3 DEF Next
    <3>5. q = r
      <4> SUFFICES ASSUME q # r PROVE pc'[r] = pc[r]  OBVIOUS
      <4> QED  BY <3>4 DEF Run, Progress, Refuse, Load, ReadRef, SkipRef,
                  AbortRef, FinishUnchanged, Truncate, Dump, Kill, End, TypeOK
    <3> QED  BY <3>4, <3>5 DEF Run, Progress, Refuse, Load, ReadRef, SkipRef,
                AbortRef, FinishUnchanged, Truncate, Kill, End, TypeOK, Running
  <2>4. file' = copy[r]  BY <2>1, <2>3 DEF Dump, Written
  <2> QED  BY <2>1, <2>2, <2>4
<1>2. WritesOnlyHashes <=> [][Act]_vars  BY DEF WritesOnlyHashes
<1> QED  BY <1>1, <1>2, TypeCorrect, RunsHold, CalmHolds, PTL DEF Spec
(***************************************************************************)
(* RefreshHash implements HashStore.                                       *)
(***************************************************************************)

\* The kind and the names of a record are those of the file: nobody changes
\* them, so a digest found under a ref's name stays one of that ref's.
SameRules(rec) ==
  /\ rec.kind = last.kind
  /\ \A i \in Refs : rec.refs[i].name = last.refs[i].name

\* All hashes of a record come from the past.
Pinned(rec) == \A i \in Refs : rec.refs[i].hash \in past[i]

PastInv ==
  /\ Pinned(last)
  /\ file \in Records => SameRules(file)
  /\ \A r \in Runners : pc[r] \in Running => SameRules(copy[r]) /\ Pinned(copy[r])
  /\ \A i \in Refs, p \in Paths :
       Found(last, i, p, disk) \in past[i] \cup {NoDigest}

\* Records with the same names and kind find the same hashes.
LEMMA FoundByRules ==
  ASSUME NEW rec, SameRules(rec), NEW i \in Refs, NEW p, NEW d
  PROVE  Found(rec, i, p, d) = Found(last, i, p, d)
BY DEF SameRules, Found

\* The first pin of a ref is part of its past.
LEMMA PastInit == Init => PastInv
<1> SUFFICES ASSUME Init PROVE PastInv  OBVIOUS
<1>1. \A i \in Refs : past[i] = {file.refs[i].hash} \cup
        ({Found(file, i, p, disk) : p \in Paths} \ {NoDigest})
  BY DEF Init
<1>2. last = file /\ \A r \in Runners : pc[r] = "idle"  BY DEF Init
<1> QED  BY <1>1, <1>2 DEF PastInv, Pinned, SameRules, Running

\* A step that changes neither a rule nor the record's rules and hashes.
LEMMA PastFrame ==
  ASSUME PastInv, disk' = disk, past' = past,
         last'.kind = last.kind,
         \A i \in Refs : last'.refs[i].name = last.refs[i].name,
         Pinned(last'), file' \in Records => SameRules(file'),
         \A r \in Runners : pc'[r] \in Running =>
           SameRules(copy'[r]) /\ Pinned(copy'[r])
  PROVE  PastInv'
<1>1. \A i \in Refs, p \in Paths :
        Found(last, i, p, disk)' \in past'[i] \cup {NoDigest}
  BY DEF PastInv, Found
<1> QED  BY <1>1 DEF PastInv, SameRules, Pinned

\* Whatever a step writes or finds is part of the ref's past.
LEMMA PastNext == TypeOK /\ CalmInv /\ PastInv /\ [Next]_vars => PastInv'
<1> SUFFICES ASSUME TypeOK, CalmInv, PastInv, [Next]_vars PROVE PastInv'
  OBVIOUS
\* The others' records when only r moves.
<1>1. ASSUME NEW r \in Runners, NEW how \in Ended, End(r, how)
      PROVE  \A q \in Runners : pc'[q] \in Running =>
               SameRules(copy'[q]) /\ Pinned(copy'[q])
  BY <1>1 DEF End, TypeOK, Ended, Running, PastInv
<1>2. ASSUME NEW r \in Runners, NEW o \in Paths \cup {NoPath}, Refuse(r, o)
      PROVE  PastInv'
  BY <1>1, <1>2, PastFrame DEF Refuse, files, Ended, PastInv
<1>3. ASSUME NEW r \in Runners, NEW o \in Paths \cup {NoPath}, Load(r, o)
      PROVE  PastInv'
  <2>1. SameRules(file) /\ Pinned(file)
    BY <1>3 DEF Load, PastInv, CalmInv
  <2>2. \A q \in Runners : pc'[q] \in Running =>
          SameRules(copy'[q]) /\ Pinned(copy'[q])
    BY <1>3, <2>1 DEF Load, TypeOK, PastInv
  <2> QED  BY <1>3, <2>2, PastFrame DEF Load, files, PastInv
<1>4. ASSUME NEW r \in Runners, ReadRef(r) PROVE PastInv'
  <2> DEFINE new == SetHash(copy[r], idx[r], NewHash(r))
  <2>1. /\ copy[r] \in Records /\ NewHash(r) \in Digests \cup {NoDigest}
        /\ idx[r] \in Refs /\ pc[r] \in Running
    BY <1>4, NewHashType DEF ReadRef, Running
  <2>2. /\ SameButHashes(new, copy[r]) /\ new.refs[idx[r]].hash = NewHash(r)
        /\ \A j \in Refs \ {idx[r]} : new.refs[j] = copy[r].refs[j]
    BY <2>1, SetHashType
  <2>3. SameRules(copy[r]) /\ Pinned(copy[r])  BY <2>1 DEF PastInv
  <2>4. SameRules(new)  BY <2>2, <2>3 DEF SameRules, SameButHashes
  <2>5. Source(r, idx[r]) \in Paths  BY <1>4 DEF ReadRef, NewHash, Found
  <2>6. NewHash(r) \in past[idx[r]]
    <3>1. NewHash(r) = Found(last, idx[r], Source(r, idx[r]), disk)
      BY <2>1, <2>3, FoundByRules DEF NewHash
    <3> QED  BY <1>4, <2>1, <2>5, <3>1 DEF ReadRef, PastInv
  <2>7. Pinned(new)  BY <2>2, <2>3, <2>6 DEF Pinned
  <2>8. \A q \in Runners : pc'[q] \in Running =>
          SameRules(copy'[q]) /\ Pinned(copy'[q])
    BY <1>4, <2>4, <2>7 DEF ReadRef, TypeOK, PastInv
  <2> QED  BY <1>4, <2>8, PastFrame DEF ReadRef, files, history, PastInv
<1>5. ASSUME NEW r \in Runners, SkipRef(r) PROVE PastInv'
  BY <1>5, PastFrame DEF SkipRef, files, history, PastInv
<1>6. ASSUME NEW r \in Runners, AbortRef(r) \/ FinishUnchanged(r) PROVE PastInv'
  BY <1>1, <1>6, PastFrame DEF AbortRef, FinishUnchanged, files, Ended, PastInv
<1>7. ASSUME NEW r \in Runners, Truncate(r) PROVE PastInv'
  <2>1. \A q \in Runners : pc'[q] \in Running => pc[q] \in Running
    BY <1>7 DEF Truncate, TypeOK, Running
  <2> QED
    BY <1>7, <2>1, PastFrame, MarksAssumption DEF Truncate, PastInv
<1>8. ASSUME NEW r \in Runners, Dump(r) PROVE PastInv'
  <2>1. SameRules(copy[r]) /\ Pinned(copy[r])  BY <1>8 DEF Dump, PastInv, Running
  <2>2. file' \in {copy[r], Spoiled}  BY <1>8 DEF Dump, Written
  <2>3. last' = last \/ last' = copy[r]  BY <1>8 DEF Dump
  <2>4. /\ last'.kind = last.kind /\ Pinned(last')
        /\ \A i \in Refs : last'.refs[i].name = last.refs[i].name
    BY <2>1, <2>3 DEF SameRules, PastInv
  <2>5. file' \in Records => SameRules(file')
    BY <2>1, <2>2, MarksAssumption
  <2> QED  BY <1>1, <1>8, <2>4, <2>5, PastFrame DEF Dump, Ended
<1>9. ASSUME NEW r \in Runners, Kill(r) PROVE PastInv'
  BY <1>1, <1>9, PastFrame DEF Kill, files, Ended, PastInv
<1>10. ASSUME NEW p \in Paths, NEW c \in Contents, EditSource(p, c) PROVE PastInv'
  <2>1. UNCHANGED <<file, pc, copy, last>>  BY <1>10 DEF EditSource, local
  <2>2. \A i \in Refs : past'[i] =
          past[i] \cup ({FoundIn(last.kind, last.refs[i].name, c)} \ {NoDigest})
    BY <1>10 DEF EditSource
  <2>3. \A i \in Refs, x \in Paths :
          Found(last, i, x, disk)' \in past'[i] \cup {NoDigest}
    <3> SUFFICES ASSUME NEW i \in Refs, NEW x \in Paths
                 PROVE  Found(last, i, x, disk') \in past'[i] \cup {NoDigest}
      BY <2>1 DEF Found
    <3>1. CASE x = p
      <4>1. disk'[x] = c  BY <1>10, <3>1 DEF EditSource, TypeOK
      <4> QED  BY <2>2, <4>1 DEF Found
    <3>2. CASE x # p
      <4>1. disk'[x] = disk[x]  BY <1>10, <3>2 DEF EditSource, TypeOK
      <4> QED  BY <2>2, <4>1 DEF Found, PastInv
    <3> QED  BY <3>1, <3>2
  <2>4. \A i \in Refs : past[i] \subseteq past'[i]  BY <2>2
  <2> QED  BY <2>1, <2>3, <2>4 DEF PastInv, Pinned, SameRules
<1>11. ASSUME NEW b \in Bodies, Annotate(b) PROVE PastInv'
  <2>1. last = file /\ file \in Records  BY <1>11 DEF Annotate, CalmInv
  <2>2. /\ last'.kind = last.kind /\ last'.refs = last.refs /\ file' = last'
    BY <1>11, <2>1 DEF Annotate, SaveRecord, Records
  <2> QED
    BY <1>11, <2>2, PastFrame
    DEF Annotate, SaveRecord, local, PastInv, Pinned, SameRules
<1>12. ASSUME NEW i \in Refs, NEW p \in Repoints, Repoint(i, p) PROVE PastInv'
  <2>1. last = file /\ file \in Records  BY <1>12 DEF Repoint, CalmInv
  <2>2. /\ last'.kind = last.kind /\ file' = last'
        /\ \A j \in Refs : /\ last'.refs[j].name = last.refs[j].name
                           /\ last'.refs[j].hash = last.refs[j].hash
    BY <1>12, <2>1, RepointKeeps DEF Repoint, SaveRecord
  <2>3. UNCHANGED <<disk, past, pc, copy>>
    BY <1>12 DEF Repoint, SaveRecord, local
  <2>4. Pinned(last')  BY <2>2, <2>3 DEF PastInv, Pinned
  <2>5. file' \in Records => SameRules(file')  BY <2>2 DEF SameRules
  <2>6. ASSUME NEW q \in Runners, pc'[q] \in Running
        PROVE  SameRules(copy'[q]) /\ Pinned(copy'[q])
    BY <2>2, <2>3, <2>6 DEF PastInv, Pinned, SameRules
  <2> QED  BY <2>2, <2>3, <2>4, <2>5, <2>6, PastFrame
<1>13. ASSUME Restore PROVE PastInv'
  BY <1>13, PastFrame DEF Restore, local, PastInv, SameRules
<1>14. CASE UNCHANGED vars
  BY <1>14, PastFrame DEF vars, files, local, history, PastInv
<1> QED
  BY <1>2, <1>3, <1>4, <1>5, <1>6, <1>7, <1>8, <1>9, <1>10, <1>11, <1>12,
     <1>13, <1>14 DEF Next, Run, Progress, Others

\* PastInv holds in every reachable state.
LEMMA PastHolds == Spec => []PastInv
BY PastInit, PastNext, TypeCorrect, CalmHolds, PTL DEF Spec
\* The pins of the abstract view.
PinsOf(rec) == [i \in Refs |-> rec.refs[i].hash]

\* The initial states are initial states of the store.
LEMMA PromiseInit == Init => Promise!Init
<1> SUFFICES ASSUME Init PROVE Promise!Init  OBVIOUS
<1>1. TypeOK /\ PastInv  BY TypeInit, PastInit
<1>2. last \in Records /\ last = file  BY <1>1 DEF TypeOK, Init
<1>3. PinsOf(last) \in [Refs -> Digests \cup {NoDigest}]
  BY <1>2 DEF Records, Ref, PinsOf
<1>4. past \in [Refs -> SUBSET (Digests \cup {NoDigest})]  BY <1>1 DEF TypeOK
<1>5. \A i \in Refs : past[i] \subseteq {last.refs[i].hash} \cup Digests
  <2>1. \A i \in Refs : past[i] = {file.refs[i].hash} \cup
          ({Found(file, i, p, disk) : p \in Paths} \ {NoDigest})
    BY DEF Init
  <2>2. \A i \in Refs, p \in Paths :
          Found(file, i, p, disk) \in Digests \cup {NoDigest}
    BY <1>1, <1>2, FoundType DEF TypeOK
  <2> QED  BY <1>2, <2>1, <2>2
<1>6. \A i \in Refs : last.refs[i].hash \in past[i]
  BY <1>1 DEF PastInv, Pinned
<1> QED  BY <1>2, <1>3, <1>4, <1>5, <1>6 DEF Promise!Init, PinsOf

\* Every step is a step of the store or leaves it alone.
LEMMA PromiseNext ==
  TypeOK /\ CalmInv /\ PastInv /\ PastInv' /\ TypeOK' /\ [Next]_vars
    => [Promise!Next]_(Promise!vars)
<1> SUFFICES ASSUME TypeOK, CalmInv, PastInv, PastInv', TypeOK', [Next]_vars
             PROVE  [Promise!Next]_(Promise!vars)
  OBVIOUS
<1> USE DEF Promise!vars
\* Neither the pins, nor the past, nor the readability change: a stutter.
<1>1. ASSUME PinsOf(last') = PinsOf(last), past' = past,
             (file' \in Records) = (file \in Records)
      PROVE  UNCHANGED Promise!vars
  BY <1>1 DEF PinsOf
<1>2. ASSUME last' = last, past' = past, file' \notin Records
      PROVE  Promise!Withdraw
  <2>1. (file' \in Records) = FALSE  BY <1>2
  <2> QED  BY <1>2, <2>1 DEF Promise!Withdraw
<1>3. ASSUME past' = past, file' \in Records PROVE Promise!Publish
  <2>1. last' \in Records  BY DEF TypeOK
  <2>2. PinsOf(last') \in [Refs -> Digests \cup {NoDigest}]
    BY <2>1 DEF Records, Ref, PinsOf
  <2>3. \A i \in Refs : last'.refs[i].hash \in past[i]
    BY <1>3 DEF PastInv, Pinned
  <2>4. (file' \in Records) = TRUE  BY <1>3
  <2> QED  BY <1>3, <2>2, <2>3, <2>4 DEF Promise!Publish, PinsOf
<1>4. ASSUME NEW r \in Runners, Truncate(r) PROVE Promise!Withdraw
  BY <1>2, <1>4, MarksAssumption DEF Truncate
<1>5. ASSUME NEW r \in Runners, Dump(r)
      PROVE  Promise!Withdraw \/ Promise!Publish
  <2>1. CASE file' = Spoiled  BY <1>2, <1>5, <2>1, MarksAssumption DEF Dump
  <2>2. CASE file' # Spoiled
    <3>1. file' = copy[r] /\ copy[r] \in Records
      BY <1>5, <2>2 DEF Dump, Written, TypeOK, Running
    <3> QED  BY <1>3, <1>5, <3>1 DEF Dump
  <2> QED  BY <2>1, <2>2
<1>6. ASSUME NEW p \in Paths, NEW c \in Contents, EditSource(p, c)
      PROVE  Promise!RulesMove
  <2>1. past' \in [Refs -> SUBSET (Digests \cup {NoDigest})]  BY DEF TypeOK
  <2>2. \A i \in Refs : past'[i] =
          past[i] \cup ({FoundIn(last.kind, last.refs[i].name, c)} \ {NoDigest})
    BY <1>6 DEF EditSource
  <2>3. \A i \in Refs : past'[i] \in SUBSET (Digests \cup {NoDigest})
    BY <2>1
  <2>4. \A i \in Refs : /\ past[i] \subseteq past'[i]
                        /\ past'[i] \subseteq past[i] \cup Digests
    BY <2>2, <2>3
  <2> QED  BY <1>6, <2>1, <2>4 DEF Promise!RulesMove, EditSource
<1>7. ASSUME NEW b \in Bodies, Annotate(b) PROVE UNCHANGED Promise!vars
  <2>1. last = file /\ file \in Records  BY <1>7 DEF Annotate, CalmInv
  <2>2. last'.refs = last.refs /\ past' = past /\ file' \in Records
    BY <1>7, <2>1, AnnotateType DEF Annotate, SaveRecord, Records
  <2>3. PinsOf(last') = PinsOf(last)  BY <2>2 DEF PinsOf
  <2> QED  BY <1>1, <2>1, <2>2, <2>3
<1>8. ASSUME NEW i \in Refs, NEW p \in Repoints, Repoint(i, p)
      PROVE  UNCHANGED Promise!vars
  <2>1. last = file /\ file \in Records  BY <1>8 DEF Repoint, CalmInv
  <2>2. /\ past' = past /\ file' \in Records
        /\ \A j \in Refs : last'.refs[j].hash = last.refs[j].hash
    BY <1>8, <2>1, RepointKeeps, RepointType DEF Repoint, SaveRecord
  <2>3. PinsOf(last') = PinsOf(last)  BY <2>2 DEF PinsOf
  <2> QED  BY <1>1, <2>1, <2>2, <2>3
<1>9. ASSUME Restore PROVE Promise!Publish
  BY <1>3, <1>9 DEF Restore, TypeOK
<1>10. ASSUME UNCHANGED <<file, last, past>> PROVE UNCHANGED Promise!vars
  BY <1>1, <1>10
<1>11. ASSUME NEW r \in Runners, NEW o \in Paths \cup {NoPath},
              Refuse(r, o) \/ Load(r, o)
       PROVE  UNCHANGED <<file, last, past>>
  BY <1>11 DEF Refuse, Load, files
<1>12. ASSUME NEW r \in Runners,
              \/ ReadRef(r) \/ SkipRef(r) \/ AbortRef(r)
              \/ FinishUnchanged(r) \/ Kill(r)
       PROVE  UNCHANGED <<file, last, past>>
  BY <1>12 DEF ReadRef, SkipRef, AbortRef, FinishUnchanged, Kill, files, history
<1>13. CASE UNCHANGED vars  BY <1>10, <1>13 DEF vars, files, history
<1> QED
  BY <1>4, <1>5, <1>6, <1>7, <1>8, <1>9, <1>10, <1>11, <1>12, <1>13
  DEF Next, Run, Progress, Others, Promise!Next

\* Runs, edits, kills and restores, however many and however interleaved,
\* behave as a store that publishes all pins of a record in one step, each
\* a digest its own rule's name has had or its first pin.
THEOREM RefinesHashStore == Spec => KeepsPromise
<1>1. Init => Promise!Init  BY PromiseInit
<1>2. TypeOK /\ CalmInv /\ PastInv /\ PastInv' /\ TypeOK' /\ [Next]_vars
        => [Promise!Next]_(Promise!vars)
  BY PromiseNext
<1> QED
  BY <1>1, <1>2, TypeCorrect, CalmHolds, PastHolds, PTL
  DEF Spec, KeepsPromise, Promise!Spec
(***************************************************************************)
(* A refresh settles the record.                                           *)
(***************************************************************************)

\* As long as nobody interferes, the refs a run has passed carry what their
\* rules hash to, if that can be computed, and a run that has not counted a
\* change holds the record it loaded.  Every stanza it has passed has a name.
SettleOK(r) ==
  pc[r] \in Running /\ calm[r] =>
    /\ \A i \in Refs : i < idx[r] =>
         Found(copy[r], i, Source(r, i), disk) \in {NoDigest, copy[r].refs[i].hash}
    /\ ~changed[r] => copy[r] = base[r]
    /\ copy[r].kind = "splunk" =>
         \A i \in Refs : i < idx[r] => copy[r].refs[i].name \notin Nameless

\* ... and so does the record that an undisturbed run has left behind.
RestOK(r) ==
  pc[r] = "ok" /\ calm[r] /\ override[r] = NoPath
    => /\ file \in Records /\ Outdated(file, disk) = {}
       /\ file.kind = "splunk" => \A i \in Refs : file.refs[i].name \notin Nameless

SettleInv == \A r \in Runners : SettleOK(r) /\ RestOK(r)

\* Storing the hash that is there changes nothing.
LEMMA SetHashSame ==
  ASSUME NEW rec \in Records, NEW i \in Refs, NEW h, rec.refs[i].hash = h
  PROVE  SetHash(rec, i, h) = rec
<1> DEFINE new == [rec.refs EXCEPT ![i] = [rec.refs[i] EXCEPT !.hash = h]]
<1>1. rec.refs \in [Refs -> Ref]  BY DEF Records
<1>2. rec.refs[i] \in Ref  BY <1>1
<1>3. [rec.refs[i] EXCEPT !.hash = h] = rec.refs[i]  BY <1>2 DEF Ref
<1>4. new = rec.refs  BY <1>1, <1>3
<1>5. SetHash(rec, i, h) = [rec EXCEPT !.refs = new]  BY DEF SetHash, Records
<1> QED  BY <1>4, <1>5 DEF Records

\* A step that leaves the locals of q, the file and the rules alone, and in
\* which q stays calm if it is calm afterwards.
LEMMA SettleFrame ==
  ASSUME NEW q \in Runners, SettleOK(q), RestOK(q),
         pc'[q] = pc[q], copy'[q] = copy[q], idx'[q] = idx[q],
         changed'[q] = changed[q], override'[q] = override[q], base'[q] = base[q],
         calm'[q] => calm[q] /\ UNCHANGED files
  PROVE  SettleOK(q)' /\ RestOK(q)'
<1>1. CASE calm'[q]
  <2>1. calm[q] /\ file' = file /\ disk' = disk  BY <1>1 DEF files
  <2>2. \A i \in Refs : Source(q, i)' = Source(q, i)  BY DEF Source
  <2> QED  BY <2>1, <2>2 DEF SettleOK, RestOK, Found, Outdated
<1>2. CASE ~calm'[q]  BY <1>2 DEF SettleOK, RestOK
<1> QED  BY <1>1, <1>2

\* The processes other than r when r ends.
LEMMA SettleEnd ==
  ASSUME TypeOK, SettleInv, NEW r \in Runners, NEW how \in Ended, End(r, how),
         \A q \in Runners \ {r} : /\ override'[q] = override[q]
                                  /\ calm'[q] => calm[q] /\ UNCHANGED files
  PROVE  \A q \in Runners \ {r} : SettleOK(q)' /\ RestOK(q)'
<1> SUFFICES ASSUME NEW q \in Runners \ {r} PROVE SettleOK(q)' /\ RestOK(q)'
  OBVIOUS
<1>1. /\ pc'[q] = pc[q] /\ copy'[q] = copy[q] /\ idx'[q] = idx[q]
      /\ changed'[q] = changed[q] /\ base'[q] = base[q]
  BY DEF End, TypeOK
<1> QED  BY <1>1, SettleFrame DEF SettleInv

\* A ref that has been read carries the hash its rule has now.
LEMMA ReadRefSettle ==
  ASSUME TypeOK, NEW r \in Runners, SettleOK(r), ReadRef(r)
  PROVE  SettleOK(r)'
<1> DEFINE i0  == idx[r]
           h   == NewHash(r)
           new == SetHash(copy[r], i0, h)
<1>1. /\ pc[r] = "refs" /\ i0 \in Refs
      /\ disk' = disk /\ override' = override /\ base' = base /\ calm' = calm
      /\ copy'[r] = new /\ idx'[r] = i0 + 1
      /\ changed'[r] = (changed[r] \/ copy[r].refs[i0].hash # h)
  BY DEF ReadRef, TypeOK, files, history
<1> SUFFICES ASSUME calm[r] PROVE SettleOK(r)'
  BY <1>1 DEF SettleOK
<1>2. copy[r] \in Records /\ h \in Digests \cup {NoDigest}
  BY <1>1, NewHashType
<1>3. /\ SameButHashes(new, copy[r]) /\ new.refs[i0].hash = h
      /\ \A j \in Refs \ {i0} : new.refs[j] = copy[r].refs[j]
  BY <1>1, <1>2, SetHashType
<1>4. \A i \in Refs : Source(r, i)' = Source(r, i)
  <2>1. ASSUME NEW i \in Refs  PROVE new.refs[i].path = copy[r].refs[i].path
    BY <1>3 DEF SameButHashes
  <2> QED  BY <1>1, <2>1 DEF Source
<1>5. \A i \in Refs : Found(new, i, Source(r, i), disk) =
                        Found(copy[r], i, Source(r, i), disk)
  BY <1>3, FoundSame
<1>6. ASSUME NEW i \in Refs, i < i0 + 1
      PROVE  Found(copy[r], i, Source(r, i), disk) \in {NoDigest, new.refs[i].hash}
  <2>1. CASE i = i0  BY <1>3, <2>1 DEF NewHash
  <2>2. CASE i # i0
    <3>1. i < i0  BY <1>1, <1>6, <2>2, SizesAssumption
    <3> QED  BY <1>1, <1>3, <2>2, <3>1 DEF SettleOK, Running
  <2> QED  BY <2>1, <2>2
<1>7. ASSUME ~changed'[r] PROVE new = base[r]
  <2>1. ~changed[r] /\ copy[r].refs[i0].hash = h  BY <1>1, <1>7
  <2>2. new = copy[r]  BY <1>1, <1>2, <2>1, SetHashSame
  <2> QED  BY <1>1, <2>1, <2>2 DEF SettleOK, Running
<1>8. \A i \in Refs : Found(copy[r], i, Source(r, i), disk)' =
                        Found(copy[r], i, Source(r, i), disk)
  BY <1>1, <1>4, <1>5 DEF Found
<1>9. ASSUME new.kind = "splunk", NEW i \in Refs, i < i0 + 1
      PROVE  new.refs[i].name \notin Nameless
  <2>1. copy[r].kind = "splunk" /\ new.refs[i].name = copy[r].refs[i].name
    BY <1>3, <1>9 DEF SameButHashes
  <2>2. CASE i = i0
    <3>1. h # NoDigest  BY DEF ReadRef
    <3> QED  BY <2>1, <2>2, <3>1 DEF NewHash, Found, FoundIn
  <2>3. CASE i # i0
    <3>1. i < i0  BY <1>1, <1>9, <2>3, SizesAssumption
    <3> QED  BY <1>1, <2>1, <3>1 DEF SettleOK, Running
  <2> QED  BY <2>2, <2>3
<1> QED  BY <1>1, <1>6, <1>7, <1>8, <1>9 DEF SettleOK

\* A ref is skipped only if it has no hash to find.
LEMMA SkipRefSettle ==
  ASSUME TypeOK, NEW r \in Runners, SettleOK(r), SkipRef(r)
  PROVE  SettleOK(r)'
<1>1. /\ pc[r] = "refs" /\ idx[r] \in Refs /\ NewHash(r) = NoDigest
      /\ UNCHANGED <<disk, override, base, calm, copy, changed>>
      /\ idx'[r] = idx[r] + 1
  BY DEF SkipRef, TypeOK, files, history
<1> SUFFICES ASSUME calm[r] PROVE SettleOK(r)'
  BY <1>1 DEF SettleOK
<1>2. ASSUME NEW i \in Refs, i < idx[r] + 1
      PROVE  Found(copy[r], i, Source(r, i), disk) \in {NoDigest, copy[r].refs[i].hash}
  <2>1. CASE i = idx[r]  BY <1>1, <2>1 DEF NewHash
  <2>2. CASE i # idx[r]
    <3>1. i < idx[r]  BY <1>1, <1>2, <2>2, SizesAssumption
    <3> QED  BY <1>1, <3>1 DEF SettleOK, Running
  <2> QED  BY <2>1, <2>2
<1>3. \A i \in Refs : Source(r, i)' = Source(r, i)  BY <1>1 DEF Source
<1>4. \A i \in Refs : Found(copy[r], i, Source(r, i), disk)' =
                        Found(copy[r], i, Source(r, i), disk)
  BY <1>1, <1>3 DEF Found
<1>5. ~changed[r] => copy[r] = base[r]  BY <1>1 DEF SettleOK, Running
<1>6. copy[r].kind # "splunk"  BY DEF SkipRef, AllOrNothing
<1> QED  BY <1>1, <1>2, <1>4, <1>5, <1>6 DEF SettleOK

\* A run that has passed all refs, looked up where the record says, leaves
\* nothing outdated.
LEMMA AllSettled ==
  ASSUME TypeOK, NEW r \in Runners, SettleOK(r), pc[r] \in Running, calm[r],
         idx[r] \notin Refs, override[r] = NoPath
  PROVE  /\ Outdated(copy[r], disk) = {}
         /\ copy[r].kind = "splunk" =>
              \A i \in Refs : copy[r].refs[i].name \notin Nameless
<1>1. \A i \in Refs : i < idx[r]
  <2>1. idx[r] = NRefs + 1  BY SizesAssumption DEF TypeOK
  <2> QED  BY <2>1, SizesAssumption
<1>2. \A i \in Refs : Source(r, i) = copy[r].refs[i].path  BY DEF Source
<1> QED  BY <1>1, <1>2 DEF SettleOK, Outdated

\* No step unsettles the refs that an undisturbed run has passed.
LEMMA SettleNext ==
  TypeOK /\ RunInv /\ CalmInv /\ SettleInv /\ [Next]_vars => SettleInv'
<1> SUFFICES ASSUME TypeOK, RunInv, CalmInv, SettleInv, [Next]_vars
             PROVE  SettleInv'
  OBVIOUS
\* Steps of r that leave the file and the others' calm alone.
<1>1. ASSUME NEW r \in Runners, UNCHANGED files,
             \A q \in Runners \ {r} :
               /\ pc'[q] = pc[q] /\ copy'[q] = copy[q] /\ idx'[q] = idx[q]
               /\ changed'[q] = changed[q] /\ override'[q] = override[q]
               /\ base'[q] = base[q] /\ calm'[q] = calm[q],
             SettleOK(r)' /\ RestOK(r)'
      PROVE  SettleInv'
  BY <1>1, SettleFrame DEF SettleInv
<1>2. ASSUME NEW r \in Runners, NEW how \in Ended, End(r, how)
      PROVE  pc'[r] = how /\ SettleOK(r)' /\ (how # "ok" => RestOK(r)')
  BY <1>2 DEF End, TypeOK, SettleOK, RestOK, Running, Ended
<1>3. ASSUME NEW r \in Runners, NEW o \in Paths \cup {NoPath}, Refuse(r, o)
      PROVE  SettleInv'
  <2>1. SettleOK(r)' /\ RestOK(r)'  BY <1>2, <1>3 DEF Refuse, Ended
  <2>2. \A q \in Runners \ {r} : SettleOK(q)' /\ RestOK(q)'
    BY <1>3, SettleEnd DEF Refuse, Ended, TypeOK
  <2> QED  BY <2>1, <2>2 DEF SettleInv
<1>4. ASSUME NEW r \in Runners, NEW o \in Paths \cup {NoPath}, Load(r, o)
      PROVE  SettleInv'
  <2>1. /\ pc'[r] = "refs" /\ copy'[r] = file /\ base'[r] = file /\ idx'[r] = 1
    BY <1>4 DEF Load, TypeOK
  <2>2. \A i \in Refs : ~(i < 1)  BY SizesAssumption
  <2>3. SettleOK(r)' /\ RestOK(r)'  BY <2>1, <2>2 DEF SettleOK, RestOK
  <2> QED  BY <1>1, <1>4, <2>3 DEF Load, TypeOK
<1>5. ASSUME NEW r \in Runners, ReadRef(r) \/ SkipRef(r) PROVE SettleInv'
  <2>1. SettleOK(r)'  BY <1>5, ReadRefSettle, SkipRefSettle DEF SettleInv
  <2>2. pc'[r] = "refs"  BY <1>5 DEF ReadRef, SkipRef
  <2>3. RestOK(r)'  BY <2>2 DEF RestOK
  <2> QED  BY <1>1, <1>5, <2>1, <2>3 DEF ReadRef, SkipRef, history, TypeOK
<1>6. ASSUME NEW r \in Runners, AbortRef(r) PROVE SettleInv'
  <2>1. SettleOK(r)' /\ RestOK(r)'  BY <1>2, <1>6 DEF AbortRef, Ended
  <2>2. \A q \in Runners \ {r} : SettleOK(q)' /\ RestOK(q)'
    BY <1>6, SettleEnd DEF AbortRef, Ended
  <2> QED  BY <2>1, <2>2 DEF SettleInv
<1>7. ASSUME NEW r \in Runners, FinishUnchanged(r) PROVE SettleInv'
  <2>1. SettleOK(r)'  BY <1>2, <1>7 DEF FinishUnchanged, Ended
  <2>2. /\ pc[r] = "refs" /\ idx[r] \notin Refs /\ ~changed[r]
        /\ UNCHANGED <<file, disk, override, calm>>
    BY <1>7 DEF FinishUnchanged, files
  <2>3. ASSUME calm[r], override[r] = NoPath
        PROVE  /\ file \in Records /\ Outdated(file, disk) = {}
               /\ file.kind = "splunk" =>
                    \A i \in Refs : file.refs[i].name \notin Nameless
    <3>1. file = copy[r]
      BY <2>2, <2>3 DEF SettleInv, SettleOK, CalmInv, CalmOK, Running
    <3>2. copy[r] \in Records  BY <2>2 DEF TypeOK, Running
    <3> QED  BY <2>2, <2>3, <3>1, <3>2, AllSettled DEF SettleInv, Running
  <2>4. RestOK(r)'  BY <2>2, <2>3 DEF RestOK, Outdated, Found
  <2>5. \A q \in Runners \ {r} : SettleOK(q)' /\ RestOK(q)'
    BY <1>7, SettleEnd DEF FinishUnchanged, Ended
  <2> QED  BY <2>1, <2>4, <2>5 DEF SettleInv
<1>8. ASSUME NEW r \in Runners, Truncate(r) PROVE SettleInv'
  <2> SUFFICES ASSUME NEW q \in Runners PROVE SettleOK(q)' /\ RestOK(q)'
    BY DEF SettleInv
  <2>1. CASE q = r
    <3>1. /\ UNCHANGED <<disk, copy, idx, changed, override, base>>
          /\ pc[r] = "refs" /\ pc'[r] = "dump" /\ calm'[r] = calm[r]
      BY <1>8 DEF Truncate, TypeOK, AloneIs
    <3>2. \A i \in Refs : Source(r, i)' = Source(r, i)  BY <3>1 DEF Source
    <3>3. SettleOK(r)  BY DEF SettleInv
    <3> QED  BY <2>1, <3>1, <3>2, <3>3 DEF SettleOK, RestOK, Found, Running
  <2>2. CASE q # r
    <3>1. ~calm'[q]  BY <1>8, <2>2 DEF Truncate, AloneIs
    <3> QED  BY <3>1 DEF SettleOK, RestOK
  <2> QED  BY <2>1, <2>2
<1>9. ASSUME NEW r \in Runners, Dump(r) PROVE SettleInv'
  <2> SUFFICES ASSUME NEW q \in Runners PROVE SettleOK(q)' /\ RestOK(q)'
    BY DEF SettleInv
  <2>1. CASE q = r
    <3>1. SettleOK(r)'  BY <1>2, <1>9 DEF Dump, Ended
    <3>2. /\ pc[r] = "dump" /\ pc[r] \in Running /\ file' \in Written(r)
          /\ disk' = disk /\ override' = override /\ calm'[r] = calm[r]
      BY <1>9 DEF Dump, AloneIs, TypeOK, Running
    <3>3. ASSUME calm[r], override[r] = NoPath
          PROVE  /\ file' \in Records /\ Outdated(file', disk) = {}
                 /\ file'.kind = "splunk" =>
                      \A i \in Refs : file'.refs[i].name \notin Nameless
      <4>1. file' = copy[r]
        BY <3>2, <3>3 DEF CalmInv, CalmOK, Written
      <4>2. copy[r] \in Records /\ idx[r] \notin Refs
        BY <3>2 DEF TypeOK, RunInv, RunOK
      <4> QED  BY <3>2, <3>3, <4>1, <4>2, AllSettled DEF SettleInv
    <3>4. RestOK(r)'  BY <3>2, <3>3 DEF RestOK, Outdated, Found
    <3> QED  BY <2>1, <3>1, <3>4
  <2>2. CASE q # r
    <3>1. ~calm'[q]  BY <1>9, <2>2 DEF Dump, AloneIs
    <3> QED  BY <3>1 DEF SettleOK, RestOK
  <2> QED  BY <2>1, <2>2
<1>10. ASSUME NEW r \in Runners, Kill(r) PROVE SettleInv'
  <2>1. SettleOK(r)' /\ RestOK(r)'  BY <1>2, <1>10 DEF Kill, Ended
  <2>2. \A q \in Runners \ {r} : SettleOK(q)' /\ RestOK(q)'
    BY <1>10, SettleEnd DEF Kill, Ended
  <2> QED  BY <2>1, <2>2 DEF SettleInv
<1>11. ASSUME calm' = Nobody PROVE SettleInv'
  BY <1>11 DEF SettleInv, SettleOK, RestOK, Nobody
<1>12. CASE Others
  BY <1>11, <1>12
  DEF Others, EditSource, Annotate, Repoint, SaveRecord, Restore
<1>13. CASE UNCHANGED vars
  BY <1>13, SettleFrame DEF vars, local, history, SettleInv
<1> QED
  BY <1>3, <1>4, <1>5, <1>6, <1>7, <1>8, <1>9, <1>10, <1>12, <1>13
  DEF Next, Run, Progress

\* SettleInv holds in every reachable state.
LEMMA SettleHolds == Spec => []SettleInv
<1>1. Init => SettleInv  BY DEF Init, SettleInv, SettleOK, RestOK, Running
<1> QED  BY <1>1, TypeCorrect, RunsHold, CalmHolds, SettleNext, PTL DEF Spec

\* After a refresh without override that exits 0, nobody interfering, every
\* ref carries what its rule hashes to, if that can be computed: a second
\* refresh finds every hash unchanged.
THEOREM RefreshesSettle == Spec => []RefreshSettles
<1>1. SettleInv => RefreshSettles  BY DEF SettleInv, RestOK, RefreshSettles
<1> QED  BY <1>1, SettleHolds, PTL
=============================================================================
