------------------------- MODULE StrictCheck_proofs -------------------------
(***************************************************************************)
(* Proofs about StrictCheck, for any number of validations, runs and refs. *)
(* What they need of the record file and the rules comes from the proofs   *)
(* about RefreshHash: the check only reads, so every behaviour of the two  *)
(* together is one of RefreshHash.                                         *)
(***************************************************************************)
EXTENDS StrictCheck, RefreshHash_proofs

USE DEF Refs

(***************************************************************************)
(* The check only reads.                                                   *)
(***************************************************************************)

\* A step of a validation changes nothing that a refresh works on.
LEMMA CheckReads ==
  ASSUME NEW v \in Validators, Validate(v)
  PROVE  UNCHANGED vars
BY DEF Validate, VReject, VLoad, VCheckRef, VFinish

\* ... so every step is one of RefreshHash or leaves it alone.
LEMMA StepReads == [VNext]_allvars => [Next]_vars
BY CheckReads DEF VNext, World, allvars

\* With any number of validations beside them, the runs, the file and the
\* rules behave as without: validate never writes.
LEMMA ChecksOnlyRead == VSpec => Spec
<1>1. VInit => Init  BY DEF VInit
<1> QED  BY <1>1, StepReads, PTL DEF VSpec, Spec

\* What is known of the record file and its runs.
LEMMA FileFacts == VSpec => [](TypeOK /\ SettleInv)
BY ChecksOnlyRead, TypeCorrect, SettleHolds, PTL

\* What the check computes is a hash or none.
LEMMA ComparedType ==
  ASSUME NEW rec \in Records, NEW i \in Refs, NEW d \in [Paths -> Contents]
  PROVE  Compared(rec, i, d) \in Digests \cup {NoDigest}
<1>1. rec.refs[i] \in Ref  BY DEF Records
<1>2. ASSUME NEW p \in Paths, NEW n \in Names
      PROVE  ComparedIn(rec.kind, n, d[p]) \in Digests \cup {NoDigest}
  <2>1. d[p] \in [Names -> Queries \cup {NoQuery}]  BY HashAssumption
  <2>2. d[p][n] \in Queries \cup {NoQuery}  BY <2>1
  <2>3. d[p][n] # NoQuery => Canon[d[p][n]] \in Digests  BY <2>2, HashAssumption
  <2> QED  BY <2>3 DEF ComparedIn
<1> QED  BY <1>1, <1>2 DEF Compared, Ref

\* On a ref with a name, the check computes what a refresh does.
LEMMA ComparedIsFound ==
  ASSUME NEW rec, NEW i \in Refs, NEW d,
         rec.kind = "splunk" => rec.refs[i].name \notin Nameless
  PROVE  Compared(rec, i, d) = Found(rec, i, rec.refs[i].path, d)
BY DEF Compared, ComparedIn, Found, FoundIn

(***************************************************************************)
(* Type correctness.                                                       *)
(***************************************************************************)

\* What has been said of the record that a validation has loaded.
SaidOK(v) ==
  /\ vpc[v] \in {"refs", "OK"} => vcopy[v] \in Records /\ Valid(vcopy[v])
  /\ vpc[v] = "FAIL" => ~(vcopy[v] \in Records /\ Valid(vcopy[v]))
  /\ vpc[v] = "refs" => vcopy[v].kind # "sigma"
  /\ \A i \in warned[v] : i < vidx[v]

\* The initial states are well typed.
LEMMA VTypeInit == VInit => VTypeOK
<1> SUFFICES ASSUME VInit PROVE VTypeOK  OBVIOUS
<1>1. vidx \in [Validators -> 1 .. NRefs + 1]  BY SizesAssumption DEF VInit
<1>2. vgot \in [Validators -> [Refs -> SUBSET (Digests \cup {NoDigest})]]
  BY DEF VInit
<1> QED  BY <1>1, <1>2 DEF VInit, VTypeOK

\* No step breaks the types of a validation.
LEMMA VTypeNext ==
  TypeOK /\ TypeOK' /\ VTypeOK /\ [VNext]_allvars => VTypeOK'
<1> SUFFICES ASSUME TypeOK, TypeOK', VTypeOK, [VNext]_allvars PROVE VTypeOK'
  OBVIOUS
<1> USE DEF VTypeOK
\* What has been said by a validation that does nothing stays right.
<1>0. ASSUME NEW u \in Validators, vpc'[u] = vpc[u], vcopy'[u] = vcopy[u],
             warned'[u] = warned[u], vidx'[u] = vidx[u]
      PROVE  SaidOK(u)'
  BY <1>0 DEF SaidOK, Valid
<1>1. CASE World
  <2>1. UNCHANGED <<vpc, vcopy, vidx, warned>>  BY <1>1 DEF World, vlocal
  <2>2. settled' \in [Validators -> SUBSET Runners]  BY <1>1 DEF World
  <2>3. vgot' \in [Validators -> [Refs -> SUBSET (Digests \cup {NoDigest})]]
    <3>1. PICK G : G = Digests \cup {NoDigest}  OBVIOUS
    <3>2. ASSUME NEW v \in Validators, vpc[v] = "refs", NEW i \in Refs
          PROVE  Compared(vcopy[v], i, disk') \in G
      BY <3>1, <3>2, ComparedType DEF TypeOK
    <3>3. vgot \in [Validators -> [Refs -> SUBSET G]]  BY <3>1
    <3>4. ASSUME NEW v \in Validators
          PROVE  vgot'[v] \in [Refs -> SUBSET G]
      <4>1. PICK g \in [Refs -> SUBSET G] : g = vgot[v]  BY <3>3
      <4>2. PICK e : e = [i \in Refs |-> Compared(vcopy[v], i, disk')]
        OBVIOUS
      <4>3. CASE vpc[v] = "refs" /\ disk' # disk
        <5>1. vgot'[v] = [i \in Refs |-> g[i] \cup {e[i]}]
          BY <1>1, <4>1, <4>2, <4>3 DEF World
        <5>2. \A i \in Refs : e[i] \in G  BY <3>2, <4>2, <4>3
        <5>3. \A i \in Refs : g[i] \cup {e[i]} \in SUBSET G  BY <5>2
        <5> QED  BY <5>1, <5>3
      <4>4. CASE ~(vpc[v] = "refs" /\ disk' # disk)
        <5>1. vgot'[v] = [i \in Refs |-> g[i]]
          BY <1>1, <4>1, <4>4 DEF World
        <5> QED  BY <5>1
      <4> QED  BY <4>3, <4>4
    <3>5. vgot' = [v \in Validators |-> vgot'[v]]  BY <1>1 DEF World
    <3> HIDE DEF VTypeOK
    <3>6. vgot' \in [Validators -> [Refs -> SUBSET G]]  BY <3>4, <3>5
    <3> QED  BY <3>1, <3>6
  <2>4. \A u \in Validators : SaidOK(u)'  BY <1>0, <2>1
  <2> QED  BY <2>1, <2>2, <2>3, <2>4 DEF SaidOK
<1>2. ASSUME NEW v \in Validators, VReject(v) PROVE VTypeOK'
  <2>1. vpc' \in [Validators -> {"idle", "refs", "OK", "FAIL", "none"}]
    BY <1>2 DEF VReject
  <2>2. vcopy' \in [Validators -> Records \cup {NoRecord, Spoiled}]
    BY <1>2 DEF VReject, TypeOK
  <2>3. warned' \in [Validators -> SUBSET Refs]  BY <1>2 DEF VReject
  <2>4. vgot' \in [Validators -> [Refs -> SUBSET (Digests \cup {NoDigest})]]
    BY <1>2 DEF VReject
  <2>5. settled' \in [Validators -> SUBSET Runners]  BY <1>2 DEF VReject
  <2>6. SaidOK(v)'
    <3>1. /\ vpc'[v] = (IF file = NoRecord THEN "none" ELSE "FAIL")
          /\ vcopy'[v] = file /\ warned'[v] = {}
          /\ file \in Records => ~Valid(file)
      BY <1>2 DEF VReject
    <3> HIDE DEF VTypeOK
    <3>2. vcopy'[v] \in Records => ~Valid(vcopy'[v])  BY <3>1
    <3>3. vpc'[v] \in {"none", "FAIL"}  BY <3>1
    <3> QED  BY <3>1, <3>2, <3>3 DEF SaidOK, Valid
  <2>7. \A u \in Validators \ {v} : SaidOK(u)'
    BY <1>2, <1>0 DEF VReject
  <2> QED  BY <1>2, <2>1, <2>2, <2>3, <2>4, <2>5, <2>6, <2>7 DEF VReject, SaidOK
<1>3. ASSUME NEW v \in Validators, VLoad(v) PROVE VTypeOK'
  <2>1. file \in Records  BY <1>3 DEF VLoad
  <2>2. vpc' \in [Validators -> {"idle", "refs", "OK", "FAIL", "none"}]
    BY <1>3 DEF VLoad
  <2>3. vcopy' \in [Validators -> Records \cup {NoRecord, Spoiled}]
    BY <1>3, <2>1 DEF VLoad
  <2>4. warned' \in [Validators -> SUBSET Refs]  BY <1>3 DEF VLoad
  <2>5. vidx' \in [Validators -> 1 .. NRefs + 1]
    BY <1>3, SizesAssumption DEF VLoad
  <2>6. vgot' \in [Validators -> [Refs -> SUBSET (Digests \cup {NoDigest})]]
    <3> DEFINE seen == [i \in Refs |-> {Compared(file, i, disk)}]
    <3>1. seen \in [Refs -> SUBSET (Digests \cup {NoDigest})]
      BY <2>1, ComparedType DEF TypeOK
    <3>2. vgot' = [vgot EXCEPT ![v] = seen]  BY <1>3 DEF VLoad
    <3> QED  BY <3>1, <3>2
  <2>7. settled' \in [Validators -> SUBSET Runners]  BY <1>3 DEF VLoad
  <2>8. SaidOK(v)'
    <3>1. /\ vpc'[v] = (IF file.kind = "sigma" THEN "OK" ELSE "refs")
          /\ vcopy'[v] = file /\ warned'[v] = {} /\ Valid(file)
      BY <1>3 DEF VLoad
    <3>2. vcopy'[v] \in Records /\ Valid(vcopy[v])'  BY <2>1, <3>1 DEF Valid
    <3> QED  BY <3>1, <3>2 DEF SaidOK
  <2>9. \A u \in Validators \ {v} : SaidOK(u)'  BY <1>3, <1>0 DEF VLoad
  <2> QED  BY <2>2, <2>3, <2>4, <2>5, <2>6, <2>7, <2>8, <2>9 DEF SaidOK
<1>4. ASSUME NEW v \in Validators, VCheckRef(v) PROVE VTypeOK'
  <2>1. vidx' \in [Validators -> 1 .. NRefs + 1]
    BY <1>4, SizesAssumption DEF VCheckRef
  <2>2. warned' \in [Validators -> SUBSET Refs]  BY <1>4 DEF VCheckRef
  <2>3. SaidOK(v)'
    <3>1. /\ vpc[v] = "refs" /\ vidx[v] \in Nat /\ vidx'[v] = vidx[v] + 1
          /\ UNCHANGED <<vpc, vcopy>> /\ warned'[v] \subseteq warned[v] \cup {vidx[v]}
      BY <1>4, SizesAssumption DEF VCheckRef
    <3>2. warned[v] \subseteq Nat /\ \A i \in warned[v] : i < vidx[v]
      BY SizesAssumption
    <3> HIDE DEF VTypeOK
    <3>3. \A i \in warned'[v] : i < vidx'[v]
      <4> SUFFICES ASSUME NEW i \in warned'[v] PROVE i < vidx'[v]  OBVIOUS
      <4>1. i \in warned[v] \/ i = vidx[v]  BY <3>1
      <4>2. i \in Nat /\ i <= vidx[v]  BY <3>1, <3>2, <4>1
      <4> QED  BY <3>1, <4>2
    <3> USE DEF VTypeOK
    <3> QED  BY <3>1, <3>3 DEF SaidOK, Valid
  <2>4. \A u \in Validators \ {v} : SaidOK(u)'  BY <1>4, <1>0 DEF VCheckRef
  <2> QED  BY <1>4, <2>1, <2>2, <2>3, <2>4 DEF VCheckRef, SaidOK
<1>5. ASSUME NEW v \in Validators, VFinish(v) PROVE VTypeOK'
  <2>1. SaidOK(v)'  BY <1>5 DEF VFinish, SaidOK, Valid
  <2>2. \A u \in Validators \ {v} : SaidOK(u)'  BY <1>5, <1>0 DEF VFinish
  <2> QED  BY <1>5, <2>1, <2>2 DEF VFinish, SaidOK
<1>6. CASE UNCHANGED allvars
  <2>1. UNCHANGED <<vpc, vcopy, warned, vidx>>  BY <1>6 DEF allvars, vvars, vlocal
  <2>2. \A u \in Validators : SaidOK(u)'  BY <1>0, <2>1
  <2> QED  BY <1>6, <2>2 DEF allvars, vvars, vlocal, SaidOK
<1> QED
  BY <1>1, <1>2, <1>3, <1>4, <1>5, <1>6 DEF VNext, Validate

\* Whatever the file holds when it is loaded: the check's state keeps its
\* types, no record that does not validate is compared with its rules or said
\* to be OK, none that does is said to fail, and no warning is ahead of the loop.
THEOREM VTypeCorrect == VSpec => []VTypeOK
BY VTypeInit, VTypeNext, FileFacts, PTL DEF VSpec

(***************************************************************************)
(* What a validation has noticed.                                          *)
(***************************************************************************)

\* If ref i's rule had another hash all the while, there is a warning.
Noticed(v, i) ==
  /\ vcopy[v].refs[i].hash # NoDigest
  /\ vgot[v][i] \cap {NoDigest, vcopy[v].refs[i].hash} = {}
  => i \in warned[v]

\* What a rule hashes to now is among what it has had since the load; the
\* refs that have been looked at are noticed, all of them at the end.
CheckOK(v) ==
  /\ vpc[v] = "refs" => \A i \in Refs :
       /\ Compared(vcopy[v], i, disk) \in vgot[v][i]
       /\ i < vidx[v] => Noticed(v, i)
  /\ vpc[v] = "OK" /\ vcopy[v].kind # "sigma" => \A i \in Refs : Noticed(v, i)
  /\ \A i \in warned[v] :
       vgot[v][i] \ {NoDigest, vcopy[v].refs[i].hash} # {}

CheckInv == \A v \in Validators : CheckOK(v)

\* A step that leaves the rule files and a validation alone,
LEMMA CheckFrame ==
  ASSUME NEW v \in Validators, CheckOK(v), disk' = disk,
         vpc'[v] = vpc[v], vcopy'[v] = vcopy[v], vidx'[v] = vidx[v],
         warned'[v] = warned[v], vgot'[v] = vgot[v]
  PROVE  CheckOK(v)'
BY DEF CheckOK, Noticed, Compared

\* ... a step of the world,
LEMMA CheckWorld ==
  ASSUME VTypeOK, NEW v \in Validators, CheckOK(v), World
  PROVE  CheckOK(v)'
<1>1. UNCHANGED <<vpc, vcopy, vidx, warned>>  BY DEF World, vlocal
<1>2. \A i \in Refs : vgot'[v][i] =
        IF vpc[v] = "refs" /\ disk' # disk
        THEN vgot[v][i] \cup {Compared(vcopy[v], i, disk')}
        ELSE vgot[v][i]
  BY DEF World
<1>3. \A i \in Refs : vgot[v][i] \subseteq vgot'[v][i]  BY <1>2
<1>4. \A i \in Refs : Noticed(v, i) => Noticed(v, i)'  BY <1>1, <1>3 DEF Noticed
<1>5. ASSUME vpc[v] = "refs", NEW i \in Refs
      PROVE  Compared(vcopy[v], i, disk)' \in vgot'[v][i]
  <2>1. Compared(vcopy[v], i, disk)' =
          Compared(vcopy[v], i, disk')
    BY <1>1 DEF Compared
  <2>2. Compared(vcopy[v], i, disk) \in vgot[v][i]
    BY <1>5 DEF CheckOK
  <2> QED  BY <1>2, <1>5, <2>1, <2>2
<1>6. warned[v] \subseteq Refs  BY DEF VTypeOK
<1>7. \A i \in warned[v] : vgot'[v][i] \ {NoDigest, vcopy[v].refs[i].hash} # {}
  BY <1>3, <1>6 DEF CheckOK
<1> QED  BY <1>1, <1>4, <1>5, <1>7 DEF CheckOK

\* ... and the comparison of a ref keep what is known of the validation.
LEMMA CheckRefOK ==
  ASSUME VTypeOK, NEW v \in Validators, CheckOK(v), VCheckRef(v)
  PROVE  CheckOK(v)'
<1> DEFINE i0 == vidx[v]
           h  == Compared(vcopy[v], i0, disk)
<1>1. /\ vpc[v] = "refs" /\ i0 \in Refs
      /\ UNCHANGED <<disk, vpc, vcopy, vgot>> /\ vidx'[v] = i0 + 1
      /\ warned'[v] = IF Drifts(v) THEN warned[v] \cup {i0} ELSE warned[v]
  BY DEF VCheckRef, VTypeOK, vars, files
<1>2. h \in vgot[v][i0]  BY <1>1 DEF CheckOK
<1>3. Drifts(v) <=> /\ vcopy[v].refs[i0].hash # NoDigest
                    /\ h \notin {NoDigest, vcopy[v].refs[i0].hash}
  BY DEF Drifts
<1>4. \A i \in Refs : Noticed(v, i) => Noticed(v, i)'  BY <1>1 DEF Noticed
<1>5. ASSUME NEW i \in Refs, i = i0 PROVE Noticed(v, i)'
  BY <1>1, <1>2, <1>3, <1>5 DEF Noticed
<1>6. ASSUME NEW i \in Refs, i < i0 + 1 PROVE Noticed(v, i)'
  <2>1. i = i0 \/ i < i0  BY <1>1, <1>6, SizesAssumption
  <2> QED  BY <1>1, <1>4, <1>5, <2>1 DEF CheckOK
<1>7. \A i \in warned'[v] : vgot[v][i] \ {NoDigest, vcopy[v].refs[i].hash} # {}
  BY <1>1, <1>2, <1>3 DEF CheckOK
<1>8. \A i \in Refs : Compared(vcopy[v], i, disk)' =
                        Compared(vcopy[v], i, disk)
  BY <1>1 DEF Compared
<1> QED  BY <1>1, <1>6, <1>7, <1>8 DEF CheckOK

\* No step breaks what is known of validations.
LEMMA CheckNext == TypeOK /\ VTypeOK /\ CheckInv /\ [VNext]_allvars => CheckInv'
<1> SUFFICES ASSUME TypeOK, VTypeOK, CheckInv, [VNext]_allvars PROVE CheckInv'
  OBVIOUS
\* A step of v does not concern the other validations.
<1>1. ASSUME NEW v \in Validators, disk' = disk, CheckOK(v)',
             \A u \in Validators \ {v} :
               /\ vpc'[u] = vpc[u] /\ vcopy'[u] = vcopy[u] /\ vidx'[u] = vidx[u]
               /\ warned'[u] = warned[u] /\ vgot'[u] = vgot[u]
      PROVE  CheckInv'
  BY <1>1, CheckFrame DEF CheckInv
<1>2. CASE World  BY <1>2, CheckWorld DEF CheckInv
<1>3. ASSUME NEW v \in Validators, VReject(v) PROVE CheckInv'
  <2>1. vpc'[v] \in {"none", "FAIL"} /\ warned'[v] = {}
    BY <1>3 DEF VReject, VTypeOK
  <2>2. CheckOK(v)'  BY <2>1 DEF CheckOK
  <2> QED  BY <1>1, <1>3, <2>2 DEF VReject, VTypeOK, vars, files
<1>4. ASSUME NEW v \in Validators, VLoad(v) PROVE CheckInv'
  <2>1. /\ vpc'[v] = (IF file.kind = "sigma" THEN "OK" ELSE "refs")
        /\ vcopy'[v] = file /\ vidx'[v] = 1 /\ warned'[v] = {} /\ disk' = disk
        /\ \A i \in Refs : vgot'[v][i] = {Compared(file, i, disk)}
    BY <1>4 DEF VLoad, VTypeOK, vars, files
  <2>2. \A i \in Refs : ~(i < 1)  BY SizesAssumption
  <2>3. \A i \in Refs : Compared(vcopy[v], i, disk)' =
                          Compared(file, i, disk)
    BY <2>1 DEF Compared
  <2>4. CheckOK(v)'  BY <2>1, <2>2, <2>3 DEF CheckOK
  <2> QED  BY <1>1, <1>4, <2>4 DEF VLoad, VTypeOK, vars, files
<1>5. ASSUME NEW v \in Validators, VCheckRef(v) PROVE CheckInv'
  <2>1. CheckOK(v)'  BY <1>5, CheckRefOK DEF CheckInv
  <2> QED  BY <1>1, <1>5, <2>1 DEF VCheckRef, VTypeOK, vars, files
<1>6. ASSUME NEW v \in Validators, VFinish(v) PROVE CheckInv'
  <2>1. /\ vpc[v] = "refs" /\ vpc'[v] = "OK" /\ vidx[v] \notin Refs
        /\ UNCHANGED <<vcopy, vidx, warned, vgot, disk>>
    BY <1>6 DEF VFinish, VTypeOK, vars, files
  <2>2. \A i \in Refs : i < vidx[v]
    BY <2>1, SizesAssumption DEF VTypeOK
  <2>3. \A i \in Refs : Noticed(v, i)  BY <2>1, <2>2 DEF CheckInv, CheckOK
  <2>4. CheckOK(v)'  BY <2>1, <2>3 DEF CheckInv, CheckOK, Noticed
  <2> QED  BY <1>1, <1>6, <2>1, <2>4 DEF VFinish, VTypeOK
<1>7. CASE UNCHANGED allvars
  BY <1>7, CheckFrame DEF allvars, vars, files, vvars, vlocal, CheckInv
<1> QED
  BY <1>2, <1>3, <1>4, <1>5, <1>6, <1>7 DEF VNext, Validate

\* CheckInv holds in every reachable state.
LEMMA CheckHolds == VSpec => []CheckInv
<1>1. VInit => CheckInv  BY DEF VInit, CheckInv, CheckOK
<1> QED  BY <1>1, FileFacts, VTypeCorrect, CheckNext, PTL DEF VSpec

\* No false alarm, however the rules change while the validation runs.
THEOREM AlarmsAreReal == VSpec => []WarningsAreReal
<1>1. CheckInv => WarningsAreReal  BY DEF CheckInv, CheckOK, WarningsAreReal
<1> QED  BY <1>1, CheckHolds, PTL

\* No missed drift, if it lasts for the whole of the validation.
THEOREM LastingDriftNoticed == VSpec => []LastingDriftIsWarned
<1>1. CheckInv => LastingDriftIsWarned
  BY DEF CheckInv, CheckOK, Noticed, LastingDriftIsWarned
<1> QED  BY <1>1, CheckHolds, PTL

(***************************************************************************)
(* Quiet after a refresh.                                                  *)
(***************************************************************************)

\* The refreshes a validation counts on have not been disturbed, and while
\* it compares, the file is the record it has loaded.
QuietOK(v) ==
  settled[v] # {} =>
    /\ warned[v] = {}
    /\ \A r \in settled[v] : Settled(r)
    /\ vpc[v] = "refs" => file = vcopy[v]

QuietInv == \A v \in Validators : QuietOK(v)

\* A step after which a run that is over is still undisturbed leaves the
\* record file as it is.
LEMMA CalmKeepsFile ==
  ASSUME TypeOK, NEW r \in Runners, pc[r] = "ok", calm'[r], [Next]_vars
  PROVE  file' = file
<1>1. ASSUME NEW q \in Runners, Run(q) PROVE file' = file
  <2>1. CASE Truncate(q) \/ Dump(q)
    <3>1. q = r  BY <2>1 DEF Truncate, Dump, AloneIs
    <3> QED  BY <2>1, <3>1 DEF Truncate, Dump
  <2>2. CASE ~(Truncate(q) \/ Dump(q))
    BY <1>1, <2>2 DEF Run, Progress, Refuse, Load, ReadRef, SkipRef, AbortRef,
       FinishUnchanged, Kill, files
  <2> QED  BY <2>1, <2>2
<1>2. CASE Others
  BY <1>2 DEF Others, EditSource, Annotate, Repoint, SaveRecord, Restore, Nobody
<1>3. CASE UNCHANGED vars  BY <1>3 DEF vars, files
<1> QED  BY <1>1, <1>2, <1>3 DEF Next

\* No step disturbs a refresh on which a validation counts unnoticed.
LEMMA QuietNext ==
  TypeOK /\ SettleInv /\ VTypeOK /\ QuietInv /\ [VNext]_allvars => QuietInv'
<1> SUFFICES ASSUME TypeOK, SettleInv, VTypeOK, QuietInv, [VNext]_allvars,
                    NEW v \in Validators
             PROVE  QuietOK(v)'
  BY DEF QuietInv
<1>1. QuietOK(v) /\ settled[v] \subseteq Runners
  BY DEF QuietInv, VTypeOK
<1>2. CASE World
  <2> SUFFICES ASSUME NEW r \in settled'[v] PROVE QuietOK(v)'
    BY DEF QuietOK
  <2>1. /\ settled'[v] = {q \in settled[v] : Settled(q)'}
        /\ UNCHANGED <<vpc, vcopy, vidx, warned>>
    BY <1>2 DEF World, vlocal
  <2>2. r \in Runners /\ Settled(r) /\ Settled(r)'
    BY <1>1, <2>1 DEF QuietOK
  <2>3. file' = file
    BY <1>2, <2>2, CalmKeepsFile DEF Settled, World
  <2> QED  BY <1>1, <2>1, <2>3 DEF QuietOK
\* Nothing but v's own steps changes what v knows.
<1>3. ASSUME UNCHANGED vars, vpc'[v] = vpc[v], vcopy'[v] = vcopy[v],
             warned'[v] = warned[v], settled'[v] = settled[v]
      PROVE  QuietOK(v)'
  BY <1>1, <1>3 DEF QuietOK, Settled, vars, files, local, history
<1>4. ASSUME NEW u \in Validators \ {v}, Validate(u) PROVE QuietOK(v)'
  BY <1>3, <1>4, CheckReads
  DEF Validate, VReject, VLoad, VCheckRef, VFinish, VTypeOK
<1>5. CASE VReject(v)
  <2>1. settled'[v] = {}  BY <1>5 DEF VReject, VTypeOK
  <2> QED  BY <2>1 DEF QuietOK
<1>6. CASE VLoad(v)
  <2>1. /\ settled'[v] = {r \in Runners : Settled(r)} /\ warned'[v] = {}
        /\ vcopy'[v] = file /\ UNCHANGED <<file, pc, calm, override>>
    BY <1>6 DEF VLoad, VTypeOK, vars, files, local, history
  <2> QED  BY <2>1 DEF QuietOK, Settled
<1>7. CASE VCheckRef(v)
  <2> SUFFICES ASSUME NEW r \in settled[v] PROVE QuietOK(v)'
    BY <1>7 DEF VCheckRef, QuietOK
  <2>1. /\ vpc[v] = "refs" /\ vidx[v] \in Refs /\ UNCHANGED <<vpc, vcopy, settled>>
        /\ warned'[v] = IF Drifts(v) THEN warned[v] \cup {vidx[v]} ELSE warned[v]
    BY <1>7 DEF VCheckRef, VTypeOK
  <2>2. Settled(r) /\ file = vcopy[v] /\ r \in Runners
    BY <1>1, <2>1 DEF QuietOK
  <2>3. /\ Outdated(vcopy[v], disk) = {}
        /\ vcopy[v].kind = "splunk" => vcopy[v].refs[vidx[v]].name \notin Nameless
    BY <2>1, <2>2 DEF SettleInv, RestOK, Settled
  <2>4. Compared(vcopy[v], vidx[v], disk) =
          Found(vcopy[v], vidx[v], vcopy[v].refs[vidx[v]].path, disk)
    BY <2>1, <2>3, ComparedIsFound
  <2>5. ~Drifts(v)  BY <2>1, <2>3, <2>4 DEF Drifts, Outdated
  <2> QED  BY <1>3, <1>7, <2>1, <2>5, CheckReads DEF Validate
<1>8. CASE VFinish(v)
  <2>1. /\ vpc'[v] = "OK" /\ UNCHANGED <<vcopy, warned, settled>>
    BY <1>8 DEF VFinish, VTypeOK
  <2>2. UNCHANGED <<pc, calm, override>>
    BY <1>8 DEF VFinish, vars, local, history
  <2> QED  BY <1>1, <2>1, <2>2 DEF QuietOK, Settled
<1>9. CASE UNCHANGED allvars
  BY <1>3, <1>9 DEF allvars, vvars, vlocal
<1> QED
  BY <1>2, <1>4, <1>5, <1>6, <1>7, <1>8, <1>9 DEF VNext, Validate

\* `validate --strict` after a refresh that exited 0, nobody interfering from
\* the start of the one to the end of the other, has nothing to warn about.
THEOREM QuietAfterwards == VSpec => []QuietAfterRefresh
<1>1. VInit => QuietInv  BY DEF VInit, QuietInv, QuietOK
<1>2. VSpec => []QuietInv
  BY <1>1, FileFacts, VTypeCorrect, QuietNext, PTL DEF VSpec
<1>3. QuietInv => QuietAfterRefresh  BY DEF QuietInv, QuietOK, QuietAfterRefresh
<1> QED  BY <1>2, <1>3, PTL
=============================================================================
