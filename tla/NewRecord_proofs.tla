-------------------------- MODULE NewRecord_proofs --------------------------
(***************************************************************************)
(* Proofs about NewRecord, for any rule files, records, directories and    *)
(* places of the checkout: first what sequences of names do as paths, then *)
(* the invariants of the module.                                           *)
(***************************************************************************)
EXTENDS NewRecord, SequenceLemmas

(***************************************************************************)
(* Paths.                                                                  *)
(***************************************************************************)

\* The longest common prefix of two locations is one of both, and no other is
\* longer.
LEMMA CommonPrefix ==
  ASSUME NEW S, NEW a \in Seq(S), NEW b \in Seq(S),
         NEW c, c = LongestCommonPrefix({a, b})
  PROVE  /\ c \in Seq(S) /\ IsPrefix(c, a) /\ IsPrefix(c, b)
         /\ \A p \in Seq(S) : IsPrefix(p, a) /\ IsPrefix(p, b)
              => Len(p) <= Len(c)
<1> DEFINE C == CommonPrefixes({a, b})
<1>1. C \subseteq Seq(S)
  <2>1. \A p \in Prefixes(a) : p \in Seq(S)  BY FirstPart DEF Prefixes
  <2>2. \A p \in Prefixes(b) : p \in Seq(S)  BY FirstPart DEF Prefixes
  <2>3. \A p \in C : p \in Prefixes(a) \/ p \in Prefixes(b)
    BY DEF CommonPrefixes
  <2> HIDE DEF C
  <2> QED  BY <2>1, <2>2, <2>3
<1>2. \A p \in C : IsPrefix(p, a) /\ IsPrefix(p, b)
  BY DEF CommonPrefixes
<1>3. ASSUME NEW p \in Seq(S), IsPrefix(p, a), IsPrefix(p, b)  PROVE  p \in C
  <2>1. p = SubSeq(a, 1, Len(p)) /\ Len(p) \in 0..Len(a)
    BY <1>3, SubSeqFull, LenProperties DEF IsPrefix
  <2>2. p \in Prefixes(a)  BY <2>1 DEF Prefixes
  <2> QED  BY <1>3, <2>2 DEF CommonPrefixes
<1>4. C # {}
  <2>1. << >> \in Seq(S) /\ Len(<< >>) = 0  BY EmptySeq
  <2>2. ASSUME NEW t \in Seq(S)  PROVE  IsPrefix(<< >>, t)
    BY <2>1, SubSeqEmpty, LenProperties DEF IsPrefix
  <2> QED  BY <1>3, <2>1, <2>2
<1> DEFINE T == {Len(p) : p \in C}
<1>5. T \subseteq Nat /\ T # {} /\ Len(a) \in Nat
  <2>1. T \subseteq Nat  BY <1>1, LenProperties
  <2>2. T # {}
    <3>1. PICK p \in C : TRUE  BY <1>4
    <3>2. Len(p) \in T  OBVIOUS
    <3> QED  BY <3>2
  <2> QED  BY <2>1, <2>2, LenProperties
<1>6. \A t \in T : t <= Len(a)  BY <1>2 DEF IsPrefix
<1>7. PICK m \in T : \A t \in T : t <= m
  <2> HIDE DEF T
  <2> QED  BY <1>5, <1>6, Greatest
<1>8. PICK longest \in C : Len(longest) = m  OBVIOUS
<1>9. \A other \in C : Len(other) <= Len(longest)  BY <1>7, <1>8
<1>10. c \in C /\ \A other \in C : Len(other) <= Len(c)
  BY <1>9 DEF LongestCommonPrefix
<1> QED  BY <1>1, <1>2, <1>3, <1>10
Location == Seq(STRING)

\* The path from a directory down to a location leads there.
LEMMA BelowResolves ==
  ASSUME NEW d \in Location, NEW loc \in Location, IsPrefix(d, loc)
  PROVE  Below(d, loc) \in Local /\ Resolve(d, Below(d, loc)) = loc
<1>1. Len(d) \in 0..Len(loc)  BY LenProperties DEF IsPrefix, Location
<1>2. Below(d, loc) \in Local
  BY <1>1, LastPart DEF Below, Local, Location
<1>3. Len(d) - 0 = Len(d) /\ 0 <= Len(d)  BY <1>1
<1>4. Resolve(d, Below(d, loc))
        = SubSeq(d, 1, Len(d)) \o SubSeq(loc, Len(d) + 1, Len(loc))
  BY <1>3 DEF Resolve, Below
<1> QED  BY <1>2, <1>4, PrefixSplit, SubSeqFull DEF Location

\* What an argument of `ddr new` is: it leads to the location from d, and a
\* relative one does not climb above a directory that d and loc are both in.
LEMMA SpellingsLead ==
  ASSUME NEW d \in Location, NEW loc \in Location,
         NEW arg \in Spellings(d, loc)
  PROVE  /\ arg \in Local /\ Resolve(d, arg) = loc
         /\ arg.abs => arg.down = loc
         /\ ~arg.abs => \A r \in Location :
              IsPrefix(r, d) /\ IsPrefix(r, loc) => arg.up <= Len(d) - Len(r)
<1> DEFINE lcp == LongestCommonPrefix({d, loc})
           common == Len(lcp)
<1>1. CASE arg = [abs |-> TRUE, up |-> 0, down |-> loc]
  BY <1>1 DEF Local, Resolve, Location
<1>2. CASE arg = [abs |-> FALSE, up |-> Len(d) - common,
                  down |-> SubSeq(loc, common + 1, Len(loc))]
  <2>1. /\ lcp \in Location /\ IsPrefix(lcp, d) /\ IsPrefix(lcp, loc)
        /\ \A p \in Location : IsPrefix(p, d) /\ IsPrefix(p, loc)
             => Len(p) <= Len(lcp)
    BY CommonPrefix DEF Location
  <2>2. /\ common \in 0..Len(d) /\ common \in 0..Len(loc)
        /\ Len(d) \in Nat /\ Len(loc) \in Nat
    BY <2>1, LenProperties DEF IsPrefix, Location
  <2> HIDE DEF lcp
  <2>3. arg \in Local
    BY <1>2, <2>2, LastPart DEF Local, Location
  <2>4. Resolve(d, arg) = loc
    <3>1. Len(d) - common <= Len(d) /\ Len(d) - (Len(d) - common) = common
      BY <2>2
    <3>2. Resolve(d, arg)
            = SubSeq(d, 1, common) \o SubSeq(loc, common + 1, Len(loc))
      BY <1>2, <3>1 DEF Resolve
    <3>3. SubSeq(d, 1, common) = lcp
      BY <2>1, SubSeqFull DEF IsPrefix, Location
    <3> QED  BY <2>1, <3>2, <3>3, PrefixSplit DEF Location
  <2>5. ASSUME NEW r \in Location, IsPrefix(r, d), IsPrefix(r, loc)
        PROVE  arg.up <= Len(d) - Len(r)
    <3>1. Len(r) <= common /\ Len(r) \in Nat
      BY <2>1, <2>5, LenProperties DEF Location
    <3> QED  BY <1>2, <2>2, <3>1
  <2> QED  BY <1>2, <2>3, <2>4, <2>5
<1> QED  BY <1>1, <1>2 DEF Spellings

\* A relative path that stays under r leads to the corresponding place under
\* any other r.
ResolvesUnder(r, rel, p) ==
  /\ Resolve(rel, p) \in Location
  /\ Resolve(r \o rel, p) = r \o Resolve(rel, p)

\* A path that does not climb above the checkout leads to the same place of it,
\* wherever the checkout is.
LEMMA ResolveUnder ==
  ASSUME NEW r \in Location, NEW rel \in Location, NEW p \in Local,
         ~p.abs, p.up <= Len(rel)
  PROVE  ResolvesUnder(r, rel, p)
<1>1. p.up \in Nat /\ p.down \in Location  BY DEF Local, Location
<1>2. /\ Len(r \o rel) = Len(r) + Len(rel)
      /\ Len(r) \in Nat /\ Len(rel) \in Nat
  BY ConcatProperties, LenProperties DEF Location
<1> DEFINE n == Len(rel) - p.up
<1>3. n \in 0..Len(rel)  BY <1>1, <1>2
<1>4. Resolve(rel, p) = SubSeq(rel, 1, n) \o p.down  BY DEF Resolve
<1>5. p.up <= Len(r \o rel) /\ Len(r \o rel) - p.up = Len(r) + n
  BY <1>1, <1>2
<1> HIDE DEF n
<1>6. Resolve(r \o rel, p) = SubSeq(r \o rel, 1, Len(r) + n) \o p.down
  BY <1>5 DEF Resolve
<1>7. SubSeq(rel, 1, n) \in Location  BY <1>3, FirstPart DEF Location
<1>8. SubSeq(r \o rel, 1, Len(r) + n) = r \o SubSeq(rel, 1, n)
  BY <1>3, FirstPartOfConcat DEF Location
<1>9. Resolve(rel, p) \in Location
  BY <1>1, <1>4, <1>7, ConcatProperties DEF Location
<1>10. PICK kept \in Location : kept = SubSeq(rel, 1, n)  BY <1>7
<1>11. Associates(r, kept, p.down)  BY <1>1, Associative DEF Location
<1>12. (r \o kept) \o p.down = r \o (kept \o p.down)
  BY <1>11 DEF Associates
<1> QED  BY <1>4, <1>6, <1>8, <1>9, <1>10, <1>12 DEF ResolvesUnder
(***************************************************************************)
(* Type correctness.                                                       *)
(***************************************************************************)

TypeInv ==
  /\ TypeOK
  /\ about \in [Recs -> Rules \cup {NoFile}]
  /\ from \in [Recs -> Location]
  /\ sound \in [Recs -> BOOLEAN] /\ fresh \in [Recs -> BOOLEAN]
  /\ own \in [Recs -> SUBSET (Digests \cup {NoDigest})]

\* Locations of rules, directories and records, and what lies in the checkout.
LEMMA Places ==
  ASSUME NEW r \in Roots
  PROVE  /\ r \in Location
         /\ \A s \in Rules : s \in Place /\ Where(r, s) \in Location
         /\ \A s \in Rules : s.inside => IsPrefix(r, Where(r, s))
         /\ \A dir \in Dirs : r \o dir \in Location /\ IsPrefix(r, r \o dir)
         /\ \A f \in Recs : Front(f) \in Location /\ r \o Front(f) \in Location
         /\ \A f \in Recs : IsPrefix(r, r \o Front(f))
<1>1. r \in Location  BY PlacesAssumption DEF Location
<1>2. ASSUME NEW s \in Rules
      PROVE  /\ s \in Place /\ Where(r, s) \in Location
             /\ s.inside => IsPrefix(r, Where(r, s))
  <2>1. s \in Place /\ s.at \in Location
    BY PlacesAssumption DEF Place, Location
  <2>2. r \o s.at \in Location /\ IsPrefix(r, r \o s.at)
    BY <1>1, <2>1, ConcatProperties, PrefixConcat DEF Location
  <2> QED  BY <2>1, <2>2 DEF Where
<1>3. ASSUME NEW dir \in Dirs
      PROVE  r \o dir \in Location /\ IsPrefix(r, r \o dir)
  BY <1>1, PlacesAssumption, ConcatProperties, PrefixConcat DEF Location
<1>4. ASSUME NEW f \in Recs
      PROVE  /\ Front(f) \in Location /\ r \o Front(f) \in Location
             /\ IsPrefix(r, r \o Front(f))
  <2>1. f \in Location /\ f # << >>  BY PlacesAssumption DEF Location
  <2>2. Len(f) - 1 \in 0..Len(f)  BY <2>1, EmptySeq, LenProperties DEF Location
  <2>3. Front(f) \in Location  BY <2>1, <2>2, FirstPart DEF Front, Location
  <2> QED
    BY <1>1, <2>3, ConcatProperties, PrefixConcat DEF Location
<1> QED  BY <1>1, <1>2, <1>3, <1>4

\* The same of the place the checkout is at.
LEMMA Here ==
  ASSUME TypeOK
  PROVE  /\ root \in Roots /\ root \in Location
         /\ \A s \in Rules : At(s) \in Location
         /\ \A s \in Rules : s.inside => IsPrefix(root, At(s))
         /\ \A dir \in Dirs : root \o dir \in Location
         /\ \A dir \in Dirs : IsPrefix(root, root \o dir)
         /\ \A f \in Recs : Dir(f) \in Location /\ IsPrefix(root, Dir(f))
<1>1. root \in Roots  BY DEF TypeOK
<1>2. root \in Location  BY <1>1, Places
<1>3. ASSUME NEW s \in Rules
      PROVE  At(s) \in Location /\ (s.inside => IsPrefix(root, At(s)))
  BY <1>1, Places DEF At
<1>4. ASSUME NEW dir \in Dirs
      PROVE  root \o dir \in Location /\ IsPrefix(root, root \o dir)
  BY <1>1, Places
<1>5. ASSUME NEW f \in Recs
      PROVE  Dir(f) \in Location /\ IsPrefix(root, Dir(f))
  BY <1>1, Places DEF Dir
<1> QED  BY <1>1, <1>2, <1>3, <1>4, <1>5

\* Whichever parser reads a rule file, it finds a digest or none.
LEMMA HashType ==
  ASSUME TypeOK, NEW s \in Rules, NEW n \in Names
  PROVE  /\ \A shape : ByShape(s, shape, n) \in Digests \cup {NoDigest}
         /\ \A kind : HashOf(kind, n, s) \in Digests \cup {NoDigest}
<1>1. ASSUME NEW shape  PROVE ByShape(s, shape, n) \in Digests \cup {NoDigest}
  <2>1. text[s] \in Contents \cup {NoFile}  BY DEF TypeOK
  <2> QED  BY <2>1, ContentsAssumption DEF ByShape
<1>2. ASSUME NEW kind  PROVE HashOf(kind, n, s) \in Digests \cup {NoDigest}
  <2>1. CASE kind = "splunk"
    <3>1. HashOf(kind, n, s) = SplunkHash(s, IsServicesNSJson(s), n)
      BY <2>1 DEF HashOf
    <3>2. \/ SplunkHash(s, IsServicesNSJson(s), n) = ByShape(s, "cloud", n)
          \/ SplunkHash(s, IsServicesNSJson(s), n) = ByShape(s, "conf", n)
      BY DEF SplunkHash
    <3> QED  BY <1>1, <3>1, <3>2
  <2>2. CASE kind # "splunk"  BY <1>1, <2>2 DEF HashOf
  <2> QED  BY <2>1, <2>2
<1> QED  BY <1>1, <1>2

\* After a step that keeps the types, too.
HashesTyped == \A s \in Rules, n \in Names, kind \in Kinds :
  HashOf(kind, n, s) \in Digests \cup {NoDigest}

\* ... also after a step.
LEMMA HashTypeNext == TypeOK' => HashesTyped'
<1>1. TypeOK => HashesTyped
  <2> SUFFICES ASSUME TypeOK, NEW s \in Rules, NEW n \in Names, NEW kind \in Kinds
               PROVE  HashOf(kind, n, s) \in Digests \cup {NoDigest}
    BY DEF HashesTyped
  <2> QED  BY HashType
<1> QED  BY <1>1, PTL

\* What a record leads to has one hash, or there is none.
LEMMA HashThereType ==
  ASSUME TypeOK, NEW f \in Recs, record[f] # NoRecord, NEW base
  PROVE  HashThere(f, base) \in Digests \cup {NoDigest}
<1> DEFINE found == {HashOf(record[f].kind, record[f].name, s) : s \in Reached(f, base)}
<1>1. record[f] \in Record /\ record[f].name \in Names
  BY DEF TypeOK, Record, NoRecord
<1>2. Reached(f, base) \subseteq Rules  BY DEF Reached
<1>3. found \subseteq Digests \cup {NoDigest}  BY <1>1, <1>2, HashType
<1>4. found # {} => (CHOOSE h \in found : TRUE) \in found  BY Zenon
<1>5. HashThere(f, base) = IF found = {} THEN NoDigest ELSE CHOOSE h \in found : TRUE
  BY DEF HashThere
<1> HIDE DEF found
<1> QED  BY <1>3, <1>4, <1>5

(***************************************************************************)
(* What the ways to call `ddr new` have in common.                         *)
(***************************************************************************)

\* With --format auto, `ddr new` takes the parser that refresh-hash takes.
LEMMA SameParser ==
  ASSUME NEW s, NEW n
  PROVE  SplunkHash(s, UseCloud(s, "auto"), n) = HashOf("splunk", n, s)
<1>1. UseCloud(s, "auto") <=> (s.suffix # ".conf" /\ IsServicesNSJson(s))
  BY DEF UseCloud
<1>2. IsServicesNSJson(s) => s.suffix # ".conf"  BY DEF IsServicesNSJson
<1>3. CASE IsServicesNSJson(s)
  BY <1>1, <1>2, <1>3 DEF SplunkHash, HashOf
<1>4. CASE ~IsServicesNSJson(s)
  BY <1>1, <1>2, <1>4 DEF SplunkHash, HashOf
<1> QED  BY <1>3, <1>4

\* A record made from rule file s has the hash its kind requires, and with
\* --format auto the one refresh-hash computes.
MadeFrom(s, f, n, d, arg, output, url) ==
  \E kind \in Kinds, h \in Digests \cup {NoDigest}, auto \in BOOLEAN :
    /\ FromRule(f, kind, n, d, s, arg, output, url, h, auto)
    /\ kind = "sigma" => h # NoDigest
    /\ auto /\ h # NoDigest => h = HashOf(kind, n, s)

\* ddr new makes a record without a rule file or from one.
LEMMA NewCases ==
  ASSUME TypeOK, NEW f \in Recs, NEW d, NEW n \in Names, New(f, d, n)
  PROVE  \/ \E kind \in Kinds \ {"sigma"} : NewBare(f, kind, n, d)
         \/ \E s \in Rules : \E arg \in Spellings(d, At(s)), output, url \in BOOLEAN :
              MadeFrom(s, f, n, d, arg, output, url)
<1>1. ASSUME NEW s \in Rules, NEW arg \in Spellings(d, At(s)),
             NEW output \in BOOLEAN, NEW url \in BOOLEAN,
             "sigma" \in Kinds, NewSigma(f, n, d, s, arg, output, url)
      PROVE  MadeFrom(s, f, n, d, arg, output, url)
  <2> DEFINE hash == HashOf("sigma", n, s)
  <2>1. hash \in Digests \cup {NoDigest}  BY HashType
  <2>2. /\ hash # NoDigest
        /\ FromRule(f, "sigma", n, d, s, arg, output, url, hash, TRUE)
    BY <1>1 DEF NewSigma
  <2> QED  BY <1>1, <2>1, <2>2 DEF MadeFrom
<1>2. ASSUME NEW s \in Rules, NEW arg \in Spellings(d, At(s)),
             NEW output \in BOOLEAN, NEW url \in BOOLEAN, "splunk" \in Kinds,
             NEW format \in Formats,
             NewSplunk(f, n, d, s, arg, output, url, format)
      PROVE  MadeFrom(s, f, n, d, arg, output, url)
  <2> DEFINE hash == SplunkHash(s, UseCloud(s, format), n)
             auto == format = "auto"
  <2>1. hash \in Digests \cup {NoDigest}  BY HashType DEF SplunkHash
  <2>2. FromRule(f, "splunk", n, d, s, arg, output, url, hash, auto)
    BY <1>2 DEF NewSplunk
  <2>3. auto => hash = HashOf("splunk", n, s)  BY SameParser
  <2>4. auto \in BOOLEAN  OBVIOUS
  <2> HIDE DEF hash, auto
  <2> QED  BY <1>2, <2>1, <2>2, <2>3, <2>4 DEF MadeFrom
<1>3. ASSUME NEW s \in Rules, NEW arg \in Spellings(d, At(s)),
             NEW output \in BOOLEAN, NEW url \in BOOLEAN,
             NEW k \in Kinds \ {"sigma", "splunk"},
             NewQuery(f, k, n, d, s, arg, output, url)
      PROVE  MadeFrom(s, f, n, d, arg, output, url)
  <2>1. FromRule(f, k, n, d, s, arg, output, url, NoDigest, TRUE)
    BY <1>3 DEF NewQuery
  <2> QED  BY <1>3, <2>1 DEF MadeFrom
<1>4. \A s \in Rules : {Target(asked, s) : asked \in Kinds} \subseteq Kinds
  BY PlacesAssumption DEF Target
<1> QED  BY <1>1, <1>2, <1>3, <1>4 DEF New

\* The path a record gets is empty, an address, or the text of a path.
LEMMA PathType ==
  ASSUME NEW d \in Location, NEW loc \in Location, NEW arg \in Spellings(d, loc),
         NEW f, Dir(f) \in Location, NEW output \in BOOLEAN
  PROVE  PathOrUrl(d, arg, f, output) \in Local
<1>1. Resolve(d, arg) = loc /\ arg \in Local  BY SpellingsLead
<1> QED  BY <1>1, BelowResolves DEF PathOrUrl

\* A record made from a rule file is well typed.
LEMMA TypeFromRule ==
  ASSUME TypeInv, NEW f \in Recs, NEW dir \in Dirs, NEW n \in Names,
         NEW d, d = root \o dir,
         NEW s \in Rules, NEW arg \in Spellings(d, At(s)),
         NEW output \in BOOLEAN, NEW url \in BOOLEAN,
         MadeFrom(s, f, n, d, arg, output, url)
  PROVE  TypeInv'
<1>1. PICK kind \in Kinds, h \in Digests \cup {NoDigest}, auto \in BOOLEAN :
        /\ FromRule(f, kind, n, d, s, arg, output, url, h, auto)
        /\ kind = "sigma" => h # NoDigest
  BY DEF MadeFrom
<1>2. d \in Location /\ At(s) \in Location /\ Dir(f) \in Location
  <2>1. TypeOK  BY DEF TypeInv
  <2> QED  BY <2>1, Here
<1> DEFINE path == IF url THEN Remote ELSE PathOrUrl(d, arg, f, output)
           new  == [kind |-> kind, name |-> n, path |-> path, hash |-> h]
<1>3. path \in PathText  BY <1>2, PathType DEF PathText
<1>4. /\ record' = [record EXCEPT ![f] = new]
      /\ UNCHANGED <<root, text>>
      /\ about' = [about EXCEPT ![f] = s]
      /\ from' = [from EXCEPT ![f] = d]
      /\ sound' = [sound EXCEPT ![f] = Anchored(kind, f, d, arg, output, At(s))]
      /\ own' = [own EXCEPT ![f] = {h, HashOf(kind, n, s)}]
      /\ fresh' = [fresh EXCEPT ![f] = auto]
  BY <1>1 DEF FromRule, Scaffold
<1> HIDE DEF path
<1>5. new \in Record  BY <1>3 DEF Record
<1>6. TypeOK'
  <2>1. record' \in [Recs -> Record \cup {NoRecord}]
    BY <1>4, <1>5 DEF TypeInv, TypeOK
  <2>2. ASSUME NEW g \in Recs, record'[g] # NoRecord, record'[g].kind = "sigma"
        PROVE  record'[g].hash # NoDigest
    BY <1>1, <1>4, <2>2 DEF TypeInv, TypeOK
  <2> QED  BY <1>4, <2>1, <2>2 DEF TypeInv, TypeOK
<1>7. Anchored(kind, f, d, arg, output, At(s)) \in BOOLEAN
  BY <1>2, SpellingsLead DEF Anchored, Local
<1>8. HashOf(kind, n, s) \in Digests \cup {NoDigest}
  BY HashType DEF TypeInv
<1>9. /\ about' \in [Recs -> Rules \cup {NoFile}] /\ from' \in [Recs -> Location]
      /\ fresh' \in [Recs -> BOOLEAN]
  BY <1>2, <1>4 DEF TypeInv
<1>10. sound' \in [Recs -> BOOLEAN]
  BY <1>4, <1>7, Zenon DEF TypeInv
<1>11. own' \in [Recs -> SUBSET (Digests \cup {NoDigest})]
  BY <1>4, <1>8 DEF TypeInv
<1> QED  BY <1>6, <1>9, <1>10, <1>11 DEF TypeInv

\* A refresh writes the hash it finds, if any, and nothing else.
LEMMA RefreshWrites ==
  ASSUME TypeOK, NEW f \in Recs, NEW d, Refresh(f, d)
  PROVE  /\ record[f] \in Record /\ record'[f] \in Record
         /\ record'[f].kind = record[f].kind
         /\ record'[f].name = record[f].name
         /\ record'[f].path = record[f].path
         /\ record'[f].hash = IF HashThere(f, Base(f, d)) = NoDigest
                              THEN record[f].hash ELSE HashThere(f, Base(f, d))
         /\ \A g \in Recs : g # f => record'[g] = record[g]
<1> DEFINE h == HashThere(f, Base(f, d))
<1>1. /\ record[f] # NoRecord
      /\ record' = [record EXCEPT ![f].hash = IF h = NoDigest THEN @ ELSE h]
  BY DEF Refresh
<1>2. h \in Digests \cup {NoDigest}  BY <1>1, HashThereType
<1> HIDE DEF h
<1>3. record[f] \in Record /\ record \in [Recs -> Record \cup {NoRecord}]
  BY <1>1 DEF TypeOK, NoRecord
<1>4. record'[f] = [record[f] EXCEPT !.hash = IF h = NoDigest THEN @ ELSE h]
  BY <1>1, <1>3
<1>5. \A g \in Recs : g # f => record'[g] = record[g]  BY <1>1, <1>3
<1>6. record'[f] \in Record  BY <1>2, <1>3, <1>4 DEF Record
<1> QED  BY <1>3, <1>4, <1>5, <1>6 DEF Record, h

\* No step breaks the types.
LEMMA TypeNext == TypeInv /\ [Next]_vars => TypeInv'
<1> SUFFICES ASSUME TypeInv, [Next]_vars  PROVE TypeInv'  OBVIOUS
<1> USE DEF TypeInv
<1>1. ASSUME NEW f \in Recs, NEW dir \in Dirs, NEW n \in Names,
             New(f, root \o dir, n)
      PROVE  TypeInv'
  <2>1. PICK d : d = root \o dir  OBVIOUS
  <2>2. ASSUME NEW kind \in Kinds \ {"sigma"}, NewBare(f, kind, n, d)
        PROVE  TypeInv'
    <3> DEFINE new == [kind |-> kind, name |-> n, path |-> NoPath, hash |-> NoDigest]
    <3>1. new \in Record  BY DEF Record, PathText
    <3>2. d \in Location  BY <2>1, Here
    <3>3. /\ record' = [record EXCEPT ![f] = new]
          /\ UNCHANGED <<root, text>>
          /\ about' = [about EXCEPT ![f] = NoFile]
          /\ from' = [from EXCEPT ![f] = d]
          /\ sound' = [sound EXCEPT ![f] = FALSE]
          /\ own' = [own EXCEPT ![f] = {}]
          /\ fresh' = [fresh EXCEPT ![f] = FALSE]
      BY <2>2 DEF NewBare, Scaffold
    <3>4. TypeOK'  BY <2>2, <3>1, <3>3 DEF TypeOK
    <3> QED  BY <3>2, <3>3, <3>4
  <2>3. ASSUME NEW s \in Rules, NEW arg \in Spellings(d, At(s)),
               NEW output \in BOOLEAN, NEW url \in BOOLEAN,
               MadeFrom(s, f, n, d, arg, output, url)
        PROVE  TypeInv'
    <3> HIDE DEF TypeInv
    <3> QED  BY <2>1, <2>3, TypeFromRule
  <2>4. \/ \E kind \in Kinds \ {"sigma"} : NewBare(f, kind, n, d)
        \/ \E s \in Rules : \E arg \in Spellings(d, At(s)), output, url \in BOOLEAN :
             MadeFrom(s, f, n, d, arg, output, url)
    BY <1>1, <2>1, NewCases
  <2> HIDE DEF TypeInv
  <2> QED  BY <2>2, <2>3, <2>4
<1>2. ASSUME NEW f \in Recs, NEW d, Refresh(f, d)  PROVE TypeInv'
  <2> DEFINE h == HashThere(f, Base(f, d))
  <2>1. h \in Digests \cup {NoDigest}  BY <1>2, HashThereType DEF Refresh
  <2>2. /\ record' = [record EXCEPT ![f].hash = IF h = NoDigest THEN @ ELSE h]
        /\ sound' = [sound EXCEPT ![f] =
             @ /\ (record[f].kind = "sigma" => d = from[f])]
        /\ UNCHANGED <<root, text, about, from, own, fresh>>
        /\ record[f] # NoRecord
    BY <1>2 DEF Refresh
  <2> HIDE DEF h
  <2>3. TypeOK'  BY <2>1, <2>2 DEF TypeOK, Record, NoRecord
  <2>4. sound' \in [Recs -> BOOLEAN]  BY <2>2
  <2> QED  BY <2>2, <2>3, <2>4
<1>3. ASSUME NEW s \in Rules, NEW c \in Contents \cup {NoFile}, EditRule(s, c)
      PROVE  TypeInv'
  <2>1. TypeOK'  BY <1>3 DEF EditRule, TypeOK
  <2>2. ASSUME NEW f \in Recs, record[f] # NoRecord
        PROVE  HashOf(record[f].kind, record[f].name, s)' \in Digests \cup {NoDigest}
    <3>1. record' = record  BY <1>3 DEF EditRule
    <3>2. record[f].kind \in Kinds /\ record[f].name \in Names
      BY <2>2 DEF TypeOK, Record, NoRecord
    <3> QED  BY <2>1, <3>1, <3>2, HashTypeNext DEF HashesTyped
  <2>3. own' \in [Recs -> SUBSET (Digests \cup {NoDigest})]
    BY <1>3, <2>2 DEF EditRule
  <2> QED  BY <1>3, <2>1, <2>3 DEF EditRule
<1>4. ASSUME NEW r \in Roots, Relocate(r)  PROVE TypeInv'
  <2>1. from' \in [Recs -> Location]
    <3>1. ASSUME NEW f \in Recs, IsPrefix(root, from[f])
          PROVE  r \o SubSeq(from[f], Len(root) + 1, Len(from[f])) \in Location
      <4>1. root \in Location /\ from[f] \in Location /\ r \in Location
        BY Places DEF TypeOK
      <4>2. Len(root) \in 0..Len(from[f])
        BY <3>1, <4>1, LenProperties DEF IsPrefix, Location
      <4> QED  BY <4>1, <4>2, LastPart, ConcatProperties DEF Location
    <3> QED  BY <1>4, <3>1 DEF Relocate
  <2>2. sound' \in [Recs -> BOOLEAN]  BY <1>4 DEF Relocate
  <2> QED  BY <1>4, <2>1, <2>2 DEF Relocate, TypeOK
<1>5. CASE UNCHANGED vars  BY <1>5 DEF vars, history, TypeOK
<1> QED  BY <1>1, <1>2, <1>3, <1>4, <1>5 DEF Next

\* Whatever is made, refreshed, edited or moved, records and rule files keep
\* their form, and no record about a Sigma rule is ever without a hash.
THEOREM TypeCorrect == Spec => []TypeOK
<1>1. Init => TypeInv
  BY DEF Init, TypeInv, TypeOK, Location
<1>2. TypeInv => TypeOK  BY DEF TypeInv
<1> QED  BY <1>1, <1>2, TypeNext, PTL DEF Spec

(***************************************************************************)
(* The recorded path leads to the rule.                                    *)
(***************************************************************************)

\* A record whose path nothing has broken: the path leads from its anchor,
\* which lies in the checkout, to its rule file; and a relative path to a
\* rule in the checkout never climbs out of the checkout on its way, so that
\* it leads there wherever the checkout is.
Leads(f) ==
  sound[f] =>
    /\ record[f] # NoRecord /\ about[f] \in Rules
    /\ IsPrefix(root, from[f])
    /\ record[f].path \in Local =>
         /\ Resolve(Anchor(f), record[f].path) = At(about[f])
         /\ \/ record[f].path.abs
            \/ ~about[f].inside
            \/ record[f].path.up <= Len(Anchor(f)) - Len(root)

LeadInv == \A f \in Recs : Leads(f)

\* Steps that leave the checkout where it is and the path as it was.
LEMMA LeadsFrame ==
  ASSUME NEW f \in Recs, Leads(f), root' = root, about'[f] = about[f],
         from'[f] = from[f], sound'[f] => sound[f],
         record[f] # NoRecord => /\ record'[f] # NoRecord
                                 /\ record'[f].kind = record[f].kind
                                 /\ record'[f].path = record[f].path
  PROVE  Leads(f)'
<1> SUFFICES ASSUME sound'[f]  PROVE Leads(f)'  BY DEF Leads
<1>1. sound[f] /\ record[f] # NoRecord  BY DEF Leads
<1>2. Anchor(f)' = Anchor(f)  BY <1>1 DEF Anchor, Base, Dir
<1>3. At(about[f])' = At(about[f])  BY DEF At
<1> QED  BY <1>1, <1>2, <1>3 DEF Leads

\* The path that `ddr new` writes, where Anchored says it can be found again.
LEMMA LeadsFromRule ==
  ASSUME TypeInv, LeadInv, NEW f \in Recs, NEW dir \in Dirs, NEW n \in Names,
         NEW d, d = root \o dir,
         NEW s \in Rules, NEW arg \in Spellings(d, At(s)),
         NEW output \in BOOLEAN, NEW url \in BOOLEAN,
         MadeFrom(s, f, n, d, arg, output, url)
  PROVE  LeadInv'
<1>1. PICK kind \in Kinds, h \in Digests \cup {NoDigest}, auto \in BOOLEAN :
        FromRule(f, kind, n, d, s, arg, output, url, h, auto)
  BY DEF MadeFrom
<1>2. TypeOK  BY DEF TypeInv
<1>3. /\ d \in Location /\ IsPrefix(root, d)
      /\ At(s) \in Location
      /\ s.inside => IsPrefix(root, At(s))
  BY <1>2, Here
<1>4. /\ Dir(f) \in Location /\ IsPrefix(root, Dir(f)) /\ root \in Location
  BY <1>2, Here
<1> DEFINE path == IF url THEN Remote ELSE PathOrUrl(d, arg, f, output)
           new  == [kind |-> kind, name |-> n, path |-> path, hash |-> h]
           loc  == At(s)
<1>5. /\ record' = [record EXCEPT ![f] = new] /\ root' = root
      /\ about' = [about EXCEPT ![f] = s] /\ from' = [from EXCEPT ![f] = d]
      /\ sound' = [sound EXCEPT ![f] = Anchored(kind, f, d, arg, output, loc)]
  BY <1>1 DEF FromRule, Scaffold
<1> HIDE DEF path
<1>6. ASSUME NEW g \in Recs, g # f  PROVE Leads(g)'
  <2>1. /\ record'[g] = record[g] /\ about'[g] = about[g]
        /\ from'[g] = from[g] /\ sound'[g] = sound[g]
    BY <1>5, <1>6 DEF TypeInv, TypeOK
  <2> QED  BY <1>5, <2>1, LeadsFrame DEF LeadInv
<1>7. Leads(f)'
  <2> SUFFICES ASSUME sound'[f]  PROVE Leads(f)'  BY DEF Leads
  <2>1. /\ record'[f] = new /\ about'[f] = s /\ from'[f] = d
        /\ Anchored(kind, f, d, arg, output, loc)
    BY <1>5 DEF TypeInv, TypeOK
  <2>2. new # NoFile
    <3>1. path \in PathText  BY <1>3, <1>4, PathType DEF path, PathText
    <3> QED  BY <3>1, ContentsAssumption DEF Record
  <2> DEFINE a == IF kind = "sigma" THEN d ELSE Dir(f)
  <2>3. Anchor(f)' = a
    <3>1. record'[f].kind = kind /\ from'[f] = d  BY <2>1
    <3>2. Dir(f)' = Dir(f)  BY <1>5 DEF Dir
    <3> QED  BY <3>1, <3>2 DEF Anchor, Base
  <2>4. At(about[f])' = loc  BY <1>5, <2>1 DEF At
  <2>5. ASSUME path \in Local
        PROVE  /\ Resolve(a, path) = loc
               /\ path.abs \/ ~s.inside \/ path.up <= Len(a) - Len(root)
    <3>1. /\ path = PathOrUrl(d, arg, f, output)
          /\ Resolve(d, arg) = loc /\ arg \in Local
          /\ arg.abs => arg.down = loc
          /\ ~arg.abs => \A r \in Location :
               IsPrefix(r, d) /\ IsPrefix(r, loc) => arg.up <= Len(d) - Len(r)
      BY <1>3, <2>5, SpellingsLead, PlacesAssumption DEF path
    <3>2. /\ Len(root) \in Nat /\ Len(d) \in Nat /\ Len(Dir(f)) \in Nat
          /\ Len(root) <= Len(d) /\ Len(root) <= Len(Dir(f))
      BY <1>3, <1>4, LenProperties DEF IsPrefix, Location
    <3> HIDE DEF loc
    <3>3. CASE IsPrefix(d, loc)
      <4>1. path = Below(d, loc)  BY <3>1, <3>3 DEF PathOrUrl
      <4>2. a = d  BY <2>1, <3>3 DEF Anchored
      <4>3. Resolve(a, path) = loc
        BY <1>3, <3>3, <4>1, <4>2, BelowResolves DEF loc
      <4>4. path.up <= Len(a) - Len(root)  BY <3>2, <4>1, <4>2 DEF Below
      <4> QED  BY <4>3, <4>4
    <3>4. CASE ~IsPrefix(d, loc) /\ output /\ IsPrefix(Dir(f), loc)
      <4>1. path = Below(Dir(f), loc)  BY <3>1, <3>4 DEF PathOrUrl
      <4>2. a = Dir(f)  BY <2>1, <3>4 DEF Anchored
      <4>3. Resolve(a, path) = loc
        BY <1>3, <1>4, <3>4, <4>1, <4>2, BelowResolves DEF loc
      <4>4. path.up <= Len(a) - Len(root)  BY <3>2, <4>1, <4>2 DEF Below
      <4> QED  BY <4>3, <4>4
    <3>5. CASE ~IsPrefix(d, loc) /\ ~(output /\ IsPrefix(Dir(f), loc))
      <4>1. path = arg  BY <3>1, <3>5 DEF PathOrUrl
      <4>2. arg.abs \/ a = d  BY <2>1, <3>5 DEF Anchored
      <4>3. Resolve(a, path) = loc
        BY <3>1, <4>1, <4>2 DEF Resolve
      <4>4. arg.abs \/ ~s.inside \/ path.up <= Len(a) - Len(root)
        BY <1>3, <1>4, <3>1, <4>1, <4>2 DEF loc
      <4> QED  BY <4>1, <4>3, <4>4
    <3> QED  BY <3>3, <3>4, <3>5
  <2>6. record'[f] # NoFile /\ record'[f].path = path  BY <2>1, <2>2
  <2>7. about'[f] \in Rules /\ IsPrefix(root', from'[f])
    BY <1>3, <1>5, <2>1
  <2> HIDE DEF a, loc, new
  <2> QED
    BY <1>5, <2>1, <2>3, <2>4, <2>5, <2>6, <2>7 DEF Leads, NoRecord
<1> QED  BY <1>6, <1>7 DEF LeadInv

\* The anchor moves with the checkout, and the path leads on to the rule.
LEMMA RelocateLeads ==
  ASSUME TypeInv, LeadInv, NEW r \in Roots, Relocate(r)
  PROVE  LeadInv'
<1> SUFFICES ASSUME NEW f \in Recs, sound'[f]  PROVE Leads(f)'
  BY DEF LeadInv, Leads
<1> DEFINE p    == record[f].path
           rest == SubSeq(from[f], Len(root) + 1, Len(from[f]))
           rel  == IF record[f].kind = "sigma" THEN rest ELSE Front(f)
<1>1. /\ sound[f] /\ p \in Local /\ p.abs # about[f].inside
      /\ root' = r /\ record' = record /\ about' = about
      /\ from'[f] = IF IsPrefix(root, from[f]) THEN r \o rest ELSE from[f]
  BY DEF Relocate
<1>2. /\ record[f] # NoRecord /\ about[f] \in Rules /\ IsPrefix(root, from[f])
      /\ Resolve(Anchor(f), p) = At(about[f])
      /\ p.abs \/ ~about[f].inside \/ p.up <= Len(Anchor(f)) - Len(root)
  BY <1>1 DEF LeadInv, Leads
<1>3. /\ root \in Location /\ r \in Location /\ from[f] \in Location
      /\ Front(f) \in Location /\ about[f] \in Place
  BY <1>2, Here, Places DEF TypeInv
<1>4. rest \in Location /\ from[f] = root \o rest /\ from'[f] = r \o rest
  <2>1. Len(root) \in 0..Len(from[f])
    BY <1>2, <1>3, LenProperties DEF IsPrefix, Location
  <2>2. rest \in Location  BY <1>3, <2>1, LastPart DEF Location
  <2>3. from[f] = root \o rest  BY <1>2, <1>3, PrefixSplit DEF Location
  <2> QED  BY <1>1, <1>2, <2>2, <2>3
<1>5. /\ rel \in Location /\ Anchor(f) = root \o rel /\ Anchor(f)' = r \o rel
  BY <1>1, <1>3, <1>4 DEF Anchor, Base, Dir
<1>6. IsPrefix(r, from'[f])  BY <1>3, <1>4, PrefixConcat DEF Location
<1>7. /\ Len(Anchor(f)) = Len(root) + Len(rel)
      /\ Len(Anchor(f)') = Len(r) + Len(rel)
      /\ Len(root) \in Nat /\ Len(r) \in Nat /\ Len(rel) \in Nat
  BY <1>3, <1>5, ConcatProperties, LenProperties DEF Location
<1>8. /\ about[f].at \in Location
      /\ At(about[f]) = IF about[f].inside THEN root \o about[f].at ELSE about[f].at
      /\ At(about[f])' = IF about[f].inside THEN r \o about[f].at ELSE about[f].at
  BY <1>1, <1>3 DEF At, Where, Place, Location
<1> HIDE DEF p, rest, rel
<1>9. CASE p.abs
  <2>1. ~about[f].inside  BY <1>1, <1>3, <1>9 DEF Place
  <2>2. Resolve(Anchor(f)', p) = Resolve(Anchor(f), p)  BY <1>9 DEF Resolve
  <2>3. Resolve(Anchor(f)', p) = At(about[f])'  BY <1>2, <1>8, <2>1, <2>2
  <2> QED
    BY <1>1, <1>2, <1>6, <1>9, <2>3 DEF Leads, p
<1>10. CASE ~p.abs
  <2>1. about[f].inside  BY <1>1, <1>3, <1>10 DEF Local, Place
  <2>2. p.up <= Len(rel)
    BY <1>1, <1>2, <1>7, <1>10, <2>1 DEF Local
  <2>3. /\ Resolve(rel, p) \in Location
        /\ Resolve(root \o rel, p) = root \o Resolve(rel, p)
        /\ Resolve(r \o rel, p) = r \o Resolve(rel, p)
    <3>1. ResolvesUnder(root, rel, p)
      BY <1>1, <1>3, <1>5, <1>10, <2>2, ResolveUnder
    <3>2. ResolvesUnder(r, rel, p)
      BY <1>1, <1>3, <1>5, <1>10, <2>2, ResolveUnder
    <3> QED  BY <3>1, <3>2 DEF ResolvesUnder
  <2>4. root \o Resolve(rel, p) = root \o about[f].at
    BY <1>2, <1>5, <1>8, <2>1, <2>3
  <2>5. Resolve(rel, p) = about[f].at
    <3>1. PICK x \in Location, y \in Location :
            x = Resolve(rel, p) /\ y = about[f].at
      BY <1>8, <2>3
    <3>2. root \o x = root \o y  BY <2>4, <3>1
    <3>3. x = y  BY <1>3, <3>2, SameAfter DEF Location
    <3> QED  BY <3>1, <3>3
  <2>6. Resolve(Anchor(f)', p) = At(about[f])'
    BY <1>5, <1>8, <2>1, <2>3, <2>5
  <2>7. p.up <= Len(Anchor(f)') - Len(r)
    BY <1>1, <1>7, <2>2 DEF Local
  <2> QED
    BY <1>1, <1>2, <1>6, <2>6, <2>7 DEF Leads, p
<1> QED  BY <1>9, <1>10

\* No step makes a sound record lead elsewhere.
LEMMA LeadNext == TypeInv /\ LeadInv /\ [Next]_vars => LeadInv'
<1> SUFFICES ASSUME TypeInv, LeadInv, [Next]_vars  PROVE LeadInv'  OBVIOUS
<1>1. ASSUME NEW f \in Recs, NEW dir \in Dirs, NEW n \in Names,
             New(f, root \o dir, n)
      PROVE  LeadInv'
  <2>1. PICK d : d = root \o dir  OBVIOUS
  <2>2. ASSUME NEW kind \in Kinds \ {"sigma"}, NewBare(f, kind, n, d),
               NEW g \in Recs
        PROVE  Leads(g)'
    <3>1. CASE g = f
      <4>1. sound'[f] = FALSE  BY <2>2 DEF NewBare, TypeInv
      <4> QED  BY <3>1, <4>1 DEF Leads
    <3>2. CASE g # f
      <4>1. /\ root' = root /\ record'[g] = record[g] /\ about'[g] = about[g]
            /\ from'[g] = from[g] /\ sound'[g] = sound[g]
        BY <2>2, <3>2 DEF NewBare, Scaffold, TypeInv, TypeOK
      <4> QED  BY <4>1, LeadsFrame DEF LeadInv
    <3> QED  BY <3>1, <3>2
  <2>3. \/ \E kind \in Kinds \ {"sigma"} : NewBare(f, kind, n, d)
        \/ \E s \in Rules : \E arg \in Spellings(d, At(s)), output, url \in BOOLEAN :
             MadeFrom(s, f, n, d, arg, output, url)
    BY <1>1, <2>1, NewCases DEF TypeInv
  <2>4. ASSUME NEW s \in Rules, NEW arg \in Spellings(d, At(s)),
               NEW output \in BOOLEAN, NEW url \in BOOLEAN,
               MadeFrom(s, f, n, d, arg, output, url)
        PROVE  LeadInv'
    BY <2>1, <2>4, LeadsFromRule
  <2>5. ASSUME NEW kind \in Kinds \ {"sigma"}, NewBare(f, kind, n, d)
        PROVE  LeadInv'
    BY <2>2, <2>5 DEF LeadInv
  <2> QED  BY <2>3, <2>4, <2>5
<1>2. ASSUME NEW f \in Recs, NEW d, Refresh(f, d), NEW g \in Recs
      PROVE  Leads(g)'
  <2>1. /\ root' = root /\ about' = about /\ from' = from
        /\ sound'[g] => sound[g]
    BY <1>2 DEF Refresh, TypeInv
  <2>2. /\ record'[f] \in Record /\ record'[f].kind = record[f].kind
        /\ record'[f].path = record[f].path
        /\ g # f => record'[g] = record[g]
    BY <1>2, RefreshWrites DEF TypeInv
  <2>3. record'[f] # NoRecord  BY <2>2, ContentsAssumption DEF NoRecord
  <2> QED  BY <2>1, <2>2, <2>3, LeadsFrame DEF LeadInv
<1>3. ASSUME NEW s \in Rules, NEW c \in Contents \cup {NoFile}, EditRule(s, c),
             NEW g \in Recs
      PROVE  Leads(g)'
  BY <1>3, LeadsFrame DEF EditRule, LeadInv
<1>4. CASE UNCHANGED vars
  BY <1>4, LeadsFrame DEF vars, history, LeadInv
<1> QED
  BY <1>1, <1>2, <1>3, <1>4, RelocateLeads DEF Next, LeadInv

\* Paths lead to their rules in every reachable state.
LEMMA LeadHolds == Spec => [](TypeInv /\ LeadInv)
<1>1. Init => TypeInv /\ LeadInv
  BY DEF Init, TypeInv, TypeOK, Location, LeadInv, Leads
<1> QED  BY <1>1, TypeNext, LeadNext, PTL DEF Spec

\* No other rule file is where the path leads.
LEMMA LeadsToOne ==
  ASSUME TypeInv, NEW f \in Recs, Leads(f), sound[f], record[f].path \in Local
  PROVE  Reached(f, Anchor(f)) = {about[f]}
<1>1. /\ record[f] # NoRecord /\ about[f] \in Rules
      /\ Resolve(Anchor(f), record[f].path) = At(about[f])
  BY DEF Leads
<1>2. record[f].path \notin {NoPath, Remote}  BY PlacesAssumption
<1>3. Reached(f, Anchor(f)) = {s \in Rules : At(s) = At(about[f])}
  BY <1>1, <1>2 DEF Reached
<1>4. \A s \in Rules : At(s) = At(about[f]) => s = about[f]
  BY <1>1, DistinctAssumption DEF At, TypeInv, TypeOK
<1> QED  BY <1>1, <1>3, <1>4

\* A record made where its path will be read leads to its own rule file and
\* to no other, through every refresh and every move of the checkout.
THEOREM PathsFindRules == Spec => []PathFindsRule
<1>1. TypeInv /\ LeadInv => PathFindsRule
  BY LeadsToOne DEF LeadInv, PathFindsRule
<1> QED  BY <1>1, LeadHolds, PTL

(***************************************************************************)
(* The recorded hash is one of the rule's.                                 *)
(***************************************************************************)

\* `own` holds the hash the rule file has now; the recorded hash is in it;
\* and it is the one the file has now if nobody has touched the file.
Owned(f) ==
  /\ record[f] # NoRecord /\ about[f] \in Rules
       => HashOf(record[f].kind, record[f].name, about[f]) \in own[f]
  /\ sound[f] => record[f].hash \in own[f] \cup {NoDigest}
  /\ sound[f] /\ fresh[f] /\ record[f].hash # NoDigest
       => HashOf(record[f].kind, record[f].name, about[f]) = record[f].hash

OwnInv == \A f \in Recs : Owned(f)

\* What is read from a rule file changes with its text only.
LEMMA SameHash ==
  ASSUME NEW s, text'[s] = text[s], NEW kind, NEW n
  PROVE  HashOf(kind, n, s)' = HashOf(kind, n, s)
<1>1. IsServicesNSJson(s)' <=> IsServicesNSJson(s)  BY DEF IsServicesNSJson
<1>2. \A shape : ByShape(s, shape, n)' = ByShape(s, shape, n)  BY DEF ByShape
<1>3. SplunkHash(s, IsServicesNSJson(s), n)' = SplunkHash(s, IsServicesNSJson(s), n)
  BY <1>1, <1>2 DEF SplunkHash
<1> QED  BY <1>2, <1>3 DEF HashOf

\* Steps that leave the rule file, the hash and the record's target alone.
LEMMA OwnedFrame ==
  ASSUME NEW f \in Recs, Leads(f), Owned(f), about'[f] = about[f],
         record'[f] = record[f], own[f] \subseteq own'[f],
         sound'[f] => sound[f], fresh'[f] => fresh[f],
         record[f] # NoRecord /\ about[f] \in Rules
           => text'[about[f]] = text[about[f]]
  PROVE  Owned(f)'
<1> DEFINE h == HashOf(record[f].kind, record[f].name, about[f])
<1>1. ASSUME record[f] # NoRecord, about[f] \in Rules
      PROVE  HashOf(record[f].kind, record[f].name, about[f])' = h
  BY <1>1, SameHash
<1> HIDE DEF h
<1>2. sound[f] => record[f] # NoRecord /\ about[f] \in Rules  BY DEF Leads
<1> QED  BY <1>1, <1>2 DEF Owned, NoRecord, h

\* What a refresh finds from the anchor: the rule file, or nothing.
LEMMA FoundThere ==
  ASSUME TypeInv, NEW f \in Recs, Leads(f), sound[f]
  PROVE  HashThere(f, Anchor(f)) =
           IF record[f].path \in Local
           THEN HashOf(record[f].kind, record[f].name, about[f]) ELSE NoDigest
<1> DEFINE h == HashOf(record[f].kind, record[f].name, about[f])
           found == {HashOf(record[f].kind, record[f].name, s) : s \in Reached(f, Anchor(f))}
<1>1. HashThere(f, Anchor(f))
        = IF found = {} THEN NoDigest ELSE CHOOSE x \in found : TRUE
  BY DEF HashThere
<1>2. CASE record[f].path \in Local
  <2>1. Reached(f, Anchor(f)) = {about[f]}  BY <1>2, LeadsToOne
  <2>2. found = {h}  BY <2>1
  <2> HIDE DEF h, found
  <2>3. (CHOOSE x \in {h} : TRUE) = h  OBVIOUS
  <2> QED  BY <1>1, <1>2, <2>2, <2>3 DEF h
<1>3. CASE record[f].path \notin Local
  <2>1. record[f] # NoRecord /\ record[f].path \in {NoPath, Remote}
    BY <1>3 DEF Leads, TypeInv, TypeOK, Record, PathText, NoRecord
  <2>2. found = {}  BY <2>1 DEF Reached
  <2> QED  BY <1>1, <1>3, <2>2
<1> QED  BY <1>2, <1>3

\* A record made from a rule file pins what that file hashes to.
LEMMA OwnedFromRule ==
  ASSUME TypeInv, LeadInv, OwnInv, NEW f \in Recs, NEW n \in Names, NEW d,
         NEW s \in Rules, NEW arg, NEW output, NEW url,
         MadeFrom(s, f, n, d, arg, output, url)
  PROVE  OwnInv'
<1>1. PICK kind \in Kinds, h \in Digests \cup {NoDigest}, auto \in BOOLEAN :
        /\ FromRule(f, kind, n, d, s, arg, output, url, h, auto)
        /\ (auto /\ h # NoDigest) => h = HashOf(kind, n, s)
  BY DEF MadeFrom
<1> DEFINE path == IF url THEN Remote ELSE PathOrUrl(d, arg, f, output)
           new  == [kind |-> kind, name |-> n, path |-> path, hash |-> h]
           ok   == Anchored(kind, f, d, arg, output, At(s))
<1>2. /\ record' = [record EXCEPT ![f] = new] /\ text' = text
      /\ about' = [about EXCEPT ![f] = s]
      /\ sound' = [sound EXCEPT ![f] = ok]
      /\ own' = [own EXCEPT ![f] = {h, HashOf(kind, n, s)}]
      /\ fresh' = [fresh EXCEPT ![f] = auto]
  BY <1>1 DEF FromRule, Scaffold
<1> HIDE DEF path, ok
<1>3. ASSUME NEW g \in Recs, g # f  PROVE Owned(g)'
  <2>1. /\ record'[g] = record[g] /\ about'[g] = about[g] /\ own'[g] = own[g]
        /\ sound'[g] = sound[g] /\ fresh'[g] = fresh[g]
    BY <1>2, <1>3 DEF TypeInv, TypeOK
  <2> QED  BY <1>2, <2>1, OwnedFrame DEF LeadInv, OwnInv
<1>4. Owned(f)'
  <2>1. /\ record'[f].kind = kind /\ record'[f].name = n /\ record'[f].hash = h
        /\ about'[f] = s /\ own'[f] = {h, HashOf(kind, n, s)} /\ fresh'[f] = auto
    BY <1>2 DEF TypeInv, TypeOK
  <2>2. HashOf(kind, n, s)' = HashOf(kind, n, s)  BY <1>2, SameHash
  <2>3. HashOf(record[f].kind, record[f].name, about[f])' = HashOf(kind, n, s)
    BY <2>1, <2>2
  <2> QED  BY <1>1, <2>1, <2>3 DEF Owned
<1> QED  BY <1>3, <1>4 DEF OwnInv

\* No step puts another file's hash into a sound record.
LEMMA OwnNext == TypeInv /\ LeadInv /\ OwnInv /\ [Next]_vars => OwnInv'
<1> SUFFICES ASSUME TypeInv, LeadInv, OwnInv, [Next]_vars  PROVE OwnInv'
  OBVIOUS
<1>1. ASSUME NEW f \in Recs, NEW dir \in Dirs, NEW n \in Names,
             New(f, root \o dir, n)
      PROVE  OwnInv'
  <2>1. PICK d : d = root \o dir  OBVIOUS
  <2>2. ASSUME NEW kind \in Kinds \ {"sigma"}, NewBare(f, kind, n, d),
               NEW g \in Recs
        PROVE  Owned(g)'
    <3>1. CASE g = f
      <4>1. sound'[f] = FALSE /\ about'[f] = NoFile
        BY <2>2 DEF NewBare, TypeInv
      <4>2. NoFile \notin Rules  BY PlacesAssumption
      <4> QED  BY <3>1, <4>1, <4>2 DEF Owned
    <3>2. CASE g # f
      <4>1. /\ text' = text /\ record'[g] = record[g] /\ about'[g] = about[g]
            /\ own'[g] = own[g] /\ sound'[g] = sound[g] /\ fresh'[g] = fresh[g]
        BY <2>2, <3>2 DEF NewBare, Scaffold, TypeInv, TypeOK
      <4> QED  BY <4>1, OwnedFrame DEF LeadInv, OwnInv
    <3> QED  BY <3>1, <3>2
  <2>3. \/ \E kind \in Kinds \ {"sigma"} : NewBare(f, kind, n, d)
        \/ \E s \in Rules : \E arg \in Spellings(d, At(s)), output, url \in BOOLEAN :
             MadeFrom(s, f, n, d, arg, output, url)
    BY <1>1, <2>1, NewCases DEF TypeInv
  <2>4. ASSUME NEW kind \in Kinds \ {"sigma"}, NewBare(f, kind, n, d)
        PROVE  OwnInv'
    BY <2>2, <2>4 DEF OwnInv
  <2> QED  BY <2>3, <2>4, OwnedFromRule
<1>2. ASSUME NEW f \in Recs, NEW d, Refresh(f, d), NEW g \in Recs
      PROVE  Owned(g)'
  <2>1. /\ text' = text /\ about' = about /\ own' = own /\ fresh' = fresh
        /\ sound' = [sound EXCEPT ![f] =
             @ /\ (record[f].kind = "sigma" => d = from[f])]
    BY <1>2 DEF Refresh
  <2>2. CASE g # f
    <3>1. record'[g] = record[g] /\ sound'[g] = sound[g]
      BY <1>2, <2>1, <2>2, RefreshWrites DEF TypeInv
    <3> QED  BY <2>1, <3>1, OwnedFrame DEF LeadInv, OwnInv
  <2>3. CASE g = f
    <3> DEFINE h    == HashOf(record[f].kind, record[f].name, about[f])
               seen == HashThere(f, Base(f, d))
    <3>1. /\ record[f] \in Record
          /\ record'[f].kind = record[f].kind /\ record'[f].name = record[f].name
          /\ record'[f].hash = IF seen = NoDigest THEN record[f].hash ELSE seen
      BY <1>2, RefreshWrites DEF TypeInv
    <3>2. record[f] # NoRecord  BY <1>2 DEF Refresh
    <3>3. HashOf(record[f].kind, record[f].name, about[f])' = h
      <4>1. PICK kind, n, s : kind = record[f].kind /\ n = record[f].name
                              /\ s = about[f]
        OBVIOUS
      <4>2. HashOf(kind, n, s)' = HashOf(kind, n, s)  BY <2>1, SameHash
      <4> QED  BY <2>1, <3>1, <4>1, <4>2
    <3>4. sound'[f] => sound[f] /\ Base(f, d) = Anchor(f)
      BY <2>1 DEF Anchor, Base, TypeInv
    <3>5. sound'[f] => seen = h \/ seen = NoDigest
      BY <3>4, FoundThere DEF LeadInv
    <3>6. sound'[f] => about[f] \in Rules
      BY <3>4 DEF LeadInv, Leads
    <3>7. Owned(f)  BY DEF OwnInv
    <3> HIDE DEF h, seen
    <3>8. about[f] \in Rules => h \in own[f]
      BY <3>2, <3>7 DEF Owned, h
    <3>9. sound'[f] => record'[f].hash \in own[f] \cup {NoDigest}
      BY <3>1, <3>4, <3>5, <3>6, <3>7, <3>8 DEF Owned
    <3>10. sound'[f] /\ fresh[f] /\ record'[f].hash # NoDigest
             => h = record'[f].hash
      BY <3>1, <3>4, <3>5, <3>7 DEF Owned, h
    <3> QED  BY <2>1, <2>3, <3>3, <3>8, <3>9, <3>10 DEF Owned
  <2> QED  BY <2>2, <2>3
<1>3. ASSUME NEW s \in Rules, NEW c \in Contents \cup {NoFile}, EditRule(s, c),
             NEW f \in Recs
      PROVE  Owned(f)'
  <2>1. /\ record' = record /\ about' = about /\ sound' = sound
        /\ text' = [text EXCEPT ![s] = c]
        /\ own'[f] = IF record[f] # NoRecord /\ about[f] = s
                     THEN own[f] \cup {HashOf(record[f].kind, record[f].name, s)'}
                     ELSE own[f]
        /\ fresh'[f] = (fresh[f] /\ about[f] # s)
    BY <1>3 DEF EditRule
  <2>2. CASE record[f] # NoRecord /\ about[f] = s
    <3>1. HashOf(record[f].kind, record[f].name, about[f])' \in own'[f]
      BY <2>1, <2>2
    <3>2. fresh'[f] = FALSE  BY <2>1, <2>2
    <3>3. sound'[f] => record'[f].hash \in own'[f] \cup {NoDigest}
      BY <2>1 DEF OwnInv, Owned
    <3> QED  BY <3>1, <3>2, <3>3 DEF Owned
  <2>3. CASE ~(record[f] # NoRecord /\ about[f] = s)
    <3>1. /\ record'[f] = record[f] /\ about'[f] = about[f]
          /\ sound'[f] = sound[f] /\ own'[f] = own[f]
          /\ fresh'[f] => fresh[f]
      BY <2>1, <2>3
    <3>2. record[f] # NoRecord /\ about[f] \in Rules
            => text'[about[f]] = text[about[f]]
      BY <2>1, <2>3 DEF TypeInv, TypeOK
    <3> QED  BY <3>1, <3>2, OwnedFrame DEF LeadInv, OwnInv
  <2> QED  BY <2>2, <2>3
<1>4. ASSUME NEW r \in Roots, Relocate(r), NEW f \in Recs
      PROVE  Owned(f)'
  <2>1. /\ text' = text /\ record' = record /\ about' = about /\ own' = own
        /\ fresh' = fresh
        /\ sound'[f] => sound[f]
    BY <1>4 DEF Relocate
  <2> QED  BY <2>1, OwnedFrame DEF LeadInv, OwnInv
<1>5. CASE UNCHANGED vars
  BY <1>5, OwnedFrame DEF vars, history, LeadInv, OwnInv
<1> QED  BY <1>1, <1>2, <1>3, <1>4, <1>5 DEF Next, OwnInv

\* Pins are their own in every reachable state.
LEMMA OwnHolds == Spec => []OwnInv
<1>1. Init => OwnInv  BY DEF Init, OwnInv, Owned, NoRecord
<1> QED  BY <1>1, OwnNext, LeadHolds, PTL DEF Spec

\* Such a record, refreshed any number of times, pins a hash of its own rule
\* file, never one of a file that lies where another command would look.
THEOREM PinsAreOwn == Spec => []PinIsOwn
<1>1. OwnInv => PinIsOwn  BY DEF OwnInv, Owned, PinIsOwn
<1> QED  BY <1>1, OwnHolds, PTL

\* As long as the rule file is untouched, refresh-hash and the strict check
\* compute from it the hash that `ddr new` has stored.
THEOREM NewAndRefreshAgree == Spec => []NewAgreesWithRefresh
<1>1. TypeInv /\ LeadInv /\ OwnInv => NewAgreesWithRefresh
  BY FoundThere DEF LeadInv, OwnInv, Owned, NewAgreesWithRefresh
<1> QED  BY <1>1, LeadHolds, OwnHolds, PTL
=============================================================================
