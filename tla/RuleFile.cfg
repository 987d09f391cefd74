\* Nine lines of a conf file, six of a search, two rules in an export.
CONSTANTS
  A = A
  B = B
  Def = Def
  wA = wA
  wB = wB
  wHash = wHash
  Names <- MCNames
  Default = Def
  Comments = {wHash}
  SearchKey = SearchKey
  OtherKey = OtherKey
  Plain = {wA, wB}
  Backslash = Backslash
  NoDigest = NoDigest
  Vals = {v1, v2}
  Garbage = Garbage
  NoDoc = NoDoc
  ConfLines <- MCConfLines
  SplLines <- MCSplLines
  EaiData <- MCEaiData
  MaxLines = 4
  MaxDocs = 2
  InitFiles <- MCInitFiles
SPECIFICATION Spec
INVARIANTS TypeOK HashIdentity
PROPERTIES OneStanzaAtATime CommentsAreFree WrappingIsFree ReexportKeepsHash
  TheNamedRuleIsPinned
