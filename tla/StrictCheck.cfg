SPECIFICATION VSpec
CONSTANTS
  n1 = n1  n2 = n2  NoName = NoName  Empty = Empty
  Names = {n1, n2, NoName, Empty}  Nameless = {NoName, Empty}  Missing = NoName
  a = a  Remote = Remote  NoPath = NoPath
  q1 = q1  q2 = q2  NoQuery = NoQuery  Queries = {q1, q2}
  d1 = d1  d2 = d2  Digests = {d1, d2}  NoDigest = NoDigest
  b1 = b1  NoRecord = NoRecord  Spoiled = Spoiled
  r1 = r1  v1 = v1
  Canon <- CanonDef
  NRefs = 2
  Paths = {a}
  Contents <- StrictContents
  Bodies = {b1}
  Repoints = {}
  InitRecords <- StrictInit
  Runners = {r1}
  Validators = {v1}
INVARIANTS VTypeOK WarningsAreReal LastingDriftIsWarned QuietAfterRefresh
