SPECIFICATION Spec
CONSTANTS
  n1 = n1  n2 = n2  NoName = NoName  Nameless = {NoName}
  a = a  b = b  Remote = Remote  NoPath = NoPath
  q1 = q1  q1x = q1x  q2 = q2  NoQuery = NoQuery
  d1 = d1  d2 = d2  Digests = {d1, d2}  NoDigest = NoDigest
  b1 = b1  b2 = b2  NoRecord = NoRecord  Spoiled = Spoiled
  r1 = r1  r2 = r2
  Canon <- CanonDef
  Names = {n1, n2, NoName}
  NRefs = 2
  Paths = {a, b}
  Queries = {q1, q2}
  Contents <- RaceContents
  Bodies = {b1, b2}
  Repoints = {}
  InitRecords <- RaceInit
  Runners = {r1, r2}
SYMMETRY RunnerSymmetry
INVARIANTS WritesAreFresh RefreshSettles IntactAtRest
PROPERTIES WritesOnlyHashes KeepsPromise
