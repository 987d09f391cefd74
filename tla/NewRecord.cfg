SPECIFICATION Spec
CONSTANTS
  n1 = n1
  d1 = d1
  d2 = d2
  Rules <- MCRules
  Recs <- MCRecs
  Dirs <- MCDirs
  Roots <- MCRoots
  Kinds = {"sigma", "splunk", "elastic"}
  Names = {n1}
  Digests = {d1, d2}
  NoDigest = NoDigest
  Contents <- MCContents
  NoFile = NoFile
  NoPath = NoPath
  Remote = Remote
INVARIANTS TypeOK PathFindsRule PinIsOwn NewAgreesWithRefresh
