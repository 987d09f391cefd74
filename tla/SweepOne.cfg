SPECIFICATION FairSpec
CONSTANTS
  None = None  Absent = Absent  NotDDR = NotDDR  Garbled = Garbled
  s1 = s1  s2 = s2
  NFiles = 2
  YamlFiles = {2}
  Records <- AllRecords
  Ahead = {0, 1}
  Filters = {{}, {"EXPIRED"}}
  MaxNow = 2
  MaxDate = 2
  Sweepers = {s1}
INVARIANTS TypeOK LapsedIsReported SilenceIsAPromise ValidateIsAGate
PROPERTIES LooksOnce SweepsEnd
