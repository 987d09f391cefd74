SPECIFICATION Spec
CONSTANTS
  None = None  Absent = Absent  NotDDR = NotDDR  Garbled = Garbled
  s1 = s1  s2 = s2
  NFiles = 2
  YamlFiles = {2}
  Records <- OneRecord 
  Ahead = {1}
  Filters = {{}, {"EXPIRED", "DUE"}}
  MaxNow = 2
  MaxDate = 4
  Sweepers = {s1, s2}
SYMMETRY SweeperSymmetry
INVARIANTS ListAgreesWithCheck
