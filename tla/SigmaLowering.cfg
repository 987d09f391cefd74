\* Conditions with a not in front of something longer.
CONSTANTS
  Names = {"a", "b", "q"}
  Form <- MCForm
  Otherwise <- MCOtherwise
  Ref = Ref
  NoRef = NoRef
  Operands <- MCOperands
  FirstFilters <- MCFirstFilters
  MaxTokens = 9
  NoExport = NoExport
SPECIFICATION Spec
INVARIANT NoSilentChange
