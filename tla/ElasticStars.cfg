\* Filters with a wildcard in quotes.
CONSTANTS
  Names = {"a", "b", "q"}
  Form <- MCQuotedStar
  Otherwise <- MCOtherwise
  Ref = Ref
  NoRef = NoRef
  Operands <- MCOperands
  FirstFilters <- MCFirstFilters
  MaxTokens = 9
  NoExport = NoExport
SPECIFICATION Spec
INVARIANT StarsAreWildcards
