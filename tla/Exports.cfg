\* Filters of up to nine tokens.
CONSTANTS
  Names = {"a", "b", "q"}
  Form <- MCForm
  Otherwise <- MCOtherwise
  Ref = Ref
  NoRef = NoRef
  Operands <- MCOperands
  FirstFilters <- MCFirstFilters
  MaxTokens = 9
  NoExport = NoExport
SPECIFICATION Spec
INVARIANTS TypeOK RefreshSeesTheRecord NoForeignExport SuppressionsShip SameEventsInSpl
  ExactlyTheFalsePositives EntriesOrManual
