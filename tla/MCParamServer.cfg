SPECIFICATION Spec
CONSTANTS
  Params <- MCParams
  Defaults <- MCDefaults
  Values = {"a", "b", "x"}
  Invalid = {"x"}
  PerTurn = 2
  MaxRequests = 2
  MaxLink = 2
  MaxMisses = 1
INVARIANT AnswersAgree
PROPERTIES ActsLikeAStore ClientsServed
CHECK_DEADLOCK FALSE
