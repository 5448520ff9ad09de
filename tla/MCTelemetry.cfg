CONSTANTS
  Loads <- MCLoads
  Start <- MCStart
  Wires = {TRUE, FALSE}
  MaxLosses = 3
  Lossy = {"air"}
  MaxUnplugs = 1
  Faulty <- MCFaulty
SPECIFICATION Spec
PROPERTIES RoutesLikeABus RequestsServed
CHECK_DEADLOCK FALSE
