CONSTANTS
  Ports = {o0, o1, o2}
  Lens = {1, 2}
  OutsNum = 3
  CutReady = TRUE
SPECIFICATION ArFairSpec
INVARIANTS RouteMatches ReadsInOrder
PROPERTIES EveryReadDone
