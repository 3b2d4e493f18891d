CONSTANTS
  WordMod = 1
  AddrMod = 4
  XMod = 4
  Requests <- MCReqLive
  Blocking = TRUE
  Stall = TRUE
  MemErr = TRUE
  InitMem <- MCMem
SPECIFICATION FairSpec
INVARIANT ErrorsReported
PROPERTIES EveryJobAnswered EveryRequestTaken
