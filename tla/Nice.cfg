CONSTANTS
  WordMod = 2
  AddrMod = 4
  XMod = 4
  Requests <- MCReq
  Blocking = TRUE
  Stall = TRUE
  MemErr = FALSE
  InitMem <- MCMem
SPECIFICATION Spec
INVARIANTS BlockingInv ResponseMatchesJob StoresColumns ColumnSums
