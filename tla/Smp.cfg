CONSTANTS
  Cores = {c1, c2}
  Locks = {"ISR", "TASK"}
  Interrupted = {c1, c2}
  MaxDepth = 3
  MaxSusp = 1
  MaxNest = 2
SYMMETRY CoreSymmetry
SPECIFICATION SmpSpec
INVARIANTS CriticalAlone SuspendedAlone SwitchAsserts NoCircularWait SpinInv
