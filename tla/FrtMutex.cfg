CONSTANTS
  lo = lo
  mid = mid
  hi = hi
  m1 = m1
  m2 = m2
  Tasks = {lo, mid, hi}
  Idle = Idle
  Free = Free
  BasePrio <- Prios
  TickBits = 2
  Lists = {m1, m2}
  Mutexes = {m1, m2}
  Programs <- MCPrograms
  MaxLag = 1
SPECIFICATION MutexFairSpec
INVARIANTS NoInversion PriorityJustified HighestPriorityRuns
PROPERTIES ScriptsEnd
CHECK_DEADLOCK FALSE
