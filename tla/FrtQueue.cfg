CONSTANTS
  t1 = t1
  t2 = t2
  t3 = t3
  a = a
  b = b
  Tasks = {t1, t2, t3}
  Idle = Idle
  BasePrio <- MCPrio
  TickBits = 2
  Lists <- MCLists
  Items = {a, b}
  NoItem = NoItem
  Uses <- MCUses
  MaxCalls = 1
  MaxPended = 1
SPECIFICATION QueueSpec
INVARIANTS NoLostWakeup TimeoutNotEarly KernelConsistent
PROPERTIES ImplementsQueue
CHECK_DEADLOCK FALSE
