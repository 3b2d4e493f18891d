CONSTANTS
  high = high
  low = low
  Tasks = {high, low}
  Idle = Idle
  Isr = Isr
  Null = Null
  BasePrio <- MCPrio
  TickBits = 2
  Lists = {}
  Header = 1
  Values = 2
  Uses <- MCUses
  MaxPended = 1
SPECIFICATION StreamSpec
INVARIANTS PartialWriteMaximal
