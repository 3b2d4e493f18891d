CONSTANTS
  Ports = {o0, o1, o2}
  Systems <- MCSystems
  MaxTodo = 3
SPECIFICATION AwFairSpec
INVARIANTS WriteDataRouted WriteDataComplete ResponsesInOrder
PROPERTIES EveryWriteAnswered DataGetsThrough
