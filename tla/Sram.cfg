CONSTANTS
  Banks = {b0, b1}
  DP = 2
  Span = 2
  Values = {v0, v1}
SPECIFICATION SramSpec
INVARIANTS ReadDataHeld
 
