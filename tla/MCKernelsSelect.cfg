SPECIFICATION Spec
CONSTANTS
  Programs = {"min", "max", "if_then_else"}
  Columns = {0}
  Lengths = {2, 3, 4}
  CountLengths = {}
INVARIANT SelectsByBit
CHECK_DEADLOCK FALSE
