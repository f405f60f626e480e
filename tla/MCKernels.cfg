SPECIFICATION Spec
CONSTANTS
  Programs = {"addition", "subtraction", "min", "max", "multu_by_const", "multu", "divu",
              "xor_reduction", "and_reduction", "or_reduction", "greater_equal_0",
              "greater_than_0", "greater", "greater_equal", "equal", "abs", "relu",
              "if_then_else", "bitcount", "bitcount_faster"}
  Columns = {0}
  Lengths = {2, 3, 4}
  CountLengths = {1, 2, 3, 4, 5, 6, 7}
INVARIANTS ComputesBaseline ComparesWithZero WithinAllocation
CHECK_DEADLOCK FALSE
