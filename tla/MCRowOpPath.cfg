SPECIFICATION Spec
CONSTANTS
  r0 = r0
  r1 = r1
  Rows = {r0, r1}
  LinesPerRow = 1
  Words = {1, 2}
  MaxInsts = 3
  mshrs = 1
  write_buffers = 2
  reserve = 5
  MaxSquashes = 1
INVARIANTS WritesInProgramOrder QueuesExpected
PROPERTIES EveryInstructionCompletes
CHECK_DEADLOCK FALSE
