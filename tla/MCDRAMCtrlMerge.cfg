CONSTANTS
  b0 = b0
  b1 = b1
  u0 = u0
  u1 = u1
  ranksPerChannel = 2
  Bursts = {b0, b1}
  RankOf <- MCRankOf
  Units = {u0, u1}
  Spans <- MCSpans
  RowOpDests = {b0}
  r0 = r0
  r1 = r1
  Reqs = {r0, r1}
  readBufferSize = 2
  writeBufferSize = 3
  writeHighThreshold = 2
  writeLowThreshold = 1
  minWritesPerSwitch = 1
  memSchedPolicy = "fcfs"
SPECIFICATION Spec
SYMMETRY Symmetry
INVARIANT OneWritePerBurst
