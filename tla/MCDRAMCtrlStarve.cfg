CONSTANTS
  b0 = b0
  b1 = b1
  u0 = u0
  u1 = u1
  ranksPerChannel = 2
  Bursts = {b0, b1}
  RankOf <- MCRankOf
  Units = {u0, u1}
  Spans <- LiveSpans
  RowOpDests = {b0}
  r0 = r0
  r1 = r1
  Reqs = {r0, r1}
  readBufferSize = 1
  writeBufferSize = 2
  writeHighThreshold = 1
  writeLowThreshold = 0
  minWritesPerSwitch = 1
  memSchedPolicy = "fcfs"
SPECIFICATION FairSpec
PROPERTY WaitingReadsGetTheBus
