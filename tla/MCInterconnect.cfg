SPECIFICATION System
CONSTANTS
  c0 = c0
  c1 = c1
  a0 = a0
  a1 = a1
  Requesters = {c0, c1}
  Objects <- SystemObjects
  Lines = {a0, a1}
  assoc = 1
  mshrs = 2
  write_buffers = 2
  Delays = {0}
  forwardLatency = 2
  headerDelay = 1
  Latencies = {1}
  duration = 2
INVARIANTS NoPanic HandlersExpected DrainedMeansQuiet
PROPERTIES ManagerProtocol DrainEnds
