SPECIFICATION Spec
CONSTANTS
  ranksPerChannel = 2
  k0 = k0
  k1 = k1
  w0 = w0
  w1 = w1
  Banks = {k0}
  bankGroupArch = FALSE
  bankgr <- OneGroup
  Rows = {w0}
  RowOps = {"ROWAP"}
  tRP = 1
  tRCD = 1
  tCL = 1
  tRAS = 2
  tBURST = 1
  tWR = 1
  tRTP = 1
  tWTR = 1
  tRTW = 1
  tCS = 1
  tRFC = 2
  tREFI = 13
  tRRD = 1
  tRRD_L = 1
  tCCD_L = 1
  tXAW = 3
  tWLOV = 1
  activationLimit = 2
  MaxQueue = 3
INVARIANTS RefreshUndisturbed
PROPERTIES RefreshProtocol
SYMMETRY Symmetry
