SPECIFICATION Spec
CONSTANTS
  ranksPerChannel = 1
  k0 = k0
  k1 = k1
  w0 = w0
  w1 = w1
  Banks = {k0, k1}
  bankGroupArch = TRUE
  bankgr <- OneGroup
  Rows = {w0, w1}
  RowOps = {"ROWNOT"}
  tRP = 1
  tRCD = 1
  tCL = 1
  tRAS = 2
  tBURST = 1
  tWR = 1
  tRTP = 1
  tWTR = 1
  tRTW = 1
  tCS = 1
  tRFC = 2
  tREFI = 16
  tRRD = 1
  tRRD_L = 2
  tCCD_L = 2
  tXAW = 3
  tWLOV = 1
  activationLimit = 1
  MaxQueue = 3
INVARIANTS TypeOK CommandsLegal PowerTransitionsAgree RefreshNeverFails RefreshUndisturbed PowerFollowsBanks ReorderFindsBest
PROPERTIES BusNeverGoesBack ActivationsNeverEarlier
SYMMETRY Symmetry
