SPECIFICATION Spec
CONSTANTS
  w0 = w0
  w1 = w1
  w2 = w2
  Rows = {w0, w1, w2}
  Columns = {0}
  Row0 = w0
  RowOps = {"ROWAND", "ROWOR", "ROWNOT", "ROWXOR", "ROWAP", "ROWAAP"}
PROPERTY ComputesRowOp
