CONSTANTS
  NoOp = NoOp
  Op = {o1, o2, o3}
  MaxAttempts = 1
  MaxFaults = 1
SPECIFICATION Spec
SYMMETRY OpSymmetry
PROPERTY RevokedChangesNothing
CHECK_DEADLOCK FALSE
