CONSTANTS
  NoOp = NoOp
  Op = {o1, o2}
  MaxAttempts = 1
  MaxFaults = 1
SPECIFICATION FairSpec
INVARIANTS
  TypeOK
  OneOperation
  ListenerIsAccountedFor
  QrIsCurrent
PROPERTIES
  RevokedNeverInstalls
  RetriesEnd
CHECK_DEADLOCK FALSE
