CONSTANTS
  t1 = t1
  k1 = k1
  k2 = k2
  NoKey = NoKey
  NoSession = NoSession
  NoDispatch = NoDispatch
  Thread = {t1}
  Key = {k1, k2}
  Session = {s1}
  Dispatch = {d1, d2}
  Starter = {a1}
  Stopper = {}
  Quota = {1}
  Parts = 2
  Job <- ReplyJob
  MaxFaults = 1
  MaxCrashes = 1
SPECIFICATION Spec
SYMMETRY DispatchSymmetry
INVARIANTS
  TypeOK
  OneReplyPerKey
  DryRunDeliversNothing
  StrictSuccessIsProven
  QuotaOvershootBounded
PROPERTY ImplementsLedger
CHECK_DEADLOCK FALSE
