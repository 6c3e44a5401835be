CONSTANTS
  t1 = t1
  k1 = k1
  k2 = k2
  NoKey = NoKey
  NoSession = NoSession
  NoDispatch = NoDispatch
  Thread = {t1, t2}
  Key = {k1}
  Session = {s1, s2}
  Dispatch = {d1}
  Starter = {a1, a2}
  Stopper = {b1}
  Quota = {1}
  Parts = 1
  Job <- MessageJob
  MaxFaults = 1
  MaxCrashes = 1
SPECIFICATION FairSpec
INVARIANTS
  AtMostOneActive
  DeliveredUnderSession
PROPERTY
  StartsFinish
CHECK_DEADLOCK FALSE
