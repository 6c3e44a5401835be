CONSTANTS
  NoInbound = NoInbound
  NoDelivery = NoDelivery
  Inbound = {m1, m2, m3}
  Anonymous = {m3}
  Delivery = {d1, d2}
  Worker = {w1}
  MaxMessages = 2
  MaxFaults = 1
  MaxCrashes = 1
SPECIFICATION FairSpec
INVARIANTS
  TypeOK
  AcceptedOnce
  DispatchIsIdentified
  HandedOnce
  NothingLost
PROPERTIES
  BatchesAreServed
CHECK_DEADLOCK FALSE
