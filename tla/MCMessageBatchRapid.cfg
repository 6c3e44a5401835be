CONSTANTS
  NoInbound = NoInbound
  NoDelivery = NoDelivery
  Inbound = {m1, m2, m3}
  Anonymous = {}
  Delivery = {d1, d2, d3}
  Worker = {w1}
  MaxMessages = 3
  MaxFaults = 0
  MaxCrashes = 0
SPECIFICATION Spec
SYMMETRY BatchSymmetry
INVARIANT RapidMessagesAreAnswered
CHECK_DEADLOCK FALSE
