CONSTANTS
  NoJob = NoJob
  Schedule = {s1}
  Job = {j1, j2}
  Worker = {w1, w2}
  Editor = {e1, e2}
  Admin = {}
  Edits = {"remind", "content", "rename"}
  EditsOverlap = TRUE
  MaxFaults = 1
  MaxCrashes = 1
SPECIFICATION FairSpec
INVARIANTS
  TypeOK
  OneSendPerJob
  CompletedIsRecorded
PROPERTIES
  JobsAreServed
CHECK_DEADLOCK FALSE
