CONSTANTS
  NoJob = NoJob
  Schedule = {s1}
  Job = {j1, j2}
  Worker = {w1}
  Editor = {e1, e2}
  Admin = {}
  Edits = {"create", "remind", "content", "same", "time", "rename", "pause", "resume", "cancel"}
  EditsOverlap = FALSE
  MaxFaults = 0
  MaxCrashes = 0
SPECIFICATION Spec
SYMMETRY ScheduleSymmetry
INVARIANT EveryEditKeepsRun
CHECK_DEADLOCK FALSE
