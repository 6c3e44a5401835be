CONSTANTS
  NoJob = NoJob
  Schedule = {s1}
  Job = {j1, j2, j3}
  Worker = {w1}
  Editor = {e1, e2, e3}
  Admin = {a1}
  Edits = {"create", "content", "same", "time", "untime", "rename", "pause", "resume", "cancel", "agentTime", "agentUntime", "agentPause", "agentActivate", "agentDraft", "agentCancel"}
  EditsOverlap = FALSE
  MaxFaults = 0
  MaxCrashes = 0
SPECIFICATION Spec
SYMMETRY ScheduleSymmetry
INVARIANTS
  OneQueuedJob
  RunIsQueued
  ForbiddenIsNotSent
CHECK_DEADLOCK FALSE
