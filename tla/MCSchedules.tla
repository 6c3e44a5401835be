----------------------------- MODULE MCSchedules -----------------------------
(* The symmetry of the runs of Schedules; the liveness run has none. *)
EXTENDS Schedules, TLC

ScheduleSymmetry ==
    Permutations(Job) \cup Permutations(Worker) \cup Permutations(Editor)
    \cup Permutations(Admin)
=============================================================================
