------------------------------- MODULE Reports ------------------------------
(***************************************************************************)
(* What the console reports: of the system's health, of an attendance and  *)
(* of what became of a message.  They share no variable.                   *)
(***************************************************************************)
EXTENDS Readiness, Attendance, Traces

ReportsSpec == ReadinessSpec /\ AttendSpec /\ TraceSpec

\* What the console reports is so: what is called ready is, an attendance adds up, and the
\* record beside a reply is its own (Readiness, Attendance, Traces).
ReportsAddUp == ReportsAreTrue /\ AttendanceAddsUp /\ TracesAreTrue
=============================================================================
