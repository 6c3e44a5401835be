------------------------------ MODULE Instances ------------------------------
(***************************************************************************)
(* Starting the backend: the checks of main() in index.ts, the lock file   *)
(* of process-lock, the restored Zalo session and the port.                *)
(*                                                                         *)
(* The lock is read, perhaps removed, and written by separate calls; a     *)
(* process whose start is refused lives on, because the timer of its       *)
(* heartbeat was set before and only the rejection is logged.  Pids are    *)
(* reused.                                                                 *)
(***************************************************************************)
EXTENDS Naturals, FiniteSets

CONSTANTS
    Pid, NoPid,
    AllowMultiple,  \* ALLOW_MULTIPLE_BACKEND_INSTANCES
    MaxStarts       \* bound on the processes started

ASSUME InstancesAssumption ==
    Pid # {} /\ NoPid \notin Pid /\ AllowMultiple \in BOOLEAN /\ MaxStarts \in Nat

VARIABLES
    lock,        \* pid in the lock file, NoPid when there is none
    port,        \* who listens on the port
    procs,       \* where each process is
    session,     \* processes whose gateway has restored the Zalo session
    starts,
    overlapped   \* two processes acquired side by side since all were down: history

instanceVars == <<lock, port, procs, session, starts, overlapped>>

Acquiring == {"unlink", "write"}
Owning == {"build", "listen", "up"}

InstanceInit ==
    /\ lock \in Pid \cup {NoPid}           \* a lock left behind by a crash
    /\ port = NoPid
    /\ procs = [p \in Pid |-> "off"]
    /\ session = {} /\ starts = 0 /\ overlapped = FALSE

Moves(p, pc) == procs' = [procs EXCEPT ![p] = pc]

\* checkDbOnStartup and checkConfigOnStartup, when strict, end the start before anything is set up.
Starts(p) ==
    /\ procs[p] = "off" /\ starts < MaxStarts
    /\ starts' = starts + 1
    /\ \E pc \in {"off", "check"} : Moves(p, pc)
    /\ overlapped' = (overlapped /\ \E q \in Pid : procs[q] # "off")
    /\ UNCHANGED <<lock, port, session>>

\* A plausible defect: a process counts as alive once it serves.
LivesByPort(pid) == pid = port

\* isPidAlive: whoever has the pid now, the asking process included.
Lives(pid) == procs[pid] # "off"

\* acquireProcessLock, up to the removal of a stale lock.
ChecksLock(p) ==
    /\ procs[p] = "check"
    /\ Moves(p, IF lock = NoPid THEN "write"
                ELSE IF ~Lives(lock) THEN "unlink"
                ELSE IF AllowMultiple THEN "build" ELSE "refused")
    /\ overlapped' = (overlapped \/ \E q \in Pid \ {p} : procs[q] \in Acquiring)
    /\ UNCHANGED <<lock, port, session, starts>>

RemovesStale(p) ==
    /\ procs[p] = "unlink"
    /\ lock' = NoPid /\ Moves(p, "write")
    /\ UNCHANGED <<port, session, starts, overlapped>>

WritesLock(p) ==
    /\ procs[p] = "write"
    /\ lock' = p /\ Moves(p, "build")
    /\ UNCHANGED <<port, session, starts, overlapped>>

\* isLockOwner guards the restore at the start; the restore may fail.
RestoresSession(p) ==
    /\ procs[p] = "build"
    /\ \/ lock = p /\ session' = session \cup {p}
       \/ UNCHANGED session
    /\ Moves(p, "listen")
    /\ UNCHANGED <<lock, port, starts, overlapped>>

\* The handlers set with the lock remove it if it still is the process's own.
CleansUp(p) == lock' = IF lock = p THEN NoPid ELSE lock
Gone(p) == Moves(p, "off") /\ session' = session \ {p} /\ port' = IF port = p THEN NoPid ELSE port

\* app.listen: a taken port ends the process.
Listens(p) ==
    /\ procs[p] = "listen"
    /\ \/ port = NoPid /\ port' = p /\ Moves(p, "up") /\ UNCHANGED <<lock, session>>
       \/ port # NoPid /\ CleansUp(p) /\ Gone(p)
    /\ UNCHANGED <<starts, overlapped>>

\* Once up, an administrator may log in by QR whether or not the process has the lock.
LogsIn(p) ==
    /\ procs[p] = "up"
    /\ session' = session \cup {p}
    /\ UNCHANGED <<lock, port, procs, starts, overlapped>>

\* A signal or an uncaught exception; a refused process has set no handler.
Exits(p) ==
    /\ procs[p] # "off"
    /\ Gone(p)
    /\ IF procs[p] \in Owning THEN CleansUp(p) ELSE UNCHANGED lock
    /\ UNCHANGED <<starts, overlapped>>

\* Killed: nothing runs, the lock stays.
Killed(p) ==
    /\ procs[p] # "off"
    /\ Gone(p) /\ UNCHANGED <<lock, starts, overlapped>>

InstanceNext ==
    \E p \in Pid :
        \/ Starts(p) \/ ChecksLock(p) \/ RemovesStale(p) \/ WritesLock(p)
        \/ RestoresSession(p) \/ Listens(p) \/ LogsIn(p) \/ Exits(p) \/ Killed(p)

InstanceSpec == InstanceInit /\ [][InstanceNext]_instanceVars

-----------------------------------------------------------------------------
\* The type invariant.
InstanceTypeOK ==
    /\ lock \in Pid \cup {NoPid} /\ port \in Pid \cup {NoPid}
    /\ procs \in [Pid -> {"off", "check", "refused"} \cup Acquiring \cup Owning]
    /\ session \subseteq Pid /\ starts \in 0..MaxStarts /\ overlapped \in BOOLEAN

\* "Ensures only one backend instance runs at a time", for as far as it does: unless two
\* processes acquired the lock side by side, at most one has passed the lock, it is the one
\* the lock names, and only it can hold the Zalo session; restarts, kills, reused pids and
\* processes that were refused and linger make no difference.
OneInstance ==
    overlapped \/ AllowMultiple \/
        \E owner \in Pid :
            /\ \A p \in Pid : procs[p] \in Owning => p = owner /\ lock = p
            /\ session \subseteq {owner} /\ port \in {owner, NoPid}
=============================================================================
