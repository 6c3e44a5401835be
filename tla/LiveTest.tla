------------------------------ MODULE LiveTest ------------------------------
(***************************************************************************)
(* Controlled live-test sessions (services/live-test.service.ts).          *)
(*                                                                         *)
(* A session is a database row that lets one thread bypass the global      *)
(* dry-run until its quota or its TTL is used up.  Admin requests start    *)
(* and stop sessions; every start runs behind an in-process promise chain  *)
(* (withLiveTestStartLock), modelled as the FIFO queue of the starts that  *)
(* wait for it, the head being the holder.                                 *)
(*                                                                         *)
(* The operations that an outbound dispatch calls (shouldSendLiveForThread *)
(* and recordLiveTestSent) are operators here and steps of a dispatch in   *)
(* module Outbound.  Every await of the code ends a step.                  *)
(***************************************************************************)
EXTENDS Naturals, Sequences, FiniteSets

CONSTANTS
    Thread,     \* Zalo thread ids that are in allowedThreads
    Session,    \* ids of live-test session rows
    Starter,    \* POST /live-test/start requests
    Stopper,    \* POST /live-test/stop requests
    Quota,      \* the values of maxMessages a start may ask for
    MaxFaults,  \* bound on the database errors of a behaviour
    MaxCrashes  \* bound on the crashes of the backend process

ASSUME LiveTestAssumption ==
    /\ Quota \subseteq Nat \ {0}
    /\ MaxFaults \in Nat
    /\ MaxCrashes \in Nat

VARIABLES
    session,    \* LiveTestSession rows (durable)
    starter,    \* where each start request is
    startQueue, \* the promise chain of withLiveTestStartLock
    stopper,    \* where each stop request is, and the rows it has left to cancel
    faults,     \* database errors so far
    crashes     \* crashes so far

liveTestVars == <<session, starter, startQueue, stopper, faults, crashes>>

Terminal == {"expired", "completed", "cancelled"}
Row == [status : {"absent", "active"} \cup Terminal,
        thread : Thread, maxMessages : Quota, sentCount : Nat, due : BOOLEAN]

StarterState == {"idle", "waiting", "find", "create", "refused", "exists", "started", "failed"}

LiveTestTypeOK ==
    /\ session \in [Session -> Row]
    /\ starter \in [Starter -> StarterState]
    /\ startQueue \in Seq(Starter)
    /\ stopper \in [Stopper -> [pc : {"idle", "cancel", "done"}, todo : SUBSET Session]]
    /\ faults \in 0 .. MaxFaults
    /\ crashes \in 0 .. MaxCrashes

\* The thread and the quota of an absent row are those its creator will ask for.
LiveTestInit ==
    /\ session \in [Session -> {[status |-> "absent", thread |-> t, maxMessages |-> q,
                                 sentCount |-> 0, due |-> FALSE] : t \in Thread, q \in Quota}]
    /\ starter = [a \in Starter |-> "idle"]
    /\ startQueue = << >>
    /\ stopper = [b \in Stopper |-> [pc |-> "idle", todo |-> {}]]
    /\ faults = 0
    /\ crashes = 0

-----------------------------------------------------------------------------
\* The database, and what can fail in it.

DbOk == UNCHANGED faults

DbError ==
    /\ faults < MaxFaults
    /\ faults' = faults + 1

Active(s) == session[s].status = "active"

\* What updateMany of expireActiveSessions leaves of the table.
ExpireActiveSessions ==
    [s \in Session |-> IF Active(s) /\ session[s].due
                       THEN [session[s] EXCEPT !.status = "expired"]
                       ELSE session[s]]

-----------------------------------------------------------------------------
\* startLiveTest.  The guards before the lock (confirm text, reason, readiness,
\* allowed thread, verified DM) pass or refuse the request; then it queues.

StartGuards(a) ==
    /\ starter[a] = "idle"
    /\ \/ /\ starter' = [starter EXCEPT ![a] = "waiting"]
          /\ startQueue' = Append(startQueue, a)
       \/ /\ starter' = [starter EXCEPT ![a] = "refused"]
          /\ UNCHANGED startQueue
    /\ UNCHANGED <<session, stopper, faults, crashes>>

\* A slip in HoldsStartLock: the promise chain is not awaited.
StartsUnlocked(a) == starter[a] \in {"waiting", "find", "create"}

HoldsStartLock(a) == startQueue # << >> /\ Head(startQueue) = a

\* A slip in LeaveStartLock: the release is not in a finally block.
LeaveStartLockOnReturn(a, outcome) ==
    /\ starter' = [starter EXCEPT ![a] = outcome]
    /\ startQueue' = IF outcome = "failed" THEN startQueue ELSE Tail(startQueue)

\* Leaving the locked section, by return or by throw: `finally { release(); }`.
LeaveStartLock(a, outcome) ==
    /\ starter' = [starter EXCEPT ![a] = outcome]
    /\ startQueue' = Tail(startQueue)

StartExpires(a) ==
    /\ starter[a] = "waiting"
    /\ HoldsStartLock(a)
    /\ \/ /\ DbOk
          /\ session' = ExpireActiveSessions
          /\ starter' = [starter EXCEPT ![a] = "find"]
          /\ UNCHANGED startQueue
       \/ /\ DbError
          /\ LeaveStartLock(a, "failed")
          /\ UNCHANGED session
    /\ UNCHANGED <<stopper, crashes>>

StartFindsActive(a) ==
    /\ starter[a] = "find"
    /\ HoldsStartLock(a)
    /\ \/ /\ DbOk
          /\ \E s \in Session : Active(s)
          /\ LeaveStartLock(a, "exists")
       \/ /\ DbOk
          /\ \A s \in Session : ~Active(s)
          /\ starter' = [starter EXCEPT ![a] = "create"]
          /\ UNCHANGED startQueue
       \/ /\ DbError
          /\ LeaveStartLock(a, "failed")
    /\ UNCHANGED <<session, stopper, crashes>>

\* The transaction that creates the row with its audit entry.
StartCreates(a) ==
    /\ starter[a] = "create"
    /\ HoldsStartLock(a)
    /\ \/ /\ DbOk
          /\ \E s \in Session :
                /\ session[s].status = "absent"
                /\ session' = [session EXCEPT ![s].status = "active"]
          /\ LeaveStartLock(a, "started")
       \/ /\ DbError
          /\ LeaveStartLock(a, "failed")
          /\ UNCHANGED session
    /\ UNCHANGED <<stopper, crashes>>

-----------------------------------------------------------------------------
\* stopLiveTest: read every active row, then cancel them one by one, by id and
\* without looking at the row again.

StopFinds(b) ==
    /\ stopper[b].pc = "idle"
    /\ LET found == {s \in Session : Active(s)}
       IN  stopper' = [stopper EXCEPT ![b] =
               [pc |-> IF found = {} THEN "done" ELSE "cancel", todo |-> found]]
    /\ UNCHANGED <<session, starter, startQueue, faults, crashes>>

\* An error ends the request and leaves the rest of the rows active.
StopCancels(b) ==
    /\ stopper[b].pc = "cancel"
    /\ \/ \E s \in stopper[b].todo :
             /\ DbOk
             /\ session' = [session EXCEPT ![s].status = "cancelled"]
             /\ LET rest == stopper[b].todo \ {s}
                IN  stopper' = [stopper EXCEPT ![b] =
                        [pc |-> IF rest = {} THEN "done" ELSE "cancel", todo |-> rest]]
       \/ /\ DbError
          /\ stopper' = [stopper EXCEPT ![b] = [pc |-> "done", todo |-> {}]]
          /\ UNCHANGED session
    /\ UNCHANGED <<starter, startQueue, crashes>>

-----------------------------------------------------------------------------
\* The clock passes the expiresAt of a row.

TtlPasses(s) ==
    /\ Active(s)
    /\ ~session[s].due
    /\ session' = [session EXCEPT ![s].due = TRUE]
    /\ UNCHANGED <<starter, startQueue, stopper, faults, crashes>>

-----------------------------------------------------------------------------
\* shouldSendLiveForThread: the rows findFirst may return for a thread, what the
\* check makes of the row it got, and the write that a spent row is given (again
\* by id, whatever happened to the row since the read).

\* A slip in ActiveFor: the query forgets the thread.
ActiveAnywhere(t) == {s \in Session : Active(s)}

ActiveFor(t) == {s \in Session : Active(s) /\ session[s].thread = t}

Spent(s) == session[s].due \/ session[s].sentCount >= session[s].maxMessages

SpentAs(s) == IF session[s].due THEN "expired" ELSE "completed"

Closed(s, status) == [session EXCEPT ![s].status = status]

\* recordLiveTestSent: the increment, whose result decides about completion.
Counted(s) == [session EXCEPT ![s].sentCount = @ + 1]

CountReachesQuota(s) == session[s].sentCount + 1 >= session[s].maxMessages

-----------------------------------------------------------------------------
\* The process dies: the promise chain and the requests in flight go with it,
\* the rows stay.

LiveTestCrash ==
    /\ crashes < MaxCrashes
    /\ crashes' = crashes + 1
    /\ startQueue' = << >>
    /\ starter' = [a \in Starter |->
          IF starter[a] \in {"waiting", "find", "create"} THEN "failed" ELSE starter[a]]
    /\ stopper' = [b \in Stopper |->
          IF stopper[b].pc = "cancel" THEN [pc |-> "done", todo |-> {}] ELSE stopper[b]]
    /\ UNCHANGED <<session, faults>>

AdminStep ==
    \/ \E a \in Starter :
          StartGuards(a) \/ StartExpires(a) \/ StartFindsActive(a) \/ StartCreates(a)
    \/ \E b \in Stopper : StopFinds(b) \/ StopCancels(b)
    \/ \E s \in Session : TtlPasses(s)

\* A start that holds the lock is driven by the event loop.
LockedStart(a) == StartExpires(a) \/ StartFindsActive(a) \/ StartCreates(a)

-----------------------------------------------------------------------------
\* Only the head of the queue is past the wait, and a start that is about to create
\* a row has seen no active one that could still be there.
StartLockInv ==
    \A a \in Starter :
        /\ starter[a] \in {"find", "create"} => HoldsStartLock(a)
        /\ starter[a] = "create" => \A s \in Session : ~Active(s)

\* At most one live-test session is active in the whole system, whatever starts,
\* stops, expiries, crashes and database errors interleave
\* (live-test.service.ts, the comment above findFirst in startLiveTest).
AtMostOneActive == \A s, t \in Session : Active(s) /\ Active(t) => s = t

\* Every start that queued for the lock leaves it: a failing start does not keep
\* the chain blocked for the ones behind it.
StartsFinish ==
    \A a \in Starter : starter[a] = "waiting" ~> starter[a] \in {"exists", "started", "failed"}
=============================================================================
