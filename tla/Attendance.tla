------------------------------ MODULE Attendance ------------------------------
(***************************************************************************)
(* An attendance session of a group (services/attendance.service.ts,       *)
(* routes/attendance.ts, the attendance tools of routes/agent.ts): the     *)
(* group is asked, replies arrive, and whoever asks for it has the replies *)
(* parsed into records, one a person, and counted.                         *)
(*                                                                         *)
(* The requests are chains of awaits without a transaction: a parse reads  *)
(* the session, then the messages, then looks up and inserts one record    *)
(* after the other, then counts, then writes the count.  A message is a    *)
(* reply, a person and a time; what else is said is skipped by a pattern   *)
(* and left out.                                                           *)
(***************************************************************************)
EXTENDS Naturals, FiniteSets

CONSTANTS
    Clerk,        \* requests
    Member,       \* people of the group
    NoTime,       \* a date that is not set
    MaxHour,      \* bound on the clock
    MaxOrders     \* bound on the requests other than a parse

ASSUME AttendanceAssumption == NoTime \notin Nat /\ MaxHour \in Nat /\ MaxOrders \in Nat

VARIABLES
    hour,
    rollCall,     \* the AttendanceSession row
    replies,     \* <<who, when>>: messages that say "present"
    present,     \* AttendanceRecord rows: when each person checked in
    clerks,
    orders,      \* requests other than a parse
    since,       \* the start of the window in which each person was recorded: history
    jostled      \* requests overlapped, or one was cut off: history

attendVars == <<hour, rollCall, replies, present, clerks, orders, since, jostled>>

NoReply == <<NoTime, NoTime>>
AtDesk == [pc |-> "idle", from |-> NoTime, to |-> NoTime, todo |-> {}, reply |-> NoReply, count |-> 0]
Sessions == {"draft", "scheduled", "active", "closed", "cancelled"}

\* createSession: scheduled when a time is given.
AttendInit ==
    /\ hour = 0
    /\ \E at \in {NoTime, 0} :
           rollCall = [status |-> IF at = NoTime THEN "draft" ELSE "scheduled", scheduled |-> at,
                      started |-> NoTime, ended |-> NoTime, actual |-> 0, reminded |-> FALSE]
    /\ replies = {}
    /\ present = [m \in Member |-> NoTime]
    /\ clerks = [c \in Clerk |-> AtDesk]
    /\ orders = 0
    /\ since = [m \in Member |-> NoTime]
    /\ jostled = FALSE

Recorded == {m \in Member : present[m] # NoTime}
Begins(c) ==
    /\ clerks[c].pc = "idle"
    /\ jostled' = (jostled \/ \E d \in Clerk : clerks[d].pc # "idle")
ClerkLeaves(c) == clerks' = [clerks EXCEPT ![c] = AtDesk]
Standing == UNCHANGED <<hour, replies>>

-----------------------------------------------------------------------------
\* The session's row.

Order == orders < MaxOrders /\ orders' = orders + 1
Rewrite(entry) ==
    /\ Order /\ rollCall' = entry
    /\ UNCHANGED <<hour, replies, present, clerks, since, jostled>>

\* startSession takes a session in any status, and leaves the end of an earlier one.
startSession == Rewrite([rollCall EXCEPT !.status = "active", !.started = hour])
cancelSession == Rewrite([rollCall EXCEPT !.status = "cancelled"])
\* PATCH: any status, of which one stands for all since no other statement reads it, and the
\* time it is scheduled for.
updateSession ==
    \/ rollCall.status # "cancelled" /\ Rewrite([rollCall EXCEPT !.status = "cancelled"])
    \/ rollCall.scheduled # hour /\ Rewrite([rollCall EXCEPT !.scheduled = hour])

\* closeSession counts, and then writes the end and the count.
closeSession(c) ==
    \/ /\ Begins(c) /\ Order
       /\ clerks' = [clerks EXCEPT ![c].pc = "close", ![c].count = Cardinality(Recorded)]
       /\ UNCHANGED <<hour, rollCall, replies, present, since>>
    \/ /\ clerks[c].pc = "close"
       /\ rollCall' = [rollCall EXCEPT !.status = "closed", !.ended = hour, !.actual = clerks[c].count]
       /\ ClerkLeaves(c) /\ Standing /\ UNCHANGED <<present, orders, since, jostled>>

\* sendReminder asks the group, and whatever sendOutbound answers, the session says that it
\* did.
sendReminder == Rewrite([rollCall EXCEPT !.reminded = TRUE])

-----------------------------------------------------------------------------
\* parseMessagesForAttendance.

WindowStart == IF rollCall.started # NoTime THEN rollCall.started ELSE rollCall.scheduled

\* The session is read, and the end of the window is now when it has none.
ParseBegins(c) ==
    /\ Begins(c) /\ WindowStart # NoTime
    /\ clerks' = [clerks EXCEPT ![c].pc = "messages", ![c].from = WindowStart,
                                ![c].to = IF rollCall.ended = NoTime THEN hour ELSE rollCall.ended]
    /\ Standing /\ UNCHANGED <<rollCall, present, orders, since>>

ParseReads(c) ==
    /\ clerks[c].pc = "messages"
    /\ clerks' = [clerks EXCEPT ![c].pc = "look", ![c].to = NoTime,
           ![c].todo = {r \in replies : r[2] >= clerks[c].from /\ r[2] <= clerks[c].to}]
    /\ Standing /\ UNCHANGED <<rollCall, present, orders, since, jostled>>

\* The messages come in the order of their times.
InOrder(r, left) == r \in left /\ \A q \in left : r[2] <= q[2]

\* A look-up, and, when the person has no record, an insert, which the unique key refuses
\* when there is one by now: the parse fails there.
ParseLooks(c) ==
    /\ clerks[c].pc = "look"
    /\ IF clerks[c].todo = {} THEN clerks' = [clerks EXCEPT ![c].pc = "count"]
       ELSE \E r \in clerks[c].todo :
                /\ InOrder(r, clerks[c].todo)
                /\ clerks' = IF present[r[1]] # NoTime
                             THEN [clerks EXCEPT ![c].todo = @ \ {r}]
                             ELSE [clerks EXCEPT ![c].pc = "insert", ![c].todo = @ \ {r}, ![c].reply = r]
    /\ Standing /\ UNCHANGED <<rollCall, present, orders, since, jostled>>

ParseInserts(c) ==
    /\ clerks[c].pc = "insert"
    /\ LET r == clerks[c].reply
       IN IF present[r[1]] # NoTime
          THEN ClerkLeaves(c) /\ UNCHANGED <<present, since>>
          ELSE /\ present' = [present EXCEPT ![r[1]] = r[2]]
               /\ since' = [since EXCEPT ![r[1]] = clerks[c].from]
               /\ clerks' = [clerks EXCEPT ![c].pc = "look", ![c].reply = NoReply]
    /\ Standing /\ UNCHANGED <<rollCall, orders, jostled>>

ParseCounts(c) ==
    \/ /\ clerks[c].pc = "count"
       /\ clerks' = [clerks EXCEPT ![c].pc = "write", ![c].from = NoTime, ![c].count = Cardinality(Recorded)]
       /\ Standing /\ UNCHANGED <<rollCall, present, orders, since, jostled>>
    \/ /\ clerks[c].pc = "write"
       /\ rollCall' = [rollCall EXCEPT !.actual = clerks[c].count]
       /\ ClerkLeaves(c) /\ Standing /\ UNCHANGED <<present, orders, since, jostled>>

\* A statement of a request fails.
ClerkFails(c) ==
    /\ clerks[c].pc # "idle"
    /\ jostled' = TRUE
    /\ ClerkLeaves(c)
    /\ UNCHANGED <<hour, rollCall, replies, present, orders, since>>

-----------------------------------------------------------------------------
\* The group and the clock.
Replies(m) ==
    /\ replies' = replies \cup {<<m, hour>>}
    /\ UNCHANGED <<hour, rollCall, present, clerks, orders, since, jostled>>

AttendTick ==
    /\ hour < MaxHour /\ hour' = hour + 1
    /\ UNCHANGED <<rollCall, replies, present, clerks, orders, since, jostled>>

AttendNext ==
    \/ startSession \/ cancelSession \/ updateSession \/ sendReminder
    \/ \E c \in Clerk :
           \/ closeSession(c)
           \/ ParseBegins(c) \/ ParseReads(c) \/ ParseLooks(c) \/ ParseInserts(c) \/ ParseCounts(c)
           \/ ClerkFails(c)
    \/ \E m \in Member : Replies(m)
    \/ AttendTick

AttendSpec == AttendInit /\ [][AttendNext]_attendVars

-----------------------------------------------------------------------------
\* Properties.

\* The state has its type.
Date == Nat \cup {NoTime}
AttendTypeOK ==
    /\ hour \in 0 .. MaxHour
    /\ rollCall \in [status : Sessions, scheduled : Date, started : Date, ended : Date,
                    actual : Nat, reminded : BOOLEAN]
    /\ replies \subseteq Member \X (0 .. MaxHour)
    /\ present \in [Member -> Date] /\ since \in [Member -> Date]
    /\ \A c \in Clerk :
           /\ clerks[c].pc \in {"idle", "close", "messages", "look", "insert", "count", "write"}
           /\ clerks[c].from \in Date /\ clerks[c].to \in Date
           /\ clerks[c].todo \subseteq replies /\ clerks[c].reply \in replies \cup {NoReply}
           /\ clerks[c].count \in Nat
    /\ orders \in 0 .. MaxOrders /\ jostled \in BOOLEAN

\* A person is recorded by the first reply of the window in which they were recorded,
\* whatever parses overlap (parseMessagesForAttendance, orderBy receivedAt).
FirstReplyCounts ==
    \A r \in replies : present[r[1]] # NoTime /\ r[2] >= since[r[1]] => r[2] >= present[r[1]]

\* The session never counts more people than are recorded, and, when no requests have
\* overlapped or been cut off, between them exactly those (actualCount, closeSession).
CountIsRecorded ==
    /\ rollCall.actual <= Cardinality(Recorded)
    /\ ~jostled /\ (\A c \in Clerk : clerks[c].pc = "idle") => rollCall.actual = Cardinality(Recorded)

\* Who is on the list has replied, and the count is the list's.
AttendanceAddsUp ==
    /\ \A m \in Recorded : <<m, present[m]>> \in replies
    /\ FirstReplyCounts /\ CountIsRecorded
=============================================================================
