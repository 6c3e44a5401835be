----------------------------- MODULE ReportProofs ---------------------------
(***************************************************************************)
(* The proofs about what the console reports: an attendance (Attendance),  *)
(* the trace of a reply and the status beside it (Traces), and what the    *)
(* system says of itself (Readiness).                                      *)
(***************************************************************************)
EXTENDS Reports, TLAPS, FiniteSetTheorems, WellFoundedInduction

-----------------------------------------------------------------------------
(* Attendance *)

\* The fields of a session, its records and its requests.
Clerks == [pc : {"idle", "close", "messages", "look", "insert", "count", "write"}, from : Date, to : Date,
           todo : SUBSET (Member \X Nat), reply : (Member \X Nat) \cup {NoReply}, count : Nat]

AttendHasFields ==
    /\ hour \in 0 .. MaxHour
    /\ rollCall \in [status : Sessions, scheduled : Date, started : Date, ended : Date,
                     actual : Nat, reminded : BOOLEAN]
    /\ rollCall.ended # NoTime => rollCall.ended <= hour
    /\ replies \subseteq Member \X (0 .. hour)
    /\ present \in [Member -> Date] /\ since \in [Member -> Date]
    /\ clerks \in [Clerk -> Clerks]
    /\ orders \in 0 .. MaxOrders /\ jostled \in BOOLEAN

\* Who is recorded has replied, first of all in the window they were recorded in.
RecordsAreReplies ==
    /\ \A m \in Member : present[m] # NoTime => <<m, present[m]>> \in replies /\ since[m] \in Nat
    /\ FirstReplyCounts
    /\ IsFiniteSet(Recorded)

\* What a parse has still to look up, the reply it is inserting included.
Pending(d) == d.todo \cup {r \in {d.reply} : d.pc = "insert"}

\* A reply of the window is pending, its person is recorded, or it is later than what is pending.
Seeks(d) ==
    /\ d.todo \subseteq replies /\ d.reply \in replies \cup {NoReply}
    /\ d.pc = "messages" => d.from \in Nat /\ d.to \in 0 .. hour
    /\ d.pc \in {"look", "insert"} =>
          /\ d.from \in Nat
          /\ \A q \in replies : q[2] >= d.from =>
                \/ q \in Pending(d)
                \/ present[q[1]] # NoTime
                \/ \A r \in Pending(d) : r[2] <= q[2]
    /\ d.pc = "insert" => d.reply \in replies /\ \A q \in d.todo : d.reply[2] <= q[2]

\* Counts are of records, and none has changed since while requests do not overlap.
CountsAreRecords ==
    /\ rollCall.actual <= Cardinality(Recorded)
    /\ \A c \in Clerk : clerks[c].count <= Cardinality(Recorded)
    /\ ~jostled =>
          /\ \A c, d \in Clerk : clerks[c].pc # "idle" /\ clerks[d].pc # "idle" => c = d
          /\ \A c \in Clerk : clerks[c].pc \in {"close", "write"} => clerks[c].count = Cardinality(Recorded)
          /\ \A c \in Clerk : clerks[c].pc = "insert" => present[clerks[c].reply[1]] = NoTime
          /\ (\A c \in Clerk : clerks[c].pc = "idle") => rollCall.actual = Cardinality(Recorded)

AttendInv ==
    /\ AttendHasFields /\ RecordsAreReplies /\ CountsAreRecords
    /\ \A c \in Clerk : Seeks(clerks[c])

\* Who is recorded stays so, and they are one more when they were not.
LEMMA OneMoreRecorded ==
  ASSUME NEW m \in Member, NEW at \in Nat, present \in [Member -> Date], present[m] = NoTime,
         IsFiniteSet(Recorded), present' = [present EXCEPT ![m] = at]
  PROVE  /\ IsFiniteSet(Recorded') /\ Cardinality(Recorded') = Cardinality(Recorded) + 1
         /\ Cardinality(Recorded) \in Nat
  <1>1. Recorded' = Recorded \cup {m} /\ m \notin Recorded
    BY AttendanceAssumption DEF Recorded, Date
  <1> QED
    BY <1>1, FS_AddElement, FS_CardinalityType

\* What holds of a request still does when records stay and replies only come.
LEMMA StillSeeks ==
  ASSUME AttendHasFields, AttendHasFields', NEW c \in Clerk, Seeks(clerks[c]), clerks'[c] = clerks[c],
         replies \subseteq replies', hour <= hour',
         \A q \in replies' \ replies : q[2] = hour,
         \A m \in Member : present[m] # NoTime => present'[m] # NoTime
  PROVE  Seeks(clerks[c])'
  <1> DEFINE d == clerks[c]
  <1>1. d \in Clerks /\ hour \in Nat /\ hour' \in Nat /\ replies \subseteq Member \X (0 .. hour)
    BY AttendanceAssumption DEF AttendHasFields
  <1>2. d.todo \subseteq replies /\ d.reply \in replies \cup {NoReply}
    BY DEF Seeks
  <1>3. d.pc \in {"look", "insert"} => Pending(d) \subseteq replies
    BY DEF Seeks, Pending
  <1>4. d.pc \in {"look", "insert"} =>
          \A q \in replies' : q[2] >= d.from =>
                \/ q \in Pending(d)
                \/ present'[q[1]] # NoTime
                \/ \A r \in Pending(d) : r[2] <= q[2]
    <2> SUFFICES ASSUME d.pc \in {"look", "insert"}, NEW q \in replies', q[2] >= d.from
                 PROVE  \/ q \in Pending(d)
                        \/ present'[q[1]] # NoTime
                        \/ \A r \in Pending(d) : r[2] <= q[2]
      OBVIOUS
    <2>1. CASE q \in replies
      <3>1. q[1] \in Member
        BY <1>1, <2>1
      <3> QED
        BY <2>1, <3>1 DEF Seeks
    <2>2. CASE q \notin replies
      <3>1. \A r \in Pending(d) : r[2] <= hour
        BY <1>1, <1>3
      <3> QED
        BY <2>2, <3>1
    <2> QED
      BY <2>1, <2>2
  <1>5. d.pc = "messages" => d.from \in Nat /\ d.to \in 0 .. hour'
    BY <1>1 DEF Seeks
  <1>6. /\ d.pc \in {"look", "insert"} => d.from \in Nat
        /\ d.pc = "insert" => d.reply \in replies /\ \A q \in d.todo : d.reply[2] <= q[2]
    BY DEF Seeks
  <1> HIDE DEF d
  <1>7. clerks'[c] = d /\ d.todo \subseteq replies' /\ d.reply \in replies' \cup {NoReply}
    BY <1>2 DEF d
  <1> QED
    BY <1>4, <1>5, <1>6, <1>7 DEF Seeks

\* The invariant holds at first.
LEMMA AttendInitially ==
  ASSUME AttendInit
  PROVE  AttendInv
  <1> USE AttendanceAssumption
  <1>1. AttendHasFields
    <2>1. AtDesk \in Clerks
      BY DEF AtDesk, Clerks, Date
    <2>2. /\ rollCall \in [status : Sessions, scheduled : Date, started : Date, ended : Date,
                           actual : Nat, reminded : BOOLEAN]
          /\ rollCall.ended = NoTime
      BY DEF AttendInit, Date, Sessions
    <2>3. NoTime \in Date
      BY DEF Date
    <2>4. /\ hour = 0 /\ replies = {} /\ orders = 0 /\ jostled = FALSE
          /\ present = [m \in Member |-> NoTime] /\ since = [m \in Member |-> NoTime]
          /\ clerks = [c \in Clerk |-> AtDesk]
      BY DEF AttendInit
    <2>5. present \in [Member -> Date] /\ since \in [Member -> Date] /\ clerks \in [Clerk -> Clerks]
      BY <2>1, <2>3, <2>4
    <2>6. hour \in 0 .. MaxHour /\ orders \in 0 .. MaxOrders /\ jostled \in BOOLEAN
      <3>1. 0 \in 0 .. MaxHour /\ 0 \in 0 .. MaxOrders
        OBVIOUS
      <3> QED
        BY <2>4, <3>1, Zenon
    <2>7. (rollCall.ended # NoTime => rollCall.ended <= hour) /\ replies \subseteq Member \X (0 .. hour)
      BY <2>2, <2>4
    <2> QED
      BY <2>2, <2>5, <2>6, <2>7, Zenon DEF AttendHasFields
  <1>2. Recorded = {} /\ IsFiniteSet(Recorded) /\ Cardinality(Recorded) = 0
    BY FS_EmptySet DEF AttendInit, Recorded
  <1>3. \A c \in Clerk : clerks[c] = AtDesk
    BY DEF AttendInit
  <1> QED
    BY <1>1, <1>2, <1>3 DEF AttendInv, RecordsAreReplies, FirstReplyCounts, CountsAreRecords, Seeks, AtDesk, AttendInit

\* Each step keeps it.
LEMMA AttendSteps ==
  ASSUME AttendInv, [AttendNext]_attendVars
  PROVE  AttendInv'
  <1> USE AttendanceAssumption
  <1>1. AttendHasFields /\ RecordsAreReplies /\ CountsAreRecords /\ \A c \in Clerk : Seeks(clerks[c])
    BY DEF AttendInv
  <1>2. /\ hour \in 0 .. MaxHour /\ hour \in Nat
        /\ rollCall \in [status : Sessions, scheduled : Date, started : Date, ended : Date,
                         actual : Nat, reminded : BOOLEAN]
        /\ rollCall.ended # NoTime => rollCall.ended <= hour
        /\ replies \subseteq Member \X (0 .. hour)
        /\ present \in [Member -> Date] /\ since \in [Member -> Date]
        /\ clerks \in [Clerk -> Clerks]
        /\ orders \in 0 .. MaxOrders /\ jostled \in BOOLEAN
    BY <1>1 DEF AttendHasFields
  <1>3. IsFiniteSet(Recorded) /\ Cardinality(Recorded) \in Nat
    BY <1>1, FS_CardinalityType DEF RecordsAreReplies
  <1>4. AtDesk \in Clerks /\ AtDesk.pc = "idle" /\ AtDesk.count = 0 /\ AtDesk.todo = {} /\ AtDesk.reply = NoReply
    BY DEF AtDesk, Clerks, Date
  \* A step that leaves the records keeps what is said of them.
  <1>5. UNCHANGED <<replies, present, since>> => RecordsAreReplies' /\ Recorded' = Recorded
    BY <1>1 DEF RecordsAreReplies, FirstReplyCounts, Recorded
  <1>6. ASSUME NEW c \in Clerk, clerks'[c] = clerks[c], AttendHasFields',
               replies \subseteq replies', hour <= hour', \A q \in replies' \ replies : q[2] = hour,
               \A m \in Member : present[m] # NoTime => present'[m] # NoTime
        PROVE  Seeks(clerks[c])'
    BY <1>1, <1>6, StillSeeks
  <1>7. CASE UNCHANGED attendVars
    <2>1. AttendHasFields'
      BY <1>1, <1>7 DEF attendVars, AttendHasFields
    <2>2. CountsAreRecords'
      BY <1>1, <1>7 DEF attendVars, CountsAreRecords, Recorded
    <2>3. \A c \in Clerk : Seeks(clerks[c])'
      BY <1>1, <1>7 DEF attendVars, Seeks, Pending
    <2> QED
      BY <1>5, <1>7, <2>1, <2>2, <2>3 DEF attendVars, AttendInv
  <1>8. ASSUME NEW entry \in [status : Sessions, scheduled : Date, started : Date, ended : Date,
                              actual : Nat, reminded : BOOLEAN],
               entry.ended = rollCall.ended, entry.actual = rollCall.actual, Rewrite(entry)
        PROVE  AttendInv'
    <2>1. /\ rollCall' = entry /\ orders' \in 0 .. MaxOrders
          /\ UNCHANGED <<hour, replies, present, clerks, since, jostled>>
      BY <1>2, <1>8 DEF Rewrite, Order
    <2>2. AttendHasFields'
      BY <1>2, <1>8, <2>1 DEF AttendHasFields
    <2>3. CountsAreRecords'
      BY <1>1, <1>8, <2>1 DEF CountsAreRecords, Recorded
    <2>4. \A c \in Clerk : Seeks(clerks[c])'
      BY <1>1, <2>1 DEF Seeks, Pending
    <2> QED
      BY <1>5, <2>1, <2>2, <2>3, <2>4 DEF AttendInv
  <1>9. CASE startSession \/ cancelSession \/ updateSession \/ sendReminder
    <2> DEFINE R == [status : Sessions, scheduled : Date, started : Date, ended : Date,
                     actual : Nat, reminded : BOOLEAN]
    <2>1. hour \in Date /\ {"active", "cancelled"} \subseteq Sessions
      BY <1>2 DEF Date, Sessions
    <2>2. PICK entry \in R : entry.ended = rollCall.ended /\ entry.actual = rollCall.actual /\ Rewrite(entry)
      <3>1. CASE startSession
        <4>1. /\ [rollCall EXCEPT !.status = "active", !.started = hour] \in R
              /\ [rollCall EXCEPT !.status = "active", !.started = hour].ended = rollCall.ended
              /\ [rollCall EXCEPT !.status = "active", !.started = hour].actual = rollCall.actual
          BY <1>2, <2>1
        <4> QED
          BY <3>1, <4>1 DEF startSession
      <3>2. ASSUME Rewrite([rollCall EXCEPT !.status = "cancelled"])
            PROVE  \E entry \in R : entry.ended = rollCall.ended /\ entry.actual = rollCall.actual /\ Rewrite(entry)
        <4>1. /\ [rollCall EXCEPT !.status = "cancelled"] \in R
              /\ [rollCall EXCEPT !.status = "cancelled"].ended = rollCall.ended
              /\ [rollCall EXCEPT !.status = "cancelled"].actual = rollCall.actual
          BY <1>2, <2>1
        <4> QED
          BY <3>2, <4>1
      <3>3. ASSUME Rewrite([rollCall EXCEPT !.scheduled = hour])
            PROVE  \E entry \in R : entry.ended = rollCall.ended /\ entry.actual = rollCall.actual /\ Rewrite(entry)
        <4>1. /\ [rollCall EXCEPT !.scheduled = hour] \in R
              /\ [rollCall EXCEPT !.scheduled = hour].ended = rollCall.ended
              /\ [rollCall EXCEPT !.scheduled = hour].actual = rollCall.actual
          BY <1>2, <2>1
        <4> QED
          BY <3>3, <4>1
      <3>4. CASE sendReminder
        <4>1. /\ [rollCall EXCEPT !.reminded = TRUE] \in R
              /\ [rollCall EXCEPT !.reminded = TRUE].ended = rollCall.ended
              /\ [rollCall EXCEPT !.reminded = TRUE].actual = rollCall.actual
          BY <1>2
        <4> QED
          BY <3>4, <4>1 DEF sendReminder
      <3> QED
        BY <1>9, <3>1, <3>2, <3>3, <3>4 DEF cancelSession, updateSession
    <2> QED
      BY <1>8, <2>2
  \* A step of one request that leaves the records and the group.
  <1>10. ASSUME NEW c \in Clerk, NEW d \in Clerks, clerks' = [clerks EXCEPT ![c] = d],
                UNCHANGED <<hour, replies, present, since>>,
                rollCall' \in [status : Sessions, scheduled : Date, started : Date, ended : Date,
                               actual : Nat, reminded : BOOLEAN],
                rollCall'.ended # NoTime => rollCall'.ended <= hour,
                orders' \in 0 .. MaxOrders, jostled' \in BOOLEAN, Seeks(d), CountsAreRecords'
         PROVE  AttendInv'
    <2>1. clerks' \in [Clerk -> Clerks] /\ clerks'[c] = d /\ \A e \in Clerk : e # c => clerks'[e] = clerks[e]
      BY <1>2, <1>10
    <2>2. AttendHasFields'
      BY <1>2, <1>10, <2>1 DEF AttendHasFields
    <2>3. ASSUME NEW e \in Clerk
          PROVE  Seeks(clerks[e])'
      <3>1. CASE e # c
        BY <1>1, <1>2, <1>6, <1>10, <2>1, <2>2, <3>1
      <3>2. CASE e = c
        BY <1>10, <2>1, <3>2 DEF Seeks
      <3> QED
        BY <3>1, <3>2
    <2> QED
      BY <1>5, <1>10, <2>2, <2>3 DEF AttendInv
  \* What a request at its desk seeks.
  <1>11. Seeks(AtDesk)
    BY <1>4 DEF Seeks
  <1>12. ASSUME NEW c \in Clerk, closeSession(c) \/ ParseCounts(c)
         PROVE  AttendInv'
    <2> DEFINE n == Cardinality(Recorded)
               d == clerks[c]
    <2>1. d \in Clerks /\ Seeks(d) /\ d.count <= n /\ d.count \in Nat
      BY <1>1, <1>2 DEF CountsAreRecords, Clerks
    <2>2. CASE /\ Begins(c) /\ Order /\ clerks' = [clerks EXCEPT ![c].pc = "close", ![c].count = n]
               /\ UNCHANGED <<hour, rollCall, replies, present, since>>
      <3> DEFINE e == [d EXCEPT !.pc = "close", !.count = n]
      <3>1. e \in Clerks /\ e.pc = "close" /\ e.count = n /\ e.todo = d.todo /\ e.reply = d.reply
        BY <1>3, <2>1 DEF Clerks
      <3>2. clerks' = [clerks EXCEPT ![c] = e]
        BY <1>2, <2>2
      <3> HIDE DEF e
      <3>3. clerks'[c] = e /\ \A b \in Clerk : b # c => clerks'[b] = clerks[b]
        BY <1>2, <3>1, <3>2
      <3>4. /\ jostled' = (jostled \/ \E b \in Clerk : clerks[b].pc # "idle") /\ orders' \in 0 .. MaxOrders
            /\ jostled' \in BOOLEAN
        BY <1>2, <2>2 DEF Begins, Order
      <3>5. Seeks(e)
        BY <2>1, <3>1 DEF Seeks
      <3>6. CountsAreRecords'
        <4>1. Recorded' = Recorded
          BY <1>5, <2>2
        <4>2. ~jostled' => \A b \in Clerk : b # c => clerks'[b].pc = "idle"
          BY <3>3, <3>4
        <4>3. \A b \in Clerk : clerks'[b].count <= n
          BY <1>1, <1>3, <3>1, <3>3 DEF CountsAreRecords
        <4> QED
          BY <1>1, <2>2, <3>1, <3>3, <4>1, <4>2, <4>3 DEF CountsAreRecords
      <3> QED
        BY <1>2, <1>10, <2>2, <3>1, <3>2, <3>4, <3>5, <3>6
    <2>3. CASE /\ d.pc = "close"
               /\ rollCall' = [rollCall EXCEPT !.status = "closed", !.ended = hour, !.actual = d.count]
               /\ ClerkLeaves(c) /\ Standing /\ UNCHANGED <<present, orders, since, jostled>>
      <3>1. clerks' = [clerks EXCEPT ![c] = AtDesk] /\ UNCHANGED <<hour, replies, present, since, jostled, orders>>
        BY <2>3 DEF ClerkLeaves, Standing
      <3>2. /\ rollCall' \in [status : Sessions, scheduled : Date, started : Date, ended : Date,
                              actual : Nat, reminded : BOOLEAN]
            /\ rollCall'.ended = hour /\ rollCall'.actual = d.count
        <4>1. hour \in Date /\ "closed" \in Sessions
          BY <1>2 DEF Date, Sessions
        <4> QED
          BY <1>2, <2>1, <2>3, <4>1
      <3>3. clerks'[c] = AtDesk /\ \A b \in Clerk : b # c => clerks'[b] = clerks[b]
        BY <1>2, <3>1
      <3>4. CountsAreRecords'
        <4>1. Recorded' = Recorded
          BY <1>5, <3>1
        <4> QED
          BY <1>1, <1>3, <1>4, <2>1, <2>3, <3>1, <3>2, <3>3, <4>1 DEF CountsAreRecords
      <3>5. rollCall'.ended <= hour /\ orders' \in 0 .. MaxOrders /\ jostled' \in BOOLEAN
        BY <1>2, <3>1, <3>2
      <3> QED
        BY <1>4, <1>10, <1>11, <3>1, <3>2, <3>4, <3>5
    <2>4. CASE /\ d.pc = "count"
               /\ clerks' = [clerks EXCEPT ![c].pc = "write", ![c].from = NoTime, ![c].count = n]
               /\ Standing /\ UNCHANGED <<rollCall, present, orders, since, jostled>>
      <3> DEFINE e == [d EXCEPT !.pc = "write", !.from = NoTime, !.count = n]
      <3>1. e \in Clerks /\ e.pc = "write" /\ e.count = n /\ e.todo = d.todo /\ e.reply = d.reply
        BY <1>3, <2>1 DEF Clerks, Date
      <3>2. clerks' = [clerks EXCEPT ![c] = e] /\ UNCHANGED <<hour, rollCall, replies, present, since, jostled, orders>>
        BY <1>2, <2>4 DEF Standing
      <3> HIDE DEF e
      <3>3. clerks'[c] = e /\ \A b \in Clerk : b # c => clerks'[b] = clerks[b]
        BY <1>2, <3>1, <3>2
      <3>4. Seeks(e)
        BY <2>1, <3>1 DEF Seeks
      <3>5. CountsAreRecords'
        <4>1. Recorded' = Recorded
          BY <1>5, <3>2
        <4>2. \A b \in Clerk : clerks'[b].count <= n
          BY <1>1, <1>3, <3>1, <3>3 DEF CountsAreRecords
        <4>3. \A b \in Clerk : clerks'[b].pc = "idle" <=> clerks[b].pc = "idle"
          BY <2>4, <3>1, <3>3
        <4> QED
          BY <1>1, <3>1, <3>2, <3>3, <4>1, <4>2, <4>3 DEF CountsAreRecords
      <3> QED
        BY <1>2, <1>10, <3>1, <3>2, <3>4, <3>5
    <2>5. CASE /\ d.pc = "write" /\ rollCall' = [rollCall EXCEPT !.actual = d.count]
               /\ ClerkLeaves(c) /\ Standing /\ UNCHANGED <<present, orders, since, jostled>>
      <3>1. clerks' = [clerks EXCEPT ![c] = AtDesk] /\ UNCHANGED <<hour, replies, present, since, jostled, orders>>
        BY <2>5 DEF ClerkLeaves, Standing
      <3>2. /\ rollCall' \in [status : Sessions, scheduled : Date, started : Date, ended : Date,
                              actual : Nat, reminded : BOOLEAN]
            /\ rollCall'.ended = rollCall.ended /\ rollCall'.actual = d.count
        BY <1>2, <2>1, <2>5
      <3>3. clerks'[c] = AtDesk /\ \A b \in Clerk : b # c => clerks'[b] = clerks[b]
        BY <1>2, <3>1
      <3>4. CountsAreRecords'
        <4>1. Recorded' = Recorded
          BY <1>5, <3>1
        <4> QED
          BY <1>1, <1>3, <1>4, <2>1, <2>5, <3>1, <3>2, <3>3, <4>1 DEF CountsAreRecords
      <3> QED
        BY <1>2, <1>4, <1>10, <1>11, <3>1, <3>2, <3>4
    <2> QED
      BY <1>12, <2>2, <2>3, <2>4, <2>5 DEF closeSession, ParseCounts
  <1>13. ASSUME NEW c \in Clerk, ParseBegins(c) \/ ParseReads(c) \/ ParseLooks(c)
         PROVE  AttendInv'
    <2> DEFINE n == Cardinality(Recorded)
               d == clerks[c]
    <2>1. d \in Clerks /\ Seeks(d) /\ d.count <= n /\ d.count \in Nat /\ d.todo \subseteq replies
      BY <1>1, <1>2 DEF CountsAreRecords, Clerks, Seeks
    \* Its place may change, but not to one with a count.
    <2>2. ASSUME NEW e \in Clerks, clerks' = [clerks EXCEPT ![c] = e], e.count = d.count,
                 e.pc \in {"messages", "look", "insert", "count"},
                 UNCHANGED <<hour, rollCall, replies, present, since, orders>>,
                 \/ d.pc # "idle" /\ jostled' = jostled
                 \/ d.pc = "idle" /\ jostled' = (jostled \/ \E b \in Clerk : clerks[b].pc # "idle"),
                 e.pc = "insert" => present[e.reply[1]] = NoTime, Seeks(e)
          PROVE  AttendInv'
      <3>1. clerks'[c] = e /\ \A b \in Clerk : b # c => clerks'[b] = clerks[b]
        BY <1>2, <2>2
      <3>2. CountsAreRecords'
        <4>1. Recorded' = Recorded
          BY <1>5, <2>2
        <4>2. \A b \in Clerk : clerks'[b].count <= n
          BY <1>1, <2>1, <2>2, <3>1 DEF CountsAreRecords
        <4>3. ~jostled' => ~jostled /\ \A b \in Clerk : b # c => clerks'[b].pc = "idle"
          <5>1. CASE d.pc # "idle" /\ jostled' = jostled
            <6>1. ~jostled => \A b \in Clerk : clerks[b].pc # "idle" => b = c
              BY <1>1, <5>1 DEF CountsAreRecords
            <6> QED
              BY <3>1, <5>1, <6>1
          <5>2. CASE d.pc = "idle" /\ jostled' = (jostled \/ \E b \in Clerk : clerks[b].pc # "idle")
            BY <3>1, <5>2
          <5> QED
            BY <2>2, <5>1, <5>2
        <4>4. ~(\A b \in Clerk : clerks'[b].pc = "idle")
          BY <2>2, <3>1
        <4>5. ASSUME ~jostled'
              PROVE  /\ \A a, b \in Clerk : clerks'[a].pc # "idle" /\ clerks'[b].pc # "idle" => a = b
                     /\ \A b \in Clerk : clerks'[b].pc \in {"close", "write"} => clerks'[b].count = Cardinality(Recorded')
                     /\ \A b \in Clerk : clerks'[b].pc = "insert" => present'[clerks'[b].reply[1]] = NoTime
          BY <2>2, <3>1, <4>3, <4>5
        <4> QED
          BY <1>1, <2>2, <4>1, <4>2, <4>4, <4>5 DEF CountsAreRecords
      <3>3. jostled' \in BOOLEAN
        BY <1>2, <2>2
      <3> QED
        BY <1>2, <1>10, <2>2, <3>2, <3>3
    <2>3. CASE ParseBegins(c)
      <3> DEFINE to == IF rollCall.ended = NoTime THEN hour ELSE rollCall.ended
                 e == [d EXCEPT !.pc = "messages", !.from = WindowStart, !.to = to]
      <3>1. WindowStart \in Nat /\ to \in 0 .. hour /\ to \in Nat
        BY <1>2, <2>3 DEF ParseBegins, WindowStart, Date
      <3> HIDE DEF to
      <3>2. /\ e \in Clerks /\ e.pc = "messages" /\ e.count = d.count /\ e.from \in Nat /\ e.to \in 0 .. hour
            /\ e.todo = d.todo /\ e.reply = d.reply
        BY <2>1, <3>1 DEF Clerks, Date
      <3>3. /\ clerks' = [clerks EXCEPT ![c] = e] /\ UNCHANGED <<hour, rollCall, replies, present, since, orders>>
            /\ d.pc = "idle" /\ jostled' = (jostled \/ \E b \in Clerk : clerks[b].pc # "idle")
        BY <1>2, <2>3 DEF ParseBegins, Begins, Standing, to
      <3> HIDE DEF e
      <3>4. Seeks(e)
        BY <2>1, <3>2 DEF Seeks
      <3> QED
        BY <2>2, <3>2, <3>3, <3>4
    <2>4. CASE ParseReads(c)
      <3> DEFINE due == {r \in replies : r[2] >= d.from /\ r[2] <= d.to}
                 e == [d EXCEPT !.pc = "look", !.to = NoTime, !.todo = due]
      <3>1. d.pc = "messages" /\ d.from \in Nat /\ d.to \in 0 .. hour
        BY <2>1, <2>4 DEF ParseReads, Seeks
      <3>2. /\ e \in Clerks /\ e.pc = "look" /\ e.count = d.count /\ e.from = d.from /\ e.todo = due
            /\ e.reply = d.reply
        <4>1. due \in SUBSET (Member \X Nat)
          BY <1>2
        <4> HIDE DEF due
        <4> QED
          BY <2>1, <4>1 DEF Clerks, Date
      <3>3. /\ clerks' = [clerks EXCEPT ![c] = e]
            /\ UNCHANGED <<hour, rollCall, replies, present, since, orders, jostled>>
        BY <1>2, <2>4 DEF ParseReads, Standing
      <3> HIDE DEF e
      <3>4. Pending(e) = due
        BY <3>2 DEF Pending
      <3>5. \A q \in replies : q[2] >= e.from => q \in due \/ \A r \in due : r[2] <= q[2]
        <4> SUFFICES ASSUME NEW q \in replies, q[2] >= e.from, q \notin due, NEW r \in due
                     PROVE  r[2] <= q[2]
          OBVIOUS
        <4>1. q[2] \in Nat /\ r[2] \in Nat /\ r[2] <= d.to /\ d.to \in Nat
          BY <1>2, <3>1
        <4>2. ~(q[2] <= d.to)
          BY <3>2
        <4> QED
          BY <4>1, <4>2
      <3>6. Seeks(e)
        BY <2>1, <3>1, <3>2, <3>4, <3>5 DEF Seeks
      <3> QED
        BY <2>2, <3>1, <3>2, <3>3, <3>6
    <2>5. CASE ParseLooks(c)
      <3>1. /\ d.pc = "look" /\ d.from \in Nat
            /\ \A q \in replies : q[2] >= d.from =>
                  q \in d.todo \/ present[q[1]] # NoTime \/ \A r \in d.todo : r[2] <= q[2]
            /\ UNCHANGED <<hour, rollCall, replies, present, since, orders, jostled>>
        BY <2>1, <2>5 DEF ParseLooks, Seeks, Pending, Standing
      <3>2. CASE d.todo = {}
        <4> DEFINE e == [d EXCEPT !.pc = "count"]
        <4>1. e \in Clerks /\ e.pc = "count" /\ e.count = d.count /\ e.todo = d.todo /\ e.reply = d.reply
          BY <2>1 DEF Clerks
        <4>2. clerks' = [clerks EXCEPT ![c] = e]
          BY <1>2, <2>5, <3>2 DEF ParseLooks
        <4> HIDE DEF e
        <4>3. Seeks(e)
          BY <2>1, <4>1 DEF Seeks
        <4> QED
          BY <2>2, <3>1, <4>1, <4>2, <4>3
      <3>3. CASE d.todo # {}
        <4>1. PICK r \in d.todo :
                 /\ InOrder(r, d.todo)
                 /\ clerks' = IF present[r[1]] # NoTime
                              THEN [clerks EXCEPT ![c].todo = d.todo \ {r}]
                              ELSE [clerks EXCEPT ![c].pc = "insert", ![c].todo = d.todo \ {r}, ![c].reply = r]
          BY <2>5, <3>3 DEF ParseLooks
        <4>2. /\ r \in replies /\ r \in Member \X Nat /\ d.todo \ {r} \in SUBSET (Member \X Nat)
              /\ \A q \in d.todo : r[2] <= q[2]
          BY <1>2, <2>1, <4>1 DEF InOrder
        <4>3. CASE present[r[1]] # NoTime
          <5> DEFINE e == [d EXCEPT !.todo = d.todo \ {r}]
          <5>1. /\ e \in Clerks /\ e.pc = "look" /\ e.count = d.count /\ e.from = d.from /\ e.todo = d.todo \ {r}
                /\ e.reply = d.reply
            BY <2>1, <3>1, <4>2 DEF Clerks
          <5>2. clerks' = [clerks EXCEPT ![c] = e]
            BY <1>2, <4>1, <4>3
          <5> HIDE DEF e
          <5>3. Pending(e) = d.todo \ {r}
            BY <5>1 DEF Pending
          <5>4. \A q \in replies : q[2] >= d.from =>
                   \/ q \in Pending(e)
                   \/ present[q[1]] # NoTime
                   \/ \A p \in Pending(e) : p[2] <= q[2]
            BY <3>1, <4>3, <5>3
          <5>5. Seeks(e)
            BY <2>1, <3>1, <5>1, <5>4 DEF Seeks
          <5> QED
            BY <2>2, <3>1, <5>1, <5>2, <5>5
        <4>4. CASE present[r[1]] = NoTime
          <5> DEFINE e == [d EXCEPT !.pc = "insert", !.todo = d.todo \ {r}, !.reply = r]
          <5>1. /\ e \in Clerks /\ e.pc = "insert" /\ e.count = d.count /\ e.from = d.from /\ e.todo = d.todo \ {r}
                /\ e.reply = r
            BY <2>1, <3>1, <4>2 DEF Clerks
          <5>2. clerks' = [clerks EXCEPT ![c] = e]
            BY <1>2, <4>1, <4>4
          <5> HIDE DEF e
          <5>3. Pending(e) = d.todo
            BY <4>1, <5>1 DEF Pending
          <5>4. Seeks(e)
            BY <2>1, <3>1, <4>2, <5>1, <5>3 DEF Seeks
          <5> QED
            BY <2>2, <3>1, <4>4, <5>1, <5>2, <5>4
        <4> QED
          BY <4>3, <4>4
      <3> QED
        BY <3>2, <3>3
    <2> QED
      BY <1>13, <2>3, <2>4, <2>5
  <1>14. ASSUME NEW c \in Clerk, ParseInserts(c)
         PROVE  AttendInv'
    <2> DEFINE n == Cardinality(Recorded)
               d == clerks[c]
               r == d.reply
    <2>1. /\ d \in Clerks /\ Seeks(d) /\ d.pc = "insert" /\ d.count <= n /\ d.count \in Nat
          /\ d.todo \subseteq replies /\ r \in replies /\ d.from \in Nat
          /\ r \in Member \X Nat /\ r[1] \in Member /\ r[2] \in Nat /\ r = <<r[1], r[2]>>
          /\ r[2] <= hour
          /\ UNCHANGED <<hour, replies, rollCall, orders, jostled>>
      <3>1. d \in Clerks /\ Seeks(d) /\ d.pc = "insert" /\ d.count <= n
        BY <1>1, <1>2, <1>14 DEF ParseInserts, CountsAreRecords
      <3>2. r \in replies /\ d.from \in Nat /\ d.todo \subseteq replies /\ d.count \in Nat
        BY <3>1 DEF Seeks, Clerks
      <3>3. r \in Member \X (0 .. hour)
        BY <1>2, <3>2
      <3> QED
        BY <1>2, <1>14, <3>1, <3>2, <3>3 DEF ParseInserts, Standing
    <2>2. CASE present[r[1]] # NoTime
      <3>1. clerks' = [clerks EXCEPT ![c] = AtDesk] /\ UNCHANGED <<present, since>>
        BY <1>14, <2>2 DEF ParseInserts, ClerkLeaves
      <3>2. clerks'[c] = AtDesk /\ \A b \in Clerk : b # c => clerks'[b] = clerks[b]
        BY <1>2, <3>1
      <3>3. jostled
        BY <1>1, <2>1, <2>2 DEF CountsAreRecords
      <3>4. CountsAreRecords'
        <4>1. Recorded' = Recorded
          BY <1>5, <2>1, <3>1
        <4>2. \A b \in Clerk : clerks'[b].count <= n
          BY <1>1, <1>3, <1>4, <3>2 DEF CountsAreRecords
        <4> QED
          BY <1>1, <2>1, <3>3, <4>1, <4>2 DEF CountsAreRecords
      <3> QED
        BY <1>2, <1>4, <1>10, <1>11, <2>1, <3>1, <3>4
    <2>3. CASE present[r[1]] = NoTime
      <3> DEFINE e == [d EXCEPT !.pc = "look", !.reply = NoReply]
                 m == r[1]
                 at == r[2]
      <3>1. /\ e \in Clerks /\ e.pc = "look" /\ e.reply = NoReply /\ e.from = d.from /\ e.todo = d.todo
            /\ e.count = d.count
        BY <2>1 DEF Clerks
      <3>2. /\ present' = [present EXCEPT ![m] = at] /\ since' = [since EXCEPT ![m] = d.from]
            /\ clerks' = [clerks EXCEPT ![c] = e]
        BY <1>2, <1>14, <2>3 DEF ParseInserts
      <3> HIDE DEF e
      <3>3. clerks'[c] = e /\ \A b \in Clerk : b # c => clerks'[b] = clerks[b]
        BY <1>2, <3>1, <3>2
      <3>4. /\ present' \in [Member -> Date] /\ since' \in [Member -> Date]
            /\ present'[m] = at /\ since'[m] = d.from /\ at # NoTime
            /\ \A b \in Member : b # m => present'[b] = present[b] /\ since'[b] = since[b]
        BY <1>2, <2>1, <3>2 DEF Date
      <3>5. AttendHasFields'
        BY <1>2, <2>1, <3>1, <3>2, <3>4 DEF AttendHasFields
      <3>6. IsFiniteSet(Recorded') /\ Cardinality(Recorded') = n + 1
        BY <1>2, <1>3, <2>1, <2>3, <3>2, OneMoreRecorded
      \* The reply inserted is the first of its window.
      <3>7. ASSUME NEW q \in replies, q[1] = m, q[2] >= d.from
            PROVE  q[2] >= at
        <4>1. \/ q \in Pending(d)
              \/ \A p \in Pending(d) : p[2] <= q[2]
          BY <2>1, <2>3, <3>7 DEF Seeks
        <4>2. r \in Pending(d) /\ \A p \in Pending(d) : p = r \/ p \in d.todo
          BY <2>1 DEF Pending
        <4>3. q \in d.todo => at <= q[2]
          BY <2>1 DEF Seeks
        <4>4. q[2] \in Nat
          BY <1>2, <3>7
        <4>5. at <= q[2]
          BY <2>1, <4>1, <4>2, <4>3, <4>4
        <4> QED
          BY <2>1, <4>4, <4>5
      <3>8. RecordsAreReplies'
        <4>1. ASSUME NEW b \in Member, present'[b] # NoTime
              PROVE  <<b, present'[b]>> \in replies' /\ since'[b] \in Nat
          <5>1. CASE b = m
            BY <2>1, <3>4, <5>1
          <5>2. CASE b # m
            BY <1>1, <2>1, <3>4, <4>1, <5>2 DEF RecordsAreReplies
          <5> QED
            BY <5>1, <5>2
        <4>2. ASSUME NEW q \in replies', present'[q[1]] # NoTime, q[2] >= since'[q[1]]
              PROVE  q[2] >= present'[q[1]]
          <5>1. q \in replies /\ q[1] \in Member
            BY <1>2, <2>1
          <5>2. CASE q[1] = m
            BY <3>4, <3>7, <4>2, <5>1, <5>2
          <5>3. CASE q[1] # m
            BY <1>1, <3>4, <4>2, <5>1, <5>3 DEF RecordsAreReplies, FirstReplyCounts
          <5> QED
            BY <5>2, <5>3
        <4> QED
          BY <3>6, <4>1, <4>2 DEF RecordsAreReplies, FirstReplyCounts
      <3>9. CountsAreRecords'
        <4>1. rollCall'.actual <= n + 1 /\ \A b \in Clerk : clerks'[b].count <= n + 1
          <5>1. rollCall.actual <= n /\ rollCall.actual \in Nat
            BY <1>1, <1>2 DEF CountsAreRecords
          <5>2. ASSUME NEW b \in Clerk
                PROVE  clerks'[b].count <= n + 1
            <6>1. clerks[b].count <= n /\ clerks[b].count \in Nat /\ clerks'[b].count = clerks[b].count
              BY <1>1, <1>2, <3>1, <3>3 DEF CountsAreRecords, Clerks
            <6> QED
              BY <1>3, <6>1
          <5> QED
            BY <1>3, <2>1, <5>1, <5>2
        <4>2. ASSUME ~jostled
              PROVE  \A b \in Clerk : b # c => clerks'[b].pc = "idle"
          BY <1>1, <2>1, <3>3, <4>2 DEF CountsAreRecords
        <4> QED
          BY <2>1, <3>1, <3>3, <3>6, <4>1, <4>2 DEF CountsAreRecords
      <3>10. ASSUME NEW b \in Clerk
             PROVE  Seeks(clerks[b])'
        <4>1. CASE b # c
          <5>1. \A a \in Member : present[a] # NoTime => present'[a] # NoTime
            BY <3>4
          <5> QED
            BY <1>2, <1>6, <2>1, <3>3, <3>5, <4>1, <5>1
        <4>2. CASE b = c
          <5>1. Pending(e) = d.todo
            BY <3>1 DEF Pending
          <5>2. ASSUME NEW q \in replies, q[2] >= d.from
                PROVE  q \in d.todo \/ present'[q[1]] # NoTime \/ \A p \in d.todo : p[2] <= q[2]
            <6>1. \/ q \in Pending(d)
                  \/ present[q[1]] # NoTime
                  \/ \A p \in Pending(d) : p[2] <= q[2]
              BY <2>1, <5>2 DEF Seeks
            <6>2. Pending(d) = d.todo \cup {r} /\ q[1] \in Member
              BY <1>2, <2>1 DEF Pending
            <6> QED
              BY <3>4, <6>1, <6>2
          <5> QED
            BY <2>1, <3>1, <3>3, <4>2, <5>1, <5>2 DEF Seeks
        <4> QED
          BY <4>1, <4>2
      <3> QED
        BY <3>5, <3>8, <3>9, <3>10 DEF AttendInv
    <2> QED
      BY <2>2, <2>3
  <1>15. ASSUME NEW c \in Clerk, ClerkFails(c)
         PROVE  AttendInv'
    <2>1. /\ clerks' = [clerks EXCEPT ![c] = AtDesk] /\ jostled' = TRUE
          /\ UNCHANGED <<hour, rollCall, replies, present, orders, since>>
      BY <1>15 DEF ClerkFails, ClerkLeaves
    <2>2. CountsAreRecords'
      <3>1. Recorded' = Recorded
        BY <1>5, <2>1
      <3>2. \A b \in Clerk : clerks'[b] = AtDesk \/ clerks'[b] = clerks[b]
        BY <1>2, <2>1
      <3> QED
        BY <1>1, <1>3, <1>4, <2>1, <3>1, <3>2 DEF CountsAreRecords
    <2> QED
      BY <1>2, <1>4, <1>10, <1>11, <2>1, <2>2
  <1>16. ASSUME NEW m \in Member, Replies(m)
         PROVE  AttendInv'
    <2>1. /\ replies' = replies \cup {<<m, hour>>}
          /\ UNCHANGED <<hour, rollCall, present, clerks, orders, since, jostled>>
      BY <1>16 DEF Replies
    <2>2. AttendHasFields'
      BY <1>2, <2>1 DEF AttendHasFields
    <2>3. RecordsAreReplies'
      <3>1. Recorded' = Recorded
        BY <2>1 DEF Recorded
      <3>2. ASSUME NEW q \in replies', present'[q[1]] # NoTime, q[2] >= since'[q[1]]
            PROVE  q[2] >= present'[q[1]]
        <4>1. CASE q \in replies
          BY <1>1, <2>1, <3>2, <4>1 DEF RecordsAreReplies, FirstReplyCounts
        <4>2. CASE q = <<m, hour>>
          <5>1. <<m, present[m]>> \in replies
            BY <1>1, <2>1, <3>2, <4>2 DEF RecordsAreReplies
          <5>2. present[m] \in 0 .. hour
            BY <1>2, <5>1
          <5> QED
            BY <1>2, <2>1, <4>2, <5>2
        <4> QED
          BY <2>1, <4>1, <4>2
      <3>3. ASSUME NEW b \in Member, present'[b] # NoTime
            PROVE  <<b, present'[b]>> \in replies' /\ since'[b] \in Nat
        BY <1>1, <2>1, <3>3 DEF RecordsAreReplies
      <3> QED
        BY <1>3, <2>1, <3>1, <3>2, <3>3 DEF RecordsAreReplies, FirstReplyCounts
    <2>4. CountsAreRecords'
      BY <1>1, <2>1 DEF CountsAreRecords, Recorded
    <2>5. \A c \in Clerk : Seeks(clerks[c])'
      BY <1>1, <1>2, <1>6, <2>1, <2>2
    <2> QED
      BY <2>2, <2>3, <2>4, <2>5 DEF AttendInv
  <1>17. CASE AttendTick
    <2>1. /\ hour' = hour + 1 /\ hour < MaxHour
          /\ UNCHANGED <<rollCall, replies, present, clerks, orders, since, jostled>>
      BY <1>17 DEF AttendTick
    <2>2. AttendHasFields'
      <3>1. hour' \in 0 .. MaxHour /\ \A n \in 0 .. hour : n \in 0 .. hour'
        BY <1>2, <2>1
      <3>2. replies' \subseteq Member \X (0 .. hour')
        BY <1>2, <2>1, <3>1
      <3>3. rollCall'.ended # NoTime => rollCall'.ended <= hour'
        <4>1. rollCall.ended \in Nat \cup {NoTime}
          BY <1>2 DEF Date
        <4> QED
          BY <1>2, <2>1, <4>1
      <3> QED
        BY <1>2, <2>1, <3>1, <3>2, <3>3 DEF AttendHasFields
    <2>3. RecordsAreReplies' /\ CountsAreRecords'
      BY <1>1, <1>5, <2>1 DEF CountsAreRecords
    <2>4. \A c \in Clerk : Seeks(clerks[c])'
      BY <1>2, <1>6, <2>1, <2>2
    <2> QED
      BY <2>2, <2>3, <2>4 DEF AttendInv
  <1> QED
    BY <1>7, <1>9, <1>12, <1>13, <1>14, <1>15, <1>16, <1>17 DEF AttendNext

\* The inductive invariant of a roll call.
THEOREM AttendInvariant == AttendSpec => []AttendInv
  <1>1. AttendInit => AttendInv
    BY AttendInitially
  <1>2. AttendInv /\ [AttendNext]_attendVars => AttendInv'
    BY AttendSteps
  <1> QED
    BY <1>1, <1>2, PTL DEF AttendSpec

\* What it says of the list and the count.
LEMMA InvariantAddsUp ==
  ASSUME AttendInv
  PROVE  AttendTypeOK /\ AttendanceAddsUp
  <1> USE DEF AttendInv
  <1>1. \A m \in Recorded : <<m, present[m]>> \in replies
    BY DEF RecordsAreReplies, Recorded
  <1>2. FirstReplyCounts
    BY DEF RecordsAreReplies
  <1>3. CountIsRecorded
    BY DEF CountsAreRecords, CountIsRecorded
  <1>4. AttendTypeOK
    <2>1. replies \subseteq Member \X (0 .. MaxHour)
      BY AttendanceAssumption DEF AttendHasFields
    <2>2. ASSUME NEW c \in Clerk
          PROVE  /\ clerks[c].pc \in {"idle", "close", "messages", "look", "insert", "count", "write"}
                 /\ clerks[c].from \in Date /\ clerks[c].to \in Date
                 /\ clerks[c].todo \subseteq replies /\ clerks[c].reply \in replies \cup {NoReply}
                 /\ clerks[c].count \in Nat
      <3>1. clerks[c] \in Clerks /\ Seeks(clerks[c])
        BY DEF AttendHasFields
      <3> QED
        BY <3>1 DEF Clerks, Seeks
    <2> QED
      BY <2>1, <2>2 DEF AttendTypeOK, AttendHasFields
  <1> QED
    BY <1>1, <1>2, <1>3, <1>4 DEF AttendanceAddsUp

-----------------------------------------------------------------------------
(* Traces *)

\* The fields of turns, records and reports.
Turns == {[pc |-> "idle"]} \cup [pc : {"received", "reserved", "drafted", "sent", "done"},
                                 place : Place, text : Wording, since : Nat]
Records == [of : Told, sent : BOOLEAN, place : Place, text : Wording]
Links == [link : {"none", "exact", "best_effort"}, record : Nat]
TraceReports ==
    [pc : {"reply"}, of : Told, complete : BOOLEAN]
    \cup [pc : {"records"}, of : Told, complete : BOOLEAN, reply : {"none", "draft", "marked"}]
    \cup [pc : {"traced"}, of : Told, complete : BOOLEAN, outbound : Links]

TraceHasFields ==
    /\ told \in [Told -> Turns] /\ sentRows \in Seq(Records)
    /\ replyRows \in [Told -> {"none", "draft", "marked"}] /\ replyAt \in [Told -> Nat]
    /\ marking \subseteq Told
    /\ report.pc \in {"idle", "reply", "records", "traced", "replies", "listed"}
    /\ report.pc \in {"reply", "records", "traced"} => report \in TraceReports
    /\ report.pc \in {"replies", "listed"} => report.replies \subseteq Told
    /\ tellFaults \in 0 .. MaxTellFaults

\* What a turn has written tells how far it is.
HasRecord(t) == \E i \in 1 .. Len(sentRows) : sentRows[i].of = t
WasSent(t) == \E i \in 1 .. Len(sentRows) : sentRows[i].of = t /\ sentRows[i].sent
IsMarked(t) == t \in marking \/ replyRows[t] = "marked"

RowsFollowTurns ==
    /\ \A i, j \in 1 .. Len(sentRows) : sentRows[i].of = sentRows[j].of => i = j
    /\ \A i \in 1 .. Len(sentRows) :
          LET row == sentRows[i]
          IN /\ told[row.of].pc \notin {"idle", "received"}
             /\ row.place = told[row.of].place /\ row.text = told[row.of].text
             /\ row.sent => told[row.of].pc = "done"
    /\ \A t \in Told :
          /\ replyAt[t] <= Len(sentRows)
          /\ t \in marking \/ replyRows[t] # "none" => told[t].pc \in {"drafted", "sent", "done"}
          /\ t \in marking => told[t].pc \in {"sent", "done"}
          /\ tellFaults = 0 =>
                /\ told[t].pc \in {"reserved", "drafted", "sent", "done"} => HasRecord(t)
                /\ told[t].pc \in {"drafted", "sent", "done"} => replyRows[t] # "none"
                /\ told[t].pc = "sent" \/ WasSent(t) => IsMarked(t)

\* What a report in progress has read.
ReportKnows ==
    /\ report.pc \in {"reply", "records", "traced"} =>
          told[report.of].pc # "idle" /\ (report.complete => IsDone(report.of))
    /\ report.pc = "records" /\ report.complete /\ tellFaults = 0 /\ WasSent(report.of) => report.reply = "marked"
    /\ report.pc = "traced" /\ report.outbound.link # "none" => report.outbound.record \in 1 .. Len(sentRows)
    /\ report.pc \in {"replies", "listed"} => \A t \in report.replies : replyRows[t] # "none"
    /\ report.pc = "listed" => \A t \in report.replies : report.beside[t] \in 0 .. Len(sentRows)

\* A reply's record is older than its row.
RecordsFirst ==
    tellFaults = 0 =>
        \A t \in Told : replyRows[t] # "none" =>
            \E i \in 1 .. Len(sentRows) : sentRows[i].of = t /\ i <= replyAt[t]

TraceCore == TraceHasFields /\ RowsFollowTurns /\ ReportKnows /\ TracesAreTrue
TraceInv == TraceCore /\ RecordsFirst

\* The smallest of a set of numbers.
LEMMA Smallest ==
  ASSUME NEW S \in SUBSET Nat, S # {}
  PROVE  Min(S) \in S
  <1>1. IsWellFoundedOn({ss \in Nat \X Nat : ss[1] < ss[2]}, Nat)
    BY NatLessThanWellFounded DEF OpToRel
  <1>2. PICK x \in S : \A y \in S : ~(<<y, x>> \in {ss \in Nat \X Nat : ss[1] < ss[2]})
    BY <1>1, WFMin
  <1>3. ASSUME NEW y \in S
        PROVE  x <= y
    <2>1. ~(<<y, x>> \in {ss \in Nat \X Nat : ss[1] < ss[2]})
      BY <1>2
    <2>2. x \in Nat /\ y \in Nat
      OBVIOUS
    <2>3. ~(y < x)
      BY <2>1, <2>2
    <2> QED
      BY <2>2, <2>3
  <1>4. \E z \in S : \A y \in S : z <= y
    BY <1>3
  <1> QED
    BY <1>4 DEF Min

\* Who is in a set of one is all there is in it.
LEMMA Alone ==
  ASSUME NEW S, IsFiniteSet(S), ~(Cardinality(S) > 1), NEW j \in S
  PROVE  S = {j}
  <1>1. /\ IsFiniteSet(S \ {j}) /\ Cardinality(S \ {j}) = Cardinality(S) - 1
        /\ Cardinality(S) \in Nat /\ Cardinality(S \ {j}) \in Nat
    BY FS_RemoveElement, FS_CardinalityType
  <1>2. Cardinality(S \ {j}) = 0
    BY <1>1
  <1>3. S \ {j} = {}
    BY <1>1, <1>2, FS_EmptySet
  <1> QED
    BY <1>3

\* The records as a sequence.
LEMMA RecordFields ==
  ASSUME TraceHasFields
  PROVE  /\ Len(sentRows) \in Nat /\ DOMAIN sentRows = 1 .. Len(sentRows)
         /\ \A i \in 1 .. Len(sentRows) : sentRows[i] \in Records
  BY DEF TraceHasFields

\* What the records of a step keep: those there were stay whose they are, and a new one is of a
\* turn that had none.
RowsGrow ==
    /\ Len(sentRows) <= Len(sentRows')
    /\ \A i \in 1 .. Len(sentRows) :
          /\ sentRows'[i].of = sentRows[i].of /\ sentRows'[i].place = sentRows[i].place
          /\ sentRows'[i].text = sentRows[i].text
          /\ sentRows'[i].sent => sentRows[i].sent \/ told[sentRows[i].of].pc # "done"
    /\ \A i \in Len(sentRows) + 1 .. Len(sentRows') :
          ~HasRecord(sentRows'[i].of) /\ told[sentRows'[i].of].pc # "done"

TurnsGo ==
    /\ \A t \in Told :
          /\ told[t].pc # "idle" =>
                /\ told'[t].pc # "idle" /\ told'[t].place = told[t].place
                /\ told'[t].text = told[t].text /\ told'[t].since = told[t].since
          /\ IsDone(t) => IsDone(t)'
          /\ replyRows[t] # "none" => replyRows'[t] # "none"
    /\ tellFaults' = 0 => tellFaults = 0

\* A record that is among those looked at was among them before.
LEMMA StillCandidate ==
  ASSUME TraceHasFields, TraceHasFields', RowsGrow, TurnsGo,
         NEW t \in Told, told[t].pc # "idle", NEW j \in 1 .. Len(sentRows), j \in Candidates(t)'
  PROVE  j \in Candidates(t)
  <1> DEFINE rows == {i \in 1 .. Len(sentRows) : sentRows[i].place = told[t].place /\ i > told[t].since}
             later == {i \in 1 .. Len(sentRows') : sentRows'[i].place = told'[t].place /\ i > told'[t].since}
  <1>1. /\ Len(sentRows) \in Nat /\ DOMAIN sentRows = 1 .. Len(sentRows)
        /\ Len(sentRows') \in Nat /\ DOMAIN sentRows' = 1 .. Len(sentRows')
        /\ Len(sentRows) <= Len(sentRows')
        /\ \A i \in 1 .. Len(sentRows) : sentRows'[i].place = sentRows[i].place
    BY RecordFields DEF TraceHasFields, RowsGrow
  <1>2. told'[t].place = told[t].place /\ told'[t].since = told[t].since
    BY DEF TurnsGo
  <1>3. rows = {i \in later : i <= Len(sentRows)}
    BY <1>1, <1>2
  <1>4. Candidates(t)' = {i \in later : Cardinality({k \in later : k < i}) < TraceWindow}
    <2>1. {i \in OfPlace(told[t].place) : i > told[t].since}' = later
      BY <1>1 DEF OfPlace
    <2> HIDE DEF later
    <2> QED
      BY <2>1 DEF Candidates, Oldest
  <1>5. Candidates(t) = {i \in rows : Cardinality({k \in rows : k < i}) < TraceWindow}
    <2>1. {i \in OfPlace(told[t].place) : i > told[t].since} = rows
      BY <1>1 DEF OfPlace
    <2> HIDE DEF rows
    <2> QED
      BY <2>1 DEF Candidates, Oldest
  <1>6. later \subseteq Nat
    BY <1>1
  <1> HIDE DEF rows, later
  <1>7. {k \in later : k < j} = {k \in rows : k < j}
    <2>1. \A k \in later : k < j => k <= Len(sentRows)
      BY <1>1, <1>6
    <2>2. \A k : (k \in later /\ k < j) <=> (k \in rows /\ k < j)
      BY <1>3, <2>1
    <2> QED
      BY <2>2
  <1>8. j \in rows
    BY <1>1, <1>3, <1>4
  <1> QED
    BY <1>4, <1>5, <1>7, <1>8

LEMMA StillLooked ==
  ASSUME TraceHasFields, TraceHasFields', RowsGrow, NEW j \in 1 .. Len(sentRows), j \in Looked'
  PROVE  j \in Looked
  <1> DEFINE Above == {k \in 1 .. Len(sentRows) : k > j}
             AboveNow == {k \in 1 .. Len(sentRows') : k > j}
  <1>1. /\ Len(sentRows) \in Nat /\ DOMAIN sentRows = 1 .. Len(sentRows)
        /\ Len(sentRows') \in Nat /\ DOMAIN sentRows' = 1 .. Len(sentRows')
        /\ Len(sentRows) <= Len(sentRows')
    BY RecordFields DEF TraceHasFields, RowsGrow
  <1>2. Cardinality(AboveNow) < ListWindow
    BY <1>1 DEF Looked, Newest
  <1>3. IsFiniteSet(AboveNow) /\ Above \subseteq AboveNow
    <2>1. IsFiniteSet(1 .. Len(sentRows'))
      BY <1>1, FS_Interval
    <2>2. AboveNow \subseteq 1 .. Len(sentRows')
      OBVIOUS
    <2>3. IsFiniteSet(AboveNow)
      <3> HIDE DEF AboveNow
      <3> QED
        BY <2>1, <2>2, FS_Subset
    <2> QED
      BY <1>1, <2>3
  <1>4. Cardinality(Above) <= Cardinality(AboveNow) /\ Cardinality(Above) \in Nat /\ Cardinality(AboveNow) \in Nat
    <2> HIDE DEF Above, AboveNow
    <2> QED
      BY <1>3, FS_Subset, FS_CardinalityType
  <1>5. Cardinality(Above) < ListWindow
    <2> HIDE DEF Above, AboveNow
    <2> QED
      BY <1>2, <1>4, TracesAssumption
  <1> QED
    BY <1>1, <1>5 DEF Looked, Newest

\* A report stays true while turns go on writing.
LEMMA ReportStands ==
  ASSUME TraceCore, TraceHasFields', RowsFollowTurns', RowsGrow, TurnsGo, UNCHANGED report
  PROVE  ReportKnows' /\ TracesAreTrue'
  <1> DEFINE t == report.of
  <1>1. /\ Len(sentRows) \in Nat /\ Len(sentRows') \in Nat /\ Len(sentRows) <= Len(sentRows')
        /\ \A i \in 1 .. Len(sentRows) : sentRows[i] \in Records
        /\ \A i \in 1 .. Len(sentRows') : sentRows'[i] \in Records
    BY RecordFields DEF TraceCore, TraceHasFields, RowsGrow
  <1>2. report.pc \in {"reply", "records", "traced"} =>
            t \in Told /\ told[t].pc # "idle" /\ (report.complete => IsDone(t))
    BY DEF TraceCore, TraceHasFields, ReportKnows, TraceReports
  <1>3. report.pc \in {"replies", "listed"} => \A u \in report.replies : u \in Told /\ replyRows[u] # "none"
    BY DEF TraceCore, TraceHasFields, ReportKnows
  \* A record of a turn that is over was its record before.
  <1>4. ASSUME NEW u \in Told, told[u].pc = "done", NEW j \in 1 .. Len(sentRows'), sentRows'[j].of = u
        PROVE  /\ j \in 1 .. Len(sentRows) /\ sentRows[j].of = u
               /\ sentRows'[j].sent => sentRows[j].sent
    <2>1. j \in 1 .. Len(sentRows)
      BY <1>1, <1>4 DEF RowsGrow
    <2>2. sentRows[j].sent \in BOOLEAN
      BY <1>1, <2>1 DEF Records
    <2> QED
      BY <1>4, <2>1, <2>2 DEF RowsGrow
  <1>5. ReportKnows'
    <2>1. report.pc \in {"reply", "records", "traced"} =>
              told'[t].pc # "idle" /\ (report.complete => IsDone(t)')
      BY <1>2 DEF TurnsGo
    <2>2. report.pc = "records" /\ report.complete /\ tellFaults' = 0 /\ WasSent(t)' => report.reply = "marked"
      <3>1. ASSUME report.pc = "records", report.complete, tellFaults' = 0, WasSent(t)'
            PROVE  report.reply = "marked"
        <4>1. t \in Told /\ told[t].pc = "done"
          BY <1>2, <3>1 DEF IsDone
        <4>2. PICK j \in 1 .. Len(sentRows') : sentRows'[j].of = t /\ sentRows'[j].sent
          BY <3>1 DEF WasSent
        <4>3. WasSent(t)
          BY <1>4, <4>1, <4>2 DEF WasSent
        <4>4. tellFaults = 0
          BY <3>1 DEF TurnsGo
        <4> QED
          BY <3>1, <4>3, <4>4 DEF TraceCore, ReportKnows
      <3> QED
        BY <3>1
    <2>3. report.pc = "traced" /\ report.outbound.link # "none" => report.outbound.record \in 1 .. Len(sentRows')
      BY <1>1 DEF TraceCore, ReportKnows
    <2>4. report.pc \in {"replies", "listed"} => \A u \in report.replies : replyRows'[u] # "none"
      BY <1>3 DEF TurnsGo
    <2>5. report.pc = "listed" => \A u \in report.replies : report.beside[u] \in 0 .. Len(sentRows')
      BY <1>1 DEF TraceCore, ReportKnows
    <2> QED
      BY <2>1, <2>2, <2>3, <2>4, <2>5 DEF ReportKnows
  <1>6. TracesTell'
    <2>1. SUFFICES ASSUME report.pc = "traced"
                   PROVE  LET i == report.outbound.record
                          IN /\ report.outbound.link = "exact" => sentRows'[i].of = t
                             /\ report.outbound.link # "none" => sentRows'[i].place = told'[t].place
                             /\ (/\ report.complete /\ tellFaults' = 0
                                 /\ \E j \in Candidates(t)' : sentRows'[j].of = t /\ sentRows'[j].sent)
                                => report.outbound.link = "exact"
      BY DEF TracesTell
    <2> DEFINE i == report.outbound.record
    <2>2. report.outbound.link # "none" => i \in 1 .. Len(sentRows)
      BY <2>1 DEF TraceCore, ReportKnows
    <2>3. t \in Told /\ told[t].pc # "idle" /\ (report.complete => told[t].pc = "done")
      BY <1>2, <2>1 DEF IsDone
    <2>4. report.outbound.link = "exact" => sentRows'[i].of = t
      BY <2>1, <2>2 DEF RowsGrow, TraceCore, TracesAreTrue, TracesTell
    <2>5. report.outbound.link # "none" => sentRows'[i].place = told'[t].place
      BY <2>1, <2>2, <2>3 DEF RowsGrow, TurnsGo, TraceCore, TracesAreTrue, TracesTell
    <2>6. ASSUME report.complete, tellFaults' = 0,
                 NEW j \in Candidates(t)', sentRows'[j].of = t, sentRows'[j].sent
          PROVE  report.outbound.link = "exact"
      <3>1. j \in 1 .. Len(sentRows')
        BY RecordFields DEF Candidates, Oldest, OfPlace, TraceHasFields
      <3>2. j \in 1 .. Len(sentRows) /\ sentRows[j].of = t /\ sentRows[j].sent
        BY <1>4, <2>3, <2>6, <3>1
      <3>3. j \in Candidates(t)
        BY <2>3, <2>6, <3>2, StillCandidate DEF TraceCore
      <3>4. tellFaults = 0
        BY <2>6 DEF TurnsGo
      <3> QED
        BY <2>1, <2>6, <3>2, <3>3, <3>4 DEF TraceCore, TracesAreTrue, TracesTell
    <2> QED
      BY <2>4, <2>5, <2>6
  <1>7. ListTells'
    <2>1. SUFFICES ASSUME report.pc = "listed", NEW u \in report.replies, report.beside[u] # 0
                   PROVE  /\ sentRows'[report.beside[u]].place = told'[u].place
                          /\ \A j \in Looked' :
                                tellFaults' = 0 /\ sentRows'[j].of = u =>
                                   /\ IsWhole(told'[u].text) => sentRows'[report.beside[u]].of = u
                                   /\ sentRows'[report.beside[u]].text # InRow(told'[u].text)
                                      => j <= report.beside[u]
      BY DEF ListTells
    <2>2. u \in Told /\ replyRows[u] # "none"
      BY <1>3, <2>1
    <2>3. told[u].pc # "idle" /\ told'[u].place = told[u].place /\ told'[u].text = told[u].text
      BY <2>2 DEF TraceCore, RowsFollowTurns, TurnsGo
    <2>4. report.beside[u] \in 1 .. Len(sentRows)
      <3>1. report.beside[u] \in 0 .. Len(sentRows)
        BY <2>1 DEF TraceCore, ReportKnows
      <3> QED
        BY <1>1, <2>1, <3>1
    <2>5. /\ sentRows'[report.beside[u]].of = sentRows[report.beside[u]].of
          /\ sentRows'[report.beside[u]].place = sentRows[report.beside[u]].place
          /\ sentRows'[report.beside[u]].text = sentRows[report.beside[u]].text
      BY <2>4 DEF RowsGrow
    <2>6. sentRows'[report.beside[u]].place = told'[u].place
      BY <2>1, <2>3, <2>5 DEF TraceCore, TracesAreTrue, ListTells
    <2>7. ASSUME NEW j \in Looked', tellFaults' = 0, sentRows'[j].of = u
          PROVE  /\ IsWhole(told'[u].text) => sentRows'[report.beside[u]].of = u
                 /\ sentRows'[report.beside[u]].text # InRow(told'[u].text) => j <= report.beside[u]
      <3>1. tellFaults = 0
        BY <2>7 DEF TurnsGo
      <3>2. told[u].pc \in {"drafted", "sent", "done"} /\ HasRecord(u)
        BY <2>2, <3>1 DEF TraceCore, RowsFollowTurns
      <3>3. j \in 1 .. Len(sentRows')
        BY RecordFields DEF Looked, Newest, TraceHasFields
      <3>4. j \in 1 .. Len(sentRows)
        BY <1>1, <2>7, <3>2, <3>3 DEF RowsGrow
      <3>5. sentRows[j].of = u
        BY <2>7, <3>4 DEF RowsGrow
      <3>6. j \in Looked
        BY <2>7, <3>4, StillLooked DEF TraceCore
      <3>7. /\ IsWhole(told[u].text) => sentRows[report.beside[u]].of = u
            /\ sentRows[report.beside[u]].text # InRow(told[u].text) => j <= report.beside[u]
        BY <2>1, <3>1, <3>5, <3>6 DEF TraceCore, TracesAreTrue, ListTells
      <3> QED
        BY <2>3, <2>5, <3>7
    <2> QED
      BY <2>6, <2>7
  <1> QED
    BY <1>5, <1>6, <1>7 DEF TracesAreTrue

\* The invariant holds at first.
LEMMA TraceInitially ==
  ASSUME TraceInit
  PROVE  TraceInv
  <1> USE TracesAssumption
  <1>1. /\ told = [t \in Told |-> [pc |-> "idle"]] /\ sentRows = <<>> /\ replyRows = [t \in Told |-> "none"]
        /\ replyAt = [t \in Told |-> 0] /\ marking = {} /\ report.pc = "idle" /\ tellFaults = 0
    BY DEF TraceInit, NoReport
  <1>2. TraceHasFields
    <2>1. [pc |-> "idle"] \in Turns
      BY DEF Turns
    <2>2. told \in [Told -> Turns]
      BY <1>1, <2>1
    <2> QED
      BY <1>1, <2>2 DEF TraceHasFields
  <1>3. RowsFollowTurns
    BY <1>1 DEF RowsFollowTurns, HasRecord, WasSent
  <1> QED
    BY <1>1, <1>2, <1>3 DEF TraceInv, TraceCore, RecordsFirst, ReportKnows, TracesAreTrue, TracesTell, ListTells

\* A step of a turn: how the turn goes on, and the records of the others.
LEMMA TurnGoesOn ==
  ASSUME TraceHasFields, NEW t \in Told, told[t].pc # "idle",
         NEW pc \in {"reserved", "drafted", "sent", "done"}, TurnGoes(t, pc)
  PROVE  /\ told' \in [Told -> Turns]
         /\ told'[t].pc = pc
         /\ \A u \in Told : u # t => told'[u] = told[u]
         /\ \A u \in Told : told'[u].place = told[u].place /\ told'[u].text = told[u].text
                            /\ told'[u].since = told[u].since
  <1>1. told \in [Told -> Turns] /\ told' = [told EXCEPT ![t].pc = pc]
    BY DEF TraceHasFields, TurnGoes
  <1>2. told[t] \in [pc : {"received", "reserved", "drafted", "sent", "done"},
                     place : Place, text : Wording, since : Nat]
    BY <1>1 DEF Turns
  <1>3. told'[t] = [told[t] EXCEPT !.pc = pc]
    BY <1>1
  <1>4. told'[t] \in Turns
    BY <1>2, <1>3 DEF Turns
  <1>5. told'[t].pc = pc /\ told'[t].place = told[t].place /\ told'[t].text = told[t].text
        /\ told'[t].since = told[t].since
    BY <1>2, <1>3
  <1>6. \A u \in Told : u # t => told'[u] = told[u]
    BY <1>1
  <1> QED
    BY <1>1, <1>4, <1>5, <1>6

\* A turn's record, appended.
LEMMA RowAppended ==
  ASSUME TraceHasFields, NEW t \in Told, told[t].pc # "idle", NEW sent \in BOOLEAN,
         sentRows' = Append(sentRows, Row(t, sent))
  PROVE  /\ sentRows' \in Seq(Records) /\ Len(sentRows') = Len(sentRows) + 1
         /\ Row(t, sent) \in Records
         /\ \A i \in 1 .. Len(sentRows) : sentRows'[i] = sentRows[i]
         /\ sentRows'[Len(sentRows) + 1] = Row(t, sent)
         /\ Len(sentRows) \in Nat
  <1>1. told[t] \in [pc : {"received", "reserved", "drafted", "sent", "done"},
                     place : Place, text : Wording, since : Nat]
    BY DEF TraceHasFields, Turns
  <1>2. Row(t, sent) \in Records
    BY <1>1 DEF Row, Records
  <1>3. sentRows \in Seq(Records)
    BY DEF TraceHasFields
  <1> HIDE DEF Records
  <1> QED
    BY <1>2, <1>3

\* Every step preserves it.
LEMMA TraceSteps ==
  ASSUME TraceCore, RecordsFirst, [TraceNext]_traceVars
  PROVE  TraceCore'
  <1>0. TraceHasFields /\ RowsFollowTurns
    BY DEF TraceCore
  <1>r. /\ Len(sentRows) \in Nat /\ DOMAIN sentRows = 1 .. Len(sentRows)
        /\ \A i \in 1 .. Len(sentRows) : sentRows[i] \in Records
    BY <1>0, RecordFields
  <1>f. told \in [Told -> Turns] /\ sentRows \in Seq(Records) /\ marking \subseteq Told /\ tellFaults \in Nat
    BY <1>0 DEF TraceHasFields
  <1>e. TellOk \/ TellError => tellFaults' \in 0 .. MaxTellFaults /\ (tellFaults' = 0 => tellFaults = 0)
    BY <1>0, TracesAssumption DEF TellOk, TellError, TraceHasFields
  <1>s. UNCHANGED sentRows => RowsGrow
    BY <1>r DEF RowsGrow
  <1>1. ASSUME NEW t \in Told, NEW place \in Place, NEW text \in Wording, IsTold(t, place, text)
        PROVE  TraceCore'
    <2>1. PICK earlier \in {Len(sentRows), Len(sentRows) - 1} \cap Nat :
             told' = [told EXCEPT ![t] = [pc |-> "received", place |-> place, text |-> text, since |-> earlier]]
      BY <1>1 DEF IsTold
    <2>2. told[t].pc = "idle" /\ UNCHANGED <<sentRows, replyRows, replyAt, marking, tellFaults, report>>
      BY <1>1 DEF IsTold, TellOk, Writing
    <2>3. /\ told' \in [Told -> Turns] /\ told'[t].pc = "received"
          /\ \A u \in Told : u # t => told'[u] = told[u]
      <3>1. [pc |-> "received", place |-> place, text |-> text, since |-> earlier] \in Turns
        BY DEF Turns
      <3> HIDE DEF Turns
      <3> QED
        BY <1>f, <2>1, <3>1
    <2>4. TraceHasFields'
      BY <1>0, <2>2, <2>3 DEF TraceHasFields
    <2>5. \A i \in 1 .. Len(sentRows) : sentRows[i].of \in Told /\ sentRows[i].of # t
      BY <1>0, <1>r, <2>2 DEF RowsFollowTurns, Records
    <2>6. RowsFollowTurns'
      BY <1>0, <2>2, <2>3, <2>5 DEF RowsFollowTurns, HasRecord, WasSent, IsMarked
    <2>7. TurnsGo
      BY <2>2, <2>3 DEF TurnsGo, IsDone
    <2>8. ReportKnows' /\ TracesAreTrue'
      BY <1>s, <2>2, <2>4, <2>6, <2>7, ReportStands
    <2> QED
      BY <2>4, <2>6, <2>8 DEF TraceCore
  <1>2. ASSUME NEW t \in Told, Reserves(t)
        PROVE  TraceCore'
    <2>1. told[t].pc = "received" /\ TurnGoes(t, "reserved") /\ (TellOk \/ TellError)
          /\ UNCHANGED <<replyRows, replyAt, marking, report>>
      BY <1>2 DEF Reserves, Writing
    <2>2. /\ told' \in [Told -> Turns] /\ told'[t].pc = "reserved"
          /\ \A u \in Told : u # t => told'[u] = told[u]
          /\ \A u \in Told : told'[u].place = told[u].place /\ told'[u].text = told[u].text
                             /\ told'[u].since = told[u].since
      BY <1>0, <2>1, TurnGoesOn
    <2>3. \A i \in 1 .. Len(sentRows) : sentRows[i].of \in Told /\ sentRows[i].of # t
      BY <1>0, <1>r, <2>1 DEF RowsFollowTurns, Records
    <2>4. TurnsGo
      BY <1>e, <2>1, <2>2 DEF TurnsGo, IsDone
    <2>5. CASE UNCHANGED sentRows /\ TellError
      <3>1. TraceHasFields'
        BY <1>0, <1>e, <2>1, <2>2, <2>5 DEF TraceHasFields
      <3>2. tellFaults' # 0
        BY <1>f, <2>5 DEF TellError
      <3>3. RowsFollowTurns'
        BY <1>0, <2>1, <2>2, <2>3, <2>5, <3>2 DEF RowsFollowTurns
      <3>4. ReportKnows' /\ TracesAreTrue'
        BY <1>s, <2>1, <2>4, <2>5, <3>1, <3>3, ReportStands
      <3> QED
        BY <3>1, <3>3, <3>4 DEF TraceCore
    <2>6. CASE sentRows' = Append(sentRows, Row(t, FALSE)) /\ TellOk
      <3> DEFINE n == Len(sentRows)
                 new == Row(t, FALSE)
      <3>0. sentRows' \in Seq(Records)
        BY <1>0, <2>1, <2>6, RowAppended
      <3>1. /\ n \in Nat /\ Len(sentRows') = n + 1
            /\ \A i \in 1 .. n : sentRows'[i] = sentRows[i]
            /\ sentRows'[n + 1] = new
        BY <1>0, <2>1, <2>6, RowAppended
      <3>2. TraceHasFields'
        BY <1>0, <1>e, <2>1, <2>2, <2>6, <3>0 DEF TraceHasFields
      <3>3. new.of = t /\ new.place = told[t].place /\ new.text = told[t].text /\ ~new.sent
        BY DEF Row
      <3> HIDE DEF new
      <3>a. \A i \in 1 .. n : sentRows'[i].sent => sentRows[i].sent \/ told[sentRows[i].of].pc # "done"
        BY <3>1
      <3>b. \A i \in n + 1 .. Len(sentRows') : sentRows'[i].of = t
        <4>1. \A i \in n + 1 .. Len(sentRows') : i = n + 1
          BY <3>1
        <4> QED
          BY <3>1, <3>3, <4>1
      <3>c. ~HasRecord(t)
        BY <2>3 DEF HasRecord
      <3>4. RowsGrow
        <4>1. n <= Len(sentRows')
          BY <3>1
        <4> QED
          BY <2>1, <3>1, <3>a, <3>b, <3>c, <4>1 DEF RowsGrow
      <3>5. \A i \in 1 .. Len(sentRows') : i \in 1 .. Len(sentRows) \/ i = Len(sentRows) + 1
        BY <1>r, <3>1
      <3>d. 1 .. n \subseteq 1 .. Len(sentRows') /\ n + 1 \in 1 .. Len(sentRows')
        BY <3>1
      <3>6. \A u \in Told : /\ HasRecord(u) => HasRecord(u)'
                            /\ u = t => HasRecord(u)'
                            /\ WasSent(u)' => WasSent(u)
        <4>1. \A u \in Told : HasRecord(u) => HasRecord(u)'
          BY <3>1, <3>d DEF HasRecord
        <4>2. HasRecord(t)'
          BY <3>1, <3>3, <3>d DEF HasRecord
        <4>3. \A u \in Told : WasSent(u)' => WasSent(u)
          BY <3>1, <3>3, <3>5 DEF WasSent
        <4> QED
          BY <4>1, <4>2, <4>3
      <3>7. \A i, j \in 1 .. Len(sentRows') : sentRows'[i].of = sentRows'[j].of => i = j
        <4>1. \A i, j \in 1 .. n : sentRows'[i].of = sentRows'[j].of => i = j
          BY <1>0, <3>1 DEF RowsFollowTurns
        <4>2. \A i \in 1 .. n : sentRows'[i].of # sentRows'[n + 1].of
          BY <2>3, <3>1, <3>3
        <4> QED
          BY <3>5, <4>1, <4>2
      <3>8. \A i \in 1 .. Len(sentRows') :
              LET row == sentRows'[i]
              IN /\ told'[row.of].pc \notin {"idle", "received"}
                 /\ row.place = told'[row.of].place /\ row.text = told'[row.of].text
                 /\ row.sent => told'[row.of].pc = "done"
        <4>1. ASSUME NEW i \in 1 .. Len(sentRows)
              PROVE  LET row == sentRows'[i]
                     IN /\ told'[row.of].pc \notin {"idle", "received"}
                        /\ row.place = told'[row.of].place /\ row.text = told'[row.of].text
                        /\ row.sent => told'[row.of].pc = "done"
          BY <1>0, <2>2, <2>3, <3>1 DEF RowsFollowTurns
        <4> QED
          BY <2>2, <3>1, <3>3, <3>5, <4>1
      <3>9. UNCHANGED tellFaults
        BY <2>6 DEF TellOk
      <3>10. RowsFollowTurns'
        <4>1. \A u \in Told : replyAt'[u] <= Len(sentRows')
          BY <1>0, <1>r, <2>1, <3>1 DEF RowsFollowTurns, TraceHasFields
        <4>2. ASSUME NEW u \in Told
              PROVE  /\ u \in marking' \/ replyRows'[u] # "none" => told'[u].pc \in {"drafted", "sent", "done"}
                     /\ u \in marking' => told'[u].pc \in {"sent", "done"}
                     /\ tellFaults' = 0 =>
                          /\ told'[u].pc \in {"reserved", "drafted", "sent", "done"} => HasRecord(u)'
                          /\ told'[u].pc \in {"drafted", "sent", "done"} => replyRows'[u] # "none"
                          /\ told'[u].pc = "sent" \/ WasSent(u)' => IsMarked(u)'
          BY <1>0, <2>1, <2>2, <3>6, <3>9 DEF RowsFollowTurns, IsMarked
        <4> QED
          BY <3>7, <3>8, <4>1, <4>2 DEF RowsFollowTurns
      <3>11. ReportKnows' /\ TracesAreTrue'
        BY <2>1, <2>4, <3>2, <3>4, <3>10, ReportStands
      <3> QED
        BY <3>2, <3>10, <3>11 DEF TraceCore
    <2> QED
      BY <1>2, <2>5, <2>6 DEF Reserves
  <1>3. ASSUME NEW t \in Told, Drafts(t)
        PROVE  TraceCore'
    <2>1. told[t].pc = "reserved" /\ TurnGoes(t, "drafted") /\ (TellOk \/ TellError)
          /\ UNCHANGED <<sentRows, marking, report>>
      BY <1>3 DEF Drafts, Writing
    <2>2. /\ told' \in [Told -> Turns] /\ told'[t].pc = "drafted"
          /\ \A u \in Told : u # t => told'[u] = told[u]
          /\ \A u \in Told : told'[u].place = told[u].place /\ told'[u].text = told[u].text
                             /\ told'[u].since = told[u].since
      BY <1>0, <2>1, TurnGoesOn
    <2>3. \/ /\ replyRows' = [replyRows EXCEPT ![t] = "draft"]
             /\ replyAt' = [replyAt EXCEPT ![t] = Len(sentRows)] /\ TellOk
          \/ UNCHANGED <<replyRows, replyAt>> /\ TellError
      BY <1>3 DEF Drafts
    <2>4. /\ replyRows' \in [Told -> {"none", "draft", "marked"}] /\ replyAt' \in [Told -> Nat]
          /\ \A u \in Told : u # t => replyRows'[u] = replyRows[u]
          /\ replyRows'[t] # "none" \/ replyRows'[t] = replyRows[t]
          /\ \A u \in Told : replyAt'[u] = replyAt[u] \/ replyAt'[u] = Len(sentRows)
          /\ tellFaults' = 0 => replyRows'[t] # "none"
      <3>1. /\ replyRows \in [Told -> {"none", "draft", "marked"}] /\ replyAt \in [Told -> Nat]
            /\ Len(sentRows) \in Nat /\ tellFaults \in Nat
        BY <1>0, <1>r, <1>f DEF TraceHasFields
      <3>2. CASE UNCHANGED <<replyRows, replyAt>> /\ TellError
        BY <3>1, <3>2 DEF TellError
      <3>3. CASE replyRows' = [replyRows EXCEPT ![t] = "draft"] /\ replyAt' = [replyAt EXCEPT ![t] = Len(sentRows)]
        <4>1. replyAt' \in [Told -> Nat] /\ \A u \in Told : replyAt'[u] = replyAt[u] \/ replyAt'[u] = Len(sentRows)
          BY <3>1, <3>3
        <4>2. /\ replyRows' \in [Told -> {"none", "draft", "marked"}] /\ replyRows'[t] = "draft"
              /\ \A u \in Told : u # t => replyRows'[u] = replyRows[u]
          BY <3>1, <3>3
        <4> QED
          BY <4>1, <4>2
      <3> QED
        BY <2>3, <3>2, <3>3
    <2>5. \A i \in 1 .. Len(sentRows) : sentRows[i].of \in Told
      BY <1>r DEF Records
    <2>6. TraceHasFields'
      BY <1>0, <1>e, <2>1, <2>2, <2>4 DEF TraceHasFields
    <2>7. tellFaults' = 0 => tellFaults = 0
      BY <1>e, <2>1
    <2>8. ~WasSent(t)
      BY <1>0, <2>1 DEF RowsFollowTurns, WasSent
    <2>9. RowsFollowTurns'
      <3>1. \A i \in 1 .. Len(sentRows) :
              LET row == sentRows[i]
              IN /\ told'[row.of].pc \notin {"idle", "received"}
                 /\ row.place = told'[row.of].place /\ row.text = told'[row.of].text
                 /\ row.sent => told'[row.of].pc = "done"
        BY <1>0, <2>1, <2>2, <2>5 DEF RowsFollowTurns
      <3>2. \A u \in Told : replyAt'[u] <= Len(sentRows)
        BY <1>0, <1>r, <2>4 DEF RowsFollowTurns
      <3>3. ASSUME NEW u \in Told
            PROVE  /\ u \in marking \/ replyRows'[u] # "none" => told'[u].pc \in {"drafted", "sent", "done"}
                   /\ u \in marking => told'[u].pc \in {"sent", "done"}
                   /\ tellFaults' = 0 =>
                        /\ told'[u].pc \in {"reserved", "drafted", "sent", "done"} => HasRecord(u)
                        /\ told'[u].pc \in {"drafted", "sent", "done"} => replyRows'[u] # "none"
                        /\ told'[u].pc = "sent" \/ WasSent(u) => IsMarked(u)'
        BY <1>0, <2>1, <2>2, <2>4, <2>7, <2>8 DEF RowsFollowTurns, IsMarked
      <3> QED
        BY <1>0, <2>1, <3>1, <3>2, <3>3 DEF RowsFollowTurns, HasRecord, WasSent
    <2>10. TurnsGo
      BY <2>1, <2>2, <2>4, <2>7 DEF TurnsGo, IsDone
    <2>11. ReportKnows' /\ TracesAreTrue'
      BY <1>s, <2>1, <2>6, <2>9, <2>10, ReportStands
    <2> QED
      BY <2>6, <2>9, <2>11 DEF TraceCore
  <1>4. ASSUME NEW t \in Told, Sends(t)
        PROVE  TraceCore'
    <2>1. /\ told[t].pc = "drafted" /\ UNCHANGED <<sentRows, replyRows, replyAt, tellFaults, report>>
          /\ \/ TurnGoes(t, "sent") /\ marking' = marking \cup {u \in {t} : replyRows[u] = "draft"}
             \/ TurnGoes(t, "done") /\ UNCHANGED marking
      BY <1>4 DEF Sends, Writing, TellOk
    <2>2. PICK pc \in {"sent", "done"} : TurnGoes(t, pc) /\ (pc = "done" => UNCHANGED marking)
                                         /\ (pc = "sent" => marking' = marking \cup {u \in {t} : replyRows[u] = "draft"})
      BY <2>1
    <2>3. /\ told' \in [Told -> Turns] /\ told'[t].pc = pc
          /\ \A u \in Told : u # t => told'[u] = told[u]
          /\ \A u \in Told : told'[u].place = told[u].place /\ told'[u].text = told[u].text
                             /\ told'[u].since = told[u].since
      BY <1>0, <2>1, <2>2, TurnGoesOn
    <2>4. /\ marking' \subseteq Told /\ \A u \in Told : u # t => (u \in marking' <=> u \in marking)
          /\ marking \subseteq marking' /\ t \notin marking
          /\ pc = "sent" => (t \in marking' <=> replyRows[t] = "draft")
      BY <1>0, <1>f, <2>1, <2>2 DEF RowsFollowTurns
    <2>5. \A i \in 1 .. Len(sentRows) : sentRows[i].of \in Told
      BY <1>r DEF Records
    <2>6. TraceHasFields'
      BY <1>0, <2>1, <2>3, <2>4 DEF TraceHasFields
    <2>7. ~WasSent(t)
      BY <1>0, <2>1 DEF RowsFollowTurns, WasSent
    <2>8. RowsFollowTurns'
      <3>1. \A i \in 1 .. Len(sentRows) :
              LET row == sentRows[i]
              IN /\ told'[row.of].pc \notin {"idle", "received"}
                 /\ row.place = told'[row.of].place /\ row.text = told'[row.of].text
                 /\ row.sent => told'[row.of].pc = "done"
        BY <1>0, <2>1, <2>3, <2>5 DEF RowsFollowTurns
      <3>2. tellFaults = 0 /\ pc = "sent" => IsMarked(t)'
        <4>1. replyRows[t] \in {"none", "draft", "marked"}
          BY <1>0 DEF TraceHasFields
        <4>2. tellFaults = 0 => replyRows[t] # "none"
          BY <1>0, <2>1 DEF RowsFollowTurns
        <4> QED
          BY <2>1, <2>4, <4>1, <4>2 DEF IsMarked
      <3>3. ASSUME NEW u \in Told
            PROVE  /\ u \in marking' \/ replyRows[u] # "none" => told'[u].pc \in {"drafted", "sent", "done"}
                   /\ u \in marking' => told'[u].pc \in {"sent", "done"}
                   /\ tellFaults = 0 =>
                        /\ told'[u].pc \in {"reserved", "drafted", "sent", "done"} => HasRecord(u)
                        /\ told'[u].pc \in {"drafted", "sent", "done"} => replyRows[u] # "none"
                        /\ told'[u].pc = "sent" \/ WasSent(u) => IsMarked(u)'
        BY <1>0, <2>1, <2>3, <2>4, <2>7, <3>2 DEF RowsFollowTurns, IsMarked
      <3> QED
        BY <1>0, <2>1, <3>1, <3>3 DEF RowsFollowTurns, HasRecord, WasSent
    <2>9. TurnsGo
      BY <2>1, <2>3, <2>4 DEF TurnsGo, IsDone
    <2>10. ReportKnows' /\ TracesAreTrue'
      BY <1>s, <2>1, <2>6, <2>8, <2>9, ReportStands
    <2> QED
      BY <2>6, <2>8, <2>10 DEF TraceCore

<1>5. ASSUME NEW t \in Told, Settles(t)
        PROVE  TraceCore'
    <2>1. told[t].pc = "sent" /\ TurnGoes(t, "done") /\ (TellOk \/ TellError)
          /\ UNCHANGED <<replyRows, replyAt, marking, report>>
      BY <1>5 DEF Settles, Writing
    <2>2. /\ told' \in [Told -> Turns] /\ told'[t].pc = "done"
          /\ \A u \in Told : u # t => told'[u] = told[u]
          /\ \A u \in Told : told'[u].place = told[u].place /\ told'[u].text = told[u].text
                             /\ told'[u].since = told[u].since
      BY <1>0, <2>1, TurnGoesOn
    <2>3. \A i \in 1 .. Len(sentRows) : sentRows[i].of \in Told
      BY <1>r DEF Records
    <2>4. /\ sentRows' \in Seq(Records) /\ Len(sentRows') \in Nat /\ Len(sentRows) <= Len(sentRows')
          /\ \A i \in 1 .. Len(sentRows) :
                /\ sentRows'[i].of = sentRows[i].of /\ sentRows'[i].place = sentRows[i].place
                /\ sentRows'[i].text = sentRows[i].text
                /\ sentRows[i].of # t => sentRows'[i] = sentRows[i]
          /\ \A i \in Len(sentRows) + 1 .. Len(sentRows') :
                /\ i = Len(sentRows) + 1 /\ sentRows'[i].of = t /\ ~HasRecord(t)
                /\ sentRows'[i].place = told[t].place /\ sentRows'[i].text = told[t].text
      <3>1. CASE UNCHANGED sentRows
        BY <1>r, <1>f, <3>1
      <3>2. CASE \E i \in DOMAIN sentRows : sentRows[i].of = t
        <4>1. CASE sentRows' = [i \in DOMAIN sentRows |->
                                 IF sentRows[i].of = t THEN [sentRows[i] EXCEPT !.sent = TRUE] ELSE sentRows[i]]
          <5>1. \A i \in 1 .. Len(sentRows) : [sentRows[i] EXCEPT !.sent = TRUE] \in Records
            BY <1>r DEF Records
          <5>2. sentRows' \in [1 .. Len(sentRows) -> Records]
            <6> HIDE DEF Records
            <6> QED
              BY <1>r, <4>1, <5>1
          <5>3. sentRows' \in Seq(Records) /\ Len(sentRows') = Len(sentRows)
            <6> HIDE DEF Records
            <6> QED
              BY <1>r, <5>2
          <5>4. ASSUME NEW i \in 1 .. Len(sentRows)
                PROVE  /\ sentRows'[i].of = sentRows[i].of /\ sentRows'[i].place = sentRows[i].place
                       /\ sentRows'[i].text = sentRows[i].text
                       /\ sentRows[i].of # t => sentRows'[i] = sentRows[i]
            <6>1. sentRows'[i] = IF sentRows[i].of = t THEN [sentRows[i] EXCEPT !.sent = TRUE] ELSE sentRows[i]
              BY <1>r, <4>1
            <6>2. sentRows[i] \in Records
              BY <1>r
            <6> QED
              BY <6>1, <6>2 DEF Records
          <5> QED
            BY <1>r, <5>3, <5>4
        <4> QED
          BY <1>5, <3>1, <3>2, <4>1 DEF Settles
      <3>3. CASE ~(\E i \in DOMAIN sentRows : sentRows[i].of = t)
        <4>1. CASE sentRows' = Append(sentRows, Row(t, TRUE))
          <5> DEFINE new == Row(t, TRUE)
          <5>0. sentRows' \in Seq(Records)
            BY <1>0, <2>1, <4>1, RowAppended
          <5>1. /\ Len(sentRows') = Len(sentRows) + 1
                /\ \A i \in 1 .. Len(sentRows) : sentRows'[i] = sentRows[i]
                /\ sentRows'[Len(sentRows) + 1] = new
            BY <1>0, <2>1, <4>1, RowAppended
          <5>2. new.of = t /\ new.place = told[t].place /\ new.text = told[t].text
            BY DEF Row
          <5>3. ~HasRecord(t)
            BY <1>r, <3>3 DEF HasRecord
          <5> HIDE DEF new
          <5>4. /\ Len(sentRows') \in Nat /\ Len(sentRows) <= Len(sentRows')
                /\ \A i \in Len(sentRows) + 1 .. Len(sentRows') : i = Len(sentRows) + 1
            BY <1>r, <5>1
          <5> QED
            BY <5>0, <5>1, <5>2, <5>3, <5>4
        <4> QED
          BY <1>5, <3>1, <3>3, <4>1 DEF Settles
      <3> QED
        BY <3>2, <3>3
    <2>5. \/ sentRows' = sentRows /\ tellFaults' # 0
          \/ HasRecord(t)' /\ UNCHANGED tellFaults
      <3>1. CASE UNCHANGED sentRows /\ TellError
        BY <1>f, <3>1 DEF TellError
      <3>2. CASE TellOk /\ \E i \in DOMAIN sentRows : sentRows[i].of = t
        BY <1>r, <2>4, <3>2 DEF HasRecord, TellOk
      <3>3. CASE TellOk /\ sentRows' = Append(sentRows, Row(t, TRUE))
        <4>1. /\ Len(sentRows') = Len(sentRows) + 1
              /\ sentRows'[Len(sentRows) + 1] = Row(t, TRUE)
          BY <1>0, <2>1, <3>3, RowAppended
        <4>2. Row(t, TRUE).of = t
          BY DEF Row
        <4>3. Len(sentRows) + 1 \in 1 .. Len(sentRows')
          BY <1>r, <4>1
        <4>4. HasRecord(t)'
          BY <4>1, <4>2, <4>3 DEF HasRecord
        <4> QED
          BY <3>3, <4>4 DEF TellOk
      <3> QED
        BY <1>5, <3>1, <3>2, <3>3 DEF Settles
    <2>6. TraceHasFields'
      BY <1>0, <1>e, <2>1, <2>2, <2>4 DEF TraceHasFields
    <2>7. RowsGrow
      <3>1. \A i \in 1 .. Len(sentRows) : sentRows'[i].sent => sentRows[i].sent \/ told[sentRows[i].of].pc # "done"
        BY <2>1, <2>4
      <3> QED
        BY <2>1, <2>4, <3>1 DEF RowsGrow
    <2>8. TurnsGo
      BY <1>e, <2>1, <2>2 DEF TurnsGo, IsDone
    <2>9. RowsFollowTurns'
      <3>1. \A i \in 1 .. Len(sentRows') : i \in 1 .. Len(sentRows) \/ i \in Len(sentRows) + 1 .. Len(sentRows')
        BY <1>r, <2>4
      <3>2. \A i, j \in 1 .. Len(sentRows') : sentRows'[i].of = sentRows'[j].of => i = j
        <4>1. \A i \in 1 .. Len(sentRows), j \in Len(sentRows) + 1 .. Len(sentRows') :
                 sentRows'[i].of # sentRows'[j].of
          BY <2>4 DEF HasRecord
        <4>2. \A i, j \in 1 .. Len(sentRows) : sentRows'[i].of = sentRows'[j].of => i = j
          BY <1>0, <2>4 DEF RowsFollowTurns
        <4>3. \A i, j \in Len(sentRows) + 1 .. Len(sentRows') : i = j
          BY <2>4
        <4> QED
          BY <3>1, <4>1, <4>2, <4>3
      <3>3. \A i \in 1 .. Len(sentRows') :
              LET row == sentRows'[i]
              IN /\ told'[row.of].pc \notin {"idle", "received"}
                 /\ row.place = told'[row.of].place /\ row.text = told'[row.of].text
                 /\ row.sent => told'[row.of].pc = "done"
        <4>1. ASSUME NEW i \in 1 .. Len(sentRows)
              PROVE  LET row == sentRows'[i]
                     IN /\ told'[row.of].pc \notin {"idle", "received"}
                        /\ row.place = told'[row.of].place /\ row.text = told'[row.of].text
                        /\ row.sent => told'[row.of].pc = "done"
          <5>1. /\ told[sentRows[i].of].pc \notin {"idle", "received"}
                /\ sentRows[i].place = told[sentRows[i].of].place
                /\ sentRows[i].text = told[sentRows[i].of].text
                /\ sentRows[i].sent => told[sentRows[i].of].pc = "done"
            BY <1>0 DEF RowsFollowTurns
          <5>2. CASE sentRows[i].of = t
            BY <2>2, <2>3, <2>4, <5>1, <5>2
          <5>3. CASE sentRows[i].of # t
            BY <2>2, <2>3, <2>4, <5>1, <5>3
          <5> QED
            BY <5>2, <5>3
        <4>2. ASSUME NEW i \in Len(sentRows) + 1 .. Len(sentRows')
              PROVE  LET row == sentRows'[i]
                     IN /\ told'[row.of].pc \notin {"idle", "received"}
                        /\ row.place = told'[row.of].place /\ row.text = told'[row.of].text
                        /\ row.sent => told'[row.of].pc = "done"
          BY <2>2, <2>4
        <4> QED
          BY <3>1, <4>1, <4>2
      <3>4. \A u \in Told : replyAt'[u] <= Len(sentRows')
        BY <1>0, <1>r, <2>1, <2>4 DEF RowsFollowTurns, TraceHasFields
      <3>5. \A u \in Told : u # t => /\ HasRecord(u) => HasRecord(u)'
                                     /\ WasSent(u)' => WasSent(u)
        BY <1>r, <2>4, <3>1 DEF HasRecord, WasSent
      <3>6. ASSUME NEW u \in Told
            PROVE  /\ u \in marking' \/ replyRows'[u] # "none" => told'[u].pc \in {"drafted", "sent", "done"}
                   /\ u \in marking' => told'[u].pc \in {"sent", "done"}
                   /\ tellFaults' = 0 =>
                        /\ told'[u].pc \in {"reserved", "drafted", "sent", "done"} => HasRecord(u)'
                        /\ told'[u].pc \in {"drafted", "sent", "done"} => replyRows'[u] # "none"
                        /\ told'[u].pc = "sent" \/ WasSent(u)' => IsMarked(u)'
        <4>1. tellFaults' = 0 => tellFaults = 0
          BY <1>e, <2>1
        <4>2. CASE u = t
          <5>1. tellFaults = 0 => IsMarked(t) /\ replyRows[t] # "none"
            BY <1>0, <2>1 DEF RowsFollowTurns
          <5> QED
            BY <2>1, <2>2, <2>5, <4>1, <4>2, <5>1 DEF IsMarked
        <4>3. CASE u # t
          <5>1. told'[u] = told[u]
            BY <2>2, <4>3
          <5> QED
            BY <1>0, <2>1, <3>5, <4>1, <4>3, <5>1 DEF RowsFollowTurns, IsMarked
        <4> QED
          BY <4>2, <4>3
      <3> QED
        BY <3>2, <3>3, <3>4, <3>6 DEF RowsFollowTurns
    <2>10. ReportKnows' /\ TracesAreTrue'
      BY <2>1, <2>6, <2>7, <2>8, <2>9, ReportStands
    <2> QED
      BY <2>6, <2>9, <2>10 DEF TraceCore
  <1>6. ASSUME NEW t \in Told, Marks(t)
        PROVE  TraceCore'
    <2>1. /\ t \in marking /\ marking' = marking \ {t} /\ (TellOk \/ TellError)
          /\ UNCHANGED <<told, sentRows, replyAt, report>>
          /\ \/ replyRows' = [replyRows EXCEPT ![t] = "marked"] /\ TellOk
             \/ UNCHANGED replyRows /\ TellError
      BY <1>6 DEF Marks, Writing
    <2>2. /\ replyRows' \in [Told -> {"none", "draft", "marked"}]
          /\ \A u \in Told : u # t => replyRows'[u] = replyRows[u]
          /\ replyRows'[t] = "marked" \/ (replyRows'[t] = replyRows[t] /\ tellFaults' # 0)
      <3>1. replyRows \in [Told -> {"none", "draft", "marked"}] /\ tellFaults \in Nat
        BY <1>0, <1>f DEF TraceHasFields
      <3>2. CASE UNCHANGED replyRows /\ TellError
        BY <3>1, <3>2 DEF TellError
      <3>3. CASE replyRows' = [replyRows EXCEPT ![t] = "marked"]
        BY <3>1, <3>3
      <3> QED
        BY <2>1, <3>2, <3>3
    <2>3. tellFaults' = 0 => tellFaults = 0
      BY <1>e, <2>1
    <2>4. TraceHasFields'
      BY <1>0, <1>e, <2>1, <2>2 DEF TraceHasFields
    <2>5. RowsFollowTurns'
      <3>1. told[t].pc \in {"sent", "done"}
        BY <1>0, <2>1 DEF RowsFollowTurns
      <3>2. ASSUME NEW u \in Told
            PROVE  /\ u \in marking' \/ replyRows'[u] # "none" => told[u].pc \in {"drafted", "sent", "done"}
                   /\ u \in marking' => told[u].pc \in {"sent", "done"}
                   /\ tellFaults' = 0 =>
                        /\ told[u].pc \in {"reserved", "drafted", "sent", "done"} => HasRecord(u)
                        /\ told[u].pc \in {"drafted", "sent", "done"} => replyRows'[u] # "none"
                        /\ told[u].pc = "sent" \/ WasSent(u) => IsMarked(u)'
        BY <1>0, <2>1, <2>2, <2>3, <3>1 DEF RowsFollowTurns, IsMarked
      <3> QED
        BY <1>0, <2>1, <3>2 DEF RowsFollowTurns, HasRecord, WasSent
    <2>6. TurnsGo
      BY <2>1, <2>2, <2>3 DEF TurnsGo, IsDone
    <2>7. ReportKnows' /\ TracesAreTrue'
      BY <1>s, <2>1, <2>4, <2>5, <2>6, ReportStands
    <2> QED
      BY <2>4, <2>5, <2>7 DEF TraceCore
  <1>7. ASSUME NEW t \in Told, TraceBegins(t)
        PROVE  TraceCore'
    <2>1. /\ told[t].pc # "idle" /\ UNCHANGED <<told, sentRows, replyRows, replyAt, marking, tellFaults>>
          /\ report' = [pc |-> "reply", of |-> t, complete |-> IsDone(t)]
      BY <1>7 DEF TraceBegins, Reading, turnVars
    <2>2. IsDone(t) \in BOOLEAN
      BY DEF IsDone
    <2>3. report' \in TraceReports /\ report'.pc = "reply" /\ report'.of = t /\ report'.complete = IsDone(t)
      BY <2>1, <2>2 DEF TraceReports
    <2>4. TraceHasFields'
      BY <1>0, <2>1, <2>3 DEF TraceHasFields
    <2>5. RowsFollowTurns'
      BY <1>0, <2>1 DEF RowsFollowTurns, HasRecord, WasSent, IsMarked
    <2>6. IsDone(t)' <=> IsDone(t)
      BY <2>1 DEF IsDone
    <2> QED
      BY <2>1, <2>3, <2>4, <2>5, <2>6 DEF TraceCore, ReportKnows, TracesAreTrue, TracesTell, ListTells
  <1>8. ASSUME ReadReply
        PROVE  TraceCore'
    <2>1. /\ report.pc = "reply" /\ UNCHANGED <<told, sentRows, replyRows, replyAt, marking, tellFaults>>
          /\ report' = [pc |-> "records", of |-> report.of, complete |-> report.complete,
                        reply |-> replyRows[report.of]]
      BY <1>8 DEF ReadReply, Reading, turnVars
    <2>2. report.of \in Told /\ report.complete \in BOOLEAN
      BY <1>0, <2>1 DEF TraceHasFields, TraceReports
    <2>3. /\ report' \in TraceReports /\ report'.pc = "records" /\ report'.of = report.of
          /\ report'.complete = report.complete /\ report'.reply = replyRows[report.of]
      BY <1>0, <2>1, <2>2 DEF TraceReports, TraceHasFields
    <2>4. TraceHasFields'
      BY <1>0, <2>1, <2>3 DEF TraceHasFields
    <2>5. RowsFollowTurns'
      BY <1>0, <2>1 DEF RowsFollowTurns, HasRecord, WasSent, IsMarked
    <2>6. told[report.of].pc # "idle" /\ (report.complete => IsDone(report.of))
      BY <2>1 DEF TraceCore, ReportKnows
    <2>7. report.complete /\ tellFaults = 0 /\ WasSent(report.of) => replyRows[report.of] = "marked"
      BY <1>0, <2>2, <2>6 DEF RowsFollowTurns, IsMarked, IsDone
    <2>8. ReportKnows'
      <3>1. \A u \in Told : (IsDone(u) <=> IsDone(u)') /\ (WasSent(u) <=> WasSent(u)')
        BY <2>1 DEF IsDone, WasSent
      <3> QED
        BY <2>1, <2>2, <2>3, <2>6, <2>7, <3>1 DEF ReportKnows
    <2> QED
      BY <2>3, <2>4, <2>5, <2>8 DEF TraceCore, TracesAreTrue, TracesTell, ListTells

<1>9. ASSUME ReadRecords
        PROVE  TraceCore'
    <2> DEFINE t == report.of
               answer == resolveOutbound(t, report.reply)
               exact == {i \in Candidates(t) : report.reply = "marked" /\ sentRows[i].sent /\ sentRows[i].of = t}
    <2>1. /\ report.pc = "records" /\ UNCHANGED <<told, sentRows, replyRows, replyAt, marking, tellFaults>>
          /\ report' = [pc |-> "traced", of |-> t, complete |-> report.complete, outbound |-> answer]
      BY <1>9 DEF ReadRecords, Reading, turnVars
    <2>2. t \in Told /\ report.complete \in BOOLEAN
      BY <1>0, <2>1 DEF TraceHasFields, TraceReports
    <2>3. told[t].pc # "idle" /\ (report.complete => IsDone(t))
      BY <2>1 DEF TraceCore, ReportKnows
    <2>4. /\ Candidates(t) \subseteq 1 .. Len(sentRows)
          /\ \A i \in Candidates(t) : sentRows[i].place = told[t].place
      BY <1>r DEF Candidates, Oldest, OfPlace
    <2>5. exact # {} => Min(exact) \in exact
      <3>1. exact \in SUBSET Nat
        BY <1>r, <2>4
      <3> HIDE DEF exact
      <3> QED
        BY <3>1, Smallest
    <2>6. Candidates(t) # {} => Min(Candidates(t)) \in Candidates(t)
      <3>1. Candidates(t) \in SUBSET Nat
        BY <1>r, <2>4
      <3> QED
        BY <3>1, Smallest
    <2>7. /\ answer \in Links
          /\ answer.link = "exact" => answer.record \in exact
          /\ answer.link # "none" => answer.record \in Candidates(t)
          /\ exact # {} => answer.link = "exact"
      <3>1. CASE Candidates(t) = {}
        <4>1. answer = [link |-> "none", record |-> 0]
          BY <3>1 DEF resolveOutbound
        <4> QED
          BY <3>1, <4>1 DEF Links
      <3>2. CASE Candidates(t) # {} /\ exact # {}
        <4>1. answer = [link |-> "exact", record |-> Min(exact)]
          BY <3>2 DEF resolveOutbound
        <4>2. Min(exact) \in exact /\ Min(exact) \in Candidates(t) /\ Min(exact) \in Nat
          BY <1>r, <2>4, <2>5, <3>2
        <4> HIDE DEF exact, answer
        <4> QED
          BY <4>1, <4>2 DEF Links
      <3>3. CASE Candidates(t) # {} /\ exact = {}
        <4>1. answer = [link |-> "best_effort", record |-> Min(Candidates(t))]
          BY <3>3 DEF resolveOutbound
        <4>2. Min(Candidates(t)) \in Candidates(t) /\ Min(Candidates(t)) \in Nat
          BY <1>r, <2>4, <2>6, <3>3
        <4> HIDE DEF exact, answer
        <4> QED
          BY <3>3, <4>1, <4>2 DEF Links
      <3> QED
        BY <3>1, <3>2, <3>3
    <2>8. report.complete /\ tellFaults = 0 /\ (\E j \in Candidates(t) : sentRows[j].of = t /\ sentRows[j].sent)
             => exact # {}
      <3>1. ASSUME report.complete, tellFaults = 0,
                   NEW j \in Candidates(t), sentRows[j].of = t, sentRows[j].sent
            PROVE  j \in exact
        <4>1. WasSent(t)
          BY <2>4, <3>1 DEF WasSent
        <4>2. report.reply = "marked"
          BY <2>1, <3>1, <4>1 DEF TraceCore, ReportKnows
        <4> QED
          BY <3>1, <4>2
      <3> QED
        BY <3>1
    <2>9. \A i \in exact : sentRows[i].of = t
      OBVIOUS
    <2> HIDE DEF exact, answer
    <2>10. /\ report' \in TraceReports /\ report'.pc = "traced" /\ report'.of = t
           /\ report'.complete = report.complete /\ report'.outbound = answer
      <3> HIDE DEF t
      <3> QED
        BY <2>1, <2>2, <2>7 DEF TraceReports
    <2>11. TraceHasFields'
      BY <1>0, <2>1, <2>10 DEF TraceHasFields
    <2>12. RowsFollowTurns'
      BY <1>0, <2>1 DEF RowsFollowTurns, HasRecord, WasSent, IsMarked
    <2>13. ReportKnows'
      <3>1. \A u \in Told : IsDone(u) <=> IsDone(u)'
        BY <2>1 DEF IsDone
      <3> QED
        BY <2>1, <2>2, <2>3, <2>4, <2>7, <2>10, <3>1 DEF ReportKnows
    <2>14. TracesTell'
      <3>1. \A u \in Told : Candidates(u)' = Candidates(u)
        BY <2>1 DEF Candidates, Oldest, OfPlace
      <3>2. answer.link = "exact" => sentRows[answer.record].of = t
        BY <2>7, <2>9
      <3>3. answer.link # "none" => sentRows[answer.record].place = told[t].place
        BY <2>4, <2>7
      <3> QED
        BY <2>1, <2>2, <2>7, <2>8, <2>10, <3>1, <3>2, <3>3 DEF TracesTell
    <2> QED
      BY <2>10, <2>11, <2>12, <2>13, <2>14 DEF TraceCore, TracesAreTrue, ListTells
  <1>10. ASSUME ListBegins
         PROVE  TraceCore'
    <2>1. /\ UNCHANGED <<told, sentRows, replyRows, replyAt, marking, tellFaults>>
          /\ report' = [pc |-> "replies", replies |-> {t \in Told : replyRows[t] # "none"}]
      BY <1>10 DEF ListBegins, Reading, turnVars
    <2>2. report'.pc = "replies" /\ report'.replies = {t \in Told : replyRows[t] # "none"}
      BY <2>1
    <2>3. TraceHasFields'
      BY <1>0, <2>1, <2>2 DEF TraceHasFields
    <2>4. RowsFollowTurns'
      BY <1>0, <2>1 DEF RowsFollowTurns, HasRecord, WasSent, IsMarked
    <2> QED
      BY <2>1, <2>2, <2>3, <2>4 DEF TraceCore, ReportKnows, TracesAreTrue, TracesTell, ListTells
  <1>11. ASSUME ListAnswers
         PROVE  TraceCore'
    <2>1. /\ report.pc = "replies" /\ UNCHANGED <<told, sentRows, replyRows, replyAt, marking, tellFaults>>
          /\ \E beside \in [report.replies -> 0 .. Len(sentRows)] :
                /\ \A t \in report.replies : beside[t] \in Beside(t)
                /\ report' = [pc |-> "listed", replies |-> report.replies, beside |-> beside]
      BY <1>11 DEF ListAnswers, Reading, turnVars
    <2>2. PICK beside \in [report.replies -> 0 .. Len(sentRows)] :
                /\ \A t \in report.replies : beside[t] \in Beside(t)
                /\ report' = [pc |-> "listed", replies |-> report.replies, beside |-> beside]
      BY <2>1
    <2>3. report'.pc = "listed" /\ report'.replies = report.replies /\ report'.beside = beside
      BY <2>2
    <2>4. \A t \in report.replies : t \in Told /\ replyRows[t] # "none"
      BY <1>0, <2>1 DEF TraceCore, TraceHasFields, ReportKnows
    <2>5. TraceHasFields'
      BY <1>0, <2>1, <2>3 DEF TraceHasFields
    <2>6. RowsFollowTurns'
      BY <1>0, <2>1 DEF RowsFollowTurns, HasRecord, WasSent, IsMarked
    <2>7. ReportKnows'
      BY <2>1, <2>2, <2>3, <2>4 DEF ReportKnows
    <2>r. Looked \subseteq 1 .. Len(sentRows)
      BY <1>r DEF Looked, Newest
    <2>p. ASSUME NEW t \in report.replies, beside[t] # 0
          PROVE  sentRows[beside[t]].place = told[t].place
      <3>1. beside[t] \in Beside(t)
        BY <2>2
      <3>2. beside[t] \in SameText(t) \/ beside[t] \in Nearest(t)
        BY <2>p, <3>1 DEF Beside
      <3>3. beside[t] \in Nearest(t) => beside[t] \in OfPlace(told[t].place)
        BY <2>p DEF Nearest, Newest, Oldest
      <3> QED
        BY <3>2, <3>3 DEF SameText, OfPlace
    <2>8. ASSUME NEW t \in report.replies, beside[t] # 0,
                 NEW j \in Looked, tellFaults = 0, sentRows[j].of = t
          PROVE  /\ IsWhole(told[t].text) => sentRows[beside[t]].of = t
                 /\ sentRows[beside[t]].text # InRow(told[t].text) => j <= beside[t]
      <3>1. /\ t \in Told /\ j \in 1 .. Len(sentRows) /\ Len(sentRows) \in Nat
            /\ beside[t] \in Beside(t) /\ beside[t] \in 0 .. Len(sentRows)
        BY <1>r, <2>2, <2>4, <2>r, <2>8
      <3>2. sentRows[j].place = told[t].place /\ sentRows[j].text = told[t].text
        BY <1>0, <2>8, <3>1 DEF RowsFollowTurns
      \* A text that is whole in its row has its own record among those of the same text.
      <3>3. ASSUME IsWhole(told[t].text)
            PROVE  sentRows[beside[t]].of = t
        <4>1. j \in SameText(t)
          BY <2>8, <3>2, <3>3 DEF SameText, IsWhole
        <4>2. SameText(t) # {} /\ ~(Cardinality(SameText(t)) > 1)
          BY <2>8, <3>1, <4>1 DEF Beside
        <4>3. IsFiniteSet(SameText(t))
          <5>1. SameText(t) \subseteq 1 .. Len(sentRows)
            BY <2>r DEF SameText
          <5>2. IsFiniteSet(1 .. Len(sentRows))
            BY <1>r, FS_Interval
          <5> QED
            BY <5>1, <5>2, FS_Subset
        <4>4. SameText(t) = {j}
          BY <4>1, <4>2, <4>3, Alone
        <4>5. beside[t] \in SameText(t)
          BY <3>1, <4>2 DEF Beside
        <4> QED
          BY <2>8, <4>4, <4>5
      \* One found by its time is no older than its own, which is older than its row.
      <3>4. ASSUME sentRows[beside[t]].text # InRow(told[t].text)
            PROVE  j <= beside[t]
        <4> DEFINE near == Looked \cap OfPlace(told[t].place)
                   before == {i \in near : i <= replyAt[t]}
        <4>1. beside[t] \in Nearest(t)
          BY <2>8, <3>1, <3>4 DEF Beside, SameText
        <4>2. beside[t] \in Newest(before, 1) \/ beside[t] \in near \ before
          BY <2>8, <4>1 DEF Nearest, Oldest
        <4>3. j <= replyAt[t] /\ replyAt[t] \in Nat
          <5>1. PICK i \in 1 .. Len(sentRows) : sentRows[i].of = t /\ i <= replyAt[t]
            BY <2>4, <2>8 DEF RecordsFirst
          <5>2. i = j
            BY <1>0, <2>8, <3>1, <5>1 DEF RowsFollowTurns
          <5> QED
            BY <1>0, <3>1, <5>1, <5>2 DEF TraceHasFields
        <4>4. j \in before
          BY <1>r, <3>1, <2>8, <3>2, <4>3 DEF OfPlace
        <4>5. CASE beside[t] \in near \ before
          <5>1. ~(beside[t] <= replyAt[t])
            BY <4>5
          <5> QED
            BY <3>1, <4>3, <5>1
        <4>6. CASE beside[t] \in Newest(before, 1)
          <5> DEFINE newer == {i \in before : i > beside[t]}
          <5>1. Cardinality(newer) < 1
            BY <4>6 DEF Newest
          <5>2. IsFiniteSet(newer)
            <6>1. newer \subseteq 1 .. Len(sentRows)
              BY <2>r
            <6>2. IsFiniteSet(1 .. Len(sentRows))
              BY <1>r, FS_Interval
            <6> HIDE DEF newer
            <6> QED
              BY <6>1, <6>2, FS_Subset
          <5>3. newer = {}
            <6> HIDE DEF newer
            <6>1. Cardinality(newer) \in Nat
              BY <5>2, FS_CardinalityType
            <6>2. Cardinality(newer) = 0
              BY <5>1, <6>1
            <6> QED
              BY <5>2, <6>2, FS_EmptySet
          <5>4. ~(j > beside[t])
            <6> HIDE DEF before
            <6> QED
              BY <4>4, <5>3
          <5> QED
            BY <3>1, <5>4
        <4> QED
          BY <4>2, <4>5, <4>6
      <3> QED
        BY <3>3, <3>4
    <2>9. Looked' = Looked
      BY <2>1 DEF Looked, Newest
    <2>10. ListTells'
      BY <2>1, <2>3, <2>p, <2>8, <2>9 DEF ListTells
    <2> QED
      BY <2>3, <2>5, <2>6, <2>7, <2>10 DEF TraceCore, TracesAreTrue, TracesTell
  <1>12. CASE UNCHANGED traceVars
    <2>1. UNCHANGED <<told, sentRows, replyRows, replyAt, marking, tellFaults, report>>
      BY <1>12 DEF traceVars, turnVars
    <2>2. TraceHasFields' /\ RowsFollowTurns'
      BY <1>0, <2>1 DEF TraceHasFields, RowsFollowTurns, HasRecord, WasSent, IsMarked
    <2>3. TurnsGo
      BY <2>1 DEF TurnsGo, IsDone
    <2>4. ReportKnows' /\ TracesAreTrue'
      BY <1>s, <2>1, <2>2, <2>3, ReportStands
    <2> QED
      BY <2>2, <2>4 DEF TraceCore
  <1> QED
    BY <1>1, <1>2, <1>3, <1>4, <1>5, <1>6, <1>7, <1>8, <1>9, <1>10, <1>11, <1>12 DEF TraceNext

\* A row is written after its record, unless there was a fault.
LEMMA RecordsFirstStays ==
  ASSUME TraceCore, TraceCore', RecordsFirst, [TraceNext]_traceVars
  PROVE  RecordsFirst'
  <1>1. /\ Len(sentRows) \in Nat /\ Len(sentRows') \in Nat /\ tellFaults \in Nat
        /\ replyRows \in [Told -> {"none", "draft", "marked"}] /\ replyAt \in [Told -> Nat]
    BY RecordFields DEF TraceCore, TraceHasFields
  <1>2. TellError => tellFaults' # 0
    BY <1>1 DEF TellError
  \* Records keep their place.
  <1>3. /\ Len(sentRows) <= Len(sentRows')
        /\ \A i \in 1 .. Len(sentRows) : sentRows'[i].of = sentRows[i].of
    <2>1. ASSUME NEW t \in Told, NEW sent \in BOOLEAN, sentRows' = Append(sentRows, Row(t, sent))
          PROVE  /\ Len(sentRows) <= Len(sentRows')
                 /\ \A i \in 1 .. Len(sentRows) : sentRows'[i].of = sentRows[i].of
      BY <2>1 DEF TraceCore, TraceHasFields
    <2>2. ASSUME NEW t \in Told,
                 sentRows' = [i \in DOMAIN sentRows |->
                                IF sentRows[i].of = t THEN [sentRows[i] EXCEPT !.sent = TRUE] ELSE sentRows[i]]
          PROVE  /\ Len(sentRows) <= Len(sentRows')
                 /\ \A i \in 1 .. Len(sentRows) : sentRows'[i].of = sentRows[i].of
      <3>1. DOMAIN sentRows = 1 .. Len(sentRows) /\ \A i \in 1 .. Len(sentRows) : sentRows[i] \in Records
        BY RecordFields DEF TraceCore
      <3>2. \A i \in 1 .. Len(sentRows) : sentRows'[i].of = sentRows[i].of
        BY <2>2, <3>1 DEF Records
      <3>3. DOMAIN sentRows' = 1 .. Len(sentRows)
        BY <2>2, <3>1
      <3>4. sentRows' \in Seq(Records)
        BY DEF TraceCore, TraceHasFields
      <3>5. Len(sentRows') = Len(sentRows)
        BY <1>1, <3>3, <3>4
      <3> QED
        BY <1>1, <3>2, <3>5
    <2>3. UNCHANGED sentRows => /\ Len(sentRows) <= Len(sentRows')
                                /\ \A i \in 1 .. Len(sentRows) : sentRows'[i].of = sentRows[i].of
      BY <1>1
    <2>4. \/ UNCHANGED sentRows
          \/ \E t \in Told, sent \in BOOLEAN : sentRows' = Append(sentRows, Row(t, sent))
          \/ \E t \in Told :
                sentRows' = [i \in DOMAIN sentRows |->
                               IF sentRows[i].of = t THEN [sentRows[i] EXCEPT !.sent = TRUE] ELSE sentRows[i]]
      BY DEF TraceNext, traceVars, turnVars, IsTold, Reserves, Drafts, Sends, Settles, Marks, TraceBegins,
             ReadReply, ReadRecords, ListBegins, ListAnswers, Reading
    <2> QED
      BY <2>1, <2>2, <2>3, <2>4
  <1>4. tellFaults' = 0 => tellFaults = 0
    BY <1>1, <1>2 DEF TraceNext, traceVars, turnVars, IsTold, Reserves, Drafts, Sends, Settles, Marks,
             TraceBegins, ReadReply, ReadRecords, ListBegins, ListAnswers, Reading, TellOk
  <1>5. SUFFICES ASSUME tellFaults' = 0, NEW u \in Told, replyRows'[u] # "none"
                 PROVE  \E i \in 1 .. Len(sentRows') : sentRows'[i].of = u /\ i <= replyAt'[u]
    BY DEF RecordsFirst
  <1>6. CASE replyRows[u] # "none" /\ replyAt'[u] = replyAt[u]
    <2>1. PICK i \in 1 .. Len(sentRows) : sentRows[i].of = u /\ i <= replyAt[u]
      BY <1>4, <1>5, <1>6 DEF RecordsFirst
    <2> QED
      BY <1>1, <1>3, <1>6, <2>1
  <1>7. CASE Drafts(u) /\ TellOk
    <2>1. told[u].pc = "reserved" /\ UNCHANGED sentRows
      BY <1>7 DEF Drafts
    <2>2. HasRecord(u)
      BY <1>4, <1>5, <2>1 DEF TraceCore, RowsFollowTurns
    <2>3. replyAt'[u] = Len(sentRows)
      BY <1>1, <1>2, <1>5, <1>7 DEF Drafts
    <2> QED
      BY <1>1, <2>1, <2>2, <2>3 DEF HasRecord
  <1>8. (replyRows[u] # "none" /\ replyAt'[u] = replyAt[u]) \/ (Drafts(u) /\ TellOk)
    <2>1. ASSUME NEW t \in Told, Drafts(t)
          PROVE  (replyRows[u] # "none" /\ replyAt'[u] = replyAt[u]) \/ (Drafts(u) /\ TellOk)
      BY <1>1, <1>2, <1>5, <2>1 DEF Drafts
    <2>2. ASSUME NEW t \in Told, Marks(t)
          PROVE  replyRows[u] # "none" /\ replyAt'[u] = replyAt[u]
      <3>1. replyRows[t] # "none"
        BY <1>4, <1>5, <2>2 DEF Marks, TraceCore, RowsFollowTurns
      <3> QED
        BY <1>1, <1>5, <2>2, <3>1 DEF Marks
    <2>3. CASE UNCHANGED <<replyRows, replyAt>>
      BY <1>5, <2>3
    <2> QED
      BY <2>1, <2>2, <2>3 DEF TraceNext, traceVars, turnVars, IsTold, Reserves, Sends, Settles, TraceBegins,
             ReadReply, ReadRecords, ListBegins, ListAnswers, Reading
  <1> QED
    BY <1>6, <1>7, <1>8

\* What the console tells of a reply is true in every behaviour of its turns and reports.
THEOREM TraceInvariant == TraceSpec => []TraceInv
  <1>1. TraceInit => TraceInv
    BY TraceInitially
  <1>2. TraceInv /\ [TraceNext]_traceVars => TraceInv'
    BY TraceSteps, RecordsFirstStays DEF TraceInv
  <1> QED
    BY <1>1, <1>2, PTL DEF TraceSpec

\* The type and the property are parts of the invariant; there are no more records than turns.
LEMMA InvariantTells ==
  ASSUME TraceInv
  PROVE  TraceTypeOK /\ TracesAreTrue
  <1>1. TraceHasFields /\ RowsFollowTurns /\ TracesAreTrue
    BY DEF TraceInv, TraceCore
  <1>2. /\ Len(sentRows) \in Nat /\ DOMAIN sentRows = 1 .. Len(sentRows)
        /\ \A i \in 1 .. Len(sentRows) : sentRows[i].of \in Told /\ sentRows[i].sent \in BOOLEAN
    BY <1>1, RecordFields DEF Records
  <1>3. Len(sentRows) <= Cardinality(Told) /\ Cardinality(Told) \in Nat
    <2> DEFINE f == [i \in 1 .. Len(sentRows) |-> sentRows[i].of]
    <2>1. f \in Injection(1 .. Len(sentRows), Told)
      BY <1>1, <1>2 DEF RowsFollowTurns, Injection, IsInjective
    <2>2. Cardinality(1 .. Len(sentRows)) = Len(sentRows)
      BY <1>2, FS_Interval
    <2> HIDE DEF f
    <2> QED
      BY <2>1, <2>2, FS_Injection, FS_CardinalityType, TracesAssumption
  <1>4. replyAt \in [Told -> 0 .. Cardinality(Told)]
    <2>1. \A t \in Told : replyAt[t] \in Nat /\ replyAt[t] <= Len(sentRows)
      BY <1>1 DEF TraceHasFields, RowsFollowTurns
    <2>2. \A t \in Told : replyAt[t] \in 0 .. Cardinality(Told)
      BY <1>2, <1>3, <2>1
    <2> QED
      BY <1>1, <2>2 DEF TraceHasFields
  <1>5. \A t \in Told : told[t].pc \in {"idle", "received", "reserved", "drafted", "sent", "done"}
    BY <1>1 DEF TraceHasFields, Turns
  <1> QED
    BY <1>1, <1>2, <1>4, <1>5 DEF TraceTypeOK, TraceHasFields

-----------------------------------------------------------------------------
(* Readiness *)

\* The beats a live part reads.
EvidenceOf(p) ==
    CASE p = "pipeline" -> {"messagePipeline"} [] p = "health" -> {"backend", "schedulerWorker"}
      [] p = "errors" -> CriticalBeat [] OTHER -> {}

\* What was read without a finding is no older than a fresh beat and the collection.
FreshSoFar ==
    todo # {} /\ found = {} =>
        \A p \in Live \ todo, k \in BeatKey : k \in EvidenceOf(p) => beats[k] <= StaleAfter + took

ReadinessInv == ReadinessTypeOK /\ FreshSoFar /\ ReadyIsFresh

\* What a live part finds is a status, and passes on fresh beats alone.
LEMMA LiveStatuses ==
  ASSUME ReadinessTypeOK, NEW p \in Live
  PROVE  /\ LiveCheck(p, beats, alive) \subseteq {"pass", "warn", "fail", "unknown"}
         /\ LiveCheck(p, beats, alive) \subseteq {"pass"} =>
              \A k \in BeatKey : k \in EvidenceOf(p) => beats[k] <= StaleAfter
  <1>1. ASSUME NEW k \in BeatKey
        PROVE  /\ BeatCheck(beats, k) \in {"pass", "warn", "unknown"}
               /\ BeatCheck(beats, k) = "pass" => beats[k] <= StaleAfter
    <2>1. beats[k] \in 0 .. NoBeat
      BY DEF ReadinessTypeOK
    <2>2. BeatStatus(beats, k) = "stale" <=> beats[k] \in StaleAfter + 1 .. OldBeat
      BY <2>1, ReadinessAssumption DEF BeatStatus, NoBeat, OldBeat
    <2> QED
      BY <2>1, <2>2, ReadinessAssumption DEF BeatCheck, NoBeat, OldBeat
  <1>2. CASE p = "status"
    BY <1>2 DEF LiveCheck, EvidenceOf
  <1>3. CASE p = "session"
    BY <1>3 DEF LiveCheck, EvidenceOf
  <1>4. CASE p = "pipeline"
    <2>1. LiveCheck(p, beats, alive) = {BeatCheck(beats, "messagePipeline")}
      BY <1>4 DEF LiveCheck
    <2>2. EvidenceOf(p) = {"messagePipeline"} /\ "messagePipeline" \in BeatKey
      BY <1>4 DEF EvidenceOf, BeatKey
    <2> QED
      BY <1>1, <2>1, <2>2
  <1>5. CASE p = "health"
    <2>1. LiveCheck(p, beats, alive) = {BeatCheck(beats, "backend"), BeatCheck(beats, "schedulerWorker")}
      BY <1>5 DEF LiveCheck
    <2>2. EvidenceOf(p) = {"backend", "schedulerWorker"} /\ EvidenceOf(p) \subseteq BeatKey
      BY <1>5 DEF EvidenceOf, BeatKey
    <2> QED
      BY <1>1, <2>1, <2>2
  <1>6. CASE p = "errors"
    <2> DEFINE critical == {BeatCheck(beats, k) : k \in CriticalBeat}
    <2>1. LiveCheck(p, beats, alive) =
            {IF "unknown" \in critical THEN "unknown" ELSE IF "warn" \in critical THEN "warn" ELSE "pass"}
      BY <1>6 DEF LiveCheck
    <2>2. EvidenceOf(p) = CriticalBeat /\ CriticalBeat \subseteq BeatKey
      BY <1>6 DEF EvidenceOf, CriticalBeat, BeatKey
    <2>3. \A k \in CriticalBeat : BeatCheck(beats, k) \in critical /\ BeatCheck(beats, k) \in {"pass", "warn", "unknown"}
      BY <1>1, <2>2
    <2> HIDE DEF critical
    <2>4. LiveCheck(p, beats, alive) \subseteq {"pass"} => \A k \in CriticalBeat : BeatCheck(beats, k) = "pass"
      BY <2>1, <2>3
    <2>5. LiveCheck(p, beats, alive) \subseteq {"pass", "warn", "fail", "unknown"}
      BY <2>1
    <2> QED
      BY <1>1, <2>2, <2>4, <2>5
  <1> QED
    BY <1>2, <1>3, <1>4, <1>5, <1>6 DEF Live

LEMMA ReadinessInitially ==
  ASSUME ReadinessInit
  PROVE  ReadinessInv
  <1>1. NoBeat \in Nat /\ 0 \in 0 .. NoBeat /\ NoBeat \in 0 .. NoBeat /\ 0 \in 0 .. MaxTook
    BY ReadinessAssumption DEF NoBeat, OldBeat
  <1> QED
    BY <1>1 DEF ReadinessInit, ReadinessInv, ReadinessTypeOK, FreshSoFar, ReadyIsFresh

\* A step that takes the verdict back and makes no beat older.
LEMMA StillFresh ==
  ASSUME ReadinessInv, beats' \in [BeatKey -> 0 .. NoBeat], UNCHANGED <<todo, found, took>>, verdict' = "none",
         alive' \subseteq {"worker", "connection", "listener"},
         \A k \in BeatKey : beats'[k] <= beats[k]
  PROVE  ReadinessInv'
  <1>1. \A k \in BeatKey : beats[k] \in Nat /\ beats'[k] \in Nat
    BY ReadinessAssumption DEF ReadinessInv, ReadinessTypeOK, NoBeat, OldBeat
  <1>2. took \in Nat
    BY ReadinessAssumption DEF ReadinessInv, ReadinessTypeOK
  <1>3. \A k \in BeatKey : beats[k] <= StaleAfter + took => beats'[k] <= StaleAfter + took
    BY <1>1, <1>2, ReadinessAssumption
  <1>4. FreshSoFar'
    BY <1>3 DEF ReadinessInv, FreshSoFar
  <1> QED
    BY <1>4 DEF ReadinessInv, ReadinessTypeOK, ReadyIsFresh

LEMMA ReadinessSteps ==
  ASSUME ReadinessInv, [ReadinessNext]_readinessVars
  PROVE  ReadinessInv'
  <1>0. ReadinessTypeOK /\ FreshSoFar /\ ReadyIsFresh
    BY DEF ReadinessInv
  <1>t. /\ beats \in [BeatKey -> 0 .. NoBeat] /\ NoBeat \in Nat /\ OldBeat \in Nat /\ NoBeat = OldBeat + 1
        /\ StaleAfter \in Nat /\ MaxTook \in Nat /\ took \in 0 .. MaxTook /\ took \in Nat
    BY <1>0, ReadinessAssumption DEF ReadinessTypeOK, NoBeat, OldBeat
  <1>n. \A k \in BeatKey : beats[k] \in Nat
    BY <1>t
  <1>1. CASE Tick
    <2>1. /\ beats' = [k \in BeatKey |-> IF k = "backend" THEN 0
                                         ELSE IF beats[k] >= OldBeat THEN beats[k] ELSE beats[k] + 1]
          /\ took' = (IF todo = {} THEN 0 ELSE took + 1) /\ (todo # {} => took < MaxTook)
          /\ verdict' = "none" /\ UNCHANGED <<alive, todo, found>>
      BY <1>1 DEF Tick, Cleared
    <2>2. \A k \in BeatKey : beats'[k] \in 0 .. NoBeat /\ beats'[k] <= beats[k] + 1
      BY <1>t, <1>n, <2>1
    <2>3. beats' \in [BeatKey -> 0 .. NoBeat]
      BY <2>1, <2>2
    <2>4. took' \in 0 .. MaxTook /\ (todo # {} => took' = took + 1)
      BY <1>t, <2>1
    <2>5. FreshSoFar'
      <3>1. SUFFICES ASSUME todo # {}, found = {}, NEW p \in Live \ todo, NEW k \in BeatKey, k \in EvidenceOf(p)
                     PROVE  beats'[k] <= StaleAfter + took'
        BY <2>1 DEF FreshSoFar
      <3>2. beats[k] <= StaleAfter + took
        BY <1>0, <3>1 DEF FreshSoFar
      <3>3. beats'[k] \in Nat
        BY <1>t, <2>2
      <3> QED
        BY <1>t, <1>n, <2>2, <2>4, <3>1, <3>2, <3>3
    <2> QED
      BY <1>0, <2>1, <2>3, <2>4, <2>5 DEF ReadinessInv, ReadinessTypeOK, ReadyIsFresh
  <1>2. ASSUME NEW k \in BeatKey, Beat(k), Untouched, Cleared, alive' \subseteq {"worker", "connection", "listener"}
        PROVE  ReadinessInv'
    <2>1. beats' = [beats EXCEPT ![k] = 0]
      BY <1>2 DEF Beat
    <2>2. beats' \in [BeatKey -> 0 .. NoBeat] /\ \A j \in BeatKey : beats'[j] <= beats[j]
      BY <1>t, <1>n, <2>1
    <2> QED
      BY <1>2, <2>2, StillFresh DEF Untouched, Cleared
  <1>3. ASSUME UNCHANGED beats, Untouched, Cleared, alive' \subseteq {"worker", "connection", "listener"}
        PROVE  ReadinessInv'
    BY <1>t, <1>n, <1>3, StillFresh DEF Untouched, Cleared
  <1>4. alive \subseteq {"worker", "connection", "listener"}
    BY <1>0 DEF ReadinessTypeOK
  <1>5. CASE WorkerStarts \/ WorkerStops \/ Disconnects
    BY <1>3, <1>4, <1>5 DEF WorkerStarts, WorkerStops, Disconnects
  <1>6. CASE WorkerBeats \/ Connects \/ ListenerStarts \/ MessageBeats
    <2>1. {"schedulerWorker", "zaloConnection", "zaloListener", "messagePipeline"} \subseteq BeatKey
      BY DEF BeatKey
    <2> QED
      BY <1>2, <1>4, <1>6, <2>1 DEF WorkerBeats, Connects, ListenerStarts, MessageBeats
  <1>7. CASE BeginReadiness
    <2>1. todo' = Live /\ found' = {} /\ took' = 0 /\ verdict' = "none" /\ UNCHANGED <<beats, alive>>
      BY <1>7 DEF BeginReadiness, Cleared
    <2>2. took' \in 0 .. MaxTook
      BY <1>t, <2>1
    <2> QED
      BY <1>0, <2>1, <2>2 DEF ReadinessInv, ReadinessTypeOK, FreshSoFar, ReadyIsFresh
  <1>8. ASSUME NEW p \in Live, ReadPart(p)
        PROVE  ReadinessInv'
    <2>1. /\ p \in todo /\ todo' = todo \ {p} /\ verdict' = "none" /\ UNCHANGED <<beats, alive, took>>
      BY <1>8 DEF ReadPart, Cleared
    <2>2. PICK statuses \in {LiveCheck(p, beats, alive), {"unknown"}} : found' = found \cup (statuses \ {"pass"})
      BY <1>8 DEF ReadPart
    <2>3. statuses \subseteq {"pass", "warn", "fail", "unknown"}
      BY <1>0, <2>2, LiveStatuses
    <2>4. found' = {} => \A k \in BeatKey : k \in EvidenceOf(p) => beats[k] <= StaleAfter
      <3>1. ASSUME found' = {}
            PROVE  LiveCheck(p, beats, alive) \subseteq {"pass"}
        <4>1. statuses \subseteq {"pass"}
          BY <2>2, <3>1
        <4>2. statuses = LiveCheck(p, beats, alive)
          BY <2>2, <4>1
        <4> QED
          BY <4>1, <4>2
      <3> QED
        BY <1>0, <3>1, LiveStatuses
    <2>5. FreshSoFar'
      <3>1. SUFFICES ASSUME todo' # {}, found' = {}, NEW q \in Live \ todo', NEW k \in BeatKey, k \in EvidenceOf(q)
                     PROVE  beats[k] <= StaleAfter + took
        BY <2>1 DEF FreshSoFar
      <3>2. CASE q = p
        BY <1>t, <1>n, <2>4, <3>1, <3>2
      <3>3. CASE q # p
        BY <1>0, <2>1, <2>2, <3>1, <3>3 DEF FreshSoFar
      <3> QED
        BY <3>2, <3>3
    <2>6. ReadinessTypeOK'
      <3>1. found' \subseteq {"warn", "fail", "unknown"}
        BY <1>0, <2>2, <2>3 DEF ReadinessTypeOK
      <3> QED
        BY <1>0, <2>1, <3>1 DEF ReadinessTypeOK
    <2> QED
      BY <2>1, <2>5, <2>6 DEF ReadinessInv, ReadyIsFresh
  <1>9. ASSUME NEW p \in Live, Answered(p)
        PROVE  ReadinessInv'
    <2>1. /\ todo = {p} /\ todo' = {} /\ found' = {} /\ UNCHANGED <<beats, alive, took>>
      BY <1>9 DEF Answered
    <2>2. PICK statuses \in {LiveCheck(p, beats, alive), {"unknown"}}, static \in StaticOutcomes :
             verdict' = VerdictOf(found \cup statuses \cup static)
      BY <1>9, SMTT(40) DEF Answered
    <2>3. statuses \subseteq {"pass", "warn", "fail", "unknown"}
      BY <1>0, <2>2, LiveStatuses
    <2>4. ReadinessTypeOK'
      <3>1. verdict' \in {"none", "NOT_READY", "WARNING_ONLY", "READY_FOR_LIVE"}
        BY <2>2 DEF VerdictOf
      <3> QED
        BY <1>0, <2>1, <3>1 DEF ReadinessTypeOK
    <2>5. ASSUME verdict' = "READY_FOR_LIVE"
          PROVE  \A k \in BeatKey \ {"zaloListener"} : beats[k] <= StaleAfter + took
      <3>1. (found \cup statuses \cup static) \cap {"unknown", "fail"} = {} /\ "warn" \notin found \cup statuses
        BY <2>2, <2>5 DEF VerdictOf
      <3>2. found = {}
        BY <1>0, <3>1 DEF ReadinessTypeOK
      <3>3. statuses \subseteq {"pass"} /\ statuses = LiveCheck(p, beats, alive)
        BY <2>2, <2>3, <3>1
      <3>4. \A k \in BeatKey : k \in EvidenceOf(p) => beats[k] <= StaleAfter + took
        <4>1. \A k \in BeatKey : k \in EvidenceOf(p) => beats[k] <= StaleAfter
          BY <1>0, <3>3, LiveStatuses
        <4> QED
          BY <1>t, <1>n, <4>1
      <3>5. \A q \in Live, k \in BeatKey : k \in EvidenceOf(q) => beats[k] <= StaleAfter + took
        BY <1>0, <2>1, <3>2, <3>4 DEF FreshSoFar
      <3>6. \A k \in BeatKey \ {"zaloListener"} : \E q \in Live : k \in EvidenceOf(q)
        <4>1. "pipeline" \in Live /\ "health" \in Live /\ "errors" \in Live
          BY DEF Live
        <4>2. /\ EvidenceOf("pipeline") = {"messagePipeline"} /\ EvidenceOf("health") = {"backend", "schedulerWorker"}
              /\ EvidenceOf("errors") = {"backend", "zaloConnection"}
          BY DEF EvidenceOf, CriticalBeat
        <4> QED
          BY <4>1, <4>2 DEF BeatKey
      <3> QED
        BY <3>5, <3>6
    <2> QED
      BY <2>1, <2>4, <2>5 DEF ReadinessInv, FreshSoFar, ReadyIsFresh
  <1>10. CASE UNCHANGED readinessVars
    BY <1>0, <1>10 DEF ReadinessInv, ReadinessTypeOK, FreshSoFar, ReadyIsFresh, readinessVars
  <1> QED
    BY <1>1, <1>5, <1>6, <1>7, <1>8, <1>9, <1>10 DEF ReadinessNext

\* A READY_FOR_LIVE is about now in every behaviour of the beats and the collection.
THEOREM ReadinessInvariant == ReadinessSpec => []ReadinessInv
  <1>1. ReadinessInit => ReadinessInv
    BY ReadinessInitially
  <1>2. ReadinessInv /\ [ReadinessNext]_readinessVars => ReadinessInv'
    BY ReadinessSteps
  <1> QED
    BY <1>1, <1>2, PTL DEF ReadinessSpec

\* A fact that is out of order has one of its odd values, so the counts are numbers.
LEMMA CountsOfFacts ==
  ASSUME NEW f \in Facts
  PROVE  f.tasks \in Nat /\ f.executions \in Nat
  <1>1. PICK o \in Odd \cup Context, c \in Context : f = Fact({o, c})
    BY DEF Facts
  <1>2. \A q \in Odd \cup Context : /\ q[1] = "tasks" => q[2] \in Nat
                                    /\ q[1] = "executions" => q[2] \in Nat
    BY DEF Odd, Context
  <1>3. /\ "tasks" \in DOMAIN Normal /\ "executions" \in DOMAIN Normal
        /\ Normal["tasks"] = 0 /\ Normal["executions"] = 0
    BY DEF Normal
  <1>4. {o, c} \subseteq Odd \cup Context
    OBVIOUS
  <1>5. ASSUME NEW x \in {"tasks", "executions"}
        PROVE  f[x] \in Nat
    <2>1. f[x] = IF \E q \in {o, c} : q[1] = x THEN (CHOOSE q \in {o, c} : q[1] = x)[2] ELSE Normal[x]
      BY <1>1, <1>3 DEF Fact
    <2>2. CASE \E q \in {o, c} : q[1] = x
      <3> DEFINE chosen == CHOOSE q \in {o, c} : q[1] = x
      <3>1. chosen \in {o, c} /\ chosen[1] = x
        BY <2>2
      <3> HIDE DEF chosen
      <3>2. chosen[2] \in Nat
        BY <1>2, <1>4, <3>1
      <3> QED
        BY <2>1, <2>2, <3>2 DEF chosen
    <2>3. CASE ~\E q \in {o, c} : q[1] = x
      BY <1>3, <2>1, <2>3
    <2> QED
      BY <2>2, <2>3
  <1> QED
    BY <1>5

\* What is ready for live passes every check.
LEMMA AllPass ==
  ASSUME NEW f, NEW b, NEW live, ReadinessNow(f, b, live) = "READY_FOR_LIVE"
  PROVE  /\ \A s \in StaticStatuses(f) : s \notin {"unknown", "fail", "warn"}
         /\ \A p \in Live : \A s \in LiveCheck(p, b, live) : s \notin {"unknown", "fail", "warn"}
  BY DEF ReadinessNow, VerdictOf

\* A check's status is among those given.
LEMMA Given ==
  ASSUME NEW f
  PROVE  /\ SafetyChecks(f).dryRun \in StaticStatuses(f)
         /\ ConfigChecks(f).status \in StaticStatuses(f)
         /\ HealthChecks(f).processLock \in StaticStatuses(f)
         /\ BackupChecks(f).dbSize \in StaticStatuses(f)
         /\ ErrorsChecks(f).agentTasks \in StaticStatuses(f) /\ ErrorsChecks(f).executions \in StaticStatuses(f)
  <1>1. /\ Range(SafetyChecks(f)) \subseteq StaticStatuses(f) /\ Range(ConfigChecks(f)) \subseteq StaticStatuses(f)
        /\ Range(HealthChecks(f)) \subseteq StaticStatuses(f) /\ Range(BackupChecks(f)) \subseteq StaticStatuses(f)
        /\ Range(ErrorsChecks(f)) \subseteq StaticStatuses(f)
    BY DEF StaticStatuses
  <1>2. SafetyChecks(f).dryRun \in Range(SafetyChecks(f))
    BY DEF SafetyChecks, Range
  <1>3. ConfigChecks(f).status \in Range(ConfigChecks(f))
    BY DEF ConfigChecks, Range
  <1>4. HealthChecks(f).processLock \in Range(HealthChecks(f))
    BY DEF HealthChecks, Range
  <1>5. BackupChecks(f).dbSize \in Range(BackupChecks(f))
    BY DEF BackupChecks, Range
  <1>6. ErrorsChecks(f).agentTasks \in Range(ErrorsChecks(f)) /\ ErrorsChecks(f).executions \in Range(ErrorsChecks(f))
    BY DEF ErrorsChecks, Range
  <1> QED
    BY <1>1, <1>2, <1>3, <1>4, <1>5, <1>6

\* What is ready for live is healthy, whatever the facts and the beats.
LEMMA ReadyMeansHealthy ==
  ASSUME NEW f, ReadinessNow(f, beats, alive) = "READY_FOR_LIVE",
         f.db = "ok", CollectBackup(f) # "old", Severe(ErrorGroups(f, beats)) = {}
  PROVE  OverallStatus(Snapshot(f, beats, alive)) = "healthy"
  <1> DEFINE s == Snapshot(f, beats, alive)
  <1>1. f.dryRun = "on"
    <2>1. SafetyChecks(f).dryRun = IF f.dryRun = "on" THEN "pass" ELSE "fail"
      BY DEF SafetyChecks
    <2> QED
      BY <2>1, AllPass, Given
  <1>2. ConfigStatus(f) = "CONFIG_OK"
    <2>1. ConfigChecks(f).status =
            CASE ConfigStatus(f) = "CONFIG_OK" -> "pass" [] ConfigStatus(f) = "CONFIG_WARN" -> "warn"
            [] OTHER -> "fail"
      BY DEF ConfigChecks
    <2> QED
      BY <2>1, AllPass, Given
  <1>3. f.lock # "other"
    <2>1. HealthChecks(f).processLock =
            CASE f.lock = "own" -> "pass" [] f.lock = "other" -> "fail" [] f.lock = "stale" -> "warn"
            [] OTHER -> "unknown"
      BY DEF HealthChecks
    <2> QED
      BY <2>1, AllPass, Given
  <1>4. f.dbFile # "missing"
    <2>1. BackupChecks(f).dbSize =
            CASE f.dbFile = "missing" -> "unknown" [] f.dbFile = "big" -> "warn" [] OTHER -> "pass"
      BY DEF BackupChecks
    <2> QED
      BY <2>1, AllPass, Given
  <1>5. f.tasks = 0 /\ f.executions = 0
    <2>1. /\ ErrorsChecks(f).agentTasks = Level(f.tasks, 5)
          /\ ErrorsChecks(f).executions = Level(f.executions, 3)
      BY DEF ErrorsChecks
    <2>2. Level(f.tasks, 5) \notin {"warn", "fail"} /\ Level(f.executions, 3) \notin {"warn", "fail"}
      BY <2>1, AllPass, Given
    <2> QED
      BY <2>2 DEF Level
  <1>6. "connection" \in alive
    <2>1. LiveCheck("status", beats, alive) =
            {IF w \in alive THEN "pass" ELSE "fail" : w \in {"connection", "listener"}}
      BY DEF LiveCheck
    <2>2. "status" \in Live
      BY DEF Live
    <2>3. (IF "connection" \in alive THEN "pass" ELSE "fail") \in LiveCheck("status", beats, alive)
      BY <2>1
    <2>4. (IF "connection" \in alive THEN "pass" ELSE "fail") \notin {"unknown", "fail", "warn"}
      BY <2>2, <2>3, AllPass
    <2> QED
      BY <2>4
  <1>7. BeatStatus(beats, "schedulerWorker") = "ok"
    <2>1. LiveCheck("health", beats, alive) = {BeatCheck(beats, "backend"), BeatCheck(beats, "schedulerWorker")}
      BY DEF LiveCheck
    <2>2. "health" \in Live
      BY DEF Live
    <2>3. BeatCheck(beats, "schedulerWorker") \notin {"unknown", "fail", "warn"}
      BY <2>1, <2>2, AllPass
    <2> QED
      BY <2>3 DEF BeatCheck, BeatStatus
  <1>8. ErrorSummary(f, beats).status # "error"
    BY DEF ErrorSummary
  <1>9. /\ s.dbOk /\ ~s.foreignLock /\ s.connected /\ s.backup # "old" /\ s.config = "CONFIG_OK" /\ s.worker
        /\ s.tasks = 0 /\ s.executions = 0 /\ s.dryRun /\ s.errors # "error"
    BY <1>1, <1>2, <1>3, <1>4, <1>5, <1>6, <1>7, <1>8
       DEF Snapshot, CollectDb, CollectProcessLock, CollectZalo, CollectWorker
  <1> HIDE DEF s
  <1>10. OverallStatus(s) = "healthy"
    BY <1>9 DEF OverallStatus
  <1> QED
    BY <1>10 DEF s

\* The configuration has finitely many problems, and an unsafe one is an error unless the
\* system is live or has several instances.
LEMMA Problems ==
  ASSUME NEW f
  PROVE  /\ IsFiniteSet(ConfigProblem(f))
         /\ AcceptsConfig(ConfigProblem(f)) \/ f.envDryRun = "off" \/ f.instances = "many"
  <1>1. DOMAIN ConfigRows(f) = 1 .. 14
    BY SMTT(60) DEF ConfigRows
  <1>2. IsFiniteSet(ConfigProblem(f))
    <2>1. 1 \in Int /\ 14 \in Int
      OBVIOUS
    <2>2. IsFiniteSet(1 .. 14)
      BY <2>1, FS_Interval
    <2>3. ConfigRows(f) \in Surjection(1 .. 14, Range(ConfigRows(f)))
      <3>1. ConfigRows(f) = [i \in DOMAIN ConfigRows(f) |-> ConfigRows(f)[i]]
        BY DEF ConfigRows
      <3>2. Range(ConfigRows(f)) = {ConfigRows(f)[i] : i \in 1 .. 14}
        BY <1>1 DEF Range
      <3> QED
        BY <1>1, <3>1, <3>2 DEF Surjection
    <2>4. IsFiniteSet(Range(ConfigRows(f)))
      BY <2>2, <2>3, FS_Surjection
    <2>5. ConfigProblem(f) \in SUBSET Range(ConfigRows(f))
      BY DEF ConfigProblem
    <2> QED
      BY <2>4, <2>5, FS_Subset
  <1>3. ASSUME f.envDryRun # "off", f.instances # "many",
               NEW i \in 1 .. 14, ConfigRows(f)[i].when
        PROVE  ConfigRows(f)[i].safe = (ConfigRows(f)[i].severity # "ERROR")
    <2>1. CASE i \in {1, 4, 5, 6, 9, 10, 11}
      <3>1. ConfigRows(f)[i].severity = "WARN" /\ ConfigRows(f)[i].safe = TRUE
        BY <2>1, SMTT(60) DEF ConfigRows, ConfigRow
      <3> QED
        BY <3>1
    <2>2. CASE i \in {2, 7, 8, 13, 14}
      <3>1. ConfigRows(f)[i].severity = "ERROR" /\ ConfigRows(f)[i].safe = FALSE
        BY <2>2, SMTT(60) DEF ConfigRows, ConfigRow
      <3> QED
        BY <3>1
    <2>3. CASE i \in {3, 12}
      <3>1. /\ ConfigRows(f)[3] = ConfigRow("autoReply.dryRun", f.envDryRun = "off", "WARN", FALSE)
            /\ ConfigRows(f)[12] = ConfigRow("processLock.multipleInstances", f.instances = "many", "WARN", FALSE)
        BY SMTT(60) DEF ConfigRows
      <3>2. /\ ConfigRow("autoReply.dryRun", f.envDryRun = "off", "WARN", FALSE).when <=> f.envDryRun = "off"
            /\ ConfigRow("processLock.multipleInstances", f.instances = "many", "WARN", FALSE).when
                  <=> f.instances = "many"
        BY DEF ConfigRow
      <3>3. i = 3 \/ i = 12
        BY <2>3
      <3> QED
        BY Zenon, <1>3, <3>1, <3>2, <3>3
    <2> QED
      BY <2>1, <2>2, <2>3
  <1>4. AcceptsConfig(ConfigProblem(f)) \/ f.envDryRun = "off" \/ f.instances = "many"
    <2>1. SUFFICES ASSUME f.envDryRun # "off", f.instances # "many", NEW r \in ConfigProblem(f)
                   PROVE  r.safe = (r.severity # "ERROR")
      BY DEF AcceptsConfig
    <2>2. r \in Range(ConfigRows(f)) /\ r.when
      BY DEF ConfigProblem
    <2>3. PICK i \in 1 .. 14 : r = ConfigRows(f)[i]
      BY <1>1, <2>2 DEF Range
    <2> QED
      BY <1>3, <2>1, <2>2, <2>3
  <1> QED
    BY <1>2, <1>4

\* A sum of ones is the number of groups; of positive counts it is positive unless there is none.
LEMMA SumOfCounts ==
  ASSUME NEW groups, IsFiniteSet(groups), \A g \in groups : g.count \in Nat \ {0}
  PROVE  /\ (CountOf(groups) > 0) = (groups # {})
         /\ (\A g \in groups : g.count = 1) => CountOf(groups) = Cardinality(groups)
  <1> DEFINE blocks == {{g} \X (1 .. g.count) : g \in groups}
             pairs == UNION blocks
             block == [g \in groups |-> {g} \X (1 .. g.count)]
             pair == [g \in groups |-> <<g, 1>>]
  <1>1. CountOf(groups) = Cardinality(pairs)
    BY DEF CountOf
  <1>2. IsFiniteSet(pairs)
    <2>1. block \in Surjection(groups, blocks)
      BY DEF Surjection
    <2>2. IsFiniteSet(blocks)
      <3> HIDE DEF block, blocks
      <3> QED
        BY <2>1, FS_Surjection
    <2>3. ASSUME NEW g \in groups
          PROVE  IsFiniteSet({g} \X (1 .. g.count))
      <3>1. 1 \in Int /\ g.count \in Int
        OBVIOUS
      <3>2. IsFiniteSet(1 .. g.count) /\ IsFiniteSet({g})
        BY <3>1, FS_Interval, FS_Singleton
      <3> QED
        BY <3>2, FS_Product
    <2>4. \A T \in blocks : IsFiniteSet(T)
      BY <2>3
    <2> HIDE DEF blocks
    <2> QED
      BY <2>2, <2>4, FS_UNION
  <1>3. \A g \in groups : <<g, 1>> \in pairs
    OBVIOUS
  <1>4. groups = {} => pairs = {}
    OBVIOUS
  <1>5. (Cardinality(pairs) > 0) <=> groups # {}
    <2> HIDE DEF pairs
    <2>1. Cardinality(pairs) \in Nat /\ (Cardinality(pairs) = 0 <=> pairs = {})
      BY <1>2, FS_CardinalityType, FS_EmptySet
    <2>2. groups # {} => pairs # {}
      BY <1>3
    <2>3. CASE pairs = {}
      BY <2>1, <2>2, <2>3
    <2>4. CASE pairs # {}
      BY <1>4, <2>1, <2>4
    <2> QED
      BY <2>3, <2>4
  <1>6. ASSUME \A g \in groups : g.count = 1
        PROVE  Cardinality(pairs) = Cardinality(groups)
    <2>1. pairs = {<<g, 1>> : g \in groups}
      BY <1>6
    <2>2. pair \in Bijection(groups, pairs)
      <3>1. pair \in Injection(groups, {<<g, 1>> : g \in groups})
        BY DEF Injection, IsInjective
      <3>2. pair \in Surjection(groups, {<<g, 1>> : g \in groups})
        BY DEF Surjection
      <3> QED
        BY <2>1, <3>1, <3>2 DEF Bijection
    <2> HIDE DEF pair, pairs
    <2> QED
      BY <2>2, FS_Bijection DEF ExistsBijection
  <1> HIDE DEF pairs
  <1> QED
    BY <1>1, <1>5, <1>6

\* The groups of an error summary are finitely many, each with a count, and a beat's is one.
LEMMA GroupsCount ==
  ASSUME NEW f \in Facts
  PROVE  /\ IsFiniteSet(ErrorGroups(f, beats))
         /\ \A g \in ErrorGroups(f, beats) :
              /\ g.count \in Nat \ {0}
              /\ g.source = "Heartbeat" => g.count = 1
  <1> DEFINE blocked == IF f.blocked = "none" THEN 0 ELSE 1
             task == Group("AgentTask", "task", f.tasks, f.taskCode)
             run == Group("ScheduleExecution", "run", f.executions, "medium")
             block == Group("OutboundRecord", "block", blocked, f.blocked)
             counted == {g \in {task, run, block} : g.count > 0}
             old == {k \in BeatKey : BeatStatus(beats, k) # "ok"}
             ofBeat == [k \in old |-> Group("Heartbeat", k, 1, IF BeatStatus(beats, k) = "down" THEN "high" ELSE "medium")]
             ofRow == [r \in ConfigProblem(f) |-> Group("Config", r.name, 1, IF r.severity = "ERROR" THEN "high" ELSE "medium")]
             beatGroups == {ofBeat[k] : k \in old}
             rowGroups == {ofRow[r] : r \in ConfigProblem(f)}
  <1>1. ErrorGroups(f, beats) = counted \cup beatGroups \cup rowGroups
    BY DEF ErrorGroups
  <1>2. IsFiniteSet(counted)
    <2>1. counted \in SUBSET ({task} \cup {run} \cup {block})
      OBVIOUS
    <2> HIDE DEF counted, task, run, block
    <2>2. IsFiniteSet({task} \cup {run}) /\ IsFiniteSet({block})
      BY FS_Singleton, FS_AddElement
    <2>3. IsFiniteSet({task} \cup {run} \cup {block})
      BY <2>2, FS_Union
    <2> QED
      BY <2>1, <2>3, FS_Subset
  <1>3. IsFiniteSet(beatGroups)
    <2>1. IsFiniteSet(BeatKey)
      <3>1. IsFiniteSet({"backend"} \cup {"zaloListener"})
        BY FS_Singleton, FS_AddElement
      <3>2. IsFiniteSet(({"backend"} \cup {"zaloListener"}) \cup {"zaloConnection"})
        BY <3>1, FS_AddElement
      <3>3. IsFiniteSet({"schedulerWorker"} \cup {"messagePipeline"})
        BY FS_Singleton, FS_AddElement
      <3>4. IsFiniteSet((({"backend"} \cup {"zaloListener"}) \cup {"zaloConnection"})
                        \cup ({"schedulerWorker"} \cup {"messagePipeline"}))
        BY <3>2, <3>3, FS_Union
      <3>5. BeatKey = (({"backend"} \cup {"zaloListener"}) \cup {"zaloConnection"})
                      \cup ({"schedulerWorker"} \cup {"messagePipeline"})
        BY DEF BeatKey
      <3> QED
        BY <3>4, <3>5
    <2>2. IsFiniteSet(old)
      BY <2>1, FS_Subset
    <2>3. ofBeat \in Surjection(old, beatGroups)
      BY DEF Surjection
    <2> HIDE DEF ofBeat, old, beatGroups
    <2> QED
      BY <2>2, <2>3, FS_Surjection
  <1>4. IsFiniteSet(rowGroups)
    <2>1. ofRow \in Surjection(ConfigProblem(f), rowGroups)
      BY DEF Surjection
    <2> HIDE DEF ofRow, rowGroups
    <2> QED
      BY <2>1, Problems, FS_Surjection
  <1>5. \A g \in counted : g.count \in Nat \ {0} /\ g.source # "Heartbeat"
    <2>1. /\ task.count = f.tasks /\ run.count = f.executions /\ block.count = blocked
          /\ task.source = "AgentTask" /\ run.source = "ScheduleExecution" /\ block.source = "OutboundRecord"
      BY DEF Group
    <2>2. f.tasks \in Nat /\ f.executions \in Nat /\ blocked \in Nat
      BY CountsOfFacts
    <2> HIDE DEF task, run, block, blocked
    <2> QED
      BY <2>1, <2>2
  <1>6. \A g \in beatGroups \cup rowGroups : g.count = 1
    BY DEF Group
  <1> HIDE DEF counted, beatGroups, rowGroups
  <1>7. IsFiniteSet(ErrorGroups(f, beats))
    BY <1>1, <1>2, <1>3, <1>4, FS_Union
  <1> QED
    BY <1>1, <1>5, <1>6, <1>7

\* The console accepts the error summary.
LEMMA ErrorsAccepted ==
  ASSUME NEW f \in Facts
  PROVE  AcceptsErrors(ErrorSummary(f, beats))
  <1> DEFINE groups == ErrorGroups(f, beats)
             e == ErrorSummary(f, beats)
             high == {g \in groups : g.severity = "high"}
             of(s) == {g \in groups : g.source = s}
  <1>1. IsFiniteSet(groups)
    BY GroupsCount
  <1>2. IsFiniteSet(of("Heartbeat")) /\ IsFiniteSet(high)
    BY <1>1, FS_Subset
  <1>3. CountOf(of("Heartbeat")) = Cardinality(of("Heartbeat"))
    BY <1>2, GroupsCount, SumOfCounts
  <1>4. (CountOf(high) > 0) = (high # {})
    BY <1>2, GroupsCount, SumOfCounts
  <1>5. /\ Severe(groups) = high /\ groups \ Severe(groups) = {g \in groups : g.severity # "high"}
        /\ \A s : OfSource(groups, s) = of(s)
    BY DEF Severe, OfSource
  <1>6. /\ e.groups = groups /\ e.errors = CountOf(Severe(groups)) /\ e.warnings = CountOf(groups \ Severe(groups))
        /\ e.tasks = CountOf(OfSource(groups, "AgentTask"))
        /\ e.executions = CountOf(OfSource(groups, "ScheduleExecution"))
        /\ e.blocked = CountOf(OfSource(groups, "OutboundRecord"))
        /\ e.beats = Cardinality(OfSource(groups, "Heartbeat"))
        /\ e.status = IF Severe(groups) # {} THEN "error" ELSE IF groups # {} THEN "warn" ELSE "ok"
    BY DEF ErrorSummary
  <1> HIDE DEF groups, e
  <1>7. AcceptsErrors(e)
    BY <1>3, <1>4, <1>5, <1>6 DEF AcceptsErrors
  <1> QED
    BY <1>7 DEF e

\* The console accepts every answer it should.
LEMMA AnswersAccepted == ConsoleAccepts
  <1>1. SUFFICES ASSUME NEW f \in Facts
                 PROVE  LET checks == StaticStatuses(f) \cup UNION {LiveCheck(p, beats, alive) : p \in Live}
                            s == Snapshot(f, beats, alive)
                        IN /\ AcceptsBeats(BeatsAnswer(beats), beats)
                           /\ AcceptsErrors(ErrorSummary(f, beats))
                           /\ VerdictOf(checks) = ConsoleVerdict(checks)
                           /\ AcceptsConfig(ConfigProblem(f)) \/ f.envDryRun = "off" \/ f.instances = "many"
                           /\ \/ AcceptsHealth(OverallStatus(s), s)
                              \/ s.backup = "unreadable" \/ \E k \in CriticalBeat : s.beats[k] # "ok"
    BY DEF ConsoleAccepts
  <1> DEFINE checks == StaticStatuses(f) \cup UNION {LiveCheck(p, beats, alive) : p \in Live}
             s == Snapshot(f, beats, alive)
  <1>2. AcceptsBeats(BeatsAnswer(beats), beats)
    <2>1. \A k : BeatStatus(beats, k) \in {"down", "stale", "ok"}
      BY DEF BeatStatus
    <2>2. CriticalBeat \subseteq BeatKey
      BY DEF CriticalBeat, BeatKey
    <2> QED
      BY <2>1, <2>2 DEF AcceptsBeats, BeatsAnswer
  <1>3. VerdictOf(checks) = ConsoleVerdict(checks)
    <2> HIDE DEF checks
    <2> QED
      BY DEF VerdictOf, ConsoleVerdict
  <1>4. \/ AcceptsHealth(OverallStatus(s), s)
        \/ s.backup = "unreadable" \/ \E k \in CriticalBeat : s.beats[k] # "ok"
    <2> HIDE DEF s
    <2>1. SUFFICES ASSUME s.backup # "unreadable", \A k \in CriticalBeat : s.beats[k] = "ok"
                   PROVE  OverallStatus(s) = ExpectedHealthStatus(s)
      BY DEF AcceptsHealth
    <2>2. (\E k \in CriticalBeat : s.beats[k] = "down") <=> FALSE
      BY <2>1
    <2>3. (\E k \in CriticalBeat : s.beats[k] = "stale") <=> FALSE
      BY <2>1
    <2> QED
      BY <2>2, <2>3 DEF OverallStatus, ExpectedHealthStatus
  <1> QED
    BY <1>2, <1>3, <1>4, ErrorsAccepted, Problems

\* The invariant and the summaries say what the reports promise.
LEMMA InvariantReports ==
  ASSUME ReadinessInv
  PROVE  ReadinessTypeOK /\ ReportsAreTrue
  <1>1. ReadyIsHealthy
    BY ReadyMeansHealthy DEF ReadyIsHealthy
  <1> QED
    BY <1>1, AnswersAccepted DEF ReadinessInv, ReportsAreTrue

-----------------------------------------------------------------------------
(* All of them *)

\* For any number of members, replies and requests, of messages, windows and faults, and for any
\* ages of the beats: nobody is counted who did not reply and the count is of the records
\* (attendance.service), a trace and a list name no other turn's record (trace.service,
\* listMessages), and a READY_FOR_LIVE is recent, means healthy, and is taken by the console
\* (getProductionReadiness, computeOverallStatus, the validators of api-client).
THEOREM ReportsAlwaysAddUp == ReportsSpec => []ReportsAddUp
  <1>1. ReadinessInv => ReportsAreTrue
    BY InvariantReports
  <1>2. AttendInv => AttendanceAddsUp
    BY InvariantAddsUp
  <1>3. TraceInv => TracesAreTrue
    BY InvariantTells
  <1>4. ReadinessInv /\ AttendInv /\ TraceInv => ReportsAddUp
    BY <1>1, <1>2, <1>3 DEF ReportsAddUp
  <1> QED
    BY ReadinessInvariant, AttendInvariant, TraceInvariant, <1>4, PTL DEF ReportsSpec

\* The fields of the reports keep their types, and there is no more than one record of a turn.
THEOREM ReportsTyped == ReportsSpec => [](ReadinessTypeOK /\ AttendTypeOK /\ TraceTypeOK)
  <1>1. ReadinessInv => ReadinessTypeOK
    BY InvariantReports
  <1>2. AttendInv => AttendTypeOK
    BY InvariantAddsUp
  <1>3. TraceInv => TraceTypeOK
    BY InvariantTells
  <1> QED
    BY ReadinessInvariant, AttendInvariant, TraceInvariant, <1>1, <1>2, <1>3, PTL DEF ReportsSpec
=============================================================================
