----------------------------- MODULE Schedules -----------------------------
(***************************************************************************)
(* Schedules, their jobs and the scheduler worker.                         *)
(*                                                                         *)
(* The backend edits Schedule rows and queues ScheduleJob rows for them    *)
(* (routes/schedules.ts, routes/executions.ts, routes/agent.ts, the chat   *)
(* reminders of incoming-dispatcher.service.ts); a request is the list of  *)
(* the statements it still has to make.  The worker (workers/index.ts,     *)
(* workers/scheduler.ts) polls the table, claims a job, reloads its        *)
(* schedule, reads the global switches that administrators turn, and asks  *)
(* the backend to send.  A member of Worker is one run of poll(): of a     *)
(* second process, or of the same one, whose interval does not wait.       *)
(*                                                                         *)
(* Every await ends a step.  Times are left out: a queued job may be due   *)
(* at any moment.  So are the queue adapter, which nobody starts in the    *)
(* backend, and run-now and run-dry, which send through a mock and touch   *)
(* neither jobs nor schedules.                                             *)
(***************************************************************************)
EXTENDS Naturals, Sequences, FiniteSets

CONSTANTS
    Schedule, Job,
    NoJob,
    Worker,
    Editor,       \* requests that create or change a schedule, each made once
    Admin,        \* requests to the global switches, each made once
    Edits,        \* the kinds of edit that are made
    EditsOverlap, \* may two requests for one schedule be in flight together?
    MaxFaults,    \* bound on the database errors of a behaviour
    MaxCrashes    \* bound on the crashes of worker and backend

\* The edits of the agent's update tool that set the time or the status.
AgentEdit == {"agentTime", "agentUntime", "agentPause", "agentActivate", "agentDraft", "agentCancel"}
\* Those that neither cancel a job nor queue one.
Quiet == {"rename"} \cup AgentEdit
Edit == {"create", "remind", "content", "same", "time", "untime", "pause", "resume", "cancel"} \cup Quiet

ASSUME ScheduleAssumption ==
    /\ NoJob \notin Job
    /\ Edits \subseteq Edit
    /\ EditsOverlap \in BOOLEAN
    /\ MaxFaults \in Nat
    /\ MaxCrashes \in Nat

VARIABLES
    schedule,  \* Schedule rows; at: scheduledAt # null, next: nextRunAt # null
    job,       \* ScheduleJob rows
    execution, \* status of the ScheduleExecution row of a job's run
    switch,    \* the AppSetting rows of settings.service.ts
    worker, editor, admin,
    sends,     \* how often the send of a job was asked for
    barred,    \* what has forbidden a worker's job ever since its claim
    faults, crashes

vars == <<schedule, job, execution, switch, worker, editor, admin, sends, barred,
          faults, crashes>>

Switch == {"emergency_stop", "sending_enabled", "schedules_active"}

\* The reads of executeJob, in order: isEmergencyStop, areSchedulesActive (two reads),
\* isSendingEnabled (two reads).
Reads == <<"emergency_stop", "emergency_stop", "schedules_active",
           "emergency_stop", "sending_enabled">>

Row == [status : {"absent", "draft", "scheduled", "active", "paused", "cancelled"},
        version : Nat, at : BOOLEAN, next : BOOLEAN]
JobRow == [status : {"absent", "queued", "active", "completed", "cancelled", "failed"},
           schedule : Schedule, version : Nat]
Statement == {"insert", "cancel", "choose", "read", "write", "load", "queue"}
\* How a run is to be closed; "dry_run" is a success with mode and dryRun set.
Plan == {"run", "skipped", "blocked", "failed", "success", "dry_run"}

WorkerState ==
    [pc : {"idle", "claim", "reload", "switch", "open", "route", "send", "close",
           "complete", "fail"},
     todo : SUBSET Job, job : Job \cup {NoJob}, read : 1 .. Len(Reads), plan : Plan]
EditorState ==
    [kind : Edit \cup {"none"}, schedule : Schedule, todo : Seq(Statement),
     seen : Row, version : Nat, wish : {"scheduled", "active"}]

TypeOK ==
    /\ schedule \in [Schedule -> Row]
    /\ job \in [Job -> JobRow]
    /\ execution \in [Job -> {"none", "pending"} \cup (Plan \ {"run"})]
    /\ switch \in [Switch -> BOOLEAN]
    /\ worker \in [Worker -> WorkerState]
    /\ editor \in [Editor -> EditorState]
    /\ admin \in [Admin -> [op : {"none", "stop", "clear", "pause", "resume"},
                            todo : Seq(Switch)]]
    /\ sends \in [Job -> Nat]
    /\ barred \in [Worker -> SUBSET (Switch \cup {"schedule"})]
    /\ faults \in 0 .. MaxFaults
    /\ crashes \in 0 .. MaxCrashes

NoRow == [status |-> "absent", version |-> 0, at |-> FALSE, next |-> FALSE]
IdleWorker == [pc |-> "idle", todo |-> {}, job |-> NoJob, read |-> 1, plan |-> "run"]

\* The schedule of an absent job, and of a request not made yet, is the one it will have.
Init ==
    /\ schedule = [s \in Schedule |-> NoRow]
    /\ job \in [Job -> {[status |-> "absent", schedule |-> s, version |-> 0] : s \in Schedule}]
    /\ execution = [j \in Job |-> "none"]
    /\ switch = [k \in Switch |-> k # "emergency_stop"]
    /\ worker = [w \in Worker |-> IdleWorker]
    /\ editor \in [Editor -> {[kind |-> "none", schedule |-> s, todo |-> << >>,
                               seen |-> NoRow, version |-> 0, wish |-> "active"]
                              : s \in Schedule}]
    /\ admin = [a \in Admin |-> [op |-> "none", todo |-> << >>]]
    /\ sends = [j \in Job |-> 0]
    /\ barred = [w \in Worker |-> {}]
    /\ faults = 0
    /\ crashes = 0

Runnable(s) == schedule[s].status \in {"scheduled", "active"}
Outdated(j) == job[j].version < schedule[job[j].schedule].version
Off(k) == switch[k] = (k = "emergency_stop")

-----------------------------------------------------------------------------
(* Requests to the backend that edit a schedule. *)

editing == <<execution, switch, worker, admin, sends, crashes>>

\* The requests in flight for a schedule.
InFlight(s) == {e \in Editor : editor[e].schedule = s /\ editor[e].todo # << >>}

\* "content", "same", "time" and "untime" are PATCHes that shouldReschedule: of the message or
\* the target, of nothing (the values the row already has), of scheduledAt to a time or to null.
\* One of the status is a pause or a resume with a cancellation more.  "rename" stands for the
\* PATCHes that do not (name, targetName, repeat) and for what the agent's update tool makes of
\* name, message and target; whatever it changes, the tool goes no further than the row.
Statements(kind) ==
    CASE kind \in {"create", "remind"} -> <<"insert">>
      [] kind \in {"content", "same", "time", "untime"} ->
             <<"cancel", "read", "write", "cancel", "load", "queue">>
      [] kind \in Quiet -> <<"read", "write">>
      [] kind = "pause"  -> <<"read", "write", "cancel", "load", "queue">>
      [] kind = "resume" -> <<"choose", "read", "write", "cancel", "load", "queue">>
      [] kind = "cancel" -> <<"cancel", "read", "write">>

\* The request comes in.  A created schedule has an id of its own, and no route deletes one.
Start(e, kind) ==
    /\ editor[e].kind = "none"
    /\ LET s == editor[e].schedule
           Creators == {c \in Editor : editor[c].schedule = s
                                       /\ editor[c].kind \in {"create", "remind"}}
       IN  /\ IF kind \in {"create", "remind"} THEN Creators = {}
                                               ELSE schedule[s].status # "absent"
           /\ EditsOverlap \/ InFlight(s) = {}
    /\ editor' = [editor EXCEPT ![e].kind = kind, ![e].todo = Statements(kind)]
    /\ UNCHANGED <<schedule, job, faults, editing>>

At(e, statement) == editor[e].todo # << >> /\ Head(editor[e].todo) = statement

GoesOn(e) == editor' = [editor EXCEPT ![e].todo = Tail(@)]
\* A request that has ended remembers nothing but what it was.
Remembered(r) == IF r.todo = << >> THEN [r EXCEPT !.seen = NoRow, !.version = 0, !.wish = "active"]
                                   ELSE r
EndsWith(e, rest) == editor' = [editor EXCEPT ![e] = Remembered([@ EXCEPT !.todo = rest])]

\* What follows the insertion: a chat reminder queues its job itself, a POST (and the
\* agent's create tool) reschedules if there is a next run.
AfterReminder == <<"queue">>
AfterCreate(at) == IF at THEN <<"cancel", "load", "queue">> ELSE << >>

\* createSchedule, for a point in time or (POST only) for none, repeated or not.
Insert(e, at, repeat) ==
    /\ At(e, "insert")
    /\ editor[e].kind = "remind" => at
    /\ schedule' = [schedule EXCEPT ![editor[e].schedule] =
           [status |-> IF at THEN "scheduled" ELSE IF repeat THEN "active" ELSE "draft",
            version |-> 1, at |-> at, next |-> at]]
    /\ editor' = [editor EXCEPT ![e] = Remembered(
           [@ EXCEPT !.version = 1,
                     !.todo = IF editor[e].kind = "remind" THEN AfterReminder
                                                            ELSE AfterCreate(at)])]
    /\ UNCHANGED <<job, faults, editing>>

\* A bug: jobs are thought to be over once a worker has them, and others are left alone.
CancelActive(e) ==
    /\ At(e, "cancel")
    /\ job' = [j \in Job |->
           IF job[j].schedule = editor[e].schedule /\ job[j].status = "active"
           THEN [job[j] EXCEPT !.status = "cancelled"] ELSE job[j]]
    /\ GoesOn(e)
    /\ UNCHANGED <<schedule, faults, editing>>

\* cancelScheduleJobs.
Cancel(e) ==
    /\ At(e, "cancel")
    /\ job' = [j \in Job |->
           IF job[j].schedule = editor[e].schedule /\ job[j].status \in {"queued", "active"}
           THEN [job[j] EXCEPT !.status = "cancelled"] ELSE job[j]]
    /\ GoesOn(e)
    /\ UNCHANGED <<schedule, faults, editing>>

\* Resume looks at the row to choose the status it asks for.
Choose(e) ==
    /\ At(e, "choose")
    /\ editor' = [editor EXCEPT
           ![e].wish = IF schedule[editor[e].schedule].next THEN "scheduled" ELSE "active",
           ![e].todo = Tail(@)]
    /\ UNCHANGED <<schedule, job, faults, editing>>

\* updateSchedule reads the row.
Read(e) ==
    /\ At(e, "read")
    /\ editor' = [editor EXCEPT ![e].seen = schedule[editor[e].schedule],
                                ![e].todo = Tail(@)]
    /\ UNCHANGED <<schedule, job, faults, editing>>

Pauses == {"pause", "agentPause"}        \* or sets it expired, of which as much is true
Activates == {"resume", "agentActivate"} \* to active or scheduled
Cancels == {"cancel", "agentCancel"}
SetsTime == {"time", "agentTime"}
DropsTime == {"untime", "agentUntime"}
SetsStatus == Pauses \cup Activates \cup Cancels \cup {"agentDraft"}

\* The status an edit asks for; that of the row it read when it asks for none.
Wish(e) ==
    LET kind == editor[e].kind
    IN  CASE kind \in Pauses    -> "paused"
          [] kind \in Cancels   -> "cancelled"
          [] kind \in Activates -> editor[e].wish
          [] kind = "agentDraft" -> "draft"
          [] OTHER -> editor[e].seen.status

Changes(e) ==
    LET kind == editor[e].kind
    IN  /\ kind \in SetsStatus => Wish(e) # editor[e].seen.status
        /\ kind \in DropsTime => editor[e].seen.at
        /\ kind # "same"

\* The row with the fields that differ from the one the request read, and the version that
\* follows it.
Updated(e, row) ==
    LET kind == editor[e].kind
        seen == editor[e].seen
    IN  [status  |-> IF kind \in SetsStatus THEN Wish(e) ELSE row.status,
         version |-> seen.version + 1,
         at      |-> (row.at \/ kind \in SetsTime) /\ kind \notin DropsTime,
         next    |-> CASE kind \in SetsTime -> TRUE
                       [] kind \in DropsTime \cup Cancels -> FALSE
                       [] kind \in Pauses \cup Activates -> seen.at
                       [] OTHER -> row.next]

\* The request that has learnt the row's version, its own or the one it found.
Informed(e) == [editor[e] EXCEPT !.version = editor[e].seen.version + IF Changes(e) THEN 1 ELSE 0,
                                 !.seen = NoRow,
                                 !.todo = Tail(editor[e].todo)]

\* updateSchedule writes, unless nothing has changed.
Write(e) ==
    /\ At(e, "write")
    /\ schedule' = [schedule EXCEPT ![editor[e].schedule] =
                       IF Changes(e) THEN Updated(e, @) ELSE @]
    /\ editor' = [editor EXCEPT ![e] = Remembered(Informed(e))]
    /\ UNCHANGED <<job, faults, editing>>

\* rescheduleAfterUpdate reloads the row: is there a run to queue?
Load(e) ==
    /\ At(e, "load")
    /\ LET s == editor[e].schedule IN
       EndsWith(e, IF schedule[s].next /\ Runnable(s) THEN Tail(editor[e].todo) ELSE << >>)
    /\ UNCHANGED <<schedule, job, faults, editing>>

\* A bug: the version is that of the row before the update.
QueueOld(e, j) ==
    /\ At(e, "queue")
    /\ job[j].status = "absent"
    /\ job[j].schedule = editor[e].schedule
    /\ job' = [job EXCEPT ![j].status = "queued",
                          ![j].version = IF editor[e].kind \in {"content", "time", "pause", "resume"}
                                         THEN editor[e].version - 1 ELSE editor[e].version]
    /\ EndsWith(e, << >>)
    /\ UNCHANGED <<schedule, faults, editing>>

\* createScheduleJob, with the version the request has known since its update.
Queue(e, j) ==
    /\ At(e, "queue")
    /\ job[j].status = "absent"
    /\ job[j].schedule = editor[e].schedule
    /\ job' = [job EXCEPT ![j].status = "queued", ![j].version = editor[e].version]
    /\ EndsWith(e, << >>)
    /\ UNCHANGED <<schedule, faults, editing>>

\* A statement, or the writing of the revisions after one, fails, and with it the request.
EditorFails(e) ==
    /\ editor[e].todo # << >>
    /\ faults < MaxFaults
    /\ faults' = faults + 1
    /\ EndsWith(e, << >>)
    /\ UNCHANGED <<schedule, job, editing>>

EditorStep(e) ==
    \/ \E kind \in Edits : Start(e, kind)
    \/ \E at, repeat \in BOOLEAN : Insert(e, at, repeat)
    \/ Cancel(e)
    \/ Choose(e)
    \/ Read(e)
    \/ Write(e)
    \/ Load(e)
    \/ \E j \in Job : Queue(e, j)
    \/ EditorFails(e)

-----------------------------------------------------------------------------
(* Administrators. *)

administering == <<schedule, job, execution, worker, editor, sends, faults, crashes>>

AdminStart(a, op) ==
    /\ admin[a].op = "none"
    /\ admin' = [admin EXCEPT ![a] =
           [op |-> op,
            todo |-> IF op \in {"stop", "clear"}
                     THEN <<"emergency_stop", "sending_enabled", "schedules_active">>
                     ELSE <<"sending_enabled">>]]
    /\ UNCHANGED <<switch, administering>>

\* setSetting.
AdminSets(a) ==
    /\ admin[a].todo # << >>
    /\ LET k == Head(admin[a].todo) IN
       switch' = [switch EXCEPT ![k] = IF k = "emergency_stop"
                                       THEN admin[a].op = "stop"
                                       ELSE admin[a].op \in {"clear", "resume"}]
    /\ admin' = [admin EXCEPT ![a].todo = Tail(@)]
    /\ UNCHANGED administering

AdminStep(a) ==
    \/ \E op \in {"stop", "clear", "pause", "resume"} : AdminStart(a, op)
    \/ AdminSets(a)

-----------------------------------------------------------------------------
(* The worker. *)

working == <<schedule, switch, editor, admin, crashes>>

\* A bug: the query leaves outdated jobs out.
DueCurrent == {j \in Job : /\ job[j].status = "queued"
                           /\ Runnable(job[j].schedule)
                           /\ ~Outdated(j)}

\* poll finds the due jobs; their schedules are runnable.
Due == {j \in Job : job[j].status = "queued" /\ Runnable(job[j].schedule)}

Poll(w) ==
    /\ worker[w].pc = "idle"
    /\ Due # {}
    /\ worker' = [worker EXCEPT ![w].pc = "claim", ![w].todo = Due]
    /\ UNCHANGED <<job, execution, sends, faults, working>>

\* The rest of the poll when the job in hand is done with.
NextJob(w) == [IdleWorker EXCEPT !.pc = IF worker[w].todo = {} THEN "idle" ELSE "claim",
                                 !.todo = worker[w].todo]

\* A bug: the update goes by id alone.
ClaimAnyway(w, j) ==
    /\ worker[w].pc = "claim"
    /\ j \in worker[w].todo
    /\ job' = [job EXCEPT ![j].status = "active"]
    /\ worker' = [worker EXCEPT ![w].pc = "reload", ![w].job = j, ![w].todo = @ \ {j}]
    /\ UNCHANGED <<execution, sends, faults, working>>

\* claimJob: one conditional update; a job another worker took is passed over.
Claim(w, j) ==
    /\ worker[w].pc = "claim"
    /\ j \in worker[w].todo
    /\ LET todo == worker[w].todo \ {j} IN
       IF job[j].status = "queued"
       THEN /\ job' = [job EXCEPT ![j].status = "active"]
            /\ worker' = [worker EXCEPT ![w].pc = "reload", ![w].job = j, ![w].todo = todo]
       ELSE /\ worker' = [worker EXCEPT ![w].pc = IF todo = {} THEN "idle" ELSE "claim",
                                        ![w].todo = todo]
            /\ UNCHANGED job
    /\ UNCHANGED <<execution, sends, faults, working>>

\* A bug: the version guard is left out.
ReloadStatusOnly(w) ==
    /\ worker[w].pc = "reload"
    /\ LET j == worker[w].job IN
       worker' = [worker EXCEPT ![w] =
           IF ~Runnable(job[j].schedule)
           THEN [@ EXCEPT !.pc = "open", !.plan = "skipped"]
           ELSE [@ EXCEPT !.pc = "switch"]]
    /\ UNCHANGED <<job, execution, sends, faults, working>>

\* Version guard and status guard, on a fresh row.
Reload(w) ==
    /\ worker[w].pc = "reload"
    /\ LET j == worker[w].job IN
       worker' = [worker EXCEPT ![w] =
           IF Outdated(j) \/ ~Runnable(job[j].schedule)
           THEN [@ EXCEPT !.pc = "open", !.plan = "skipped"]
           ELSE [@ EXCEPT !.pc = "switch"]]
    /\ UNCHANGED <<job, execution, sends, faults, working>>

\* A bug: one read too many is thought to be left.
ReadSwitchOneMore(w) ==
    /\ worker[w].pc = "switch"
    /\ LET n == worker[w].read IN
       worker' = [worker EXCEPT ![w] =
           IF Off(Reads[n])
           THEN [@ EXCEPT !.pc = "open", !.plan = IF n <= 3 THEN "skipped" ELSE "failed"]
           ELSE IF n > Len(Reads) THEN [@ EXCEPT !.pc = "open"]
                                  ELSE [@ EXCEPT !.read = n + 1]]
    /\ UNCHANGED <<job, execution, sends, faults, working>>

\* The global switches, one read after the other.
ReadSwitch(w) ==
    /\ worker[w].pc = "switch"
    /\ LET n == worker[w].read IN
       worker' = [worker EXCEPT ![w] =
           IF Off(Reads[n])
           THEN [@ EXCEPT !.pc = "open", !.plan = IF n <= 3 THEN "skipped" ELSE "failed"]
           ELSE IF n = Len(Reads) THEN [@ EXCEPT !.pc = "open"]
                                  ELSE [@ EXCEPT !.read = n + 1]]
    /\ UNCHANGED <<job, execution, sends, faults, working>>

\* createExecution; then, for a schedule of the assistant's in an effective dry run, the
\* run ends as a dry one.
Open(w, dry) ==
    /\ worker[w].pc = "open"
    /\ dry => worker[w].plan = "run"
    /\ execution' = [execution EXCEPT ![worker[w].job] = "pending"]
    /\ worker' = [worker EXCEPT ![w] =
           IF dry THEN [@ EXCEPT !.pc = "close", !.plan = "dry_run"]
           ELSE [@ EXCEPT !.pc = IF worker[w].plan = "run" THEN "route" ELSE "close"]]
    /\ UNCHANGED <<job, sends, faults, working>>

\* resolveThreadType and the group gate.  The reply windows of groups are in the memory of
\* the backend, those of the worker's process are always closed: only a user is sent to.
Route(w, threadType) ==
    /\ worker[w].pc = "route"
    /\ worker' = [worker EXCEPT ![w] =
           IF threadType = "user" THEN [@ EXCEPT !.pc = "send"]
                                  ELSE [@ EXCEPT !.pc = "close", !.plan = "blocked"]]
    /\ UNCHANGED <<job, execution, sends, faults, working>>

\* sendOutboundViaBackend; an error, or no answer at all, is a failure.
Send(w, success) ==
    /\ worker[w].pc = "send"
    /\ sends' = [sends EXCEPT ![worker[w].job] = @ + 1]
    /\ worker' = [worker EXCEPT ![w] =
           [@ EXCEPT !.pc = "close", !.plan = IF success THEN "success" ELSE "failed"]]
    /\ UNCHANGED <<job, execution, faults, working>>

\* updateExecutionResult.
Close(w) ==
    /\ worker[w].pc = "close"
    /\ execution' = [execution EXCEPT ![worker[w].job] = worker[w].plan]
    /\ worker' = [worker EXCEPT ![w].pc = "complete"]
    /\ UNCHANGED <<job, sends, faults, working>>

\* The job is completed, or failed after an error, whatever has become of it meanwhile.
Finish(w) ==
    /\ worker[w].pc \in {"complete", "fail"}
    /\ job' = [job EXCEPT ![worker[w].job].status =
                   IF worker[w].pc = "complete" THEN "completed" ELSE "failed"]
    /\ worker' = [worker EXCEPT ![w] = NextJob(w)]
    /\ UNCHANGED <<execution, sends, faults, working>>

\* A bug: an error of updateExecutionResult is swallowed.
DbErrorSwallowed(w) ==
    /\ worker[w].pc \notin {"idle", "route", "send"}
    /\ faults < MaxFaults
    /\ faults' = faults + 1
    /\ worker' = [worker EXCEPT ![w] =
           CASE @.pc \in {"claim", "fail"} -> IdleWorker
             [] @.pc = "close" -> [@ EXCEPT !.pc = "complete"]
             [] OTHER -> [@ EXCEPT !.pc = "fail"]]
    /\ UNCHANGED <<job, execution, sends, working>>

\* An error inside executeClaimedJob ends in its catch; one outside of its try ends the
\* process.  resolveThreadType and the send turn theirs into an answer.
DbError(w) ==
    /\ worker[w].pc \notin {"idle", "route", "send"}
    /\ faults < MaxFaults
    /\ faults' = faults + 1
    /\ worker' = [worker EXCEPT ![w] =
           IF @.pc \in {"claim", "fail"} THEN IdleWorker ELSE [@ EXCEPT !.pc = "fail"]]
    /\ UNCHANGED <<job, execution, sends, working>>

RunStep(w) ==
    \/ \E j \in Job : Claim(w, j)
    \/ Reload(w)
    \/ ReadSwitch(w)
    \/ \E dry \in BOOLEAN : Open(w, dry)
    \/ \E threadType \in {"user", "group", "unknown"} : Route(w, threadType)
    \/ \E success \in BOOLEAN : Send(w, success)
    \/ Close(w)
    \/ Finish(w)

WorkerStep(w) == Poll(w) \/ RunStep(w) \/ DbError(w)

-----------------------------------------------------------------------------
(* Crashes. *)

\* A worker dies in the middle of a run and polls anew when it is started again; a job it
\* had claimed stays active.
WorkerCrash(w) ==
    /\ worker[w].pc # "idle"
    /\ crashes < MaxCrashes
    /\ crashes' = crashes + 1
    /\ worker' = [worker EXCEPT ![w] = IdleWorker]
    /\ UNCHANGED <<schedule, job, execution, switch, editor, admin, sends, faults>>

\* The backend dies and with it every request it was handling.
BackendCrash ==
    /\ \/ \E e \in Editor : editor[e].todo # << >>
       \/ \E a \in Admin : admin[a].todo # << >>
    /\ crashes < MaxCrashes
    /\ crashes' = crashes + 1
    /\ editor' = [e \in Editor |-> Remembered([editor[e] EXCEPT !.todo = << >>])]
    /\ admin' = [a \in Admin |-> [admin[a] EXCEPT !.todo = << >>]]
    /\ UNCHANGED <<schedule, job, execution, switch, worker, sends, faults>>

-----------------------------------------------------------------------------
(* What forbids a job to be sent now: its schedule, or a switch. *)
Forbids(j) == (IF Outdated(j) \/ ~Runnable(job[j].schedule) THEN {"schedule"} ELSE {})
              \cup {k \in Switch : Off(k)}

\* What still forbids the job in hand, and did so in every state since its claim.
Watch == barred' = [w \in Worker |->
             CASE worker'[w].job = NoJob -> {}
               [] worker[w].job = worker'[w].job -> barred[w] \cap Forbids(worker[w].job)'
               [] OTHER -> Forbids(worker'[w].job)]

Step ==
    \/ \E e \in Editor : EditorStep(e)
    \/ \E a \in Admin : AdminStep(a)
    \/ \E w \in Worker : WorkerStep(w) \/ WorkerCrash(w)
    \/ BackendCrash

Next == Step /\ Watch

Spec == Init /\ [][Next]_vars

\* The worker's event loop goes on with a poll it has begun, and its interval begins another.
FairSpec == Spec /\ \A w \in Worker : WF_vars((Poll(w) \/ RunStep(w)) /\ Watch)

-----------------------------------------------------------------------------
(* Properties. *)

\* The send of a job is asked for at most once, however many workers see it queued, and
\* whatever is cancelled, retried by an editor or interrupted by a crash (claimJob).
OneSendPerJob == \A j \in Job : sends[j] <= 1

\* No worker is about to send for a job that its schedule (edited, paused, cancelled) or a
\* global switch has forbidden ever since the job was claimed: executeJob looks at each of
\* them after the claim, and the rows it looks at are not those of the poll.
ForbiddenIsNotSent == \A w \in Worker : worker[w].pc = "send" => barred[w] = {}

\* A completed job has a closed execution: a run is only completed after its outcome has
\* been recorded, also when a cancellation, an error or a crash comes between.
CompletedIsRecorded ==
    \A j \in Job : job[j].status = "completed" => execution[j] \notin {"none", "pending"}

\* Edits that do not overlap leave at most one queued job for a schedule (R7).
OneQueuedJob ==
    \A s \in Schedule :
        Cardinality({j \in Job : job[j].schedule = s /\ job[j].status = "queued"}) <= 1

HasRun(s) == \E j \in Job : /\ job[j].schedule = s
                            /\ job[j].status \notin {"absent", "cancelled"}
                            /\ ~Outdated(j)

\* Between edits that do not overlap, a runnable schedule with a next run has a job of its
\* current version (rescheduleAfterUpdate), if each of the edits was one that reschedules.
RunIsQueued ==
    \A s \in Schedule :
        /\ Runnable(s) /\ schedule[s].next
        /\ \A e \in Editor : editor[e].schedule = s =>
               editor[e].todo = << >> /\ editor[e].kind \notin Quiet
        => HasRun(s)

\* The same of every edit: what the comments of the PATCH route and of
\* rescheduleAfterUpdate promise ("Create new job if needed (R7)").
EveryEditKeepsRun ==
    \A s \in Schedule :
        Runnable(s) /\ schedule[s].next /\ InFlight(s) = {} => HasRun(s)

\* A due job of a schedule that stays runnable is claimed or cancelled in the end: no poll
\* ends for good before it (poll, setInterval).
JobsAreTaken ==
    \A j \in Job : (job[j].status = "queued" /\ Runnable(job[j].schedule))
                   ~> (job[j].status # "queued" \/ ~Runnable(job[j].schedule))

\* A claimed job comes to an end, also when one statement of its run fails
\* (executeClaimedJob); only the death of the worker leaves it active.
ClaimedJobsEnd ==
    \A j \in Job : job[j].status = "active" ~> 
                       (job[j].status # "active" \/ crashes > 0 \/ faults > 1)

\* No job waits for ever, and none runs for ever.
JobsAreServed == JobsAreTaken /\ ClaimedJobsEnd
=============================================================================
