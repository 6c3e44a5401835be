--------------------------- MODULE ScheduleProofs ---------------------------
(***************************************************************************)
(* Proofs about Schedules, for every set of schedules, jobs, workers,      *)
(* requests and administrators, every choice of edits, overlapping or not, *)
(* and any number of crashes and database errors: first the worker, then   *)
(* the requests that edit a schedule and queue its job, for edits that do  *)
(* not overlap: at most one job is queued, and unless an error or a crash  *)
(* cuts a request short, a runnable schedule is not left without one.      *)
(***************************************************************************)
EXTENDS Schedules, FiniteSetTheorems, TLAPS

-----------------------------------------------------------------------------
(* Type correctness *)

LEMMA InitTyped == Init => TypeOK
  <1> SUFFICES ASSUME Init PROVE TypeOK
    OBVIOUS
  <1> USE ScheduleAssumption DEF Init
  <1>1. job \in [Job -> JobRow]
    BY DEF JobRow
  <1>2. editor \in [Editor -> EditorState]
    <2>1. ASSUME NEW e \in Editor PROVE editor[e] \in EditorState
      <3>1. PICK s \in Schedule :
               editor[e] = [kind |-> "none", schedule |-> s, todo |-> << >>, seen |-> NoRow,
                            version |-> 0, wish |-> "active"]
        OBVIOUS
      <3>2. NoRow \in Row
        BY DEF NoRow, Row
      <3> QED
        BY <3>1, <3>2 DEF EditorState
    <2> QED
      BY <2>1
  <1>3. worker \in [Worker -> WorkerState]
    BY DEF WorkerState, IdleWorker, Reads, Plan
  <1>4. admin \in [Admin -> [op : {"none", "stop", "clear", "pause", "resume"},
                             todo : Seq(Switch)]]
    OBVIOUS
  <1>5. schedule \in [Schedule -> Row]
    BY DEF NoRow, Row
  <1> QED
    BY <1>1, <1>2, <1>3, <1>4, <1>5 DEF TypeOK, Plan

\* The statements of a request are a sequence of statements, and so is what is left of it.
LEMMA StatementsTyped ==
  /\ \A kind \in Edit : Statements(kind) \in Seq(Statement)
  /\ AfterReminder \in Seq(Statement)
  /\ \A at \in BOOLEAN : AfterCreate(at) \in Seq(Statement)
  /\ << >> \in Seq(Statement)
  <1>2. /\ <<"insert">> \in Seq(Statement)
        /\ <<"cancel", "read", "write", "cancel", "load", "queue">> \in Seq(Statement)
        /\ <<"read", "write">> \in Seq(Statement)
        /\ <<"read", "write", "cancel", "load", "queue">> \in Seq(Statement)
        /\ <<"choose", "read", "write", "cancel", "load", "queue">> \in Seq(Statement)
        /\ <<"cancel", "read", "write">> \in Seq(Statement)
        /\ <<"queue">> \in Seq(Statement)
        /\ <<"cancel", "load", "queue">> \in Seq(Statement)
    BY DEF Statement
  <1>3. << >> \in Seq(Statement)
    OBVIOUS
  <1>4. ASSUME NEW kind \in Edit PROVE Statements(kind) \in Seq(Statement)
    BY <1>2 DEF Statements, Edit, Quiet, AgentEdit
  <1> QED
    BY <1>2, <1>3, <1>4 DEF AfterReminder, AfterCreate

LEMMA RememberedTyped ==
  ASSUME NEW r \in EditorState PROVE Remembered(r) \in EditorState
  BY DEF Remembered, EditorState, NoRow, Row

\* A step of a request keeps the types of the rows and of the requests.
LEMMA EditorTyped ==
  ASSUME TypeOK, NEW e \in Editor, EditorStep(e)
  PROVE  /\ schedule' \in [Schedule -> Row]
         /\ job' \in [Job -> JobRow]
         /\ editor' \in [Editor -> EditorState]
         /\ faults' \in 0 .. MaxFaults
  <1> USE ScheduleAssumption
  <1>1. /\ schedule \in [Schedule -> Row] /\ job \in [Job -> JobRow]
        /\ editor \in [Editor -> EditorState] /\ faults \in 0 .. MaxFaults
    BY DEF TypeOK
  <1>2. /\ editor[e] \in EditorState /\ editor[e].schedule \in Schedule
        /\ editor[e].todo \in Seq(Statement) /\ editor[e].seen \in Row
        /\ editor[e].version \in Nat /\ editor[e].kind \in Edit \cup {"none"}
        /\ editor[e].wish \in {"scheduled", "active"}
    BY <1>1 DEF EditorState
  <1>3. editor[e].todo # << >> => Tail(editor[e].todo) \in Seq(Statement)
    BY <1>2
  <1>4. ASSUME NEW rest \in Seq(Statement), EndsWith(e, rest)
        PROVE  editor' \in [Editor -> EditorState]
    <2>1. [editor[e] EXCEPT !.todo = rest] \in EditorState
      BY <1>2 DEF EditorState
    <2>2. Remembered([editor[e] EXCEPT !.todo = rest]) \in EditorState
      BY <2>1, RememberedTyped
    <2> QED
      BY <1>1, <1>4, <2>2 DEF EndsWith
  <1>5. ASSUME NEW kind \in Edits, Start(e, kind)
        PROVE  editor' \in [Editor -> EditorState] /\ UNCHANGED <<schedule, job, faults>>
    <2>1. Statements(kind) \in Seq(Statement) /\ kind \in Edit
      BY StatementsTyped
    <2>2. [editor[e] EXCEPT !.kind = kind, !.todo = Statements(kind)] \in EditorState
      BY <1>2, <2>1 DEF EditorState
    <2>3. editor' = [editor EXCEPT ![e] = [editor[e] EXCEPT !.kind = kind,
                                                            !.todo = Statements(kind)]]
      BY <1>1, <1>5 DEF Start, EditorState
    <2> QED
      BY <1>1, <1>5, <2>2, <2>3 DEF Start
  <1>6. ASSUME NEW at \in BOOLEAN, NEW repeat \in BOOLEAN, Insert(e, at, repeat)
        PROVE  /\ editor' \in [Editor -> EditorState] /\ schedule' \in [Schedule -> Row]
               /\ UNCHANGED <<job, faults>>
    <2> DEFINE rest == IF editor[e].kind = "remind" THEN AfterReminder ELSE AfterCreate(at)
    <2>1. rest \in Seq(Statement)
      BY StatementsTyped
    <2> DEFINE r == [editor[e] EXCEPT !.version = 1, !.todo = rest]
    <2>2. r \in EditorState
      BY <1>2, <2>1 DEF EditorState
    <2>3. editor' = [editor EXCEPT ![e] = Remembered(r)]
      BY <1>6 DEF Insert
    <2> HIDE DEF r
    <2>4. editor' \in [Editor -> EditorState]
      BY <1>1, <2>2, <2>3, RememberedTyped
    <2>5. schedule' \in [Schedule -> Row]
      BY <1>1, <1>2, <1>6 DEF Insert, Row
    <2> QED
      BY <1>6, <2>4, <2>5 DEF Insert
  <1>7. ASSUME Cancel(e)
        PROVE  /\ editor' \in [Editor -> EditorState] /\ job' \in [Job -> JobRow]
               /\ UNCHANGED <<schedule, faults>>
    <2>1. job' \in [Job -> JobRow]
      BY <1>1, <1>7 DEF Cancel, JobRow
    <2>2. editor' \in [Editor -> EditorState]
      BY <1>1, <1>2, <1>3, <1>7 DEF Cancel, At, GoesOn, EditorState
    <2> QED
      BY <1>7, <2>1, <2>2 DEF Cancel
  <1>8. ASSUME Choose(e) \/ Read(e)
        PROVE  editor' \in [Editor -> EditorState] /\ UNCHANGED <<schedule, job, faults>>
    <2>1. CASE Choose(e)
      BY <1>1, <1>2, <1>3, <2>1 DEF Choose, At, EditorState
    <2>2. CASE Read(e)
      BY <1>1, <1>2, <1>3, <2>2 DEF Read, At, EditorState
    <2> QED
      BY <1>8, <2>1, <2>2 DEF Choose, Read
  <1>9. ASSUME Write(e)
        PROVE  /\ editor' \in [Editor -> EditorState] /\ schedule' \in [Schedule -> Row]
               /\ UNCHANGED <<job, faults>>
    <2>1. editor[e].seen.version \in Nat /\ editor[e].seen.at \in BOOLEAN
      BY <1>2 DEF Row
    <2>2. Informed(e) \in EditorState
      <3>1. Tail(editor[e].todo) \in Seq(Statement) /\ NoRow \in Row
        BY <1>3, <1>9 DEF Write, At, NoRow, Row
      <3> DEFINE version == editor[e].seen.version + IF Changes(e) THEN 1 ELSE 0
      <3>2. version \in Nat
        BY <2>1
      <3>3. Informed(e) = [editor[e] EXCEPT !.version = version, !.seen = NoRow,
                                            !.todo = Tail(editor[e].todo)]
        BY DEF Informed
      <3> HIDE DEF version
      <3> QED
        BY <1>2, <3>1, <3>2, <3>3 DEF EditorState
    <2>3. editor' = [editor EXCEPT ![e] = Remembered(Informed(e))]
      BY <1>9 DEF Write
    <2>4. editor' \in [Editor -> EditorState]
      BY <1>1, <2>2, <2>3, RememberedTyped
    <2>5. editor[e].kind \in SetsStatus =>
            Wish(e) \in {"paused", "cancelled", "scheduled", "active", "draft"}
      BY <1>2 DEF Wish, SetsStatus, Pauses, Activates, Cancels
    <2>6. schedule' \in [Schedule -> Row]
      <3>1. schedule[editor[e].schedule] \in Row
        BY <1>1, <1>2
      <3>2. Updated(e, schedule[editor[e].schedule]) \in Row
        <4>1. Updated(e, schedule[editor[e].schedule]).next \in BOOLEAN
          BY <1>2, <2>1, <3>1 DEF Updated, Row
        <4>2. Updated(e, schedule[editor[e].schedule]).version \in Nat
          BY <1>2, <2>1 DEF Updated, Row
        <4>3. Updated(e, schedule[editor[e].schedule]).at \in BOOLEAN
          BY DEF Updated
        <4>4. Updated(e, schedule[editor[e].schedule]).status \in
                {"absent", "draft", "scheduled", "active", "paused", "cancelled"}
          BY <2>5, <3>1 DEF Updated, Row
        <4> QED
          BY <4>1, <4>2, <4>3, <4>4 DEF Updated, Row
      <3> QED
        BY <1>1, <1>2, <1>9, <3>1, <3>2 DEF Write
    <2> QED
      BY <1>9, <2>4, <2>6 DEF Write
  <1>10. ASSUME Load(e)
         PROVE  editor' \in [Editor -> EditorState] /\ UNCHANGED <<schedule, job, faults>>
    BY <1>3, <1>4, <1>10, StatementsTyped DEF Load, At
  <1>11. ASSUME NEW j \in Job, Queue(e, j)
         PROVE  /\ editor' \in [Editor -> EditorState] /\ job' \in [Job -> JobRow]
                /\ UNCHANGED <<schedule, faults>>
    <2>1. job' \in [Job -> JobRow]
      BY <1>1, <1>2, <1>11 DEF Queue, JobRow
    <2> QED
      BY <1>4, <1>11, <2>1, StatementsTyped DEF Queue
  <1>12. ASSUME EditorFails(e)
         PROVE  /\ editor' \in [Editor -> EditorState] /\ faults' \in 0 .. MaxFaults
                /\ UNCHANGED <<schedule, job>>
    <2>1. EndsWith(e, << >>) /\ << >> \in Seq(Statement)
      BY <1>12, StatementsTyped DEF EditorFails
    <2>2. editor' \in [Editor -> EditorState]
      BY <1>4, <2>1
    <2>3. faults' = faults + 1 /\ faults < MaxFaults
      BY <1>12 DEF EditorFails
    <2>4. faults' \in 0 .. MaxFaults
      BY <1>1, <2>3
    <2> QED
      BY <1>12, <2>2, <2>4 DEF EditorFails
  <1> QED
    BY <1>1, <1>5, <1>6, <1>7, <1>8, <1>9, <1>10, <1>11, <1>12 DEF EditorStep

\* A run is only closed when it is known how: what TypeOK needs to be inductive.
PlanInv == \A w \in Worker : worker[w].pc = "close" => worker[w].plan # "run"

\* A step of a poll, or an error or crash that ends it, keeps the types.
LEMMA WorkerTyped ==
  ASSUME TypeOK, PlanInv, NEW w \in Worker, WorkerStep(w) \/ WorkerCrash(w)
  PROVE  /\ job' \in [Job -> JobRow]
         /\ execution' \in [Job -> {"none", "pending"} \cup (Plan \ {"run"})]
         /\ worker' \in [Worker -> WorkerState]
         /\ sends' \in [Job -> Nat]
         /\ faults' \in 0 .. MaxFaults
         /\ crashes' \in 0 .. MaxCrashes
  <1> USE ScheduleAssumption
  <1> DEFINE Outcome == {"none", "pending"} \cup (Plan \ {"run"})
  <1>1. /\ job \in [Job -> JobRow] /\ execution \in [Job -> Outcome]
        /\ worker \in [Worker -> WorkerState] /\ sends \in [Job -> Nat]
        /\ faults \in 0 .. MaxFaults /\ crashes \in 0 .. MaxCrashes
    BY DEF TypeOK
  <1>2. /\ worker[w] \in WorkerState /\ worker[w].todo \subseteq Job
        /\ worker[w].job \in Job \cup {NoJob} /\ worker[w].read \in 1 .. 5
        /\ worker[w].plan \in Plan
    BY <1>1 DEF WorkerState, Reads
  <1>3. IdleWorker \in WorkerState /\ Len(Reads) = 5
    BY DEF IdleWorker, WorkerState, Reads, Plan
  <1>4. ASSUME Poll(w)
        PROVE  worker' \in [Worker -> WorkerState] /\ UNCHANGED <<job, execution, sends, faults, crashes>>
    BY <1>1, <1>2, <1>4 DEF Poll, Due, WorkerState, working
  <1>5. ASSUME NEW j \in Job, Claim(w, j)
        PROVE  /\ worker' \in [Worker -> WorkerState] /\ job' \in [Job -> JobRow]
               /\ UNCHANGED <<execution, sends, faults, crashes>>
    <2>1. job' \in [Job -> JobRow]
      BY <1>1, <1>5 DEF Claim, JobRow
    <2>2. worker' \in [Worker -> WorkerState]
      BY <1>1, <1>2, <1>5 DEF Claim, WorkerState
    <2> QED
      BY <1>5, <2>1, <2>2 DEF Claim, working
  <1>6. ASSUME Reload(w)
        PROVE  worker' \in [Worker -> WorkerState] /\ UNCHANGED <<job, execution, sends, faults, crashes>>
    BY <1>1, <1>2, <1>6 DEF Reload, WorkerState, Plan, working
  <1>7. ASSUME ReadSwitch(w)
        PROVE  worker' \in [Worker -> WorkerState] /\ UNCHANGED <<job, execution, sends, faults, crashes>>
    <2>1. \A plan \in {"skipped", "failed"} :
            [worker[w] EXCEPT !.pc = "open", !.plan = plan] \in WorkerState
      BY <1>2 DEF WorkerState, Plan
    <2>5. [worker[w] EXCEPT !.pc = "open"] \in WorkerState
      BY <1>2 DEF WorkerState
    <2>6. ASSUME worker[w].read # Len(Reads)
          PROVE  [worker[w] EXCEPT !.read = worker[w].read + 1] \in WorkerState
      <3>1. worker[w].read + 1 \in 1 .. Len(Reads)
        BY <1>2, <1>3, <2>6
      <3> QED
        BY <1>2, <3>1 DEF WorkerState
    <2> DEFINE n == worker[w].read
               plan == IF n <= 3 THEN "skipped" ELSE "failed"
    <2>2. worker' = [worker EXCEPT ![w] =
              IF Off(Reads[n]) THEN [worker[w] EXCEPT !.pc = "open", !.plan = plan]
              ELSE IF n = Len(Reads) THEN [worker[w] EXCEPT !.pc = "open"]
                                     ELSE [worker[w] EXCEPT !.read = n + 1]]
      BY <1>7 DEF ReadSwitch
    <2>3. plan \in {"skipped", "failed"}
      OBVIOUS
    <2> HIDE DEF plan
    <2>4. worker' \in [Worker -> WorkerState]
      BY <1>1, <2>1, <2>2, <2>3, <2>5, <2>6
    <2> QED
      BY <1>7, <2>4 DEF ReadSwitch, working
  <1>8. ASSUME NEW dry \in BOOLEAN, Open(w, dry)
        PROVE  /\ worker' \in [Worker -> WorkerState] /\ execution' \in [Job -> Outcome]
               /\ UNCHANGED <<job, sends, faults, crashes>>
    <2>1. /\ [worker[w] EXCEPT !.pc = "close", !.plan = "dry_run"] \in WorkerState
          /\ \A pc \in {"route", "close"} : [worker[w] EXCEPT !.pc = pc] \in WorkerState
      BY <1>2 DEF WorkerState, Plan
    <2>2. worker' \in [Worker -> WorkerState]
      BY <1>1, <1>8, <2>1 DEF Open
    <2> QED
      BY <1>1, <1>8, <2>2 DEF Open, working
  <1>9. ASSUME NEW threadType, Route(w, threadType)
        PROVE  worker' \in [Worker -> WorkerState] /\ UNCHANGED <<job, execution, sends, faults, crashes>>
    <2>1. /\ [worker[w] EXCEPT !.pc = "close", !.plan = "blocked"] \in WorkerState
          /\ [worker[w] EXCEPT !.pc = "send"] \in WorkerState
      BY <1>2 DEF WorkerState, Plan
    <2> QED
      BY <1>1, <1>9, <2>1 DEF Route, working
  <1>10. ASSUME NEW success \in BOOLEAN, Send(w, success)
         PROVE  /\ worker' \in [Worker -> WorkerState] /\ sends' \in [Job -> Nat]
                /\ UNCHANGED <<job, execution, faults, crashes>>
    <2>1. \A plan \in {"success", "failed"} :
            [worker[w] EXCEPT !.pc = "close", !.plan = plan] \in WorkerState
      BY <1>2 DEF WorkerState, Plan
    <2> DEFINE plan == IF success THEN "success" ELSE "failed"
    <2>2. worker' \in [Worker -> WorkerState]
      <3>1. worker' = [worker EXCEPT ![w] = [worker[w] EXCEPT !.pc = "close", !.plan = plan]]
        BY <1>10 DEF Send
      <3>2. plan \in {"success", "failed"}
        OBVIOUS
      <3> HIDE DEF plan
      <3> QED
        BY <1>1, <2>1, <3>1, <3>2
    <2>3. sends' \in [Job -> Nat]
      <3>1. sends' = [sends EXCEPT ![worker[w].job] = sends[worker[w].job] + 1]
        BY <1>10 DEF Send
      <3>2. CASE worker[w].job \in Job
        <4>1. sends[worker[w].job] + 1 \in Nat
          BY <1>1, <3>2
        <4> QED
          BY <1>1, <3>1, <4>1
      <3>3. CASE worker[w].job \notin Job
        BY <1>1, <3>1, <3>3
      <3> QED
        BY <3>2, <3>3
    <2>4. UNCHANGED <<job, execution, faults, crashes>>
      BY <1>10 DEF Send, working
    <2> QED
      BY <2>2, <2>3, <2>4
  <1>12. ASSUME Finish(w)
         PROVE  /\ worker' \in [Worker -> WorkerState] /\ job' \in [Job -> JobRow]
                /\ UNCHANGED <<execution, sends, faults, crashes>>
    <2>1. NextJob(w) \in WorkerState
      <3>1. \A pc \in {"idle", "claim"} :
              [IdleWorker EXCEPT !.pc = pc, !.todo = worker[w].todo] \in WorkerState
        BY <1>2, <1>3 DEF WorkerState
      <3> QED
        BY <3>1 DEF NextJob
    <2>2. job' \in [Job -> JobRow]
      BY <1>1, <1>12, ZenonT(60) DEF Finish, JobRow
    <2> QED
      BY <1>1, <1>12, <2>1, <2>2 DEF Finish, working
  <1>13. ASSUME DbError(w)
         PROVE  /\ worker' \in [Worker -> WorkerState] /\ faults' \in 0 .. MaxFaults
                /\ UNCHANGED <<job, execution, sends, crashes>>
    <2>1. [worker[w] EXCEPT !.pc = "fail"] \in WorkerState
      BY <1>2 DEF WorkerState
    <2>2. worker' \in [Worker -> WorkerState]
      BY <1>1, <1>3, <1>13, <2>1 DEF DbError
    <2>3. faults' \in 0 .. MaxFaults
      BY <1>1, <1>13 DEF DbError
    <2> QED
      BY <1>13, <2>2, <2>3 DEF DbError, working
  <1>14. ASSUME WorkerCrash(w)
         PROVE  /\ worker' \in [Worker -> WorkerState] /\ crashes' \in 0 .. MaxCrashes
                /\ UNCHANGED <<job, execution, sends, faults>>
    BY <1>1, <1>3, <1>14 DEF WorkerCrash
  <1>15. ASSUME Close(w), worker[w].plan # "run"
         PROVE  /\ worker' \in [Worker -> WorkerState] /\ execution' \in [Job -> Outcome]
                /\ UNCHANGED <<job, sends, faults, crashes>>
    <2>1. worker' \in [Worker -> WorkerState]
      BY <1>1, <1>2, <1>15 DEF Close, WorkerState
    <2> QED
      BY <1>1, <1>2, <1>15, <2>1 DEF Close, working
  <1> QED
    BY <1>1, <1>4, <1>5, <1>6, <1>7, <1>8, <1>9, <1>10, <1>12, <1>13, <1>14, <1>15
    DEF WorkerStep, RunStep, Close, PlanInv

-----------------------------------------------------------------------------
(* What a step of a worker does to the worker itself *)

\* Who has a job in hand, and when the reads of the switches are still to come.
HandInv ==
    \A w \in Worker :
        /\ worker[w].job = NoJob <=> worker[w].pc \in {"idle", "claim"}
        /\ worker[w].pc \in {"idle", "claim", "reload"} => worker[w].read = 1

Keeps(w, pc) == worker'[w].job = worker[w].job /\ worker'[w].pc = pc
Rests(w) == worker'[w].job = NoJob /\ worker'[w].pc \in {"idle", "claim"} /\ worker'[w].read = 1

Takes(w, j) ==
    /\ job[j].status = "queued"
    /\ job' = [job EXCEPT ![j].status = "active"]
    /\ worker[w].job = NoJob
    /\ worker'[w].job = j /\ worker'[w].pc = "reload" /\ worker'[w].read = 1
    /\ UNCHANGED <<execution, sends>>
Reloads(w) ==
    /\ worker[w].pc = "reload"
    /\ \/ /\ Keeps(w, "switch") /\ worker'[w].read = 1
          /\ ~Outdated(worker[w].job) /\ Runnable(job[worker[w].job].schedule)
       \/ Keeps(w, "open") /\ worker'[w].plan = "skipped"
    /\ UNCHANGED <<job, execution, sends>>
ReadsOne(w) ==
    /\ worker[w].pc = "switch"
    /\ \/ Keeps(w, "open") /\ worker'[w].plan \in {"skipped", "failed"}
       \/ Keeps(w, "open") /\ ~Off(Reads[worker[w].read]) /\ worker[w].read = 5
       \/ /\ Keeps(w, "switch") /\ ~Off(Reads[worker[w].read])
          /\ worker'[w].read = worker[w].read + 1
    /\ UNCHANGED <<job, execution, sends>>
Opens(w) ==
    /\ worker[w].pc = "open"
    /\ \/ Keeps(w, "close") /\ worker'[w].plan # "run"
       \/ Keeps(w, "route") /\ worker[w].plan = "run"
    /\ execution' = [execution EXCEPT ![worker[w].job] = "pending"]
    /\ UNCHANGED <<job, sends>>
Routes(w) ==
    /\ worker[w].pc = "route"
    /\ \/ Keeps(w, "send")
       \/ Keeps(w, "close") /\ worker'[w].plan # "run"
    /\ UNCHANGED <<job, execution, sends>>
Sends(w) ==
    /\ worker[w].pc = "send"
    /\ Keeps(w, "close") /\ worker'[w].plan # "run"
    /\ sends' = [sends EXCEPT ![worker[w].job] = @ + 1]
    /\ UNCHANGED <<job, execution>>
Closes(w) ==
    /\ worker[w].pc = "close"
    /\ Keeps(w, "complete")
    /\ execution' = [execution EXCEPT ![worker[w].job] = worker[w].plan]
    /\ UNCHANGED <<job, sends>>
Ends(w) ==
    /\ worker[w].pc \in {"complete", "fail"}
    /\ Rests(w)
    /\ \E status \in {"completed", "failed"} :
          /\ status = "completed" <=> worker[w].pc = "complete"
          /\ job' = [job EXCEPT ![worker[w].job].status = status]
    /\ UNCHANGED <<execution, sends>>
Breaks(w) ==
    /\ \/ worker[w].pc \notin {"idle", "claim"} /\ Keeps(w, "fail")
       \/ Rests(w)
    /\ UNCHANGED <<job, execution, sends>>

Moves(w) ==
    \/ \E j \in Job : Takes(w, j)
    \/ Reloads(w) \/ ReadsOne(w) \/ Opens(w) \/ Routes(w) \/ Sends(w) \/ Closes(w)
    \/ Ends(w) \/ Breaks(w)

Others(w) == \A v \in Worker \ {w} : worker'[v] = worker[v]

LEMMA WorkerMoves ==
  ASSUME TypeOK, HandInv, NEW w \in Worker, WorkerStep(w) \/ WorkerCrash(w)
  PROVE  Moves(w) /\ Others(w)
  <1>1. /\ worker \in [Worker -> WorkerState] /\ worker[w] \in WorkerState
        /\ Len(Reads) = 5
    BY DEF TypeOK, Reads
  <1>2. /\ worker[w].job = NoJob <=> worker[w].pc \in {"idle", "claim"}
        /\ worker[w].pc \in {"idle", "claim", "reload"} => worker[w].read = 1
    BY DEF HandInv
  <1>3. ASSUME NEW r, worker' = [worker EXCEPT ![w] = r]
        PROVE  worker'[w] = r /\ Others(w)
    BY <1>1, <1>3 DEF Others
  <1>4. ASSUME Poll(w) PROVE Moves(w) /\ Others(w)
    <2>1. worker' = [worker EXCEPT ![w] = [worker[w] EXCEPT !.pc = "claim", !.todo = Due]]
      BY <1>1, <1>4 DEF Poll, WorkerState
    <2>2. Breaks(w)
      BY <1>1, <1>2, <1>3, <1>4, <2>1 DEF Poll, Breaks, Rests, WorkerState
    <2> QED
      BY <1>3, <2>1, <2>2 DEF Moves
  <1>5. ASSUME NEW j \in Job, Claim(w, j) PROVE Moves(w) /\ Others(w)
    <2> DEFINE todo == worker[w].todo \ {j}
               rest == [worker[w] EXCEPT !.pc = IF todo = {} THEN "idle" ELSE "claim",
                                         !.todo = todo]
               taken == [worker[w] EXCEPT !.pc = "reload", !.job = j, !.todo = todo]
    <2>1. CASE job[j].status = "queued"
      <3>1. worker' = [worker EXCEPT ![w] = taken]
        BY <1>1, <1>5, <2>1 DEF Claim, WorkerState
      <3>2. worker'[w] = taken
        BY <1>3, <3>1
      <3>3. Takes(w, j)
        BY <1>1, <1>2, <1>5, <2>1, <3>2 DEF Claim, Takes, WorkerState
      <3> QED
        BY <1>3, <3>1, <3>3 DEF Moves
    <2>2. CASE job[j].status # "queued"
      <3>1. worker' = [worker EXCEPT ![w] = rest]
        BY <1>1, <1>5, <2>2 DEF Claim, WorkerState
      <3>2. worker'[w] = rest
        BY <1>3, <3>1
      <3>3. Breaks(w)
        BY <1>1, <1>2, <1>5, <2>2, <3>2 DEF Claim, Breaks, Rests, WorkerState
      <3> QED
        BY <1>3, <3>1, <3>3 DEF Moves
    <2> QED
      BY <2>1, <2>2
  <1>6. ASSUME Reload(w) PROVE Moves(w) /\ Others(w)
    <2>1. PICK r : /\ worker' = [worker EXCEPT ![w] = r]
                   /\ \/ /\ Outdated(worker[w].job) \/ ~Runnable(job[worker[w].job].schedule)
                         /\ r = [worker[w] EXCEPT !.pc = "open", !.plan = "skipped"]
                      \/ /\ ~Outdated(worker[w].job) /\ Runnable(job[worker[w].job].schedule)
                         /\ r = [worker[w] EXCEPT !.pc = "switch"]
      BY <1>6 DEF Reload
    <2>2. Reloads(w)
      BY <1>1, <1>2, <1>3, <1>6, <2>1 DEF Reload, Reloads, Keeps, WorkerState
    <2> QED
      BY <1>3, <2>1, <2>2 DEF Moves
  <1>7. ASSUME ReadSwitch(w) PROVE Moves(w) /\ Others(w)
    <2> DEFINE n == worker[w].read
    <2>1. PICK r : /\ worker' = [worker EXCEPT ![w] = r]
                   /\ r = IF Off(Reads[n])
                          THEN [worker[w] EXCEPT !.pc = "open",
                                                 !.plan = IF n <= 3 THEN "skipped" ELSE "failed"]
                          ELSE IF n = 5 THEN [worker[w] EXCEPT !.pc = "open"]
                                        ELSE [worker[w] EXCEPT !.read = n + 1]
      BY <1>1, <1>7 DEF ReadSwitch
    <2>2. worker'[w] = r
      BY <1>3, <2>1
    <2>6. worker[w].pc = "switch" /\ UNCHANGED <<job, execution, sends>>
      BY <1>7 DEF ReadSwitch
    <2>3. ASSUME Off(Reads[n]) PROVE ReadsOne(w)
      <3>1. Keeps(w, "open") /\ worker'[w].plan \in {"skipped", "failed"}
        BY <1>1, <2>1, <2>2, <2>3 DEF Keeps, WorkerState
      <3> QED
        BY <2>6, <3>1 DEF ReadsOne
    <2>4. ASSUME ~Off(Reads[n]) /\ n = 5 PROVE ReadsOne(w)
      <3>1. Keeps(w, "open")
        BY <1>1, <2>1, <2>2, <2>4 DEF Keeps, WorkerState
      <3> QED
        BY <2>4, <2>6, <3>1 DEF ReadsOne
    <2>5. ASSUME ~Off(Reads[n]) /\ n # 5 PROVE ReadsOne(w)
      <3>1. r = [worker[w] EXCEPT !.read = n + 1]
        BY <2>1, <2>5
      <3>2. Keeps(w, "switch") /\ worker'[w].read = n + 1
        BY <1>1, <2>2, <2>6, <3>1 DEF Keeps, WorkerState
      <3> QED
        BY <2>5, <2>6, <3>2 DEF ReadsOne
    <2> QED
      BY <1>3, <2>1, <2>3, <2>4, <2>5 DEF Moves
  <1>8. ASSUME NEW dry \in BOOLEAN, Open(w, dry) PROVE Moves(w) /\ Others(w)
    <2>1. PICK r : /\ worker' = [worker EXCEPT ![w] = r]
                   /\ \/ r = [worker[w] EXCEPT !.pc = "close", !.plan = "dry_run"]
                      \/ worker[w].plan # "run" /\ r = [worker[w] EXCEPT !.pc = "close"]
                      \/ worker[w].plan = "run" /\ r = [worker[w] EXCEPT !.pc = "route"]
      BY <1>8 DEF Open
    <2>2. worker'[w] = r
      BY <1>3, <2>1
    <2>3. Opens(w)
      BY <1>1, <1>8, <2>1, <2>2 DEF Open, Opens, Keeps, WorkerState
    <2> QED
      BY <1>3, <2>1, <2>3 DEF Moves
  <1>9. ASSUME NEW threadType, Route(w, threadType) PROVE Moves(w) /\ Others(w)
    <2>1. PICK r : /\ worker' = [worker EXCEPT ![w] = r]
                   /\ \/ r = [worker[w] EXCEPT !.pc = "send"]
                      \/ r = [worker[w] EXCEPT !.pc = "close", !.plan = "blocked"]
      BY <1>9 DEF Route
    <2>2. worker'[w] = r
      BY <1>3, <2>1
    <2>3. Routes(w)
      BY <1>1, <1>9, <2>1, <2>2 DEF Route, Routes, Keeps, WorkerState
    <2> QED
      BY <1>3, <2>1, <2>3 DEF Moves
  <1>10. ASSUME NEW success \in BOOLEAN, Send(w, success) PROVE Moves(w) /\ Others(w)
    <2>1. PICK plan \in {"success", "failed"} :
             worker' = [worker EXCEPT ![w] = [worker[w] EXCEPT !.pc = "close", !.plan = plan]]
      BY <1>10 DEF Send
    <2>2. worker'[w] = [worker[w] EXCEPT !.pc = "close", !.plan = plan]
      BY <1>3, <2>1
    <2>3. Keeps(w, "close") /\ worker'[w].plan # "run"
      BY <1>1, <2>2 DEF Keeps, WorkerState
    <2>4. Sends(w)
      BY <1>10, <2>3 DEF Send, Sends
    <2> QED
      BY <1>3, <2>1, <2>4 DEF Moves
  <1>11. ASSUME Close(w) PROVE Moves(w) /\ Others(w)
    <2>1. worker' = [worker EXCEPT ![w] = [worker[w] EXCEPT !.pc = "complete"]]
      BY <1>1, <1>11 DEF Close
    <2>2. worker'[w] = [worker[w] EXCEPT !.pc = "complete"]
      BY <1>3, <2>1
    <2>3. Closes(w)
      BY <1>1, <1>11, <2>2 DEF Close, Closes, Keeps, WorkerState
    <2> QED
      BY <1>3, <2>1, <2>3 DEF Moves
  <1>12. ASSUME Finish(w) PROVE Moves(w) /\ Others(w)
    <2>1. worker'[w] = NextJob(w) /\ Others(w)
      BY <1>3, <1>12 DEF Finish
    <2>2. Rests(w)
      BY <2>1 DEF NextJob, IdleWorker, Rests
    <2>3. Ends(w)
      BY <1>12, <2>2 DEF Finish, Ends
    <2> QED
      BY <2>1, <2>3 DEF Moves
  <1>13. ASSUME DbError(w) \/ WorkerCrash(w) PROVE Moves(w) /\ Others(w)
    <2>1. PICK r : /\ worker' = [worker EXCEPT ![w] = r]
                   /\ \/ r = IdleWorker
                      \/ /\ worker[w].pc \notin {"idle", "claim"}
                         /\ r = [worker[w] EXCEPT !.pc = "fail"]
      BY <1>13 DEF DbError, WorkerCrash
    <2>2. worker'[w] = r /\ Others(w)
      BY <1>3, <2>1
    <2>3. Breaks(w)
      BY <1>1, <1>13, <2>1, <2>2
      DEF DbError, WorkerCrash, Breaks, Keeps, Rests, IdleWorker, WorkerState
    <2> QED
      BY <2>2, <2>3 DEF Moves
  <1> QED
    BY <1>4, <1>5, <1>6, <1>7, <1>8, <1>9, <1>10, <1>11, <1>12, <1>13 DEF WorkerStep, RunStep

\* Requests leave the workers alone.  They cancel jobs, and queue absent ones.
LEMMA OthersMove ==
  ASSUME TypeOK,
         \/ \E e \in Editor : EditorStep(e)
         \/ \E a \in Admin : AdminStep(a)
         \/ BackendCrash
  PROVE  /\ UNCHANGED <<worker, execution, sends>>
         /\ \A j \in Job :
               \/ job'[j].status = job[j].status
               \/ job[j].status \in {"queued", "active"} /\ job'[j].status = "cancelled"
               \/ job[j].status = "absent" /\ job'[j].status = "queued"
  <1>1. job \in [Job -> JobRow]
    BY DEF TypeOK
  <1>2. ASSUME NEW e \in Editor, Cancel(e)
        PROVE  \A j \in Job :
                 \/ job'[j].status = job[j].status
                 \/ job[j].status \in {"queued", "active"} /\ job'[j].status = "cancelled"
    BY <1>1, <1>2 DEF Cancel, JobRow
  <1>3. ASSUME NEW e \in Editor, NEW i \in Job, Queue(e, i)
        PROVE  \A j \in Job :
                 \/ job'[j].status = job[j].status
                 \/ job[j].status = "absent" /\ job'[j].status = "queued"
    BY <1>1, <1>3 DEF Queue, JobRow
  <1>4. ASSUME NEW e \in Editor, EditorStep(e)
        PROVE  /\ UNCHANGED <<worker, execution, sends>>
               /\ \/ UNCHANGED job
                  \/ Cancel(e)
                  \/ \E j \in Job : Queue(e, j)
    BY <1>4 DEF EditorStep, Start, Insert, Cancel, Choose, Read, Write, Load, Queue, EditorFails,
       editing
  <1>5. ASSUME NEW a \in Admin, AdminStep(a) PROVE UNCHANGED <<worker, execution, sends, job>>
    BY <1>5 DEF AdminStep, AdminStart, AdminSets, administering
  <1>6. ASSUME BackendCrash PROVE UNCHANGED <<worker, execution, sends, job>>
    BY <1>6 DEF BackendCrash
  <1> QED
    BY <1>2, <1>3, <1>4, <1>5, <1>6

-----------------------------------------------------------------------------
(* The types are kept *)

LEMMA WatchTyped ==
  ASSUME TypeOK, Watch PROVE barred' \in [Worker -> SUBSET (Switch \cup {"schedule"})]
  <1>1. barred \in [Worker -> SUBSET (Switch \cup {"schedule"})]
    BY DEF TypeOK
  <1>2. \A j : Forbids(j) \subseteq Switch \cup {"schedule"}
    BY DEF Forbids
  <1> QED
    BY <1>1, <1>2 DEF Watch

LEMMA NextTyped ==
  ASSUME TypeOK, PlanInv, HandInv, [Next]_vars PROVE TypeOK' /\ PlanInv'
  <1> USE ScheduleAssumption
  <1>1. CASE UNCHANGED vars
    BY <1>1 DEF vars, TypeOK, PlanInv
  <1>2. ASSUME Next PROVE barred' \in [Worker -> SUBSET (Switch \cup {"schedule"})]
    BY <1>2, WatchTyped DEF Next
  <1>3. ASSUME Next, NEW e \in Editor, EditorStep(e) PROVE TypeOK' /\ PlanInv'
    <2>1. UNCHANGED <<execution, switch, worker, admin, sends, crashes>>
      BY <1>3 DEF EditorStep, Start, Insert, Cancel, Choose, Read, Write, Load, Queue,
         EditorFails, editing
    <2> QED
      BY <1>2, <1>3, <2>1, EditorTyped DEF TypeOK, PlanInv
  <1>4. ASSUME Next, NEW a \in Admin, AdminStep(a) PROVE TypeOK' /\ PlanInv'
    <2> DEFINE AdminState == [op : {"none", "stop", "clear", "pause", "resume"},
                              todo : Seq(Switch)]
    <2>1. admin \in [Admin -> AdminState] /\ switch \in [Switch -> BOOLEAN]
      BY DEF TypeOK
    <2>2. admin[a] \in AdminState
      BY <2>1
    <2>3. ASSUME NEW op \in {"stop", "clear", "pause", "resume"}, AdminStart(a, op)
          PROVE  admin' \in [Admin -> AdminState] /\ UNCHANGED switch
      <3>1. /\ <<"emergency_stop", "sending_enabled", "schedules_active">> \in Seq(Switch)
            /\ <<"sending_enabled">> \in Seq(Switch)
        BY DEF Switch
      <3> QED
        BY <2>1, <2>3, <3>1 DEF AdminStart
    <2>4. ASSUME AdminSets(a)
          PROVE  admin' \in [Admin -> AdminState] /\ switch' \in [Switch -> BOOLEAN]
      <3>1. admin[a].todo \in Seq(Switch) /\ admin[a].todo # << >>
        BY <2>2, <2>4 DEF AdminSets
      <3>2. Tail(admin[a].todo) \in Seq(Switch)
        BY <3>1
      <3>3. admin' \in [Admin -> AdminState]
        <4>1. [admin[a] EXCEPT !.todo = Tail(admin[a].todo)] \in AdminState
          BY <2>2, <3>2
        <4>2. admin' = [admin EXCEPT ![a] = [admin[a] EXCEPT !.todo = Tail(admin[a].todo)]]
          BY <2>1, <2>2, <2>4 DEF AdminSets
        <4> HIDE DEF AdminState
        <4> QED
          BY <2>1, <4>1, <4>2
      <3>4. switch' \in [Switch -> BOOLEAN]
        <4> DEFINE k == Head(admin[a].todo)
                   value == IF k = "emergency_stop" THEN admin[a].op = "stop"
                                                    ELSE admin[a].op \in {"clear", "resume"}
        <4>1. switch' = [switch EXCEPT ![k] = value]
          BY <2>4 DEF AdminSets
        <4>2. value \in BOOLEAN
          <5>1. (admin[a].op = "stop") \in BOOLEAN /\ (admin[a].op \in {"clear", "resume"}) \in BOOLEAN
            BY SMT
          <5>2. CASE k = "emergency_stop"
            BY <5>1, <5>2, Zenon
          <5>3. CASE k # "emergency_stop"
            BY <5>1, <5>3, Zenon
          <5> QED
            BY <5>2, <5>3
        <4> HIDE DEF value
        <4> QED
          BY <2>1, <4>1, <4>2
      <3> QED
        BY <3>3, <3>4
    <2>5. admin' \in [Admin -> AdminState] /\ switch' \in [Switch -> BOOLEAN]
      BY <1>4, <2>1, <2>3, <2>4 DEF AdminStep
    <2>6. UNCHANGED administering
      BY <1>4 DEF AdminStep, AdminStart, AdminSets
    <2> QED
      BY <1>2, <1>4, <2>5, <2>6 DEF TypeOK, PlanInv, administering
  <1>5. ASSUME Next, NEW w \in Worker, WorkerStep(w) \/ WorkerCrash(w) PROVE TypeOK' /\ PlanInv'
    <2>1. UNCHANGED <<schedule, switch, editor, admin>>
      BY <1>5 DEF WorkerStep, RunStep, WorkerCrash, Poll, Claim, Reload, ReadSwitch, Open, Route,
         Send, Close, Finish, DbError, working
    <2>2. TypeOK'
      BY <1>2, <1>5, <2>1, WorkerTyped DEF TypeOK
    <2>3. Moves(w) /\ Others(w)
      BY <1>5, WorkerMoves
    <2>4. worker'[w].pc = "close" => worker'[w].plan # "run"
      BY <2>3 DEF Moves, Takes, Reloads, ReadsOne, Opens, Routes, Sends, Closes, Ends, Breaks,
         Keeps, Rests
    <2> QED
      BY <2>2, <2>3, <2>4 DEF PlanInv, Others
  <1>6. ASSUME Next, BackendCrash PROVE TypeOK' /\ PlanInv'
    <2>1. \A e \in Editor : Remembered([editor[e] EXCEPT !.todo = << >>]) \in EditorState
      <3> SUFFICES ASSUME NEW e \in Editor
                   PROVE  Remembered([editor[e] EXCEPT !.todo = << >>]) \in EditorState
        OBVIOUS
      <3>1. editor[e] \in EditorState
        BY DEF TypeOK
      <3>2. [editor[e] EXCEPT !.todo = << >>] \in EditorState
        BY <3>1, StatementsTyped DEF EditorState
      <3> QED
        BY <3>2, RememberedTyped
    <2>2. editor' \in [Editor -> EditorState]
      BY <1>6, <2>1 DEF BackendCrash
    <2>3. admin' \in [Admin -> [op : {"none", "stop", "clear", "pause", "resume"},
                               todo : Seq(Switch)]]
      <3> DEFINE AdminState == [op : {"none", "stop", "clear", "pause", "resume"},
                                todo : Seq(Switch)]
      <3>1. \A a \in Admin : admin[a] \in AdminState
        BY DEF TypeOK
      <3>2. \A a \in Admin : [admin[a] EXCEPT !.todo = << >>] \in AdminState
        <4>1. << >> \in Seq(Switch)
          OBVIOUS
        <4> QED
          BY <3>1, <4>1
      <3>3. admin' = [a \in Admin |-> [admin[a] EXCEPT !.todo = << >>]]
        BY <1>6 DEF BackendCrash
      <3> HIDE DEF AdminState
      <3>4. admin' \in [Admin -> AdminState]
        BY <3>2, <3>3
      <3> QED
        BY <3>4 DEF AdminState
    <2>4. crashes' \in 0 .. MaxCrashes
      BY <1>6 DEF BackendCrash, TypeOK
    <2>5. UNCHANGED <<schedule, job, execution, switch, worker, sends, faults>>
      BY <1>6 DEF BackendCrash
    <2> QED
      BY <1>2, <1>6, <2>2, <2>3, <2>4, <2>5 DEF TypeOK, PlanInv
  <1> QED
    BY <1>1, <1>3, <1>4, <1>5, <1>6 DEF Next, Step

-----------------------------------------------------------------------------
(* One send per job *)

\* A job has one holder, from its claim on; before the claim it is not sent, and before
\* its holder has asked for the send neither.
SendInv ==
    /\ \A w \in Worker : worker[w].job # NoJob => job[worker[w].job].status \in {"active", "cancelled"}
    /\ \A v, w \in Worker : worker[v].job # NoJob /\ worker[v].job = worker[w].job => v = w
    /\ \A j \in Job : job[j].status \in {"absent", "queued"} => sends[j] = 0
    /\ \A w \in Worker : worker[w].pc \in {"reload", "switch", "open", "route", "send"}
                         => sends[worker[w].job] = 0
    /\ OneSendPerJob

\* What a completed job, or one about to be, has for an execution.
RecordInv ==
    /\ \A w \in Worker : worker[w].pc = "complete"
                         => execution[worker[w].job] \notin {"none", "pending"}
    /\ CompletedIsRecorded

LEMMA HandKept ==
  ASSUME TypeOK, PlanInv, HandInv, [Next]_vars PROVE HandInv'
  <1>1. CASE UNCHANGED vars
    BY <1>1 DEF vars, HandInv
  <1>2. ASSUME \/ \E e \in Editor : EditorStep(e)
               \/ \E a \in Admin : AdminStep(a)
               \/ BackendCrash
        PROVE  HandInv'
    <2>1. UNCHANGED worker
      BY <1>2, OthersMove
    <2> QED
      BY <2>1 DEF HandInv
  <1>3. ASSUME NEW w \in Worker, WorkerStep(w) \/ WorkerCrash(w) PROVE HandInv'
    <2>1. Moves(w) /\ Others(w)
      BY <1>3, WorkerMoves
    <2>2. /\ worker'[w].job = NoJob <=> worker'[w].pc \in {"idle", "claim"}
          /\ worker'[w].pc \in {"idle", "claim", "reload"} => worker'[w].read = 1
      BY <2>1, ScheduleAssumption
      DEF HandInv, Moves, Takes, Reloads, ReadsOne, Opens, Routes, Sends, Closes, Ends, Breaks,
          Keeps, Rests
    <2> QED
      BY <2>1, <2>2 DEF HandInv, Others
  <1> QED
    BY <1>1, <1>2, <1>3 DEF Next, Step

\* What the type invariant says of the worker and of the rows in its hands.
LEMMA InHand ==
  ASSUME TypeOK, HandInv, NEW w \in Worker
  PROVE  /\ worker[w].pc \notin {"idle", "claim"} => worker[w].job \in Job
         /\ worker[w].job = NoJob \/ worker[w].job \in Job
         /\ worker[w].read \in 1 .. 5 /\ worker[w].plan \in Plan
         /\ NoJob \notin Job
         /\ job \in [Job -> JobRow] /\ sends \in [Job -> Nat]
         /\ DOMAIN execution = Job /\ DOMAIN job = Job
  <1>1. worker[w] \in WorkerState
    BY DEF TypeOK
  <1>2. worker[w].job \in Job \cup {NoJob} /\ worker[w].read \in 1 .. 5 /\ worker[w].plan \in Plan
    BY <1>1 DEF WorkerState, Reads
  <1> QED
    BY <1>2, ScheduleAssumption DEF HandInv, TypeOK

LEMMA SendKept ==
  ASSUME TypeOK, PlanInv, HandInv, SendInv, [Next]_vars PROVE SendInv'
  <1> USE ScheduleAssumption
  <1>0. /\ job \in [Job -> JobRow] /\ sends \in [Job -> Nat]
        /\ \A w \in Worker : worker[w].job # NoJob => worker[w].job \in Job
        /\ \A w \in Worker : worker[w].pc \notin {"idle", "claim"} <=> worker[w].job # NoJob
    BY InHand DEF TypeOK, HandInv
  <1>1. CASE UNCHANGED vars
    BY <1>1 DEF vars, SendInv, OneSendPerJob
  <1>2. ASSUME \/ \E e \in Editor : EditorStep(e)
               \/ \E a \in Admin : AdminStep(a)
               \/ BackendCrash
        PROVE  SendInv'
    <2>1. /\ UNCHANGED <<worker, sends>>
          /\ \A j \in Job :
                \/ job'[j].status = job[j].status
                \/ job[j].status \in {"queued", "active"} /\ job'[j].status = "cancelled"
                \/ job[j].status = "absent" /\ job'[j].status = "queued"
      BY <1>2, OthersMove
    <2> QED
      BY <1>0, <2>1 DEF SendInv, OneSendPerJob
  <1>3. ASSUME NEW w \in Worker, WorkerStep(w) \/ WorkerCrash(w) PROVE SendInv'
    <2>1. Moves(w) /\ Others(w)
      BY <1>3, WorkerMoves
    <2>2. ASSUME NEW j \in Job, Takes(w, j) PROVE SendInv'
      <3>1. /\ job'[j].status = "active" /\ \A i \in Job : i # j => job'[i] = job[i]
            /\ job[j].status = "queued" /\ sends' = sends /\ worker'[w].job = j
            /\ worker'[w].pc = "reload"
        BY <1>0, <2>2 DEF Takes, JobRow
      <3>2. \A v \in Worker : worker[v].job # j
        BY <1>0, <3>1 DEF SendInv
      <3>3. \A v, u \in Worker :
              worker'[v].job # NoJob /\ worker'[v].job = worker'[u].job => v = u
        BY <2>1, <3>1, <3>2 DEF SendInv, Others
      <3>4. \A v \in Worker : worker'[v].job # NoJob
              => job'[worker'[v].job].status \in {"active", "cancelled"}
        BY <1>0, <2>1, <3>1, <3>2 DEF SendInv, Others
      <3>5. \A v \in Worker : worker'[v].pc \in {"reload", "switch", "open", "route", "send"}
              => sends'[worker'[v].job] = 0
        BY <2>1, <3>1 DEF SendInv, Others
      <3>6. \A i \in Job : job'[i].status \in {"absent", "queued"} => sends'[i] = 0
        BY <3>1 DEF SendInv
      <3> QED
        BY <3>1, <3>3, <3>4, <3>5, <3>6 DEF SendInv, OneSendPerJob
    <2>3. ASSUME \/ Reloads(w) \/ ReadsOne(w) \/ Opens(w) \/ Routes(w) \/ Closes(w)
                 \/ Breaks(w)
          PROVE  SendInv'
      <3>1. /\ UNCHANGED <<job, sends>>
            /\ worker'[w].job \in {worker[w].job, NoJob}
            /\ worker'[w].pc \in {"reload", "switch", "open", "route", "send"} =>
                  /\ worker[w].pc \in {"reload", "switch", "open", "route", "send"}
                  /\ worker'[w].job = worker[w].job
        BY <2>3 DEF Reloads, ReadsOne, Opens, Routes, Closes, Breaks, Keeps, Rests
      <3> QED
        BY <2>1, <3>1 DEF SendInv, OneSendPerJob, Others
    <2>4. ASSUME Sends(w) PROVE SendInv'
      <3>1. /\ worker[w].job \in Job /\ sends[worker[w].job] = 0 /\ worker[w].job # NoJob
            /\ job[worker[w].job].status \in {"active", "cancelled"}
        BY <1>0, <2>4 DEF Sends, SendInv
      <3>2. /\ sends'[worker[w].job] = 1
            /\ \A j \in Job : j # worker[w].job => sends'[j] = sends[j]
            /\ job' = job /\ worker'[w].job = worker[w].job /\ worker'[w].pc = "close"
        BY <1>0, <2>4, <3>1 DEF Sends, Keeps
      <3>3. \A v \in Worker : worker'[v].pc \in {"reload", "switch", "open", "route", "send"}
              => sends'[worker'[v].job] = 0
        BY <1>0, <2>1, <3>1, <3>2 DEF SendInv, Others
      <3> QED
        BY <1>0, <2>1, <3>1, <3>2, <3>3 DEF SendInv, OneSendPerJob, Others
    <2>5. ASSUME Ends(w) PROVE SendInv'
      <3>1. worker[w].job \in Job /\ worker[w].job # NoJob /\ sends' = sends
        BY <1>0, <2>5 DEF Ends
      <3>2. PICK status \in {"completed", "failed"} :
               job' = [job EXCEPT ![worker[w].job].status = status]
        BY <2>5 DEF Ends
      <3>3. /\ job'[worker[w].job].status \in {"completed", "failed"}
            /\ \A j \in Job : j # worker[w].job => job'[j] = job[j]
            /\ worker'[w].job = NoJob /\ worker'[w].pc \in {"idle", "claim"}
        BY <1>0, <2>5, <3>1, <3>2 DEF Ends, Rests, JobRow
      <3> QED
        BY <1>0, <2>1, <3>1, <3>3 DEF SendInv, OneSendPerJob, Others
    <2> QED
      BY <2>1, <2>2, <2>3, <2>4, <2>5 DEF Moves
  <1> QED
    BY <1>1, <1>2, <1>3 DEF Next, Step

LEMMA RecordKept ==
  ASSUME TypeOK, PlanInv, HandInv, SendInv, RecordInv, [Next]_vars PROVE RecordInv'
  <1> USE ScheduleAssumption
  <1>0. /\ job \in [Job -> JobRow] /\ DOMAIN execution = Job
        /\ execution \in [Job -> {"none", "pending"} \cup (Plan \ {"run"})]
        /\ \A w \in Worker : worker[w].job # NoJob => worker[w].job \in Job
        /\ \A w \in Worker : worker[w].pc \notin {"idle", "claim"} <=> worker[w].job # NoJob
        /\ \A w \in Worker : worker[w].plan \in Plan
    BY InHand DEF TypeOK, HandInv
  <1>1. CASE UNCHANGED vars
    BY <1>1 DEF vars, RecordInv, CompletedIsRecorded
  <1>2. ASSUME \/ \E e \in Editor : EditorStep(e)
               \/ \E a \in Admin : AdminStep(a)
               \/ BackendCrash
        PROVE  RecordInv'
    <2>1. /\ UNCHANGED <<worker, execution>>
          /\ \A j \in Job : job'[j].status = "completed" => job[j].status = "completed"
      BY <1>2, OthersMove
    <2> QED
      BY <2>1 DEF RecordInv, CompletedIsRecorded
  <1>3. ASSUME NEW w \in Worker, WorkerStep(w) \/ WorkerCrash(w) PROVE RecordInv'
    <2>1. Moves(w) /\ Others(w)
      BY <1>3, WorkerMoves
    <2>2. ASSUME NEW j \in Job, Takes(w, j) PROVE RecordInv'
      <3>1. /\ job'[j].status = "active" /\ \A i \in Job : i # j => job'[i] = job[i]
            /\ execution' = execution /\ worker'[w].pc = "reload"
        BY <1>0, <2>2 DEF Takes, JobRow
      <3> QED
        BY <2>1, <3>1 DEF RecordInv, CompletedIsRecorded, Others
    <2>3. ASSUME Reloads(w) \/ ReadsOne(w) \/ Routes(w) \/ Sends(w) \/ Breaks(w)
          PROVE  RecordInv'
      <3>1. UNCHANGED <<job, execution>> /\ worker'[w].pc # "complete"
        BY <2>3 DEF Reloads, ReadsOne, Routes, Sends, Breaks, Keeps, Rests
      <3> QED
        BY <2>1, <3>1 DEF RecordInv, CompletedIsRecorded, Others
    <2>4. ASSUME Opens(w) PROVE RecordInv'
      <3>1. /\ worker[w].job \in Job /\ worker[w].job # NoJob
            /\ job[worker[w].job].status \in {"active", "cancelled"}
        BY <1>0, <2>4 DEF Opens, SendInv
      <3>2. /\ \A j \in Job : j # worker[w].job => execution'[j] = execution[j]
            /\ job' = job /\ worker'[w].pc # "complete"
        BY <1>0, <2>4, <3>1 DEF Opens, Keeps
      <3>3. \A v \in Worker \ {w} : worker[v].job # worker[w].job
        BY <3>1 DEF SendInv
      <3> QED
        BY <1>0, <2>1, <3>1, <3>2, <3>3 DEF RecordInv, CompletedIsRecorded, Others
    <2>5. ASSUME Closes(w) PROVE RecordInv'
      <3>1. /\ worker[w].job \in Job /\ worker[w].plan # "run"
            /\ worker[w].plan \notin {"none", "pending"}
        BY <1>0, <2>5 DEF Closes, PlanInv, Plan
      <3>2. /\ \A j \in Job : j # worker[w].job => execution'[j] = execution[j]
            /\ execution'[worker[w].job] = worker[w].plan
            /\ job' = job /\ worker'[w].job = worker[w].job
        BY <1>0, <2>5, <3>1 DEF Closes, Keeps
      <3> QED
        BY <1>0, <2>1, <3>1, <3>2 DEF RecordInv, CompletedIsRecorded, Others
    <2>6. ASSUME Ends(w) PROVE RecordInv'
      <3>1. worker[w].job \in Job /\ execution' = execution /\ worker'[w].pc # "complete"
        BY <1>0, <2>6 DEF Ends, Rests
      <3>2. PICK status \in {"completed", "failed"} :
               /\ status = "completed" <=> worker[w].pc = "complete"
               /\ job' = [job EXCEPT ![worker[w].job].status = status]
        BY <2>6 DEF Ends
      <3>3. /\ job'[worker[w].job].status = "completed" => worker[w].pc = "complete"
            /\ \A j \in Job : j # worker[w].job => job'[j] = job[j]
        BY <1>0, <3>1, <3>2 DEF JobRow
      <3> QED
        BY <2>1, <3>1, <3>3 DEF RecordInv, CompletedIsRecorded, Others
    <2> QED
      BY <2>1, <2>2, <2>3, <2>4, <2>5, <2>6 DEF Moves
  <1> QED
    BY <1>1, <1>2, <1>3 DEF Next, Step

-----------------------------------------------------------------------------
(* What is forbidden is not sent *)

\* What a worker has looked at since the claim did not forbid its job then, and so has not
\* forbidden it ever since.
BarInv ==
    \A w \in Worker :
        /\ worker[w].pc = "switch" => /\ "schedule" \notin barred[w]
                                      /\ \A i \in 1 .. 5 :
                                            i < worker[w].read => Reads[i] \notin barred[w]
        /\ worker[w].pc = "open" /\ worker[w].plan = "run" => barred[w] = {}
        /\ worker[w].pc \in {"route", "send"} => barred[w] = {}

\* While a job is in hand, the set of what has forbidden it since the claim only shrinks.
LEMMA WatchShrinks ==
  ASSUME TypeOK, Watch, NEW w \in Worker, worker'[w].job # NoJob, worker'[w].job = worker[w].job
  PROVE  barred'[w] = barred[w] \cap Forbids(worker[w].job)'
  BY DEF Watch

LEMMA BarKept ==
  ASSUME TypeOK, PlanInv, HandInv, BarInv, [Next]_vars PROVE BarInv'
  <1> USE ScheduleAssumption
  <1>0. /\ \A w \in Worker : worker[w].job # NoJob <=> worker[w].pc \notin {"idle", "claim"}
        /\ \A w \in Worker : worker[w].read \in 1 .. 5
        /\ \A w \in Worker : barred[w] \subseteq Switch \cup {"schedule"}
    BY InHand DEF HandInv, TypeOK
  <1>1. CASE UNCHANGED vars
    BY <1>1 DEF vars, BarInv
  <1>2. ASSUME Next, NEW v \in Worker, worker'[v] = worker[v], worker[v].job # NoJob
        PROVE  barred'[v] \subseteq barred[v]
    BY <1>2, WatchShrinks DEF Next
  <1>3. ASSUME Next, NEW v \in Worker, worker'[v] = worker[v]
        PROVE  /\ worker'[v].pc = "switch" => /\ "schedule" \notin barred'[v]
                                              /\ \A i \in 1 .. 5 :
                                                   i < worker'[v].read => Reads[i] \notin barred'[v]
               /\ worker'[v].pc = "open" /\ worker'[v].plan = "run" => barred'[v] = {}
               /\ worker'[v].pc \in {"route", "send"} => barred'[v] = {}
    BY <1>0, <1>2, <1>3 DEF BarInv
  <1>4. ASSUME Next,
               \/ \E e \in Editor : EditorStep(e)
               \/ \E a \in Admin : AdminStep(a)
               \/ BackendCrash
        PROVE  BarInv'
    <2>1. UNCHANGED worker
      BY <1>4, OthersMove
    <2> QED
      BY <1>3, <1>4, <2>1 DEF BarInv
  <1>5. ASSUME Next, NEW w \in Worker, WorkerStep(w) \/ WorkerCrash(w) PROVE BarInv'
    <2>1. Moves(w) /\ Others(w) /\ Watch
      BY <1>5, WorkerMoves DEF Next
    <2>2. UNCHANGED <<schedule, switch>>
      BY <1>5 DEF WorkerStep, RunStep, WorkerCrash, Poll, Claim, Reload, ReadSwitch, Open, Route,
         Send, Close, Finish, DbError, working
    <2> DEFINE Good == /\ worker'[w].pc = "switch" =>
                              /\ "schedule" \notin barred'[w]
                              /\ \A i \in 1 .. 5 :
                                   i < worker'[w].read => Reads[i] \notin barred'[w]
                       /\ worker'[w].pc = "open" /\ worker'[w].plan = "run" => barred'[w] = {}
                       /\ worker'[w].pc \in {"route", "send"} => barred'[w] = {}
    <2>3. ASSUME Reloads(w) PROVE Good
      <3>1. CASE Keeps(w, "open") /\ worker'[w].plan = "skipped"
        BY <3>1 DEF Keeps
      <3>2. CASE /\ Keeps(w, "switch") /\ worker'[w].read = 1
                 /\ ~Outdated(worker[w].job) /\ Runnable(job[worker[w].job].schedule)
        <4>1. barred'[w] \subseteq Forbids(worker[w].job)'
          BY <1>0, <2>1, <2>3, <3>2, WatchShrinks DEF Keeps, Reloads
        <4>2. job' = job
          BY <2>3 DEF Reloads
        <4>3. worker'[w].job = worker[w].job
          BY <1>0, <2>3, <3>2 DEF Keeps, Reloads
        <4>4. ~Outdated(worker[w].job)' /\ ~(~Runnable(job[worker[w].job].schedule))'
          BY <2>2, <3>2, <4>2, <4>3 DEF Outdated, Runnable
        <4>5. "schedule" \notin Forbids(worker[w].job)'
          BY <4>4 DEF Forbids, Off, Switch
        <4> QED
          BY <3>2, <4>1, <4>5 DEF Keeps
      <3> QED
        BY <2>3, <3>1, <3>2 DEF Reloads
    <2>4. ASSUME ReadsOne(w) PROVE Good
      <3>1. worker'[w].job = worker[w].job /\ worker[w].job # NoJob
        BY <1>0, <2>4 DEF ReadsOne, Keeps
      <3>2. barred'[w] = barred[w] \cap Forbids(worker[w].job)'
        BY <2>1, <3>1, WatchShrinks
      <3>3. CASE Keeps(w, "open") /\ worker'[w].plan \in {"skipped", "failed"}
        BY <3>3 DEF Keeps
      <3>4. ASSUME NEW k \in Switch, ~Off(k)
            PROVE  k \notin barred'[w]
        <4>1. ~Off(k)' /\ k # "schedule"
          BY <2>2, <3>4 DEF Off, Switch
        <4> QED
          BY <3>2, <4>1 DEF Forbids
      <3>8. Reads[worker[w].read] \in Switch
        BY <1>0 DEF Reads, Switch
      <3>5. /\ "schedule" \notin barred[w]
            /\ \A i \in 1 .. 5 : i < worker[w].read => Reads[i] \notin barred[w]
        BY <2>4 DEF ReadsOne, BarInv
      <3>6. CASE /\ Keeps(w, "switch") /\ ~Off(Reads[worker[w].read])
                 /\ worker'[w].read = worker[w].read + 1
        <4>1. \A i \in 1 .. 5 : i < worker'[w].read => i < worker[w].read \/ i = worker[w].read
          BY <1>0, <3>6
        <4> QED
          BY <3>2, <3>4, <3>5, <3>6, <3>8, <4>1 DEF Keeps
      <3>7. CASE Keeps(w, "open") /\ ~Off(Reads[worker[w].read]) /\ worker[w].read = 5
        <4>1. \A i \in 1 .. 5 : Reads[i] \notin barred'[w]
          <5>1. \A i \in 1 .. 5 : i < 5 \/ i = 5
            OBVIOUS
          <5> QED
            BY <3>2, <3>4, <3>5, <3>7, <3>8, <5>1
        <4>2. barred'[w] \subseteq Switch \cup {"schedule"} /\ "schedule" \notin barred'[w]
          BY <1>0, <3>2, <3>5
        <4>3. Reads[1] = "emergency_stop" /\ Reads[3] = "schedules_active" /\ Reads[5] = "sending_enabled"
          BY DEF Reads
        <4>4. barred'[w] = {}
          BY <4>1, <4>2, <4>3 DEF Switch
        <4> QED
          BY <3>7, <4>4 DEF Keeps
      <3> QED
        BY <2>4, <3>3, <3>6, <3>7 DEF ReadsOne
    <2>5. ASSUME Opens(w) \/ Routes(w) PROVE Good
      <3>1. worker'[w].job = worker[w].job /\ worker[w].job # NoJob
        BY <1>0, <2>5 DEF Opens, Routes, Keeps
      <3>2. barred'[w] \subseteq barred[w]
        BY <2>1, <3>1, WatchShrinks
      <3> QED
        BY <2>5, <3>2 DEF Opens, Routes, Keeps, BarInv
    <2>6. ASSUME \/ \E j \in Job : Takes(w, j)
                 \/ Sends(w) \/ Closes(w) \/ Ends(w) \/ Breaks(w)
          PROVE  Good
      BY <2>6 DEF Takes, Sends, Closes, Ends, Breaks, Keeps, Rests
    <2>7. Good
      BY <2>1, <2>3, <2>4, <2>5, <2>6 DEF Moves
    <2> QED
      BY <1>3, <1>5, <2>1, <2>7 DEF BarInv, Others
  <1> QED
    BY <1>1, <1>4, <1>5 DEF Next, Step

-----------------------------------------------------------------------------
(* The theorems *)

ScheduleInv == TypeOK /\ PlanInv /\ HandInv /\ SendInv /\ RecordInv /\ BarInv

LEMMA InitHolds == Init => ScheduleInv
  BY InitTyped, ScheduleAssumption
  DEF Init, IdleWorker, ScheduleInv, PlanInv, HandInv, SendInv, RecordInv, BarInv,
      OneSendPerJob, CompletedIsRecorded

\* The inductive invariant of the worker: what it holds, what it has looked at, what it has
\* sent and recorded.
THEOREM WorkerInvariant == Spec => []ScheduleInv
  <1>1. ScheduleInv /\ [Next]_vars => ScheduleInv'
    BY NextTyped, HandKept, SendKept, RecordKept, BarKept DEF ScheduleInv
  <1> QED
    BY <1>1, InitHolds, PTL DEF Spec

\* Every reachable state is well typed.
THEOREM TypeCorrect == Spec => []TypeOK
  BY WorkerInvariant, PTL DEF ScheduleInv

\* The send of a job is asked for at most once (claimJob), whatever workers, requests,
\* errors and crashes there are.
THEOREM OneSend == Spec => []OneSendPerJob
  BY WorkerInvariant, PTL DEF ScheduleInv, SendInv

\* Nothing is sent for a job that its schedule or a switch has forbidden ever since its
\* claim (the guards of executeJob).
THEOREM ForbiddenNotSent == Spec => []ForbiddenIsNotSent
  <1>1. ScheduleInv => ForbiddenIsNotSent
    BY DEF ScheduleInv, BarInv, ForbiddenIsNotSent
  <1> QED
    BY <1>1, WorkerInvariant, PTL

\* A completed job has a recorded outcome (executeClaimedJob).
THEOREM CompletionRecorded == Spec => []CompletedIsRecorded
  BY WorkerInvariant, PTL DEF ScheduleInv, RecordInv

-----------------------------------------------------------------------------
(* What is left of a request *)

Inserting == <<"insert">>
Queueing == <<"queue">>
Loading == <<"load", "queue">>
Rescheduling == <<"cancel", "load", "queue">>
Writing == <<"write", "cancel", "load", "queue">>
Reading == <<"read", "write", "cancel", "load", "queue">>
Choosing == <<"choose", "read", "write", "cancel", "load", "queue">>
Patching == <<"cancel", "read", "write", "cancel", "load", "queue">>
LastWrite == <<"write">>
LastRead == <<"read", "write">>
Cancelling == <<"cancel", "read", "write">>

Rest == {<< >>, Inserting, Queueing, Loading, Rescheduling, Writing, Reading, Choosing,
         Patching, LastWrite, LastRead, Cancelling}

\* Where a statement stands, and what follows it.
LEMMA RestSteps ==
  ASSUME NEW todo \in Rest, todo # << >>
  PROVE  /\ Head(todo) = "insert" => todo = Inserting
         /\ Head(todo) = "choose" => todo = Choosing /\ Tail(todo) = Reading
         /\ Head(todo) = "read" => \/ todo = Reading /\ Tail(todo) = Writing
                                   \/ todo = LastRead /\ Tail(todo) = LastWrite
         /\ Head(todo) = "write" => \/ todo = Writing /\ Tail(todo) = Rescheduling
                                    \/ todo = LastWrite /\ Tail(todo) = << >>
         /\ Head(todo) = "cancel" => \/ todo = Rescheduling /\ Tail(todo) = Loading
                                     \/ todo = Patching /\ Tail(todo) = Reading
                                     \/ todo = Cancelling /\ Tail(todo) = LastRead
         /\ Head(todo) = "load" => todo = Loading /\ Tail(todo) = Queueing
         /\ Head(todo) = "queue" => todo = Queueing
  <1>1. /\ Head(Inserting) = "insert"
        /\ Head(Queueing) = "queue"
        /\ Head(Loading) = "load" /\ Tail(Loading) = Queueing
        /\ Head(Rescheduling) = "cancel" /\ Tail(Rescheduling) = Loading
        /\ Head(Writing) = "write" /\ Tail(Writing) = Rescheduling
        /\ Head(Reading) = "read" /\ Tail(Reading) = Writing
        /\ Head(Choosing) = "choose" /\ Tail(Choosing) = Reading
        /\ Head(Patching) = "cancel" /\ Tail(Patching) = Reading
        /\ Head(LastWrite) = "write" /\ Tail(LastWrite) = << >>
        /\ Head(LastRead) = "read" /\ Tail(LastRead) = LastWrite
        /\ Head(Cancelling) = "cancel" /\ Tail(Cancelling) = LastRead
    BY DEF Inserting, Queueing, Loading, Rescheduling, Writing, Reading, Choosing, Patching,
       LastWrite, LastRead, Cancelling
  <1> QED
    BY <1>1 DEF Rest

\* The remainders differ from each other.
LEMMA RestsDiffer ==
  /\ Inserting \notin {<< >>, Queueing, Loading, Rescheduling, Writing, Reading, Choosing,
                       Patching, LastWrite, LastRead, Cancelling}
  /\ Queueing \notin {<< >>, Loading, Rescheduling, Writing, LastWrite, LastRead, Cancelling}
  /\ Loading \notin {<< >>, Rescheduling, Writing, LastWrite, LastRead, Cancelling}
  /\ Rescheduling \notin {<< >>, Writing, LastWrite, LastRead, Cancelling}
  /\ Writing \notin {<< >>, LastWrite, LastRead, Cancelling}
  /\ Reading \notin {<< >>, Queueing, Loading, Rescheduling, Writing, LastWrite, LastRead,
                     Cancelling}
  /\ Choosing \notin {<< >>, Queueing, Loading, Rescheduling, Writing, LastWrite, LastRead,
                      Cancelling}
  /\ Patching \notin {<< >>, Queueing, Loading, Rescheduling, Writing, LastWrite, LastRead,
                      Cancelling}
  /\ LastWrite \notin {<< >>, LastRead, Cancelling}
  /\ LastRead \notin {<< >>, Cancelling}
  /\ Cancelling # << >>
  BY DEF Inserting, Queueing, Loading, Rescheduling, Writing, Reading, Choosing, Patching,
     LastWrite, LastRead, Cancelling

-----------------------------------------------------------------------------
(* The inductive invariant *)

NoneQueued(s) == \A j \in Job : job[j].schedule = s => job[j].status # "queued"
OneQueued(s) ==
    \A i, j \in Job :
        job[i].schedule = s /\ job[i].status = "queued" /\ job[j].schedule = s /\ job[j].status = "queued"
        => i = j
Undisturbed == faults = 0 /\ crashes = 0

\* What a request that is not over has in front of it, and what it knows of the row.
RequestGood(e) ==
    LET s == editor[e].schedule
        todo == editor[e].todo
    IN  /\ todo \in Rest
        /\ editor[e].kind = "none" => todo = << >>
        /\ todo = Inserting => /\ editor[e].kind \in {"create", "remind"}
                               /\ schedule[s].status = "absent"
        /\ todo \notin {<< >>, Inserting} => schedule[s].status # "absent"
        /\ todo \in {Loading, Queueing} => NoneQueued(s)
        /\ todo \in {LastWrite, LastRead, Cancelling} => editor[e].kind \in Quiet \cup {"cancel"}
        /\ todo \in {LastWrite, Writing} => editor[e].seen = schedule[s]
        /\ todo \in {Rescheduling, Loading, Queueing} => editor[e].version = schedule[s].version

Created(s) == \E e \in Editor : editor[e].schedule = s /\ editor[e].kind \in {"create", "remind"}

\* No request of the schedule is under way, and none was one that leaves the jobs alone.
Settled(s) == \A e \in Editor : editor[e].schedule = s =>
                  editor[e].todo = << >> /\ editor[e].kind \notin Quiet

ScheduleGood(s) ==
    /\ \A e \in Editor : editor[e].schedule = s => RequestGood(e)
    /\ \A e, f \in InFlight(s) : e = f
    /\ schedule[s].status # "absent" => Created(s)
    /\ schedule[s].status = "absent" => NoneQueued(s)
    /\ OneQueued(s)
    /\ Undisturbed /\ Settled(s) /\ Runnable(s) /\ schedule[s].next => HasRun(s)

EditInv == \A s \in Schedule : ScheduleGood(s)

-----------------------------------------------------------------------------
(* Steps on one schedule leave the others good *)

\* Nothing the invariant says of the schedule has moved, but for an error or a crash.
Untouched(s) ==
    /\ schedule'[s] = schedule[s]
    /\ \A e \in Editor : editor[e].schedule = s \/ editor'[e].schedule = s => editor'[e] = editor[e]
    /\ \A j \in Job : job[j].schedule = s \/ job'[j].schedule = s => job'[j] = job[j]
    /\ Undisturbed' => Undisturbed

LEMMA GoodUntouched ==
  ASSUME NEW s \in Schedule, ScheduleGood(s), Untouched(s)
  PROVE  ScheduleGood(s)'
  <1>1. NoneQueued(s)' = NoneQueued(s) /\ OneQueued(s)' = OneQueued(s)
    BY DEF NoneQueued, OneQueued, Untouched
  <1>2. ASSUME NEW e \in Editor, editor'[e].schedule = s
        PROVE  RequestGood(e)'
    <2>1. RequestGood(e) /\ editor'[e] = editor[e]
      BY <1>2 DEF ScheduleGood, Untouched
    <2> QED
      BY <1>1, <1>2, <2>1 DEF RequestGood, Untouched
  <1>3. InFlight(s)' = InFlight(s) /\ Created(s)' = Created(s) /\ Settled(s)' = Settled(s)
    BY DEF InFlight, Created, Settled, Untouched
  <1>4. Runnable(s)' = Runnable(s) /\ (HasRun(s) => HasRun(s)')
    BY DEF Runnable, HasRun, Outdated, Untouched
  <1> QED
    BY <1>1, <1>2, <1>3, <1>4 DEF ScheduleGood, Untouched

\* A step of one request touches its schedule alone.
Alone(e) ==
    /\ \A f \in Editor \ {e} : editor'[f] = editor[f]
    /\ editor'[e].schedule = editor[e].schedule
    /\ \A s \in Schedule \ {editor[e].schedule} : schedule'[s] = schedule[s]
    /\ \A j \in Job : /\ job'[j].schedule = job[j].schedule
                      /\ job[j].schedule # editor[e].schedule => job'[j] = job[j]
    /\ Undisturbed' => Undisturbed

LEMMA OthersUntouched ==
  ASSUME NEW e \in Editor, Alone(e), NEW s \in Schedule, s # editor[e].schedule
  PROVE  Untouched(s)
  BY DEF Alone, Untouched

\* Over its own schedule, a request that was alone in flight answers for what it leaves.
LEMMA InFlightKept ==
  ASSUME NEW e \in Editor, NEW s \in Schedule, editor[e].schedule = s, editor[e].todo # << >>,
         ScheduleGood(s), Alone(e),
         editor'[e].kind = editor[e].kind,
         RequestGood(e)', OneQueued(s)',
         schedule'[s].status = "absent" => NoneQueued(s)',
         /\ Undisturbed' /\ Runnable(s)' /\ schedule'[s].next
         /\ editor'[e].todo = << >> /\ editor[e].kind \notin Quiet
         => HasRun(s)'
  PROVE  ScheduleGood(s)'
  <1>1. \A f \in Editor : editor[f].schedule = s /\ f # e => editor[f].todo = << >>
    BY DEF ScheduleGood, InFlight
  <1>2. \A f \in Editor : f # e => editor'[f] = editor[f]
    BY DEF Alone
  <1>3. editor'[e].schedule = s
    BY DEF Alone
  <1>4. ASSUME NEW f \in Editor, editor'[f].schedule = s PROVE RequestGood(f)'
    <2>1. CASE f = e
      BY <2>1
    <2>2. CASE f # e
      <3>1. editor'[f] = editor[f] /\ editor'[f].todo = << >>
        BY <1>1, <1>2, <1>4, <2>2
      <3>2. << >> \in Rest
        BY DEF Rest
      <3> QED
        BY <3>1, <3>2, RestsDiffer DEF RequestGood
    <2> QED
      BY <2>1, <2>2
  <1>5. \A f, g \in InFlight(s)' : f = g
    BY <1>1, <1>2 DEF InFlight
  <1>6. Created(s)'
    <2>1. RequestGood(e)
      BY DEF ScheduleGood
    <2>2. Created(s)
      BY <2>1 DEF RequestGood, ScheduleGood, Created
    <2> QED
      BY <1>2, <1>3, <2>2 DEF Created
  <1>7. Settled(s)' => editor'[e].todo = << >> /\ editor[e].kind \notin Quiet
    BY <1>3 DEF Settled
  <1> QED
    BY <1>4, <1>5, <1>6, <1>7 DEF ScheduleGood

-----------------------------------------------------------------------------
(* The steps of a request *)

LEMMA Remembers ==
  ASSUME NEW r \in EditorState
  PROVE  /\ Remembered(r).kind = r.kind /\ Remembered(r).schedule = r.schedule
         /\ Remembered(r).todo = r.todo
         /\ r.todo # << >> => Remembered(r) = r
  BY DEF Remembered, EditorState

\* What a step of a request starts from.
LEMMA InHandOf ==
  ASSUME TypeOK, EditInv, NEW e \in Editor
  PROVE  /\ editor \in [Editor -> EditorState] /\ editor[e] \in EditorState
         /\ schedule \in [Schedule -> Row] /\ job \in [Job -> JobRow]
         /\ editor[e].schedule \in Schedule /\ ScheduleGood(editor[e].schedule)
         /\ RequestGood(e) /\ editor[e].todo \in Rest
         /\ faults \in Nat /\ crashes \in Nat
  BY ScheduleAssumption DEF TypeOK, EditorState, EditInv, ScheduleGood, RequestGood

\* The request comes in: what it has to do is a whole list of statements, no other is under
\* way, and a creator's schedule is absent.
LEMMA StartKept ==
  ASSUME TypeOK, EditInv, ~EditsOverlap, NEW e \in Editor, NEW kind \in Edits, Start(e, kind),
         NEW s \in Schedule, s = editor[e].schedule
  PROVE  EditInv'
  <1> DEFINE r == [editor[e] EXCEPT !.kind = kind, !.todo = Statements(kind)]
  <1>1. /\ editor \in [Editor -> EditorState] /\ editor[e] \in EditorState
        /\ ScheduleGood(s)
    BY InHandOf
  <1>2. editor' = [editor EXCEPT ![e] = r]
    BY <1>1 DEF Start, EditorState
  <1>3. /\ r.kind = kind /\ r.todo = Statements(kind) /\ r.schedule = s
    BY <1>1 DEF EditorState
  <1> HIDE DEF r
  <1>4. /\ editor'[e] = r /\ \A f \in Editor : f # e => editor'[f] = editor[f]
        /\ UNCHANGED <<schedule, job, faults, crashes>>
    BY <1>1, <1>2 DEF Start, editing
  <1>5. Alone(e)
    BY <1>3, <1>4 DEF Alone, Undisturbed
  <1>6. /\ InFlight(s) = {} /\ editor[e].kind = "none"
        /\ kind \in {"create", "remind"} => ~Created(s)
        /\ kind \notin {"create", "remind"} => schedule[s].status # "absent"
    BY DEF Start, Created
  <1>7. /\ kind \in {"create", "remind"} => Statements(kind) = Inserting
        /\ kind \in {"content", "same", "time", "untime"} => Statements(kind) = Patching
        /\ kind \in Quiet => Statements(kind) = LastRead
        /\ kind = "pause" => Statements(kind) = Reading
        /\ kind = "resume" => Statements(kind) = Choosing
        /\ kind = "cancel" => Statements(kind) = Cancelling
        /\ kind \in Edit
    BY ScheduleAssumption
    DEF Statements, Edit, Quiet, AgentEdit, Inserting, Patching, LastRead, Reading, Choosing, Cancelling
  <1>8. RequestGood(e)'
    <2>1. schedule[s].status # "absent" => Created(s)
      BY <1>1 DEF ScheduleGood
    <2>2. Statements(kind) \in {Inserting, Patching, LastRead, Reading, Choosing, Cancelling}
      BY <1>7 DEF Edit, Quiet, AgentEdit
    <2>3. Statements(kind) = Inserting => kind \in {"create", "remind"}
      BY <1>7, RestsDiffer DEF Edit, Quiet, AgentEdit
    <2>4. Statements(kind) \in {LastRead, Cancelling} => kind \in Quiet \cup {"cancel"}
      BY <1>7, RestsDiffer DEF Edit, Quiet, AgentEdit
    <2>5. kind # "none"
      BY <1>7 DEF Edit, Quiet, AgentEdit
    <2>6. Statements(kind) \notin {Queueing, Loading, Rescheduling, Writing, LastWrite, << >>}
      BY <2>2, RestsDiffer
    <2>7. Statements(kind) \in Rest
      BY <2>2 DEF Rest
    <2>8. kind \in {"create", "remind"} => Statements(kind) = Inserting
      BY <1>7
    <2> QED
      BY <1>3, <1>4, <1>6, <2>1, <2>2, <2>3, <2>4, <2>5, <2>6, <2>7, <2>8 DEF RequestGood
  <1>9. editor'[e].todo # << >>
    <2>1. << >> \notin {Inserting, Patching, LastRead, Reading, Choosing, Cancelling}
      BY RestsDiffer
    <2> QED
      BY <1>3, <1>4, <1>7, <2>1 DEF Edit, Quiet, AgentEdit
  <1>10. ScheduleGood(s)'
    <2>1. ASSUME NEW f \in Editor, editor'[f].schedule = s PROVE RequestGood(f)'
      <3>1. CASE f # e
        <4>1. RequestGood(f) /\ editor'[f] = editor[f]
          BY <1>1, <1>4, <2>1, <3>1 DEF ScheduleGood
        <4>2. editor[f].schedule = s /\ NoneQueued(s)' = NoneQueued(s)
          BY <1>4, <2>1, <3>1 DEF NoneQueued
        <4> QED
          BY <1>4, <2>1, <4>1, <4>2 DEF RequestGood
      <3> QED
        BY <1>8, <3>1
    <2>2. \A f, g \in InFlight(s)' : f = g
      BY <1>4, <1>6 DEF InFlight
    <2>3. schedule'[s].status # "absent" => Created(s)'
      BY <1>1, <1>3, <1>4, <1>6 DEF ScheduleGood, Created
    <2>4. ~Settled(s)'
      BY <1>3, <1>4, <1>9 DEF Settled
    <2>5. /\ schedule'[s].status = "absent" => NoneQueued(s)'
          /\ OneQueued(s)'
      BY <1>1, <1>4 DEF ScheduleGood, NoneQueued, OneQueued
    <2> QED
      BY <2>1, <2>2, <2>3, <2>4, <2>5 DEF ScheduleGood
  <1> QED
    BY <1>5, <1>10, OthersUntouched, GoodUntouched DEF EditInv

\* One request moves on: what InFlightKept asks for, where neither rows nor jobs change.
LEMMA RequestMoves ==
  ASSUME TypeOK, EditInv, NEW e \in Editor, NEW s \in Schedule, s = editor[e].schedule,
         editor[e].todo # << >>, UNCHANGED <<schedule, job>>, Undisturbed' => Undisturbed,
         NEW r, editor' = [editor EXCEPT ![e] = r],
         r.schedule = s, r.kind = editor[e].kind, r.todo \in Rest \ {Inserting},
         editor[e].todo # Inserting,
         r.todo \in {Loading, Queueing} => NoneQueued(s),
         r.todo \in {LastWrite, LastRead, Cancelling} => r.kind \in Quiet \cup {"cancel"},
         r.todo \in {LastWrite, Writing} => r.seen = schedule[s],
         r.todo \in {Rescheduling, Loading, Queueing} => r.version = schedule[s].version,
         /\ Undisturbed' /\ Runnable(s) /\ schedule[s].next /\ r.todo = << >>
         /\ editor[e].kind \notin Quiet
         => HasRun(s)
  PROVE  EditInv'
  <1>1. /\ editor \in [Editor -> EditorState] /\ ScheduleGood(s) /\ RequestGood(e)
    BY InHandOf
  <1>2. editor'[e] = r /\ \A f \in Editor : f # e => editor'[f] = editor[f]
    BY <1>1
  <1>3. Alone(e)
    BY <1>2 DEF Alone
  <1>4. /\ NoneQueued(s)' = NoneQueued(s) /\ OneQueued(s)' = OneQueued(s)
        /\ HasRun(s)' = HasRun(s) /\ Runnable(s)' = Runnable(s)
    BY DEF NoneQueued, OneQueued, HasRun, Outdated, Runnable
  <1>5. schedule[s].status # "absent" /\ editor[e].kind # "none"
    BY <1>1 DEF RequestGood
  <1>6. RequestGood(e)'
    BY <1>2, <1>4, <1>5 DEF RequestGood
  <1>7. ScheduleGood(s)'
    <2>1. OneQueued(s)' /\ schedule'[s].status # "absent"
      BY <1>1, <1>4, <1>5 DEF ScheduleGood
    <2> QED
      BY <1>1, <1>2, <1>3, <1>4, <1>6, <2>1, InFlightKept
  <1> QED
    BY <1>3, <1>7, OthersUntouched, GoodUntouched DEF EditInv

\* Reading, choosing and loading: the row is remembered as it is.
LEMMA LookKept ==
  ASSUME TypeOK, EditInv, NEW e \in Editor, Choose(e) \/ Read(e) \/ Load(e),
         NEW s \in Schedule, s = editor[e].schedule
  PROVE  EditInv'
  <1>1. /\ editor \in [Editor -> EditorState] /\ editor[e] \in EditorState
        /\ ScheduleGood(s) /\ RequestGood(e) /\ editor[e].todo \in Rest
    BY InHandOf
  <1>2. /\ editor[e].todo # << >> /\ UNCHANGED <<schedule, job, faults, crashes>>
    BY DEF Choose, Read, Load, At, editing
  <1>3. Undisturbed' = Undisturbed
    BY <1>2 DEF Undisturbed
  <1>4. CASE Choose(e)
    <2>1. editor[e].todo = Choosing /\ Tail(editor[e].todo) = Reading
      BY <1>1, <1>2, <1>4, RestSteps DEF Choose, At
    <2>2. PICK wish : editor' = [editor EXCEPT ![e] = [editor[e] EXCEPT !.wish = wish,
                                                                        !.todo = Reading]]
      <3> DEFINE wish == IF schedule[s].next THEN "scheduled" ELSE "active"
      <3>1. editor' = [editor EXCEPT ![e] = [editor[e] EXCEPT !.wish = wish, !.todo = Reading]]
        BY <1>1, <1>4, <2>1 DEF Choose, EditorState
      <3> QED
        BY <3>1
    <2> DEFINE r == [editor[e] EXCEPT !.wish = wish, !.todo = Reading]
    <2>3. r.schedule = s /\ r.kind = editor[e].kind /\ r.todo = Reading
      BY <1>1 DEF EditorState
    <2> HIDE DEF r
    <2>4. Reading \in Rest \ {Inserting} /\ Choosing # Inserting
      BY RestsDiffer DEF Rest
    <2>5. editor' = [editor EXCEPT ![e] = r]
      BY <2>2 DEF r
    <2> QED
      BY <1>2, <1>3, <2>1, <2>3, <2>4, <2>5, RequestMoves, RestsDiffer
  <1>5. CASE Read(e)
    <2>1. \/ editor[e].todo = Reading /\ Tail(editor[e].todo) = Writing
          \/ editor[e].todo = LastRead /\ Tail(editor[e].todo) = LastWrite
      BY <1>1, <1>2, <1>5, RestSteps DEF Read, At
    <2> DEFINE r == [editor[e] EXCEPT !.seen = schedule[s], !.todo = Tail(editor[e].todo)]
    <2>2. editor' = [editor EXCEPT ![e] = r]
      BY <1>1, <1>5 DEF Read, EditorState
    <2>3. /\ r.schedule = s /\ r.kind = editor[e].kind /\ r.todo = Tail(editor[e].todo)
          /\ r.seen = schedule[s]
      BY <1>1 DEF EditorState
    <2> HIDE DEF r
    <2>4. /\ Writing \in Rest /\ LastWrite \in Rest
          /\ Inserting \notin {Writing, LastWrite, Reading, LastRead}
      BY RestsDiffer DEF Rest
    <2>5. editor[e].todo = LastRead => editor[e].kind \in Quiet \cup {"cancel"}
      BY <1>1 DEF RequestGood
    <2> QED
      BY <1>2, <1>3, <2>1, <2>2, <2>3, <2>4, <2>5, RequestMoves, RestsDiffer
  <1>6. CASE Load(e)
    <2>1. editor[e].todo = Loading /\ Tail(editor[e].todo) = Queueing
      BY <1>1, <1>2, <1>6, RestSteps DEF Load, At
    <2>2. NoneQueued(s) /\ editor[e].version = schedule[s].version
      BY <1>1, <2>1 DEF RequestGood
    <2> DEFINE rest == IF schedule[s].next /\ Runnable(s) THEN Queueing ELSE << >>
               q == [editor[e] EXCEPT !.todo = rest]
               r == Remembered(q)
    <2>3. editor' = [editor EXCEPT ![e] = r]
      BY <1>6, <2>1 DEF Load, EndsWith
    <2>4. q \in EditorState /\ q.todo = rest /\ q.schedule = s /\ q.kind = editor[e].kind
          /\ q.version = editor[e].version
      <3>1. Queueing \in Seq(Statement) /\ << >> \in Seq(Statement)
        BY DEF Queueing, Statement
      <3> QED
        BY <1>1, <3>1 DEF EditorState
    <2> HIDE DEF q
    <2>5. /\ r.schedule = s /\ r.kind = editor[e].kind /\ r.todo = rest
          /\ rest # << >> => r.version = schedule[s].version
      BY <2>2, <2>4, Remembers
    <2> HIDE DEF r
    <2>6. {Queueing, << >>} \subseteq Rest \ {Inserting} /\ Loading # Inserting
      BY RestsDiffer DEF Rest
    <2>7. rest \in {Queueing, << >>} /\ (rest = << >> => ~(schedule[s].next /\ Runnable(s)))
      BY RestsDiffer
    <2> HIDE DEF rest
    <2>8. << >> \notin {Queueing, Loading, Rescheduling, Writing, LastWrite, LastRead, Cancelling}
      BY RestsDiffer
    <2> QED
      BY <1>2, <1>3, <2>1, <2>2, <2>3, <2>5, <2>6, <2>7, <2>8, RequestMoves, RestsDiffer
  <1> QED
    BY <1>4, <1>5, <1>6

\* An error ends the request where it stands; the invariant asks nothing for its run any more.
LEMMA FailKept ==
  ASSUME TypeOK, EditInv, NEW e \in Editor, EditorFails(e),
         NEW s \in Schedule, s = editor[e].schedule
  PROVE  EditInv'
  <1>1. /\ editor \in [Editor -> EditorState] /\ editor[e] \in EditorState
        /\ ScheduleGood(s) /\ RequestGood(e) /\ faults \in Nat
    BY InHandOf
  <1>2. /\ editor[e].todo # << >> /\ UNCHANGED <<schedule, job, crashes>> /\ ~Undisturbed'
    BY <1>1 DEF EditorFails, editing, Undisturbed
  <1> DEFINE q == [editor[e] EXCEPT !.todo = << >>]
             r == Remembered(q)
  <1>3. editor' = [editor EXCEPT ![e] = r]
    BY DEF EditorFails, EndsWith
  <1>4. q \in EditorState /\ q.todo = << >> /\ q.schedule = s /\ q.kind = editor[e].kind
    BY <1>1, StatementsTyped DEF EditorState
  <1> HIDE DEF q
  <1>5. r.schedule = s /\ r.kind = editor[e].kind /\ r.todo = << >>
    BY <1>4, Remembers
  <1> HIDE DEF r
  <1>6. editor'[e] = r /\ \A f \in Editor : f # e => editor'[f] = editor[f]
    BY <1>1, <1>3
  <1>7. Alone(e)
    BY <1>2, <1>5, <1>6 DEF Alone
  <1>8. NoneQueued(s)' = NoneQueued(s) /\ OneQueued(s)' = OneQueued(s)
    BY <1>2 DEF NoneQueued, OneQueued
  <1>9. RequestGood(e)'
    BY <1>5, <1>6, RestsDiffer DEF RequestGood, Rest
  <1>10. ScheduleGood(s)'
    <2>1. OneQueued(s)' /\ (schedule'[s].status = "absent" => NoneQueued(s)')
      BY <1>1, <1>2, <1>8 DEF ScheduleGood
    <2> QED
      BY <1>1, <1>2, <1>5, <1>6, <1>7, <1>9, <2>1, InFlightKept
  <1> QED
    BY <1>7, <1>10, OthersUntouched, GoodUntouched DEF EditInv

\* cancelScheduleJobs leaves no job of the schedule queued.
LEMMA CancelKept ==
  ASSUME TypeOK, EditInv, NEW e \in Editor, Cancel(e),
         NEW s \in Schedule, s = editor[e].schedule
  PROVE  EditInv'
  <1>1. /\ editor \in [Editor -> EditorState] /\ editor[e] \in EditorState
        /\ job \in [Job -> JobRow]
        /\ ScheduleGood(s) /\ RequestGood(e) /\ editor[e].todo \in Rest
    BY InHandOf
  <1>2. editor[e].todo # << >> /\ UNCHANGED <<schedule, faults, crashes>>
    BY DEF Cancel, At, editing
  <1>3. \/ editor[e].todo = Rescheduling /\ Tail(editor[e].todo) = Loading
        \/ editor[e].todo = Patching /\ Tail(editor[e].todo) = Reading
        \/ editor[e].todo = Cancelling /\ Tail(editor[e].todo) = LastRead
    BY <1>1, <1>2, RestSteps DEF Cancel, At
  <1> DEFINE r == [editor[e] EXCEPT !.todo = Tail(editor[e].todo)]
  <1>4. editor' = [editor EXCEPT ![e] = r]
    BY <1>1 DEF Cancel, GoesOn, EditorState
  <1>5. /\ r.schedule = s /\ r.kind = editor[e].kind /\ r.todo = Tail(editor[e].todo)
        /\ r.version = editor[e].version
    BY <1>1 DEF EditorState
  <1> HIDE DEF r
  <1>6. editor'[e] = r /\ \A f \in Editor : f # e => editor'[f] = editor[f]
    BY <1>1, <1>4
  <1>7. \A j \in Job : /\ job'[j].schedule = job[j].schedule
                       /\ job[j].schedule # s => job'[j] = job[j]
                       /\ job[j].schedule = s => job'[j].status # "queued"
    BY <1>1 DEF Cancel, JobRow
  <1>8. NoneQueued(s)' /\ OneQueued(s)'
    BY <1>7 DEF NoneQueued, OneQueued
  <1>9. Alone(e)
    BY <1>2, <1>5, <1>6, <1>7 DEF Alone, Undisturbed
  <1>10. /\ r.todo # << >> /\ r.todo \in Rest \ {Inserting, LastWrite, Writing, Rescheduling, Queueing}
         /\ editor[e].todo \notin {<< >>, Inserting}
         /\ r.todo = Loading => editor[e].todo = Rescheduling
         /\ r.todo = LastRead => editor[e].todo = Cancelling
         /\ r.todo # Cancelling
    BY <1>3, <1>5, RestsDiffer DEF Rest
  <1>11. RequestGood(e)'
    BY <1>1, <1>2, <1>5, <1>6, <1>8, <1>10 DEF RequestGood
  <1>12. ScheduleGood(s)'
    BY <1>1, <1>2, <1>5, <1>6, <1>8, <1>9, <1>10, <1>11, InFlightKept
  <1> QED
    BY <1>9, <1>12, OthersUntouched, GoodUntouched DEF EditInv

\* createScheduleJob queues the one job the schedule has, of the row's version.
LEMMA QueueKept ==
  ASSUME TypeOK, EditInv, NEW e \in Editor, NEW j \in Job, Queue(e, j),
         NEW s \in Schedule, s = editor[e].schedule
  PROVE  EditInv'
  <1>1. /\ editor \in [Editor -> EditorState] /\ editor[e] \in EditorState
        /\ job \in [Job -> JobRow] /\ schedule \in [Schedule -> Row]
        /\ ScheduleGood(s) /\ RequestGood(e) /\ editor[e].todo \in Rest
    BY InHandOf
  <1>2. editor[e].todo # << >> /\ UNCHANGED <<schedule, faults, crashes>>
    BY DEF Queue, At, editing
  <1>3. editor[e].todo = Queueing
    BY <1>1, <1>2, RestSteps DEF Queue, At
  <1>4. /\ NoneQueued(s) /\ editor[e].version = schedule[s].version
        /\ schedule[s].status # "absent"
    BY <1>1, <1>3, RestsDiffer DEF RequestGood
  <1> DEFINE q == [editor[e] EXCEPT !.todo = << >>]
             r == Remembered(q)
  <1>5. editor' = [editor EXCEPT ![e] = r]
    BY DEF Queue, EndsWith
  <1>6. q \in EditorState /\ q.todo = << >> /\ q.schedule = s /\ q.kind = editor[e].kind
    BY <1>1, StatementsTyped DEF EditorState
  <1> HIDE DEF q
  <1>7. r.schedule = s /\ r.kind = editor[e].kind /\ r.todo = << >>
    BY <1>6, Remembers
  <1> HIDE DEF r
  <1>8. editor'[e] = r /\ \A f \in Editor : f # e => editor'[f] = editor[f]
    BY <1>1, <1>5
  <1>9. /\ \A i \in Job \ {j} : job'[i] = job[i]
        /\ job'[j].schedule = s /\ job[j].schedule = s /\ job'[j].status = "queued"
        /\ job'[j].version = schedule[s].version
    BY <1>1, <1>4 DEF Queue, JobRow
  <1>10. OneQueued(s)'
    BY <1>4, <1>9 DEF NoneQueued, OneQueued
  <1>11. HasRun(s)'
    <2>1. schedule'[s].version \in Nat /\ job'[j].version = schedule'[s].version
      BY <1>1, <1>2, <1>9 DEF Row
    <2>2. ~(Outdated(j)')
      BY <1>9, <2>1 DEF Outdated
    <2> QED
      BY <1>9, <2>2 DEF HasRun
  <1>12. Alone(e)
    BY <1>2, <1>7, <1>8, <1>9 DEF Alone, Undisturbed
  <1>13. RequestGood(e)'
    BY <1>7, <1>8, RestsDiffer DEF RequestGood, Rest
  <1>14. ScheduleGood(s)'
    BY <1>1, <1>2, <1>4, <1>7, <1>8, <1>10, <1>11, <1>12, <1>13, InFlightKept
  <1> QED
    BY <1>12, <1>14, OthersUntouched, GoodUntouched DEF EditInv

\* createSchedule: nothing of the schedule is queued, and the request knows its version.
LEMMA InsertKept ==
  ASSUME TypeOK, EditInv, NEW e \in Editor, NEW at \in BOOLEAN, NEW repeat \in BOOLEAN,
         Insert(e, at, repeat), NEW s \in Schedule, s = editor[e].schedule
  PROVE  EditInv'
  <1>1. /\ editor \in [Editor -> EditorState] /\ editor[e] \in EditorState
        /\ schedule \in [Schedule -> Row]
        /\ ScheduleGood(s) /\ RequestGood(e) /\ editor[e].todo \in Rest
    BY InHandOf
  <1>2. editor[e].todo # << >> /\ UNCHANGED <<job, faults, crashes>>
    BY DEF Insert, At, editing
  <1>3. editor[e].todo = Inserting
    BY <1>1, <1>2, RestSteps DEF Insert, At
  <1>4. /\ editor[e].kind \in {"create", "remind"} /\ NoneQueued(s)
        /\ editor[e].kind = "remind" => at
    BY <1>1, <1>3 DEF RequestGood, ScheduleGood, Insert
  <1>5. /\ schedule'[s].status # "absent" /\ schedule'[s].version = 1 /\ schedule'[s].next = at
        /\ \A t \in Schedule \ {s} : schedule'[t] = schedule[t]
    BY <1>1 DEF Insert
  <1> DEFINE rest == IF editor[e].kind = "remind" THEN AfterReminder ELSE AfterCreate(at)
             q == [editor[e] EXCEPT !.version = 1, !.todo = rest]
             r == Remembered(q)
  <1>6. editor' = [editor EXCEPT ![e] = r]
    BY DEF Insert
  <1>7. /\ q \in EditorState /\ q.todo = rest /\ q.schedule = s /\ q.kind = editor[e].kind
        /\ q.version = 1
    BY <1>1, StatementsTyped DEF EditorState
  <1> HIDE DEF q
  <1>8. /\ r.schedule = s /\ r.kind = editor[e].kind /\ r.todo = rest
        /\ rest # << >> => r.version = 1
    BY <1>7, Remembers
  <1> HIDE DEF r
  <1>9. rest \in {Queueing, Rescheduling, << >>} /\ (rest = << >> => ~at)
    BY <1>4, RestsDiffer DEF AfterReminder, AfterCreate, Queueing, Rescheduling
  <1> HIDE DEF rest
  <1>10. editor'[e] = r /\ \A f \in Editor : f # e => editor'[f] = editor[f]
    BY <1>1, <1>6
  <1>11. Alone(e)
    BY <1>2, <1>5, <1>8, <1>10 DEF Alone, Undisturbed
  <1>12. NoneQueued(s)' = NoneQueued(s) /\ OneQueued(s)' = OneQueued(s)
    BY <1>2 DEF NoneQueued, OneQueued
  <1>13. /\ rest \in Rest
         /\ rest \notin {Inserting, LastWrite, LastRead, Cancelling, Writing}
         /\ << >> \notin {Rescheduling, Loading, Queueing}
    BY <1>9, RestsDiffer DEF Rest
  <1>14. RequestGood(e)'
    BY <1>4, <1>5, <1>8, <1>10, <1>12, <1>13 DEF RequestGood
  <1>15. ScheduleGood(s)'
    <2>1. OneQueued(s)'
      BY <1>1, <1>12 DEF ScheduleGood
    <2>2. editor'[e].todo = << >> => ~schedule'[s].next
      BY <1>5, <1>8, <1>9, <1>10
    <2> QED
      BY <1>1, <1>2, <1>5, <1>8, <1>10, <1>11, <1>14, <2>1, <2>2, InFlightKept
  <1> QED
    BY <1>11, <1>15, OthersUntouched, GoodUntouched DEF EditInv

\* updateSchedule writes: the request knows the version of the row from then on, and one that
\* ends here leaves the jobs alone or has cancelled the schedule.
LEMMA WriteKept ==
  ASSUME TypeOK, EditInv, NEW e \in Editor, Write(e),
         NEW s \in Schedule, s = editor[e].schedule
  PROVE  EditInv'
  <1>1. /\ editor \in [Editor -> EditorState] /\ editor[e] \in EditorState
        /\ schedule \in [Schedule -> Row]
        /\ ScheduleGood(s) /\ RequestGood(e) /\ editor[e].todo \in Rest
    BY InHandOf
  <1>2. editor[e].todo # << >> /\ UNCHANGED <<job, faults, crashes>>
    BY DEF Write, At, editing
  <1>3. \/ editor[e].todo = Writing /\ Tail(editor[e].todo) = Rescheduling
        \/ editor[e].todo = LastWrite /\ Tail(editor[e].todo) = << >>
    BY <1>1, <1>2, RestSteps DEF Write, At
  <1>4. /\ editor[e].seen = schedule[s] /\ schedule[s].status # "absent"
        /\ editor[e].todo = LastWrite => editor[e].kind \in Quiet \cup {"cancel"}
        /\ schedule[s].version \in Nat
    BY <1>1, <1>3, RestsDiffer DEF RequestGood, Row
  <1> DEFINE row == IF Changes(e) THEN Updated(e, schedule[s]) ELSE schedule[s]
             version == schedule[s].version + IF Changes(e) THEN 1 ELSE 0
             q == [editor[e] EXCEPT !.version = version, !.seen = NoRow,
                                    !.todo = Tail(editor[e].todo)]
             r == Remembered(q)
  <1>5. schedule'[s] = row /\ \A t \in Schedule \ {s} : schedule'[t] = schedule[t]
    BY <1>1 DEF Write
  <1>6. row.version = version /\ version \in Nat
    BY <1>4 DEF Updated
  <1>7. row.status # "absent"
    <2>1. editor[e].kind \in SetsStatus => Wish(e) # "absent"
      BY <1>1 DEF Wish, EditorState, SetsStatus, Pauses, Activates, Cancels
    <2> QED
      BY <1>4, <2>1 DEF Updated
  <1>8. editor[e].kind = "cancel" => row.status = "cancelled"
    <2>1. CASE Changes(e)
      BY <2>1 DEF Updated, Wish, SetsStatus, Pauses, Activates, Cancels
    <2>2. CASE ~Changes(e)
      BY <1>4, <2>2 DEF Changes, Wish, SetsStatus, Pauses, Activates, Cancels, DropsTime
    <2> QED
      BY <2>1, <2>2
  <1> HIDE DEF row
  <1>9. editor' = [editor EXCEPT ![e] = r]
    BY <1>4 DEF Write, Informed
  <1>10. /\ q \in EditorState /\ q.todo = Tail(editor[e].todo) /\ q.schedule = s
         /\ q.kind = editor[e].kind /\ q.version = version
    <2>1. Tail(editor[e].todo) \in Seq(Statement)
      BY <1>1, <1>2 DEF EditorState
    <2>2. NoRow \in Row
      BY DEF NoRow, Row
    <2> HIDE DEF version
    <2> QED
      BY <1>1, <1>6, <2>1, <2>2 DEF EditorState
  <1> HIDE DEF q
  <1>11. /\ r.schedule = s /\ r.kind = editor[e].kind /\ r.todo = Tail(editor[e].todo)
         /\ r.todo # << >> => r.version = version
    BY <1>10, Remembers
  <1> HIDE DEF r, version
  <1>12. editor'[e] = r /\ \A f \in Editor : f # e => editor'[f] = editor[f]
    BY <1>1, <1>9
  <1>13. Alone(e)
    BY <1>2, <1>5, <1>11, <1>12 DEF Alone, Undisturbed
  <1>14. NoneQueued(s)' = NoneQueued(s) /\ OneQueued(s)' = OneQueued(s)
    BY <1>2 DEF NoneQueued, OneQueued
  <1>15. /\ r.todo \in {Rescheduling, << >>} /\ r.todo \in Rest
         /\ r.todo \notin {Inserting, LastWrite, LastRead, Cancelling, Writing, Loading, Queueing}
         /\ editor[e].kind # "none"
    BY <1>1, <1>2, <1>3, <1>11, RestsDiffer DEF Rest, RequestGood
  <1>16. RequestGood(e)'
    BY <1>5, <1>6, <1>7, <1>11, <1>12, <1>15, RestsDiffer DEF RequestGood
  <1>17. ScheduleGood(s)'
    <2>1. OneQueued(s)'
      BY <1>1, <1>14 DEF ScheduleGood
    <2>2. editor'[e].todo = << >> => editor[e].kind \in Quiet \cup {"cancel"}
      BY <1>3, <1>4, <1>11, <1>12, RestsDiffer
    <2>3. editor[e].kind = "cancel" => ~(Runnable(s)')
      BY <1>5, <1>8 DEF Runnable
    <2>4. schedule'[s].status # "absent"
      BY <1>5, <1>7
    <2> QED
      BY <1>1, <1>2, <1>11, <1>12, <1>13, <1>16, <2>1, <2>2, <2>3, <2>4, InFlightKept
  <1> QED
    BY <1>13, <1>17, OthersUntouched, GoodUntouched DEF EditInv

-----------------------------------------------------------------------------
(* The other steps *)

\* A worker takes queued jobs and ends them; it neither queues nor cancels one.
LEMMA WorkerRows ==
  ASSUME TypeOK, HandInv, NEW w \in Worker, WorkerStep(w) \/ WorkerCrash(w)
  PROVE  /\ UNCHANGED <<schedule, editor>>
         /\ \A j \in Job :
               /\ job'[j].schedule = job[j].schedule /\ job'[j].version = job[j].version
               /\ \/ job'[j].status = job[j].status
                  \/ job'[j].status \in {"active", "completed", "failed"}
         /\ Undisturbed' => Undisturbed
  <1>1. UNCHANGED <<schedule, editor>>
    BY DEF WorkerStep, RunStep, WorkerCrash, Poll, Claim, Reload, ReadSwitch, Open, Route,
       Send, Close, Finish, DbError, working
  <1>2. job \in [Job -> JobRow]
    BY DEF TypeOK
  <1>3. \/ UNCHANGED job
        \/ \E j \in Job : job' = [job EXCEPT ![j].status = "active"]
        \/ \E status \in {"completed", "failed"} :
              job' = [job EXCEPT ![worker[w].job].status = status]
    BY DEF WorkerStep, RunStep, WorkerCrash, Poll, Claim, Reload, ReadSwitch, Open, Route,
       Send, Close, Finish, DbError
  <1>4. \A j \in Job :
           /\ job'[j].schedule = job[j].schedule /\ job'[j].version = job[j].version
           /\ \/ job'[j].status = job[j].status
              \/ job'[j].status \in {"active", "completed", "failed"}
    BY <1>2, <1>3 DEF JobRow
  <1>5. Undisturbed' => Undisturbed
    <2>1. faults \in Nat /\ crashes \in Nat
      BY ScheduleAssumption DEF TypeOK
    <2>2. faults' \in {faults, faults + 1} /\ crashes' \in {crashes, crashes + 1}
      BY DEF WorkerStep, RunStep, WorkerCrash, Poll, Claim, Reload, ReadSwitch, Open, Route,
         Send, Close, Finish, DbError, working
    <2> QED
      BY <2>1, <2>2 DEF Undisturbed
  <1> QED
    BY <1>1, <1>4, <1>5

LEMMA WorkerKept ==
  ASSUME TypeOK, HandInv, EditInv, NEW w \in Worker, WorkerStep(w) \/ WorkerCrash(w)
  PROVE  EditInv'
  <1>1. /\ UNCHANGED <<schedule, editor>> /\ (Undisturbed' => Undisturbed)
        /\ \A j \in Job :
               /\ job'[j].schedule = job[j].schedule /\ job'[j].version = job[j].version
               /\ \/ job'[j].status = job[j].status
                  \/ job'[j].status \in {"active", "completed", "failed"}
    BY WorkerRows
  <1> SUFFICES ASSUME NEW s \in Schedule PROVE ScheduleGood(s)'
    BY DEF EditInv
  <1>2. ScheduleGood(s)
    BY DEF EditInv
  <1>3. (NoneQueued(s) => NoneQueued(s)') /\ (OneQueued(s) => OneQueued(s)')
    BY <1>1 DEF NoneQueued, OneQueued
  <1>4. /\ InFlight(s)' = InFlight(s) /\ Created(s)' = Created(s)
        /\ Settled(s)' = Settled(s) /\ Runnable(s)' = Runnable(s)
    BY <1>1 DEF InFlight, Created, Settled, Runnable
  <1>5. HasRun(s) => HasRun(s)'
    BY <1>1 DEF HasRun, Outdated
  <1>6. ASSUME NEW e \in Editor, editor'[e].schedule = s PROVE RequestGood(e)'
    BY <1>1, <1>2, <1>3, <1>6 DEF RequestGood, ScheduleGood
  <1> QED
    BY <1>1, <1>2, <1>3, <1>4, <1>5, <1>6 DEF ScheduleGood

\* The death of the backend ends every request.
LEMMA CrashKept ==
  ASSUME TypeOK, EditInv, BackendCrash PROVE EditInv'
  <1>1. UNCHANGED <<schedule, job>> /\ ~Undisturbed'
    BY ScheduleAssumption DEF BackendCrash, Undisturbed, TypeOK
  <1>2. ASSUME NEW e \in Editor
        PROVE  /\ editor'[e].todo = << >> /\ editor'[e].kind = editor[e].kind
               /\ editor'[e].schedule = editor[e].schedule
    <2> DEFINE q == [editor[e] EXCEPT !.todo = << >>]
    <2>1. editor[e] \in EditorState
      BY DEF TypeOK
    <2>2. q \in EditorState /\ q.todo = << >> /\ q.kind = editor[e].kind
          /\ q.schedule = editor[e].schedule
      BY <2>1, StatementsTyped DEF EditorState
    <2>3. editor'[e] = Remembered(q)
      BY DEF BackendCrash
    <2> HIDE DEF q
    <2> QED
      BY <2>2, <2>3, Remembers
  <1> SUFFICES ASSUME NEW s \in Schedule PROVE ScheduleGood(s)'
    BY DEF EditInv
  <1>3. ScheduleGood(s)
    BY DEF EditInv
  <1>4. NoneQueued(s)' = NoneQueued(s) /\ OneQueued(s)' = OneQueued(s)
    BY <1>1 DEF NoneQueued, OneQueued
  <1>5. InFlight(s)' = {} /\ Created(s)' = Created(s)
    BY <1>2 DEF InFlight, Created
  <1>6. \A e \in Editor : RequestGood(e)'
    BY <1>2, RestsDiffer DEF RequestGood, Rest
  <1> QED
    BY <1>1, <1>3, <1>4, <1>5, <1>6 DEF ScheduleGood

-----------------------------------------------------------------------------
(* The theorems *)

LEMMA EditInit == Init => EditInv
  <1> SUFFICES ASSUME Init, NEW s \in Schedule PROVE ScheduleGood(s)
    BY DEF EditInv
  <1>1. \A e \in Editor : editor[e].todo = << >> /\ editor[e].kind = "none"
    BY DEF Init
  <1>2. \A j \in Job : job[j].status = "absent"
    BY DEF Init
  <1>3. schedule[s].status = "absent" /\ ~Runnable(s)
    BY DEF Init, NoRow, Runnable
  <1>4. \A e \in Editor : RequestGood(e)
    BY <1>1, RestsDiffer DEF RequestGood, Rest
  <1> QED
    BY <1>1, <1>2, <1>3, <1>4 DEF ScheduleGood, NoneQueued, OneQueued, InFlight

LEMMA EditKept ==
  ASSUME ~EditsOverlap, TypeOK, HandInv, EditInv, [Next]_vars PROVE EditInv'
  <1>1. CASE UNCHANGED vars
    <2>1. \A s \in Schedule : Untouched(s)
      BY <1>1 DEF vars, Untouched, Undisturbed
    <2> QED
      BY <2>1, GoodUntouched DEF EditInv
  <1>2. ASSUME NEW e \in Editor, EditorStep(e) PROVE EditInv'
    <2>1. PICK s \in Schedule : s = editor[e].schedule
      BY InHandOf
    <2> QED
      BY <1>2, <2>1, StartKept, InsertKept, CancelKept, LookKept, WriteKept, QueueKept, FailKept
      DEF EditorStep
  <1>3. ASSUME NEW a \in Admin, AdminStep(a) PROVE EditInv'
    <2>1. UNCHANGED <<schedule, job, editor, faults, crashes>>
      BY <1>3 DEF AdminStep, AdminStart, AdminSets, administering
    <2>2. \A s \in Schedule : Untouched(s)
      BY <2>1 DEF Untouched, Undisturbed
    <2> QED
      BY <2>2, GoodUntouched DEF EditInv
  <1> QED
    BY <1>1, <1>2, <1>3, WorkerKept, CrashKept DEF Next, Step

\* What requests leave behind, if no two for one schedule are in flight together: the
\* invariant behind the two theorems below.
THEOREM EditInvariant == ~EditsOverlap => (Spec => []EditInv)
  <1> SUFFICES ASSUME ~EditsOverlap PROVE Spec => []EditInv
    OBVIOUS
  <1>1. ScheduleInv /\ EditInv /\ [Next]_vars => EditInv'
    BY EditKept DEF ScheduleInv
  <1> QED
    BY <1>1, EditInit, WorkerInvariant, PTL DEF Spec

\* Edits that do not overlap leave at most one queued job for a schedule (R7), whatever
\* errors and crashes cut them short, and however many workers run the jobs.
THEOREM QueuedOnce == ~EditsOverlap => (Spec => []OneQueuedJob)
  <1> SUFFICES ASSUME ~EditsOverlap PROVE Spec => []OneQueuedJob
    OBVIOUS
  <1>1. EditInv => OneQueuedJob
    <2> SUFFICES ASSUME EditInv, NEW s \in Schedule
                 PROVE  Cardinality({j \in Job : job[j].schedule = s
                                                 /\ job[j].status = "queued"}) <= 1
      BY DEF OneQueuedJob
    <2> DEFINE Queued == {j \in Job : job[j].schedule = s /\ job[j].status = "queued"}
    <2>1. OneQueued(s)
      BY DEF EditInv, ScheduleGood
    <2>2. CASE Queued = {}
      BY <2>2, FS_EmptySet
    <2>3. CASE Queued # {}
      <3>1. PICK j : j \in Queued
        BY <2>3
      <3>2. Queued = {j}
        BY <2>1, <3>1 DEF OneQueued
      <3>3. Cardinality({j}) = 1
        BY FS_Singleton
      <3> QED
        BY <3>2, <3>3
    <2> QED
      BY <2>2, <2>3
  <1> QED
    BY <1>1, EditInvariant, PTL

\* Until an error or a crash cuts a request short, a runnable schedule with a next run has a
\* job of its current version between edits that do not overlap, none of them one
\* that leaves the jobs alone (rescheduleAfterUpdate).
THEOREM RunQueued == ~EditsOverlap => (Spec => [](Undisturbed => RunIsQueued))
  <1> SUFFICES ASSUME ~EditsOverlap PROVE Spec => [](Undisturbed => RunIsQueued)
    OBVIOUS
  <1>1. EditInv => (Undisturbed => RunIsQueued)
    BY DEF EditInv, ScheduleGood, RunIsQueued, Settled
  <1> QED
    BY <1>1, EditInvariant, PTL
=============================================================================
