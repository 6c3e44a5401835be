# Verification of hermes-zalo-control

TLA+ models, TLC runs and TLAPS proofs of the Zalo assistant: the backend in
`packages/backend` (what may reach Zalo, under which permission, how often, and what the
database says about it afterwards) and the pages of the console in `packages/frontend` that keep
state of their own.

## 1. The system

A Fastify backend process owns the one Zalo session (zca-js) and everything that is
sent through it. A scheduler worker and a document worker are processes of their own;
they share the SQLite database (Prisma) with the backend, poll it, and reach the
backend through its internal HTTP API. A Next.js console reads and edits through the
backend's API. Inside the backend one event loop runs many handlers, which interleave
at every `await`; database rows survive a crash, promises and in-memory maps do not.

| component | state it keeps | operations | modules |
|---|---|---|---|
| outbound dispatch (`outbound-dispatcher.service.ts`) | `OutboundRecord` (unique idempotency key), assistant `Message` | `sendOutbound` | `Outbound`, `ReplyLedger` |
| Zalo message sender (`zalo-message-sender.ts`), cooldown, live-test sessions | `ThreadCooldown`, `LiveTestSession`, the start lock | send, acquire, start, stop, check, count | `Outbound`, `LiveTest` |
| guards of a send (`outbound-guardrails`, `group-safety`, the limiter) | hash, reply and rate windows in memory | check, remember, split | `SendGuards`, `Outbound` (reservation) |
| schedules (`schedule`, `job`, `execution`, `workers/`) | `Schedule`, `ScheduleJob`, `ScheduleExecution`, the switches | create, edit, cancel, poll, claim, execute | `Schedules` |
| message batching (`message-batch`, `message-batch-worker`) | `MessageBatch` | append, claim, complete | `MessageBatch` |
| incoming handling (`zalo-receive`, `incoming-dispatcher`, `inbound-identity`) | `Message`, `AgentTask`, dedup maps | save, identify, route, reply | `Receive`, `Identity`, `Pipeline`, `Reminders`, `Dialogue` |
| Zalo gateway (`zalo-gateway`, recovery, watchdog, the reconnect of `zalo-ops`) | client, listener, status, login and restore generations, retry timer, QR file | login, restore, reconnect, logout, read QR | `ZaloGateway` |
| tool gateway, agent bridge | `ToolCallRecord` | run a model turn, execute a tool | `ToolTurn` |
| governed actions (`zalo-provider/`, reactions, polls) | `ZaloActionRecord`, reaction cooldown | react, create a poll | `ZaloActions` |
| documents | `Document`, `DocumentIngestionJob`, chunks, files | upload, claim, convert, delete | `Documents` |
| settings and records (`allowlist`, `runtime-config`, `rule-engine`, `principal`, `thread-settings`) | their rows, caches, versions and audit entries | edit, load, match | `Settings`, `AdminRecords`, `RuleMatching` |
| process lock and start | a lock file, the port | start, exit | `Instances` |
| heartbeats, health, readiness, traces | `SystemHeartbeat`; joins of others' rows | beat, collect, trace, list | `Readiness`, `Traces` |
| attendance | `AttendanceSession`, `AttendanceRecord` | open, remind, parse, close | `Attendance` |
| console: login card, status, access pages | React state, requests in flight | poll, cancel, search, switch, edit | `LoginConsole`, `AllowThreadsPage`, `PrincipalsPage` |

What is hard: handlers that read before an `await` and act after it; writes nobody
awaits; crashes between a database row and the provider's answer; retries of an inbound
message; database errors that are swallowed; two processes polling one table; answers that
come in another order than they were asked for. `PROJECT.json` lists these at their lines under
"hazards" and names the properties that are about each.

### What makes each part correct

| component | properties |
|---|---|
| outbound dispatch | a reply is reserved before it is sent and sent by one dispatch at most; a dry run never reaches Zalo; a strict dry run that reports success can prove it |
| sender and live-test sessions | one active session; nothing is delivered outside the thread of a session; the quota holds up to one send for each crash, each error and each end of a cooldown under a send; a start cannot block the next |
| schedules and worker | one send for a job; no send for what was forbidden all along; one queued job for a schedule, and none missing; a completed job has an outcome; every job that is taken ends |
| message batching | a message is let through once, handed over once, and not lost; a batch is answered to a stored message; none waits or stays claimed for ever |
| Zalo gateway | one operation in charge; what was revoked installs nothing; no listener is left behind; the code shown is that of the login in charge; retries end |
| the parts around the core | section 3 names one property each |

### How they interact

An incoming message is saved (`zalo-receive`), identified, routed (`incoming-dispatcher`), possibly
collected into a batch, answered by a model turn (`agent-bridge`, `tool-gateway`), and sent by
`sendOutbound`, which is the only door to the sender. The scheduler worker knocks on the same
door by HTTP (`routes/internal.ts`). The door opens under a live-test session only:
`getCurrentEffectiveDryRun()` answers `true` whatever is configured, so "live" means "an active
session covers the thread". The session is looked at twice, by the dispatcher and by the
sender, and counted a third time by a task nobody awaits. The administrators' switches are
rows of `AppSetting` that the worker reads one by one. The gateway decides whether the sender has
a connection at all; health and readiness look at all of them, and a live test depends on
the readiness. The console sees what the routes answer, in whatever order.

Parts that meet in this way share few variables, so they are modelled where they share state
(`Outbound` composes `LiveTest`, `MessageBatch` composes `Receive`, `Schedules` holds the
switches its worker reads) and see the rest as a choice of the environment.

## 2. The plan

The order was that of what a mistake would cost; the modules of 1 to 5 exist.

1. **Outbound path**: `LiveTest`, `Outbound` (composes it), `ReplyLedger` (abstract
   specification); `OutboundProofs`.
2. **Schedules**: `Schedules`; `ScheduleProofs`.
3. **Incoming and batches**: `Receive`, `MessageBatch` (composes it); `BatchProofs`.
4. **Gateway**: `ZaloGateway`; `GatewayProofs`.
5. **The parts around them**: eighteen modules that `MCServices` runs side by side;
   `ServiceProofs` (about six of them), `ConsoleEdits` (composes the three an operator edits),
   `ConsolePages` (composes the pages of the console) and `ConsoleProofs` (about these six),
   `ReplyGuards` (composes `SendGuards` and `Identity`) and `GuardProofs` (about these and `Documents`),
   `Reports` (composes `Readiness`, `Attendance` and `Traces`) and `ReportProofs`.

Left: what section 5 lists as only model-checked, and a reply that goes from a batch through the pipeline to the
outbound path in one model; of what they share, the cooldown that `processBatchNow` clears without awaiting it is in `Outbound`.

## 3. The models

An action ends where the code awaits: a statement on the database is one step, and whatever
runs between two awaits is one step. SQLite serialises statements and transactions. Database
errors (`DbError`, at most `MaxFaults`) are possible where a statement is made; a crash (at most
`MaxCrashes`) keeps rows and loses promises, queues and maps. Texts, names and log rows are
left out. Definitions that precede an original under a name of their own ("a slip in ...", "a
bug: ...") are plausible mistakes; no specification uses them, they show that the
properties would notice. Variables called history are written and never read by an action.

### `LiveTest`: live-test sessions

| state | code |
|---|---|
| `session` | `LiveTestSession` rows; `due` is `expiresAt < now` |
| `startQueue`, `starter` | the promise chain `startLock` and the requests behind it |
| `stopper` | `stopLiveTest`: rows found, cancelled one by one |

`StartGuards`, `StartExpires`, `StartFindsActive`, `StartCreates` are the awaits of
`startLiveTest`; readiness is a choice, as the report it reads depends on other parts.
`ActiveFor`, `Spent`, `Closed` are the pieces of `shouldSendLiveForThread`, and `Counted` those of
`recordLiveTestSent`, which dispatcher and sender call.

### `Outbound`: from an intent to Zalo

`dispatch[d].pc` follows `sendOutbound`: `begin` (cooldown transaction) → `gate` (live check,
possibly `closing` a spent session) → `lookup` (idempotency row) → `reserve` or, when a strict dry run meets
its own key, `replay` (evidence) → `write` (assistant message; `dryMessage`/`dryRecord` for a strict dry
run) → `sender` (the sender's own live check, `senderClosing`) → `send` (part by part) → `settle` →
`cool`. `record` is `OutboundRecord` with its unique key, `message` the assistant's `Message` row,
`noting` and `accounting` the tasks nobody awaits (`updateMessageStatus`, `recordLiveTestSent`).
`accepted[d]` is what Zalo has got, which no row tells. Callers pass an intent of `Job`: a thread,
a key (or `NoKey` for media), the policy (`strict` is `dry_run_only`) and whether it answers an
inbound message. An inbound message delivered again is a second dispatch with its key.

`cooldown[t]` is `[held, outlived]`: the row of the thread, and the history of how often it has ended while a
send of the thread was under way. A transaction acquires the row, and it ends in two ways: its time runs out
(`CooldownExpires`), or the batch path clears it (`ClearCooldown`), at any moment, as `processBatchNow` starts `clearCooldown`
and does not await it (`incoming-dispatcher.service.ts:879`). The cooldown is all that keeps two sends of a thread apart, so each
such end lets one more send read the session before the last one is counted, and `QuotaOvershootBounded` allows one for each.

`ReplyLedger` says what the reservation promises: a key is `free`, then `reserved`, then `settled`;
only a reserved one is delivered, by one sender. `Ledger == INSTANCE ReplyLedger WITH ...` maps
rows to entries, and `ImplementsLedger` is checked and proved.

### `Schedules`: schedules, jobs and the worker

| state | code |
|---|---|
| `schedule`, `job`, `execution`, `switch` | the rows of four tables; `at`, `next` are "not null" |
| `editor` | a request that edits: the list `todo` of its statements, the row it `seen`, the status it `wish`es |
| `admin` | emergency stop, its clearing, pause and resume: switches still to be written |
| `worker` | one run of `poll()`: the jobs it found, the one in hand, which guard comes next, how the run is to be closed |
| `sends` | how often the send was asked for; no row tells |
| `barred` | history: what has forbidden the job in hand in every state since its claim |

`poll` does not wait for the previous one, so two members of `Worker` are two processes or two
overlapping polls of one. `Poll`, `Claim`, `Reload`, `ReadSwitch` (five reads, in the order of
`executeJob`), `Open`, `Route`, `Send`, `Close`, `Finish`, `DbError` are its awaits. `Route` leads to
`blocked` for groups: the reply window of `group-safety` is a map in memory that only the
backend's own incoming handling fills, so the worker's copy is empty. Requests are
`Begin` (which of the sixteen kinds of edit), and one action per statement. Nine kinds are of the console and of a
reminder from the chat, one is a PATCH that sets the time to null, and six are what the agent's
update tool makes of time and status (`AgentEdit`; `routes/agent.ts:99`): it goes to `updateSchedule` and leaves the jobs as they
are, like a rename (`Quiet`).

### `Receive`: a message is saved

| state | code |
|---|---|
| `delivery` | the calls of `saveIncomingMessage`: at the look-up, the upsert of the message, that of the thread, or ended |
| `stored` | `Message` rows |
| `recent` | `recentDedupEntries`, for keys without a provider's id only: an id is looked up in any case |
| `pending` | `pendingDedupSaves`, the save that owns a key |

Zalo may deliver a message any number of times, before and after a crash; `Anonymous` messages
carry no `zaloMessageId`. A delivery that finds its key pending awaits the other save and is
dropped whatever comes of it, so it ends at once. `Forget` is the expiry of an entry.

### `MessageBatch`: from a saved message to the pipeline

| state | code |
|---|---|
| `batch` | `MessageBatch` rows in the order of creation; `content` stands for the parallel JSON lists of texts and ids, `due` is "the window has passed" |
| `handler` | `handleIncomingMessage` of a delivery: what it has read (`at`), and where it awaits |
| `worker` | one run of `pollBatches`: the rows it has read (`todo`), the one in hand |
| `request` | handle-batch requests the backend works on; `heard` until the worker gives up |
| `handed` | how often the pipeline got a message; no row tells |
| `stale` | history: the batches that were appended to, or claimed, by a read that was outdated by then |

`Dispatch` (the gates and the task row), `FindCollecting`, `AppendTo` or `Create`, `NoteBatched` are
`addToBatch` and the lines around it, `FallsThrough` the catch that sends the message on alone;
`ClaimNow`, `Load`, `Resolve`, `PipelineEnds`, `CompleteNow` are `processBatchNow`. `PollReady`, `PollOverdue`,
`Claim`, `Ask`, `Timeout`, `Complete` are the worker, `RequestResolves` and `RequestEnds` the route in the
backend: a worker that has timed out completes the batch while its request lives on. Every
look-up goes by thread and every write by id, so one thread is enough.

### `ZaloGateway`: the connection

| state | code |
|---|---|
| `gw` | the fields of the gateway (status, client and bound listener, the `login` and `restore` slots, retry timer and attempts), the sockets that are open, the QR and credential files |
| `op` | the coroutines of `restoreSession` and of a QR login, with the snapshot each may put back |
| `leaving` | a logout that awaits the old listener's stop |
| `reader` | a `readCurrentQr` between its read of the file and its second look at the slot |

A restore and a login are a chain of awaits of zca-js; requests, the retry timer, the watchdog
(`WatchdogTick`), the listener's own events (a drop, an error, an
end) and a logout run between them. Revoking an operation makes its generation over; every await is
followed by the check of the code, where the code has one, and by none where it has none.
Taken as given: the login safety gate is open (a constant of the configuration), the import of
zca-js and the login are one await, backups succeed, at most one logout is pending. A crash is `Init`
with any files: a process starts with what the last one left on the disk.

### The parts around the core

Each keeps the shape of its code (coroutines, statement by statement) with bounds named in
`MCServices.cfg`.

| module | what it models | property (part of) |
|---|---|---|
| `ToolTurn` | `ToolGateway.execute` with the key look-up, the race with the timer and the evidence row; the bounded loop of a model turn | a repeat of a key is seen, an answer rests on evidence (`ToolsKeepTheirWord`) |
| `ZaloActions` | reactions and polls, gate by gate, to the unique record | reactions beyond the cooldown are bounded by those under way, a live action has its record (`ActionsAreAccountedFor`) |
| `Pipeline` | every path of `handleIncomingMessage` to the task's last word, and where a failure lands | one path answers, a confirmed reminder is queued, a task tells its outcome, up to the first parts of a split text (`TurnsAreTrue`) |
| `Dialogue` | pending question, history, reminders, and what of them each provider (the bridge, HTTP, the command line, the mock) is handed | the last question stands, "none" means none, the message to answer is handed over while the thread is within the limit (`HermesIsToldTheTruth`) |
| `Reminders` | the two detectors and parsers of a reminder as functions on phrases | due times are ahead, plain hours and delays are kept, other hours are off by twelve at most (`RemindersAreDue`) |
| `Documents` | upload, overlapping polls, chunking, conversion, deletion | a completed document has all its text (`CompletedMeansWhole`) |
| `Settings`, `AdminRecords`, `RuleMatching` | the rows an operator edits, the caches the gates read, which rule takes a message | `EditsTakeHold` |
| `Readiness`, `Attendance`, `Traces` | what the system reports of its health, of an attendance and of what became of a reply | `ReportsAddUp` |
| `Instances` | start, lock file, port, kills and reused pids of several processes | `OneInstance` |
| `LoginConsole`, `AllowThreadsPage`, `PrincipalsPage` | the console's requests, their order and abort | `ConsoleKeepsUp` |
| `SendGuards`, `Identity` | group window, memory of duplicates, splitting, limiter; identity and role of a sender | `GuardsStand` |

`MCServices` puts them side by side. They share no variable, so a state of all says no more than
a state of each: `part` chooses at the start which of them moves while the others rest where
they begin. The `VIEW` is `part` and what of that part's variables any later step or property
tells apart (its parts, such as `ToolView`, say what that leaves out), and the symmetry permutes the actors, which all
parts take from the same set.

## 4. The runs

| run | question | instance |
|---|---|---|
| `reply_ledger` (`MCOutbound.cfg`) | `OneReplyPerKey`, `DryRunDeliversNothing`, `StrictSuccessIsProven`, `QuotaOvershootBounded`, `ImplementsLedger`, `TypeOK` | 2 dispatches of one key under any policy, of media, or of a key of their own; a session of 1 message; 2 parts; the cooldown runs out or is cleared at any time; 1 error; 1 crash |
| `sessions` (`MCSessions.cfg`) | `AtMostOneActive`, `DeliveredUnderSession`, `StartsFinish` | 2 starts, 1 stop, 2 sessions, 2 threads, 1 dispatch; 1 error; 1 crash |
| `schedule_edits` (`MCScheduleEdits.cfg`) | `OneQueuedJob`, `RunIsQueued`, `ForbiddenIsNotSent` | 3 requests one after the other, of every kind but a reminder from the chat; 1 administrator, 3 jobs, 1 poll |
| `schedule_workers` (`MCScheduleWorkers.cfg`) | `OneSendPerJob`, `CompletedIsRecorded`, `JobsAreServed`, `TypeOK` | 2 polls, 2 overlapping requests, 2 jobs; 1 error; 1 crash |
| `schedule_every_edit` | `EveryEditKeepsRun`: refuted | 2 requests, 2 jobs, 1 poll |
| `message_batch` (`MCMessageBatch.cfg`) | `AcceptedOnce`, `DispatchIsIdentified`, `HandedOnce`, `NothingLost`, `BatchesAreServed`, `TypeOK` | 2 deliveries of 3 messages, one without an id; batches of 2; 1 worker; 1 error; 1 crash |
| `message_batch_rapid` | `RapidMessagesAreAnswered`: refuted | 3 deliveries, batches of 3, 1 worker, no error, no crash |
| `gateway` (`MCZaloGateway.cfg`) | `OneOperation`, `ListenerIsAccountedFor`, `QrIsCurrent`, `RevokedNeverInstalls`, `RetriesEnd`, `TypeOK` | 2 operations at a time, ids used again; 1 attempt; 1 file system error |
| `gateway_drop` | `DropIsRecovered`: refuted | 2 operations, no error |
| `gateway_undo` | `RevokedChangesNothing`: refuted | 3 operations; 1 error |
| `services` (`MCServices.cfg`) | the eleven properties of the table above, and the types | in the cfg, each bound by its name |
| `context_recent` (`Dialogue`) | `ContextIsRecent`: refuted | 2 turns, a context of 2 messages |

**Why the bounds are enough.** A key is touched by the dispatches that carry it: two are the
first race, and the theorems of section 5 remove the bound. Two parts are the smallest text that
can fail half way. One crash and one error can fall on every await, and most runs combine
them. A quota of one with two messages has room for one overshoot. Every statement on schedules goes by
the id of one schedule, so one schedule is enough, and jobs, requests and polls are what
compete for it. Three sequential requests reach edit-after-edit-after-creation; the schedule is created by the console there and by
a reminder from the chat in `schedule_workers`, and by either in `schedule_every_edit`. The requests
of `schedule_workers` leave out pause, resume and cancel, which change nothing a worker's run writes;
`schedule_edits` has them. Two deliveries are the first pair that can be duplicates of each other, append to
one batch, or fill it; the backend's `processBatchNow` and the worker's poll are the two that compete for
a claim. Two gateway operations are one in charge and one that was revoked; their ids are free again
once they have ended, so a behaviour has any number of them, and a third in `gateway_undo` is a newer
login over an older and a failed one. In `services` two actors are the first race of each part;
rounds, parts of a text, edits and ticks are the smallest numbers at which the limit of the code is
reached and passed (a rate of 1 per thread and 2 over all, a context of 2 messages, a chunk of 4
positions with an overlap of 1, three pids so that one can be used again).

**Symmetry** permutes dispatches, jobs, polls, requests and operations where no liveness is checked.

**Deadlock** is not checked: requests, dispatches, sessions and the bounded counters are used up,
and when they are the system rests.

**Fairness.** `Outbound!FairSpec`: the event loop runs the continuation of the start that holds
the lock; nothing is assumed of dispatches or stops. `Schedules!FairSpec`: a
poll that has begun goes on, and the interval (or, after a death, the process manager) begins
another. Nothing is assumed of requests, administrators or the backend. `MessageBatch!FairSpec`: the
event loop runs handlers and requests, each worker's poll goes on and is begun again, and windows
pass. Nothing is assumed of what Zalo delivers, of crashes or of errors. `ZaloGateway!FairSpec`: each
operation goes on (zca-js answers or throws), a logout and a reader come back, and the retry timer
fires; the timer's fairness is strong because the model may have no free id when it is due, which
the code always has.

### What they show

- The reservation works as a write-ahead ledger through crashes, retries and re-starts. What
  lets two dispatches of one key through is a database error at the reservation that is not the
  unique index (`outbound-dispatcher.service.ts:425`), which is why `OneReplyPerKey` speaks of behaviours
  without an error.
- The quota of a session is exact up to lost counts: the count is written by a task nobody awaits
  after Zalo has accepted the message, so a crash or an error in between, or an end of the thread's cooldown, by its time
  or by the clear of a batch, under a send, lets the session send one more for each. `QuotaOvershootBounded` says that nothing else
  does. The demo script's "Exact 1-message quota enforced. Cannot exceed." (`DEMO_SCRIPT.md:103`) is true of a run in which
  none of the three happens.
- The claim makes a job's send unique, and the guards after it see every edit and switch that
  came before them; a switch that stays off from the claim on stops the send, whichever of an
  emergency stop's three writes has been made.
- **Finding**: an edit of the name, the target's name or the repetition raises the version, which
  voids the queued job, and queues no new one: the reminder is never sent and the schedule still
  says `scheduled` (`schedule_every_edit`). So does every edit through the agent's update tool, of the time or the
  status, too; a cancellation through it also leaves the job queued, which the worker then skips. `RunIsQueued` shows that the
  other edits do keep the run, and `ForbiddenIsNotSent` that a schedule the tool has paused or cancelled is not sent.
- An id is let through once, by the map while its save runs and by the row afterwards, and so a
  message that Zalo repeats around a crash is not answered twice; it may not be answered at all
  when the thread's upsert fails after the message's (`zalo-receive.ts`): it counts as a duplicate from then on.
- The claim of a batch is exclusive between the backend and any number of workers. What it
  does not exclude is an append that found the batch before the claim, or a claim whose content
  was read before the last append: `HandedOnce` and `NothingLost` name exactly these (`stale`).
- **Finding**: two handlers find the same collecting batch and each writes back what it has read
  and its own message; the first message is in no batch any more and nobody answers it
  (`message_batch_rapid`, `message-batch.service.ts:92`), where the demo script promises one reply that combines
  both.
- `BatchesAreServed` excepts a death or an error after the claim: nothing takes up a batch in
  `processing`. `JobsAreServed` excepts the death of the worker, as no poll looks at an `active` job again, and a
  second error in the statement that handles the first.
- A revoked login or restore installs nothing, whatever its awaits return later, and leaves no listener behind.
  **Findings**: it may still change something - the catch of a failed restore puts its snapshot back without
  looking again whether it is in charge (`gateway_undo`, `zalo-gateway.service.ts:1117`); and a websocket that drops is not
  recovered when the first retry fails, since the snapshot put back says connected (`gateway_drop`).
- **Finding**: the context Hermes is given in a thread of more than 100 messages is its oldest 100, without
  the message to answer (`context_recent`, `conversation-context.service.ts:48`).

What the parts promise is stated with the exceptions the code needs, and each exception is a
behaviour a reader may not expect:

- *Tools and actions*: evidence of a tool call or a reaction is written after the effect, so a failed
  write leaves an effect without a row (`governed-action.ts:10` says "Evidence is always written"); the cooldown of
  reactions is set after the send, so those under way pass it.
- *Pipeline*: a reminder path that fails late can deny a reminder whose schedule exists; a rejected call
  can leave its task pending. A split text that fails after its first parts is a failed task of which the user has read
  the beginning (`zalo-message-sender.ts:126`); nothing counts or remembers those parts.
- *Dialogue*: the answer to a question does not clear it; a past one-off reminder is still listed as waiting; a question whose
  reply could not be sent stands in text mode all the same. What a provider is handed is less than what is read: the text the
  dispatcher makes of the pending question and the filtered messages (`fullContext`, `incoming-dispatcher.service.ts:1967`)
  goes nowhere, the request over HTTP has no place for the reminders, and the prompt of the command line loses them
  whenever there is a history (`hermes-chat-adapter.ts:77`, `:148`).
- *Reminders*: of "7h30 tối" the first parser reads 7:00 in the morning, as it takes minutes after a colon only and a
  period only right after the hour; "11h trưa" is 23:00 and "12h tối" noon; "7 giờ tối" and "7pm" are seven in the morning or read by
  the other parser; "nay" and "mai" are accepted and not read, so "mai" is the next time the clock shows that hour; the
  parser that reads the context ignores minutes.
- *Settings and records*: of two overlapping edits the later writer need not be the later to refresh the
  cache; two overlapping PATCHes of a rule are each checked against the old row; two concurrent creations
  can give a sender two global principals, and so can one update that moves a principal of a thread to all threads
  (`updatePrincipal`), as the unique index does not hold for null. A stored setting with no case in `updateHotCache` (`document.enabled`,
  `vision.enabled`, `autoReply.enabled`) never reaches its gate, which reads the configuration of the start, while the console shows the row.
- *Guards*: duplicates are looked up by the sanitized text and remembered by the raw one; the check of another
  text prunes after 5 seconds; the first send of a new window is not counted for its thread; a process has its own
  windows, so the worker's are others than the backend's.
- *Reports*: health fails open and readiness closed; the backend's health ignores the heartbeats its console
  minds; a trace links a reply by ids that two updates write, and may show another reply's record of the same
  text meanwhile. The list joins by a hash which the record has of the full text, and which it computes of the row's first 4000
  characters (`outbound-dispatcher.service.ts:452`): beside a longer reply it may show the record of one that was only that
  beginning, or of one shortly after (`ListTells`).
- *Start*: check and write of the lock file are two calls; a process whose start was refused lives on and
  keeps beating; a lock whose pid was given to another process refuses a lone start.
- *Console*: disallowing the last thread of a tab, a search that is changed back in another tab, and edits
  beside a load leave a page behind the server; `ThreadsShownAreCurrent` and `PrincipalsShownAreCurrent` name them.
- *Identity*: a failed look-up of the role counts as the default, so a blocked sender is handled; a row of the thread
  overrides a global block.

Four hazards or steps have no property of their own: that a reservation which fails for another reason than its key lets the reply go
without one (`outbound-dispatcher.service.ts:425`, on purpose, "fail-open to not lose the reply"; `OneReplyPerKey` speaks of
behaviours without an error); that a reservation made under a session is settled as live although the sender has
meanwhile answered with a dry-run id, so that the row claims a delivery which never took place and only the id tells
(`outbound-dispatcher.service.ts:588`); that a dispatch without an inbound message is keyed by its content for ever
(`outbound-dispatcher.service.ts:627`); and that two backends which start side by side both pass the lock
(`process-lock.ts:146`; `OneInstance` excepts them). The code does the first three deterministically; what one would want instead is
not said anywhere.

## 5. The proofs

For every value of the constants (any number of dispatches, keys, sessions, schedules, jobs,
polls, requests, messages, gateway operations; any size of a batch; any bound on errors, crashes and
attempts), from the named assumptions of the modules (`LiveTestAssumption`, `OutboundAssumption`,
`ScheduleAssumption`, `ReceiveAssumption`, `BatchAssumption`, `GatewayAssumption`, and for the services
`InstancesAssumption`, `ActionAssumption`, `ToolTurnAssumption`, `DialogueAssumption`,
`RemindersAssumption`, `PipelineAssumption`, `SettingsAssumption`, `AdminAssumption`, `RuleAssumption`, `PageAssumption`,
`SendGuardsAssumption`, `IdentityAssumption`, `DocumentsAssumption`, `ReadinessAssumption`, `AttendanceAssumption` and
`TracesAssumption`), which TLC evaluates in the runs. They say that bounds are numbers, that a marker such as `NoTime` is
not one of the values it stands beside, and, where something is counted or the last to act is looked for, that those
who act are finitely many (`Poller`, `Told`, coroutines). Together the modules prove every safety property, and the refinement, that the
runs of the core check, and all eleven safety properties of the services.

### `OutboundProofs`: one reply

- `TypeCorrect`. One lemma per action; `DispatchFrame` and its users cover the
  fields of one dispatch.
- `OneActiveSession`: that one row is active is not inductive. `StartLockInv` adds what the lock gives:
  only the head of the queue is past the wait, and when it is about to create a row it has
  seen that none is active - which nobody else can change meanwhile, as only a start activates.
- `ReplyInvariant`: `ReplyInv` is `OwnershipInv` (a reservation belongs to the dispatch that made it, in
  both directions) and `Stage` (what a dispatch holds, and has not yet done, at each place). The actions
  that move a dispatch without touching rows share one lemma (`MoveKeepsReplyInv`).
- `OneReply` and `DryRunStaysDry` follow: two dispatches that have delivered both own the one row.
- `LedgerImplemented`: each action is `Reserve`, `Deliver`, `Settle` or a stutter of `ReplyLedger`.

The second half of the module is about sessions, quota and evidence.

- `DeliveryUnderSession` from `SessionInv`: what a dispatch was let through by (at the gate, and again in the
  sender) is a row of its own thread, and rows neither disappear nor change their thread.
- `QuotaKept`. A count alone is not inductive: two sends of a thread could both read a session below its
  quota. `CountInv` accounts for each session: its confirmed sends, and the dispatches of its thread in flight beyond the one
  that its cooldown stands for (`Excess`), are counted, about to be, or owed to a crash, an error or an end of
  the cooldown under one in flight (`Allowance`); and a send under way has found room. `CountInvariant` is that induction; the set of dispatches may be infinite, so it carries that
  the confirmed ones are finitely many.
- `StrictSuccess` from `WrittenInv` (what a dispatch has written at each stage; what the final row of a key
  says of its owner) and `ProvenInv` (row and message behind a success are never unwritten), so that a replay
  finds what it must show.

### `ScheduleProofs`: the worker and the requests

- `WorkerInvariant`: `ScheduleInv` joins `TypeOK`, `PlanInv` (a run that closes has an outcome), `HandInv` (who has
  a job in hand, and which reads are still to come), `SendInv` (two polls never hold the same job, and
  it has not been sent before its turn), `RecordInv` (nor completed before its outcome) and `BarInv` (what has been looked at
  since the claim did not forbid it then, so it has not forbidden it ever since). `WorkerMoves` reduces the
  worker's actions to the shapes of `Moves`, so that each part is proved once for each shape.
- `TypeCorrect`, `OneSend`, `ForbiddenNotSent` and `CompletionRecorded` follow.
- `EditInvariant`: for each schedule, `EditInv` says what is left of each request (one of twelve lists of
  statements), and what is known before each statement: nothing is queued between a cancellation and the
  insertion of the new job, what is written back is what the row still says, and one request is in flight.
- `QueuedOnce` and `RunQueued` follow. Both assume `~EditsOverlap`: requests on one schedule come one after
  the other. The code does not enforce it, and without it both are false (two reschedulings each cancel, then each
  queue), so `schedule_edits` sets it too; `schedule_workers`, whose properties do not need it, overlaps
  them. `RunQueued` also speaks of behaviours without errors and crashes (`Undisturbed`): either may cut a request
  short between cancelling and queueing. The kinds of request are arbitrary; a rename is in them, and `RunIsQueued` excepts
  the schedules that had one, which is the finding.

### `BatchProofs`: let through once, handed over once

- `BatchInvariant`: `SaveInv` says that a save owns its key until it ends, that an id which passed the
  look-up is not stored before its own upsert, and that what is accepted is stored; `RowInv` that
  whoever writes a row by its id has the id of a row. `HandlersMove` and `PollsMove` describe the steps
  by what they leave alone (`Writes`), so that rows are treated once.
- `TypeCorrect`, `DispatchIdentified` and `Accepted` follow: two saves of an id cannot overlap, and the later
  one finds the row.
- `OnceInvariant` adds what double answers depend on: `TextInv` (a text holds messages that came
  through its batch, each once), `ClaimInv` (a batch that is not stale has one holder on the way from the
  claim to the pipeline, none before the claim) and `CountInv` (its messages are unhanded while it
  can still be claimed or has a holder). Steps either keep the counts (`CountsKept`) or are the
  holder's hand-over (`GivingCounts`). `HandedOver` follows.

The rest of the module is about loss.

- `LossInvariant`: `LossInv` speaks of batches nobody has touched by an outdated read. Its four parts say what is true
  whenever somebody holds the batch: a handler's message is in the row; who has loaded the row, polled it or asked for
  it has its text still; who is about to complete it has `Settled` it, that is, its messages have been handed over, or a
  request with its text is at work (whose worker may have given up), or the text has a message without an id and the
  identity gate refuses it. That a poll's text is the row's is where `stale` is needed, and that a text without
  anonymous messages passes the gate (`NamedIsIdentified`) where `TextInv` is.
- `Rests` covers everyone who does not move: a step either finds the batch unclaimed, or keeps text, settlement
  and claim (`Keeps`). So each action is proved for the actor that moves.
- `NoneLost` follows. It speaks of behaviours without errors and crashes, as `NothingLost` does: an error between claim
  and hand-over leaves the batch in `processing` (see `BatchesAreServed`).

### `GatewayProofs`: the connection

- `GatewayInvariant`: `GatewayInv` is `TypeOK`, `OneOperation` and `ListenerIsAccountedFor` with four parts.
  `HeldInv`: whose client is bound, or remembered in a snapshot, awaits nothing that could fail, so neither a
  rollback nor a reused id brings a foreign listener back. `SlotInv`: a slot names an operation of its kind, and
  a code is shown only of the login in charge. `BareInv`: between the scan and the end of a login nothing open is
  bound, so the new listener replaces none. `ReaderInv`: the login a reader has seen in charge does not come back
  once its code is gone.
- `GatewayTyped`, `OneInCharge`, `ListenersAccountedFor` and `CurrentQr` follow, and `RevokedInstallsNothing` is the
  action property: a step that installs a client is one of the operation in charge.

### `ServiceProofs`: six of the services

Each theorem speaks of the specification of its part (`InstanceSpec`, `ActionSpec`, ...), which
`MCServices` runs beside the others without a variable in common.

- `InstanceIsOne`. That one process owns the session is not inductive, as it is acquired in several steps:
  `OneBeyond` counts every process that has passed the check of the lock, and says that the lock names the
  owner. Both hold while no two processes were between check and write at a time (`overlapped`).
- `ActionsAccounted`. The number of reactions in a cooldown is bounded by `ReactionsAccounted`: each reaction
  of this life is owed to an `Accountable` coroutine. While nothing cools these are the ones that have reacted and
  not yet touched the cooldown; while it does, all but those that passed it before and have still to react. The
  theorem needs that the coroutines are finitely many (`ActionAssumption`), as it counts them.
- `ToolsKeep`. `KeysAreKept` says of a key whose every call could see the one before: one call of it is under
  way, one tool may act and none after one has acted, and the row is there, or the call that will write it,
  as soon as a tool may act. `TurnIsSound` says that a turn that goes on has only recorded successes
  behind it, and `CallsAreSound` that a tool which ends after its time-out leaves alone the answer the
  bridge has yet to take.
- `HermesHearsTheTruth`. `OneTurn`: while no turns overlapped and no write failed, what a turn has read of the
  pending question is the last one a reply posed. `StoodIsSeen`: a reminder that stood all the while is found by the last of
  the three reads, so only the adapters keep it from the provider. `LoadReaches`: what a turn has loaded reaches to
  its own message or to the limit, and no further while no other turn is underway, which is what the prompt of the
  command line, with the last of these messages, needs.
- `RemindersComeDue` for every time of the day, every writing and period of it and every number of units, where the run takes
  some of each: the lemmas are the arithmetic of hours, minutes and the wrap at midnight. Where the hour is plain
  (`Plain`) the reminder is due at it; everywhere else `HourOrTwelveLater` is what is left of it.
- `TurnsTrue`. That a message is answered once counts what has been sent; `AnswersAreDue` counts what may still be
  sent without a failure, too: by the calls of the message, by its batch, by the listener that has not handed it
  over. A step moves a unit from one account to another, and what it adds it has paid for with a failure. Only the
  calls under way count, and these are finitely many at a time, so `TurnId` may be infinite. `InPlace` says what a
  call has said, in full or in part, marked and suffered at each place; one lemma per kind of await (`Follows`, `Catches`, `Closes`,
  `Answers`) covers the forty places.

### `ConsoleProofs`: what an operator stores and sees

`EditsHold` speaks of `ConsoleEditsSpec`, in which settings, records and matching run side by side; it
rests on one invariant for each.

- `SettingInvariant`. That caches follow rows is said of keys with no request, and is not inductive. `CachesAreFresh`
  says it of keys whose only request is alone and has still to write; `AloneIsAlone` says that a request which had
  its key to itself still has it, and that once it has written, the row is what it will put into the cache. A key that is
  not `Cached` is blurred as soon as it is set, and for good.
- `RecordInvariant`. While nothing was disturbed, one request is under way (`OneBusy`), what a PATCH of a rule
  has validated still holds of the row it will write (`RuleKept`: a toggle moves no validated field), and whoever is
  about to insert a global principal has seen none, and who has given a row its role still owes the audit
  entry (`PrincipalsKept`). A row that an update moves beside another is remembered in `joined`. In a thread there is one row for a sender in any case, as the unique index holds there.
- `VerdictInvariant`: the property with the fields' types; a count of triggers moves `updatedAt` only, on which
  nothing but a tie depends.

`ConsoleShows` speaks of `ConsolePagesSpec` in the same way, with an invariant for each page.

- `ConsoleInvariant`. Of the card `PollsWhilePending`: only a card that polls has a status or a code on its way, and
  it polls while its login is pending, so an abort leaves none that still waits. Of the status `LoadsSeeConnects`: until
  a call comes back, the load in progress is one that began after its connect, and afterwards what is shown is.
- `ThreadPageInvariant`. That a tab at rest shows the server's rows is not inductive, as a switch shows its new
  flag before the server has it. `FlagsAreCurrent` says what the rows are meanwhile: the server's, but for
  the threads whose switch is on its way, which have the flag it asks for. `LoadsAreTheirs` and `FlipsAreTheirs` say that a
  load or a switch is of the tab it began in, and that a tab not muddled loads nothing beside a switch.
- `PrincipalPageInvariant`. `RolesAreCurrent`: from a clean load on, every load on its way is for the filter chosen, and the
  list is the server's unless an edit was stored whose own load has not begun.

### `GuardProofs`: who is answered, what is sent, and documents

`GuardsAlwaysStand` speaks of `ReplyGuardsSpec`, in which senders and roles run side by side.

- Texts are any sequences of positions, and what iterates over them (`Split`, `Chunks`, `Pruned`) is a recursive
  function. The lemma `Induction` has a set where one expects an operator: a set of numbers that has 0 and every
  successor has all. So "every round up to n is sound" is shown of the set of rounds of which it holds
  (`SplitRounds`, `ChunkRounds`), and by way of it `SplitsAreSound`, `PrunedKeeps` and `ChunksCover` hold of every
  text, every memory and every size of a part.
- `GuardInvariant`. That a thread gets one send more than its limit, at most, needs to know where the extra one comes from:
  `CountedWell` says that what was granted is what the window counts, or one more while the global window
  that this send began is open as long as the thread's. `TextsAreRemembered` is what stands behind "identical content is
  stopped": a text that should be remembered has an entry whose age leaves it as long as was promised, and a call past its
  check is of a text that need not be, unless another delivered the same meanwhile (`overlapped`).
- `IdentityInvariant`. Whoever is handled as admin or skipped is so by a row that was there while the message was resolved:
  `RolesAreSought` says that until then the message has the lowest role, and what was not found in the thread was absent.
- `DocInvariant`. The two hard facts about a completed document are kept by different parts. `DocFits` is
  about its row: nothing is done before its job is claimed, and once it counts as completed its chunks are as
  many as those of one text, which is its own unless conversions `crossed` (two of them write the one output
  file). `PollFits` is about the poll that processes it, place by place, and `PollsApart` says that there is one: a claim takes a
  job that is queued, and nobody else holds it then. `CompletedDocumentsAreWhole` follows with `ChunksCover`: the
  chunks, wherever they are cut, leave out no position of the text.

### `ReportProofs`: what the console reports

`ReportsAlwaysAddUp` speaks of `ReportsSpec`, in which the three parts run side by side.

- `ReadinessInvariant`. A `READY_FOR_LIVE` rests on parts that were read one after the other; `FreshSoFar` says that
  while nothing was found, what has been read was fresh then, so it is as old as a fresh beat and the collection together. That the
  answers agree (`ReadyIsHealthy`, `ConsoleAccepts`) is proved for every set of facts and every age of the beats,
  check by check, where the run takes one state of each kind.
- `AttendInvariant`. That the first reply counts is not inductive, as a parse inserts what it read earlier: `Seeks` says that each
  reply of the window is still to be looked up, of somebody recorded, or later than all that is. `CountsAreRecords` says that a
  request alone closes a session with the number of those recorded.
- `TraceInvariant`. `RowsFollowTurns` ties the rows to the turn that writes them, and `ReportKnows` what a report has
  read to the rows there are when it goes on. The records are only appended to, so one that a trace or a list looks at now
  (`Candidates`, `Looked`) it has looked at before (`StillCandidate`, `StillLooked`): what left the window does not come back.
  `RecordsFirst`, that a reply's record is older than its row, is what makes the nearest record of a cut text the own one or a
  later one.

### Only model-checked

- `ServicesTypeOK`, the types of all parts as `MCServices` runs them. `GuardsTyped`, `DocumentsTyped`, `ReportsTyped` and the invariants
  of the other proof modules contain the types of the parts they are about.
- Liveness: `StartsFinish`, `JobsAreServed`, `BatchesAreServed`, `RetriesEnd`. The prover treats neither
  liveness under fairness nor ENABLED.
- That the parts run by `MCServices` do not disturb each other, which is so as they share no variable: the theorems speak of the specification
  of each part.

## 6. What is not modelled

- Of the outbound path: the texts (that they are split, cut and remembered is in `SendGuards`), the prompt-echo guard, times,
  media beyond the dry-run answer they always give.
- Of schedules: revisions (log rows), a PATCH to the statuses `draft` and `expired`, the queue adapter (nobody starts it
  in the backend), run-now and run-dry (they send through a mock and write execution rows only).
- Of batches and incoming messages: messages with an empty text; `cancelBatch` and
  `cleanupOldBatches`, which nobody calls; conversation state, group window, attachments and vision metadata inside
  `Pipeline`; profiles and names.
- Of the gateway: the dry-run client, what the routes only read, the closed safety gate, failing backups.
- Of the parts: audit panels, wording, counts that nothing decides on, validation of a setting's value, search over chunks,
  the patterns of an attendance reply; of a dialogue the context string that nobody reads.
- Not modelled at all, as they compute over one request or are input and output of external services: retrieval,
  images, voice and attachments, agent commands, the HTTP shell, web tools, database guards and scripts, the other pages
  and the shared schemas. `PROJECT.json` gives the reason for each.
