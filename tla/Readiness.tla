------------------------------ MODULE Readiness ------------------------------
(***************************************************************************)
(* What the system says of itself: the heartbeats, the configuration       *)
(* checks, the review of the allowlist, the error summary, the health      *)
(* snapshot, the production readiness on which a live test depends, and    *)
(* the console's validators, which derive each answer again and reject one *)
(* they would not have given.                                              *)
(*                                                                         *)
(* Beats age in ticks of the backend's own heartbeat interval.  Producers  *)
(* only ever write "ok": nobody calls heartbeatError or checkAndMarkStale. *)
(* The readiness answer is collected by groups that await: the parts that  *)
(* read what changes by itself are separate steps, and the rest, which an  *)
(* operator changes, is an input of the last one: the facts, normal but    *)
(* for one oddity in one of a few contexts (the bound of their set).       *)
(***************************************************************************)
EXTENDS Naturals, FiniteSets, Functions

CONSTANTS
    StaleAfter,   \* HEARTBEAT_STALE_SECONDS, in ticks
    MaxTook       \* bound on the ticks a collection may take

ASSUME ReadinessAssumption == StaleAfter \in Nat /\ MaxTook \in Nat

BeatKey == {"backend", "zaloListener", "zaloConnection", "schedulerWorker", "messagePipeline"}
OldBeat == StaleAfter + MaxTook + 1     \* that old, or older
NoBeat == OldBeat + 1

VARIABLES
    beats,      \* age of each SystemHeartbeat row
    alive,      \* what runs: the worker, the Zalo connection, its listener
    todo,       \* live parts the collection has still to read, {} between two
    found,      \* statuses other than "pass" it has found
    took,       \* ticks it took
    verdict     \* the answer just given

readinessVars == <<beats, alive, todo, found, took, verdict>>

Live == {"status", "pipeline", "health", "session", "errors"}

ReadinessInit ==
    /\ beats = [k \in BeatKey |-> IF k = "backend" THEN 0 ELSE NoBeat]
    /\ alive = {}
    /\ todo = {} /\ found = {} /\ took = 0 /\ verdict = "none"

-----------------------------------------------------------------------------
(***************************************************************************)
(* Heartbeats.                                                             *)
(***************************************************************************)

\* getHeartbeatSummary: an old "ok" reads as stale, no row as down.
BeatStatus(b, k) ==
    CASE b[k] = NoBeat -> "down" [] b[k] \in StaleAfter + 1..OldBeat -> "stale" [] OTHER -> "ok"

\* heartbeatCheck of the readiness groups.
BeatCheck(b, k) ==
    CASE b[k] = NoBeat -> "unknown" [] BeatStatus(b, k) = "stale" -> "warn" [] OTHER -> "pass"

CriticalBeat == {"backend", "zaloConnection"}

\* getAllHeartbeats
BeatsAnswer(b) ==
    LET bad(S, T) == \E k \in S : BeatStatus(b, k) \in T
    IN IF bad(CriticalBeat, {"down"}) THEN "unhealthy"
       ELSE IF bad(BeatKey, {"down", "stale"}) THEN "degraded" ELSE "ok"

-----------------------------------------------------------------------------
(***************************************************************************)
(* The facts the checks read, each with its normal value and the others.   *)
(***************************************************************************)
Normal == [
    dryRun |-> "on", envDryRun |-> "on", autoReply |-> "on",
    allowed |-> "some", thread |-> "user", mention |-> "required", reply |-> "on",
    cooldown |-> "long", vision |-> "off", voice |-> "off", instances |-> "one", secrets |-> "set",
    password |-> "set", lock |-> "own", db |-> "ok", dbFile |-> "small", systemBackup |-> "recent",
    dbBackup |-> "recent", session |-> "saved", rules |-> "scoped", docs |-> "fine",
    tasks |-> 0, taskCode |-> "medium", executions |-> 0, blocked |-> "none"]

Odd == {<<"dryRun", "off">>, <<"envDryRun", "off">>, <<"autoReply", "off">>, <<"allowed", "none">>,
        <<"allowed", "malformed">>, <<"thread", "group">>, <<"thread", "unknown">>,
        <<"mention", "off">>, <<"reply", "off">>, <<"cooldown", "short">>, <<"vision", "broken">>,
        <<"voice", "allowed">>, <<"voice", "unstable">>, <<"instances", "many">>,
        <<"secrets", "missing">>, <<"password", "missing">>, <<"lock", "other">>, <<"lock", "stale">>,
        <<"lock", "none">>, <<"db", "tableMissing">>, <<"db", "unreadable">>, <<"dbFile", "big">>,
        <<"dbFile", "tiny">>, <<"dbFile", "missing">>, <<"systemBackup", "old">>,
        <<"systemBackup", "none">>, <<"systemBackup", "unreadable">>, <<"dbBackup", "old">>,
        <<"dbBackup", "none">>, <<"session", "missing">>, <<"rules", "broad">>, <<"docs", "failed">>,
        <<"docs", "stuck">>, <<"tasks", 5>>, <<"tasks", 12>>, <<"taskCode", "high">>,
        <<"executions", 3>>, <<"executions", 6>>, <<"blocked", "medium">>, <<"blocked", "high">>}

\* One fact out of order, in one of a few contexts.
Context == {<<"none", "none">>, <<"dryRun", "off">>}
Fact(odd) == [x \in DOMAIN Normal |->
    IF \E o \in odd : o[1] = x THEN (CHOOSE o \in odd : o[1] = x)[2] ELSE Normal[x]]
Facts == UNION {{Fact({o, c}) : o \in Odd \cup Context} : c \in Context}

-----------------------------------------------------------------------------
(***************************************************************************)
(* runConfigChecks, over the environment's values.                         *)
(***************************************************************************)
ConfigRow(name, when, severity, safe) ==
    [name |-> name, when |-> when, severity |-> severity, safe |-> safe]

ConfigRows(f) ==
    LET live == f.envDryRun = "off"
        threads == f.allowed # "none"
    IN <<
      ConfigRow("autoReply.enabled", f.autoReply = "off", "WARN", TRUE),
      ConfigRow("autoReply.allowedThreads", f.autoReply = "on" /\ ~threads, "ERROR", FALSE),
      ConfigRow("autoReply.dryRun", live, "WARN", FALSE),
      ConfigRow("autoReply.cooldown", live /\ f.cooldown = "short", "WARN", TRUE),
      ConfigRow("autoReply.groupInAllowedThreads", live /\ threads /\ f.thread # "user", "WARN", TRUE),
      ConfigRow("autoReply.liveWithAllowedThreads", live /\ threads, "WARN", TRUE),
      ConfigRow("vision", f.vision = "broken", "ERROR", FALSE),
      ConfigRow("voice.unstable", f.voice = "unstable", "ERROR", FALSE),
      ConfigRow("voice.enabled", f.voice = "allowed", "WARN", TRUE),
      ConfigRow("db.size", f.dbFile = "tiny", "WARN", TRUE),
      ConfigRow("backup.recent", live /\ f.systemBackup # "recent", "WARN", TRUE),
      ConfigRow("processLock.multipleInstances", f.instances = "many", "WARN", FALSE),
      ConfigRow("secret.ADMIN_PASSWORD", f.password = "missing", "ERROR", FALSE),
      ConfigRow("secret", f.secrets = "missing", "ERROR", FALSE)>>

ConfigProblem(f) == {r \in Range(ConfigRows(f)) : r.when}

HasRow(rows, severity) == \E r \in rows : r.severity = severity
ConfigStatus(f) ==
    IF HasRow(ConfigProblem(f), "ERROR") THEN "CONFIG_ERROR"
    ELSE IF HasRow(ConfigProblem(f), "WARN") THEN "CONFIG_WARN" ELSE "CONFIG_OK"

-----------------------------------------------------------------------------
(***************************************************************************)
(* getThreadReviewSummary: the one thread of the environment's allowlist.  *)
(***************************************************************************)
ThreadScore(f) ==
    LET group == f.thread = "group"
        unknown == f.thread = "unknown"
        points(n, cond) == IF cond THEN n ELSE 0
    IN points(30, group /\ f.mention = "off") + points(30, group /\ f.dryRun = "off")
       + points(30, unknown /\ f.reply = "on")
       + points(15, group) + points(15, unknown) + points(15, f.dryRun = "off")

HighRisk(f) == f.allowed # "none" /\ ThreadScore(f) >= 30
UnknownThread(f) == f.allowed # "none" /\ f.thread = "unknown"

-----------------------------------------------------------------------------
(***************************************************************************)
(* getErrorSummary.                                                        *)
(***************************************************************************)
Group(source, code, count, severity) ==
    [source |-> source, code |-> code, count |-> count, severity |-> severity]

ErrorGroups(f, b) ==
    {g \in {Group("AgentTask", "task", f.tasks, f.taskCode),
            Group("ScheduleExecution", "run", f.executions, "medium"),
            Group("OutboundRecord", "block", IF f.blocked = "none" THEN 0 ELSE 1, f.blocked)} : g.count > 0}
    \cup {Group("Heartbeat", k, 1, IF BeatStatus(b, k) = "down" THEN "high" ELSE "medium") :
             k \in {k \in BeatKey : BeatStatus(b, k) # "ok"}}
    \cup {Group("Config", r.name, 1, IF r.severity = "ERROR" THEN "high" ELSE "medium") :
             r \in ConfigProblem(f)}

\* The sum of the counts.
CountOf(groups) == Cardinality(UNION {{g} \X (1 .. g.count) : g \in groups})
OfSource(groups, s) == {g \in groups : g.source = s}
Severe(groups) == {g \in groups : g.severity = "high"}

ErrorSummary(f, b) ==
    LET groups == ErrorGroups(f, b)
    IN [groups |-> groups,
        status |-> IF Severe(groups) # {} THEN "error" ELSE IF groups # {} THEN "warn" ELSE "ok",
        errors |-> CountOf(Severe(groups)), warnings |-> CountOf(groups \ Severe(groups)),
        tasks |-> CountOf(OfSource(groups, "AgentTask")),
        executions |-> CountOf(OfSource(groups, "ScheduleExecution")),
        blocked |-> CountOf(OfSource(groups, "OutboundRecord")),
        beats |-> Cardinality(OfSource(groups, "Heartbeat"))]

-----------------------------------------------------------------------------
(***************************************************************************)
(* The health snapshot and its overall status.                             *)
(***************************************************************************)
CollectDb(f) == f.db = "ok" /\ f.dbFile # "missing"
CollectZalo(live) == "connection" \in live
CollectWorker(b) == BeatStatus(b, "schedulerWorker") = "ok"

\* collectBackup: the system backups where there are any, else those of the database.
CollectBackup(f) == IF f.systemBackup = "none" THEN f.dbBackup ELSE f.systemBackup
CollectProcessLock(f) == f.lock = "other"

Snapshot(f, b, live) == [
    dbOk |-> CollectDb(f), foreignLock |-> CollectProcessLock(f),
    connected |-> CollectZalo(live), worker |-> CollectWorker(b),
    backup |-> CollectBackup(f), config |-> ConfigStatus(f), tasks |-> f.tasks,
    executions |-> f.executions, highRisk |-> HighRisk(f), dryRun |-> f.dryRun = "on",
    errors |-> ErrorSummary(f, b).status, beats |-> [k \in BeatKey |-> BeatStatus(b, k)]]

\* A plausible defect: an error of the configuration does not degrade the status.
OverallStatusLenient(s) ==
    IF ~s.dbOk \/ s.foreignLock THEN "unhealthy"
    ELSE IF \/ ~s.connected \/ s.backup = "old" \/ s.config = "CONFIG_WARN" \/ ~s.worker
            \/ s.tasks > 10 \/ s.executions > 5 \/ (s.highRisk /\ ~s.dryRun)
         THEN "degraded"
    ELSE "healthy"

\* computeOverallStatus does not look at the heartbeats of the snapshot.
OverallStatus(s) ==
    IF ~s.dbOk \/ s.foreignLock THEN "unhealthy"
    ELSE IF \/ ~s.connected \/ s.backup = "old" \/ s.config # "CONFIG_OK" \/ ~s.worker
            \/ s.tasks > 10 \/ s.executions > 5 \/ (s.highRisk /\ ~s.dryRun) \/ s.errors = "error"
         THEN "degraded"
    ELSE "healthy"

-----------------------------------------------------------------------------
(***************************************************************************)
(* getProductionReadiness.                                                 *)
(***************************************************************************)
Best(x, y) == IF "recent" \in {x, y} THEN "recent" ELSE IF "old" \in {x, y} THEN "old" ELSE "none"

\* The checks whose evidence an operator changes, group by group; the others are
\* collected live.
SafetyChecks(f) == [
    dryRun |-> IF f.dryRun = "on" THEN "pass" ELSE "fail",
    allowedThreads |->
        CASE f.allowed = "some" -> "pass" [] f.allowed = "none" -> "fail" [] OTHER -> "unknown",
    groupRisk |-> IF UnknownThread(f) THEN "unknown" ELSE IF HighRisk(f) THEN "fail" ELSE "pass"]

ConfigChecks(f) == [
    status |->
        CASE ConfigStatus(f) = "CONFIG_OK" -> "pass" [] ConfigStatus(f) = "CONFIG_WARN" -> "warn"
        [] OTHER -> "fail",
    strictErrors |-> IF \E r \in ConfigProblem(f) : ~r.safe /\ r.severity = "ERROR" THEN "fail" ELSE "pass"]

HealthChecks(f) == [
    processLock |->
        CASE f.lock = "own" -> "pass" [] f.lock = "other" -> "fail" [] f.lock = "stale" -> "warn"
        [] OTHER -> "unknown",
    db |-> IF f.db = "unreadable" THEN "unknown" ELSE "pass"]

BackupChecks(f) ==
    LET scanned == IF f.systemBackup = "unreadable" THEN f.dbBackup ELSE Best(f.systemBackup, f.dbBackup)
    IN [recent |->
            CASE scanned = "recent" -> "pass" [] scanned = "old" -> "warn"
            [] f.systemBackup = "unreadable" -> "unknown" [] OTHER -> "fail",
        dbSize |-> CASE f.dbFile = "missing" -> "unknown" [] f.dbFile = "big" -> "warn" [] OTHER -> "pass",
        session |-> IF f.session = "saved" THEN "pass" ELSE "fail"]

SecurityChecks(f) == [adminPassword |-> IF f.password = "set" THEN "pass" ELSE "fail"]
RulesChecks(f) == [status |-> IF f.rules = "broad" THEN "warn" ELSE "pass"]
DocumentsChecks(f) == [
    status |-> CASE f.docs = "stuck" -> "fail" [] f.docs = "failed" -> "warn" [] OTHER -> "pass"]

Level(n, most) == IF n = 0 THEN "pass" ELSE IF n <= most THEN "warn" ELSE "fail"
ErrorsChecks(f) == [agentTasks |-> Level(f.tasks, 5), executions |-> Level(f.executions, 3)]

\* The statuses they give.
StaticStatuses(f) ==
    UNION {Range(checks) : checks \in {SafetyChecks(f), ConfigChecks(f), HealthChecks(f), BackupChecks(f),
                                       SecurityChecks(f), RulesChecks(f), DocumentsChecks(f), ErrorsChecks(f)}}

\* The statuses a live part finds when it can read.
LiveCheck(part, b, live) ==
    CASE part = "status" ->
           {IF w \in live THEN "pass" ELSE "fail" : w \in {"connection", "listener"}}
      [] part = "pipeline" -> {BeatCheck(b, "messagePipeline")}
      [] part = "health" -> {BeatCheck(b, "backend"), BeatCheck(b, "schedulerWorker")}
      [] part = "session" -> {IF "connection" \in live THEN "pass" ELSE "unknown"}
      [] part = "errors" ->
           LET critical == {BeatCheck(b, k) : k \in CriticalBeat}
           IN {IF "unknown" \in critical THEN "unknown" ELSE IF "warn" \in critical THEN "warn" ELSE "pass"}

VerdictOf(statuses) ==
    IF statuses \cap {"unknown", "fail"} # {} THEN "NOT_READY"
    ELSE IF "warn" \in statuses THEN "WARNING_ONLY" ELSE "READY_FOR_LIVE"

\* The whole answer, were it collected at one instant.
ReadinessNow(f, b, live) ==
    VerdictOf(StaticStatuses(f) \cup UNION {LiveCheck(p, b, live) : p \in Live})

-----------------------------------------------------------------------------
(***************************************************************************)
(* The console (api-client): it accepts an answer that says what it would  *)
(* have derived from the rest of it.                                       *)
(***************************************************************************)
\* isReadinessResult, of the verdict and the statuses of the checks.
ConsoleVerdict(statuses) ==
    IF "unknown" \in statuses \/ "fail" \in statuses THEN "NOT_READY"
    ELSE IF "warn" \in statuses THEN "WARNING_ONLY" ELSE "READY_FOR_LIVE"

\* isHeartbeatsResponse
AcceptsBeats(status, b) ==
    LET problem == {k \in BeatKey : BeatStatus(b, k) # "ok"}
        down == {k \in problem : BeatStatus(b, k) = "down"}
    IN status = IF down \cap CriticalBeat # {} THEN "unhealthy" ELSE IF problem # {} THEN "degraded" ELSE "ok"

\* isErrorSummaryResponse
AcceptsErrors(e) ==
    LET total(P(_)) == CountOf({g \in e.groups : P(g)})
        source(s) == total(LAMBDA g : g.source = s)
        high == total(LAMBDA g : g.severity = "high")
    IN /\ e.errors = high /\ e.warnings = total(LAMBDA g : g.severity # "high")
       /\ e.tasks = source("AgentTask") /\ e.executions = source("ScheduleExecution")
       /\ e.blocked = source("OutboundRecord") /\ e.beats = source("Heartbeat")
       /\ e.status = IF high > 0 THEN "error" ELSE IF e.groups # {} THEN "warn" ELSE "ok"

\* isConfigCheckResponse: an unsafe check is an error.
AcceptsConfig(rows) == \A r \in rows : r.safe = (r.severity # "ERROR")

ExpectedHealthStatus(s) ==
    LET beat(st) == \E k \in CriticalBeat : s.beats[k] = st
    IN IF ~s.dbOk \/ s.foreignLock \/ beat("down") THEN "unhealthy"
       ELSE IF \/ beat("stale") \/ ~s.connected \/ s.backup = "old" \/ s.config # "CONFIG_OK"
               \/ ~s.worker \/ s.tasks > 10 \/ s.executions > 5
               \/ (s.highRisk /\ ~s.dryRun) \/ s.errors = "error"
            THEN "degraded"
       ELSE "healthy"

\* isHealthDetailResponse: a count of -1 is malformed.
AcceptsHealth(status, s) == s.backup # "unreadable" /\ status = ExpectedHealthStatus(s)

-----------------------------------------------------------------------------
(***************************************************************************)
(* What runs, and time.                                                    *)
(***************************************************************************)
Untouched == UNCHANGED <<todo, found, took>>
Cleared == verdict' = "none"

\* The rows are upserted; a failed upsert is only logged, so a beat may be missing.
Beat(k) == beats' = [beats EXCEPT ![k] = 0]

Tick ==
    /\ todo # {} => took < MaxTook
    /\ beats' = [k \in BeatKey |-> IF k = "backend" THEN 0
                                   ELSE IF beats[k] >= OldBeat THEN beats[k] ELSE beats[k] + 1]
    /\ took' = IF todo = {} THEN 0 ELSE took + 1
    /\ Cleared
    /\ UNCHANGED <<alive, todo, found>>

WorkerStarts ==
    /\ alive' = alive \cup {"worker"}
    /\ Cleared /\ Untouched /\ UNCHANGED beats
WorkerBeats == "worker" \in alive /\ Beat("schedulerWorker") /\ Cleared /\ Untouched /\ UNCHANGED alive
WorkerStops == alive' = alive \ {"worker"} /\ Cleared /\ Untouched /\ UNCHANGED beats

\* setConnected; the listener starts after it; a message beats at either end of its handling.
Connects ==
    /\ "connection" \notin alive
    /\ alive' = alive \cup {"connection"}
    /\ Beat("zaloConnection") /\ Cleared /\ Untouched
ListenerStarts ==
    /\ "connection" \in alive
    /\ alive' = alive \cup {"listener"}
    /\ Beat("zaloListener") /\ Cleared /\ Untouched
MessageBeats ==
    /\ "listener" \in alive
    /\ Beat("messagePipeline") /\ Cleared /\ Untouched /\ UNCHANGED alive
Disconnects ==
    /\ alive' = alive \ {"connection", "listener"}
    /\ Cleared /\ Untouched /\ UNCHANGED beats

-----------------------------------------------------------------------------
(***************************************************************************)
(* A collection.                                                           *)
(***************************************************************************)
BeginReadiness ==
    /\ todo = {}
    /\ todo' = Live /\ found' = {} /\ took' = 0 /\ Cleared
    /\ UNCHANGED <<beats, alive>>

\* The groups run side by side; within one, what comes later is read later.
ReadPart(p) ==
    /\ p \in todo
    /\ p = "pipeline" => "status" \notin todo
    /\ todo' = todo \ {p}
    /\ \E statuses \in {LiveCheck(p, beats, alive), {"unknown"}} : found' = found \cup (statuses \ {"pass"})
    /\ Cleared
    /\ UNCHANGED <<beats, alive, took>>

\* The last part in: the static checks join, and the answer goes out.
StaticOutcomes == {StaticStatuses(f) : f \in Facts}
Answered(p) ==
    /\ todo = {p}
    /\ todo' = {} /\ found' = {}
    /\ verdict' \in {VerdictOf(found \cup statuses \cup static) :
                        statuses \in {LiveCheck(p, beats, alive), {"unknown"}}, static \in StaticOutcomes}
    /\ UNCHANGED <<beats, alive, took>>

ReadinessNext ==
    \/ Tick
    \/ WorkerStarts \/ WorkerBeats \/ WorkerStops
    \/ Connects \/ ListenerStarts \/ MessageBeats \/ Disconnects
    \/ BeginReadiness
    \/ \E p \in Live : ReadPart(p) /\ todo # {p}
    \/ \E p \in Live : Answered(p)

ReadinessSpec == ReadinessInit /\ [][ReadinessNext]_readinessVars

-----------------------------------------------------------------------------
\* The type invariant.
ReadinessTypeOK ==
    /\ beats \in [BeatKey -> 0..NoBeat]
    /\ alive \subseteq {"worker", "connection", "listener"}
    /\ todo \subseteq Live /\ found \subseteq {"warn", "fail", "unknown"} /\ took \in 0..MaxTook
    /\ verdict \in {"none", "NOT_READY", "WARNING_ONLY", "READY_FOR_LIVE"}

\* A READY_FOR_LIVE, on which a live test starts, is about now although its evidence is
\* read at several moments: the worker, the connection and the message pipeline have each
\* shown a sign of life no longer ago than a beat stays fresh and the collection took.
ReadyIsFresh ==
    verdict = "READY_FOR_LIVE" => \A k \in BeatKey \ {"zaloListener"} : beats[k] <= StaleAfter + took

\* What the summaries say depends on the status of each beat and on the connection, not on
\* the worker or on the verdict a reading gave: one state of each such kind will do.
AnswersSampled ==
    /\ verdict = "NOT_READY" /\ took = 0 /\ "worker" \in alive
    /\ \A k \in BeatKey : beats[k] \in {0, OldBeat, NoBeat}

\* The two summaries an operator has do not contradict each other: what is ready for live
\* is healthy, except where the health snapshot looks at what the readiness does not (the
\* critical tables, the error groups, the age of the system backups alone).
ReadyIsHealthy ==
    AnswersSampled => \A f \in Facts :
        /\ ReadinessNow(f, beats, alive) = "READY_FOR_LIVE"
        /\ f.db = "ok" /\ CollectBackup(f) # "old" /\ Severe(ErrorGroups(f, beats)) = {}
        => OverallStatus(Snapshot(f, beats, alive)) = "healthy"

\* The console accepts every heartbeat, error and readiness answer of its backend; it
\* rejects a configuration answer only for a warning marked unsafe, and a health answer
\* only because it minds a critical heartbeat that the backend does not, or a backup
\* directory that could not be read.
ConsoleAccepts ==
    AnswersSampled => \A f \in Facts :
        LET checks == StaticStatuses(f) \cup UNION {LiveCheck(p, beats, alive) : p \in Live}
            s == Snapshot(f, beats, alive)
        IN /\ AcceptsBeats(BeatsAnswer(beats), beats)
           /\ AcceptsErrors(ErrorSummary(f, beats))
           /\ VerdictOf(checks) = ConsoleVerdict(checks)
           /\ AcceptsConfig(ConfigProblem(f)) \/ f.envDryRun = "off" \/ f.instances = "many"
           /\ \/ AcceptsHealth(OverallStatus(s), s)
              \/ s.backup = "unreadable" \/ \E k \in CriticalBeat : s.beats[k] # "ok"

\* What the system says of itself is recent, consistent, and taken by its own console.
ReportsAreTrue == ReadyIsFresh /\ ReadyIsHealthy /\ ConsoleAccepts
=============================================================================
