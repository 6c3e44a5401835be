----------------------------- MODULE ZaloGateway -----------------------------
(***************************************************************************)
(* The Zalo connection (services/zalo-gateway.service.ts, zalo-recovery.ts,*)
(* zalo-watchdog.service.ts, the reconnect of zalo-ops.service.ts and the  *)
(* /zalo routes).                                                          *)
(*                                                                         *)
(* One object owns the client (api), the bound listener and the status.    *)
(* Restores and QR logins are coroutines that await zca-js at each step    *)
(* and install their client at the end; requests, a retry timer, the       *)
(* watchdog, the listener's own events and a logout run between their      *)
(* awaits.  What may still act is decided by two slots, login and restore, *)
(* that name the operation in charge: revoking one (a new generation in    *)
(* the code) leaves its coroutine running.                                 *)
(*                                                                         *)
(* An operation, its client, its bindings, its staged file and its QR code *)
(* go by one id of Op, used again once nothing refers to it.  The session  *)
(* generation counters are these ids.  The login safety gate is open: it   *)
(* depends on the static configuration only (getCurrentEffectiveDryRun     *)
(* always answers true), and a closed gate lets none of this happen.       *)
(***************************************************************************)
EXTENDS Naturals, FiniteSets

CONSTANTS
    Op,          \* ids of restores and logins
    NoOp,
    MaxAttempts, \* ZALO_MAX_RECONNECT_ATTEMPTS
    MaxFaults    \* bound on the file system errors of a behaviour

ASSUME GatewayAssumption ==
    /\ NoOp \notin Op
    /\ MaxAttempts \in Nat
    /\ MaxFaults \in Nat

VARIABLES
    gw,      \* the fields of the gateway, the sockets of its listeners and its files
    op,      \* the restores and logins in progress
    leaving, \* whether a logout awaits the stop of the old listener
    reader,  \* a readCurrentQr in progress
    faults   \* file system errors so far

vars == <<gw, op, leaving, reader, faults>>

OpOrNone == Op \cup {NoOp}
Caller == {"none", "plain", "timer", "timerLogin", "start", "reconnect", "reconnectLogin"}

\* What an operation remembers of the gateway it began in.
Snapshot == [connected : BOOLEAN, api : OpOrNone, active : BOOLEAN, bound : OpOrNone]

Gateway ==
    [connected : BOOLEAN, api : OpOrNone, active : BOOLEAN, bound : OpOrNone,
     login : [op : OpOrNone, live : BOOLEAN, scanned : BOOLEAN],
     restore : [op : OpOrNone, live : BOOLEAN],
     timer : BOOLEAN, attempt : 0 .. MaxAttempts,
     recovery : {"idle", "scheduled", "reconnecting", "error"}, locked : BOOLEAN,
     open : SUBSET Op,       \* listeners started and not stopped
     staged : SUBSET Op,     \* staged session files an operation still tracks
     saved : BOOLEAN,        \* zalo-session.json exists
     backup : BOOLEAN,       \* a backup of it exists
     qr : OpOrNone,          \* whose code qr-current.png shows
     shown : BOOLEAN]        \* qrUpdatedAt # null

Process ==
    [kind : {"none", "restore", "login"},
     pc : {"idle", "connect", "listen", "undoStart", "undoCommit", "discard", "retire"},
     caller : Caller, primary : BOOLEAN, snap : Snapshot]

NoSnapshot == [connected |-> FALSE, api |-> NoOp, active |-> FALSE, bound |-> NoOp]
Idle == [kind |-> "none", pc |-> "idle", caller |-> "none", primary |-> FALSE, snap |-> NoSnapshot]
NoLogin == [op |-> NoOp, live |-> FALSE, scanned |-> FALSE]
NoRestore == [op |-> NoOp, live |-> FALSE]
NoReader == [op |-> NoOp, read |-> FALSE, got |-> NoOp]

\* A process starts with whatever session files an earlier one has left.
Init ==
    /\ gw \in {[connected |-> FALSE, api |-> NoOp, active |-> FALSE, bound |-> NoOp,
                login |-> NoLogin, restore |-> NoRestore, timer |-> FALSE, attempt |-> 0,
                recovery |-> "idle", locked |-> FALSE, open |-> {}, staged |-> {},
                saved |-> s, backup |-> b, qr |-> NoOp, shown |-> FALSE] : s, b \in BOOLEAN}
    /\ op = [o \in Op |-> Idle]
    /\ leaving = FALSE
    /\ reader = NoReader
    /\ faults = 0

-----------------------------------------------------------------------------
\* The fields, as the methods change them.

\* A file operation of the step succeeds, or is one of the errors there may be.
Disk(ok) ==
    IF ok THEN UNCHANGED faults
          ELSE faults < MaxFaults /\ faults' = faults + 1

\* A plausible defect: one attempt too many.
ScheduleReconnectOneMore(g) ==
    IF g.timer THEN g
    ELSE IF g.attempt > MaxAttempts THEN [g EXCEPT !.recovery = "error"]
    ELSE [g EXCEPT !.timer = TRUE, !.attempt = @ + 1, !.recovery = "scheduled"]

\* A plausible defect: the attempts are not counted.
ScheduleReconnectUncounted(g) ==
    IF g.timer THEN g
    ELSE IF g.attempt >= MaxAttempts THEN [g EXCEPT !.recovery = "error"]
    ELSE [g EXCEPT !.timer = TRUE, !.recovery = "scheduled"]

ScheduleReconnect(g) ==
    IF g.timer THEN g
    ELSE IF g.attempt >= MaxAttempts THEN [g EXCEPT !.recovery = "error"]
    ELSE [g EXCEPT !.timer = TRUE, !.attempt = @ + 1, !.recovery = "scheduled"]

SetConnected(g) == [g EXCEPT !.connected = TRUE, !.attempt = 0, !.recovery = "idle"]

\* A staged file that can be neither deleted nor renamed stays with its operation,
\* which then stays in its slot, revoked.
InvalidateLogin(g, ok) ==
    LET stays == g.login.op \in g.staged /\ ~ok
    IN [g EXCEPT !.login = IF stays THEN [NoLogin EXCEPT !.op = g.login.op] ELSE NoLogin,
                 !.staged = IF stays THEN @ ELSE @ \ {g.login.op},
                 !.qr = NoOp, !.shown = FALSE]

InvalidateRestore(g, ok) ==
    LET stays == g.restore.op \in g.staged /\ ~ok
    IN [g EXCEPT !.restore = IF stays THEN [NoRestore EXCEPT !.op = g.restore.op] ELSE NoRestore,
                 !.staged = IF stays THEN @ ELSE @ \ {g.restore.op}]

Remember(g) == [connected |-> g.connected, api |-> g.api, active |-> g.active, bound |-> g.bound]

\* rollbackLoginOperation: back to what the login found, and its listener stopped.
RollbackLogin(g, o, ok) ==
    LET snap == op[o].snap
        owned == IF g.bound # snap.bound THEN {g.bound} ELSE {}
    IN InvalidateLogin([g EXCEPT !.connected = snap.connected, !.api = snap.api,
                                 !.active = snap.active, !.bound = snap.bound,
                                 !.open = @ \ owned], ok)

\* restoreOperationSnapshot: the same for a restore, whatever happened meanwhile.
RestoreSnapshot(g, o, ok) ==
    LET snap == op[o].snap
        owns == g.bound # snap.bound \/ (~snap.active /\ g.active)
        current == IF g.bound # NoOp THEN g.bound
                   ELSE IF g.api # snap.api THEN g.api ELSE NoOp
        keep == snap.connected \/ snap.active
    IN [g EXCEPT !.open = IF owns THEN @ \ {current} ELSE @,
                 !.api = IF keep THEN snap.api ELSE NoOp,
                 !.active = snap.active, !.bound = snap.bound, !.connected = snap.connected,
                 !.staged = IF ok THEN @ \ {o} ELSE @]

\* What stopOperationStartedListener does once the stop of o's own listener is through.
Unbind(g, o) ==
    IF g.bound \in {o, op[o].snap.bound}
    THEN [g EXCEPT !.active = op[o].snap.active, !.bound = op[o].snap.bound]
    ELSE g

Busy(g) == g.login.op # NoOp \/ g.restore.op # NoOp

\* A plausible defect: any login or restore in charge will do, whatever its generation.
CurrentOfAnyGeneration(o) ==
    IF op[o].kind = "login" THEN gw.login.live ELSE gw.restore.live

Current(o) ==
    LET slot == IF op[o].kind = "login" THEN gw.login ELSE gw.restore
    IN slot.op = o /\ slot.live

\* Nothing refers to o: a new operation may be o.
Free(o) ==
    /\ op[o] = Idle
    /\ o \notin {gw.api, gw.bound, gw.login.op, gw.restore.op, gw.qr, reader.op, reader.got}
    /\ o \notin gw.open \cup gw.staged
    /\ \A p \in Op : o \notin {op[p].snap.api, op[p].snap.bound}

-----------------------------------------------------------------------------
(***************************************************************************)
(* restoreSession and startLogin return to callers that go on in the same  *)
(* step.  These operators give the gateway and the operation o afterwards: *)
(* a failed restore of a login is followed by a QR login, one of the retry *)
(* timer by a whole login and another retry.                               *)
(***************************************************************************)
Ended(g) == [gw |-> g, op |-> Idle]

Rescheduled(w) ==
    IF w.gw.connected THEN w ELSE [w EXCEPT !.gw = ScheduleReconnect(@)]

\* A login answers its caller.
LoginAnswers(w, caller) ==
    CASE caller = "timerLogin" -> Rescheduled(w)
      [] caller = "reconnectLogin" -> [w EXCEPT !.gw.locked = FALSE]
      [] OTHER -> w

BeginScan(g, o) ==
    [gw |-> [g EXCEPT !.login = [op |-> o, live |-> TRUE, scanned |-> FALSE]],
     op |-> [Idle EXCEPT !.kind = "login", !.pc = "connect", !.snap = Remember(g)]]

\* A plausible defect: no second look after the restore.
ScanAnyway(g, o) == IF g.connected THEN Ended(g) ELSE BeginScan(g, o)

\* The restore in front of a login has failed.
ScanUnlessTaken(g, o) == IF Busy(g) \/ g.connected THEN Ended(g) ELSE BeginScan(g, o)

\* A restore answers its caller, which is not the timer.
RestoreAnswers(g, o, caller, restored) ==
    CASE caller \in {"start", "timerLogin", "reconnectLogin"} ->
             LoginAnswers(IF restored THEN Ended(g) ELSE ScanUnlessTaken(g, o), caller)
      [] caller = "reconnect" -> Ended([g EXCEPT !.locked = FALSE])
      [] OTHER -> Ended(g)

CanRestore(g) == ~Busy(g) /\ (g.saved \/ g.backup)

BeginRestore(g, o, caller) ==
    [gw |-> [g EXCEPT !.restore = [op |-> o, live |-> TRUE]],
     op |-> [kind |-> "restore", pc |-> "connect", caller |-> caller, primary |-> g.saved,
             snap |-> Remember(g)]]

RestoreSession(g, o, caller) ==
    IF CanRestore(g) THEN BeginRestore(g, o, caller) ELSE RestoreAnswers(g, o, caller, FALSE)

StartLogin(g, o, caller) ==
    IF g.connected \/ Busy(g) THEN LoginAnswers(Ended(g), caller) ELSE RestoreSession(g, o, caller)

Answer(g, o, restored) ==
    IF op[o].caller # "timer" THEN RestoreAnswers(g, o, op[o].caller, restored)
    ELSE IF restored THEN Ended(g)
    ELSE StartLogin(g, o, "timerLogin")

Becomes(o, w) == gw' = w.gw /\ op' = [op EXCEPT ![o] = w.op]

-----------------------------------------------------------------------------
\* Who starts operations.

\* The start of the process, or a send that finds the gateway disconnected.
RestoreRequested(o) ==
    /\ Free(o)
    /\ ~gw.connected
    /\ CanRestore(gw)
    /\ Becomes(o, RestoreSession(gw, o, "plain"))
    /\ UNCHANGED <<leaving, reader, faults>>

LoginRequested(o) ==
    /\ Free(o)
    /\ ~gw.connected
    /\ ~Busy(gw)
    /\ Becomes(o, StartLogin(gw, o, "start"))
    /\ UNCHANGED <<leaving, reader, faults>>

ReconnectRequested(o) ==
    /\ Free(o)
    /\ ~gw.connected
    /\ ~gw.locked
    /\ LET g == [gw EXCEPT !.locked = TRUE]
       IN Becomes(o, IF gw.saved \/ gw.backup THEN RestoreSession(g, o, "reconnect")
                                              ELSE StartLogin(g, o, "reconnectLogin"))
    /\ UNCHANGED <<leaving, reader, faults>>

\* The retry timer: a restore, else a login, else another retry.
Retrying(g) == [g EXCEPT !.timer = FALSE, !.recovery = "reconnecting"]

TimerFires(o) ==
    /\ Free(o)
    /\ gw.timer /\ ~Busy(gw)
    /\ Becomes(o, IF CanRestore(gw) THEN BeginRestore(Retrying(gw), o, "timer")
                                    ELSE StartLogin(Retrying(gw), o, "timerLogin"))
    /\ UNCHANGED <<leaving, reader, faults>>

TimerFindsOperation ==
    /\ gw.timer /\ Busy(gw)
    /\ gw' = Rescheduled(Ended(Retrying(gw))).gw
    /\ UNCHANGED <<op, leaving, reader, faults>>

-----------------------------------------------------------------------------
\* The awaits of an operation.

\* The error path of a restore, from the gateway g that it finds, to its return: the
\* snapshot is put back without another look at who is in charge.
FailRestore(o, g) ==
    \E spoiled, ok \in BOOLEAN :
        /\ Disk(ok)
        /\ LET undone == RestoreSnapshot(g, o, ok)
               q == [undone EXCEPT !.saved = @ /\ ~(spoiled /\ op[o].primary)]
           IN Becomes(o, Answer(IF Current(o) THEN InvalidateRestore(q, ok) ELSE q, o, FALSE))

\* The new client's listener is started once its session file is staged.
StageAndListen(o, g) ==
    /\ gw' = [g EXCEPT !.staged = @ \cup {o}, !.open = @ \cup {o}]
    /\ op' = [op EXCEPT ![o].pc = "listen"]

RestoreConnects(o) ==
    /\ op[o].kind = "restore" /\ op[o].pc = "connect"
    /\ \/ ~Current(o) /\ Becomes(o, Answer(gw, o, FALSE)) /\ UNCHANGED faults
       \/ Current(o) /\ StageAndListen(o, gw) /\ UNCHANGED faults
       \/ Current(o) /\ FailRestore(o, gw)
    /\ UNCHANGED <<leaving, reader>>

QrShown(o) ==
    /\ op[o].kind = "login" /\ op[o].pc = "connect"
    /\ Current(o) /\ ~gw.shown
    /\ gw' = [gw EXCEPT !.qr = o, !.shown = TRUE]
    /\ UNCHANGED <<op, leaving, reader, faults>>

\* The coroutine of an expired code goes on waiting for its answer.
QrExpires(o) ==
    /\ op[o].kind = "login" /\ op[o].pc = "connect"
    /\ Current(o)
    /\ \E ok \in BOOLEAN : Disk(ok) /\ gw' = RollbackLogin(gw, o, ok)
    /\ UNCHANGED <<op, leaving, reader>>

\* A login whose credentials cannot be kept, or that finds a listener running, is
\* taken back and not tried again.
QrScanned(o) ==
    /\ op[o].kind = "login" /\ op[o].pc = "connect"
    /\ LET g == [gw EXCEPT !.login.scanned = TRUE, !.qr = NoOp, !.shown = FALSE]
       IN \/ ~Current(o) /\ Becomes(o, Ended(gw)) /\ UNCHANGED faults
          \/ /\ Current(o) /\ ~gw.active
             /\ StageAndListen(o, [g EXCEPT !.open = @ \ {gw.bound}, !.bound = NoOp])
             /\ UNCHANGED faults
          \/ /\ Current(o)
             /\ \E ok \in BOOLEAN : Disk(ok) /\ Becomes(o, Ended(RollbackLogin(g, o, ok)))
    /\ UNCHANGED <<leaving, reader>>

\* The provider refuses, or two minutes have passed.
LoginFails(o) ==
    /\ op[o].kind = "login" /\ op[o].pc = "connect"
    /\ \/ ~Current(o) /\ Becomes(o, Ended(gw)) /\ UNCHANGED faults
       \/ /\ Current(o)
          /\ \E ok \in BOOLEAN :
                /\ Disk(ok)
                /\ Becomes(o, Ended(ScheduleReconnect(RollbackLogin(gw, o, ok))))
    /\ UNCHANGED <<leaving, reader>>

\* The staged file is renamed to the session file, and the new client installed.
Install(g, o) ==
    SetConnected([g EXCEPT !.staged = @ \ {o}, !.saved = TRUE, !.backup = TRUE,
                           !.api = o, !.bound = o, !.active = TRUE])

\* A plausible defect: the listener that is replaced goes on.
CommitRestoreBeside(o) ==
    Becomes(o, Answer(Install(InvalidateRestore(gw, TRUE), o), o, TRUE))

CommitRestore(o) ==
    LET g == Install(InvalidateRestore(gw, TRUE), o)
        stopped == [g EXCEPT !.open = @ \ {gw.bound}]
    IN IF gw.bound = NoOp
       THEN Becomes(o, Answer(g, o, TRUE))
       ELSE gw' = stopped /\ op' = [op EXCEPT ![o].pc = "retire"]

CommitLogin(o) == Becomes(o, Ended(InvalidateLogin(Install(gw, o), TRUE)))

\* A listener that has started, or failed to, is stopped, and the stop awaited.
StopOwn(g, o, pc) ==
    /\ gw' = [g EXCEPT !.open = @ \ {o}]
    /\ op' = [op EXCEPT ![o].pc = pc]

\* A listener started for an operation stays its own (startListener does not publish it)
\* until the commit, which ends the recovery; a commit that fails leaves that as it was.
ListenerStarts(o) ==
    /\ op[o].pc = "listen"
    /\ \/ ~Current(o) /\ StopOwn(gw, o, "discard") /\ UNCHANGED faults
       \/ /\ Current(o) /\ UNCHANGED faults
          /\ IF op[o].kind = "restore" THEN CommitRestore(o) ELSE CommitLogin(o)
       \/ Current(o) /\ StopOwn(gw, o, "undoCommit") /\ Disk(FALSE)
    /\ UNCHANGED <<leaving, reader>>

ListenerFails(o) ==
    /\ op[o].pc = "listen"
    /\ StopOwn(gw, o, "undoStart")
    /\ UNCHANGED <<leaving, reader, faults>>

\* The stop an operation has awaited is through.
RestoreStopped(o) ==
    /\ op[o].kind = "restore"
    /\ \/ op[o].pc = "discard" /\ Becomes(o, Answer(gw, o, FALSE)) /\ UNCHANGED faults
       \/ op[o].pc = "retire" /\ Becomes(o, Answer(gw, o, TRUE)) /\ UNCHANGED faults
       \/ /\ op[o].pc = "undoStart" /\ ~Current(o)
          /\ Becomes(o, Answer(gw, o, FALSE)) /\ UNCHANGED faults
       \/ op[o].pc = "undoStart" /\ Current(o) /\ FailRestore(o, gw)
       \/ op[o].pc = "undoCommit" /\ FailRestore(o, Unbind(gw, o))
    /\ UNCHANGED <<leaving, reader>>

LoginStopped(o) ==
    /\ op[o].kind = "login"
    /\ op[o].pc \in {"discard", "undoStart", "undoCommit"}
    /\ LET g == IF op[o].pc = "undoCommit" THEN Unbind(gw, o) ELSE gw
       IN \/ ~Current(o) /\ Becomes(o, Ended(g)) /\ UNCHANGED faults
          \/ /\ Current(o)
             /\ \E ok \in BOOLEAN : Disk(ok) /\ Becomes(o, Ended(RollbackLogin(g, o, ok)))
    /\ UNCHANGED <<leaving, reader>>

-----------------------------------------------------------------------------
\* What interferes.

\* The bound listener reports that its socket was disconnected, closed or in error.
WsDrops ==
    /\ gw.active /\ gw.bound # NoOp /\ gw.bound = gw.api
    /\ gw' = ScheduleReconnect([gw EXCEPT !.active = FALSE])
    /\ UNCHANGED <<op, leaving, reader, faults>>

\* evaluateRecovery and requestRecovery; that a listener believed active is stale is
\* ZALO_LISTENER_STALE_SECONDS' opinion and may be wrong.
WatchdogTick ==
    /\ gw.connected /\ ~gw.locked /\ gw.recovery = "idle" /\ ~gw.timer
    /\ gw' = ScheduleReconnect([gw EXCEPT !.active = FALSE])
    /\ UNCHANGED <<op, leaving, reader, faults>>

CancelLogin ==
    /\ gw.login.op # NoOp
    /\ \E ok \in BOOLEAN :
          /\ Disk(ok)
          /\ gw' = IF gw.login.live THEN RollbackLogin(gw, gw.login.op, ok)
                                    ELSE InvalidateLogin(gw, ok)
    /\ UNCHANGED <<op, leaving, reader>>

LogoutBegins ==
    /\ ~leaving
    /\ leaving' = TRUE
    /\ \E ok \in BOOLEAN :
          /\ Disk(ok)
          /\ gw' = [InvalidateRestore(InvalidateLogin(gw, ok), ok) EXCEPT
                       !.timer = FALSE, !.active = FALSE, !.bound = NoOp,
                       !.open = @ \ {IF gw.bound # NoOp THEN gw.bound ELSE gw.api}]
    /\ UNCHANGED <<op, reader>>

\* The session file is put aside, if the file system lets it.
LogoutEnds ==
    /\ leaving
    /\ leaving' = FALSE
    /\ \E ok \in BOOLEAN :
          /\ Disk(ok)
          /\ gw' = [gw EXCEPT !.saved = @ /\ ~ok, !.api = NoOp, !.connected = FALSE]
    /\ UNCHANGED <<op, reader>>

PersistSession ==
    /\ ~Busy(gw) /\ gw.connected /\ gw.api # NoOp
    /\ gw' = [gw EXCEPT !.saved = TRUE, !.backup = TRUE]
    /\ UNCHANGED <<op, leaving, reader, faults>>

\* readCurrentQr: the file is read between two looks at the login in charge.
OwnsQr(o) == gw.login.op = o /\ gw.login.live /\ ~gw.login.scanned /\ gw.shown

ReadQr ==
    /\ reader = NoReader
    /\ \E o \in Op : OwnsQr(o) /\ reader' = [NoReader EXCEPT !.op = o]
    /\ UNCHANGED <<gw, op, leaving, faults>>

QrRead ==
    /\ reader.op # NoOp /\ ~reader.read
    /\ reader' = IF gw.qr = NoOp THEN NoReader ELSE [reader EXCEPT !.read = TRUE, !.got = gw.qr]
    /\ UNCHANGED <<gw, op, leaving, faults>>

\* A plausible defect: no second look after the read.
QrAnswerUnchecked == reader.got

\* The bytes that are sent to the browser, NoOp standing for a 404.
QrAnswer == IF OwnsQr(reader.op) THEN reader.got ELSE NoOp

QrAnswered ==
    /\ reader.read
    /\ reader' = NoReader
    /\ UNCHANGED <<gw, op, leaving, faults>>

-----------------------------------------------------------------------------
OpStep(o) ==
    \/ RestoreConnects(o) \/ QrScanned(o) \/ LoginFails(o)
    \/ ListenerStarts(o) \/ ListenerFails(o)
    \/ RestoreStopped(o) \/ LoginStopped(o)

Next ==
    \/ \E o \in Op :
          \/ RestoreRequested(o) \/ LoginRequested(o) \/ ReconnectRequested(o) \/ TimerFires(o)
          \/ OpStep(o) \/ QrShown(o) \/ QrExpires(o)
    \/ TimerFindsOperation \/ WsDrops \/ WatchdogTick \/ CancelLogin \/ LogoutBegins \/ LogoutEnds \/ PersistSession
    \/ ReadQr \/ QrRead \/ QrAnswered

Spec == Init /\ [][Next]_vars

\* zca-js answers, stops settle and timers fire.  (Strongly, as a retry may find no
\* free id in the model; the code needs none.)
FairSpec ==
    /\ Spec
    /\ \A o \in Op : WF_vars(OpStep(o))
    /\ SF_vars(TimerFindsOperation \/ \E o \in Op : TimerFires(o))
    /\ WF_vars(LogoutEnds) /\ WF_vars(QrRead) /\ WF_vars(QrAnswered)

-----------------------------------------------------------------------------
TypeOK ==
    /\ gw \in Gateway
    /\ op \in [Op -> Process]
    /\ leaving \in BOOLEAN
    /\ reader \in [op : OpOrNone, read : BOOLEAN, got : OpOrNone]
    /\ faults \in 0 .. MaxFaults

\* A QR login and a restore are never in charge of the gateway together: a start
\* that looks, awaits a restore and looks again does not begin beside another one.
OneOperation == ~(gw.login.op # NoOp /\ gw.restore.op # NoOp)

\* Every listener whose socket is open is the bound one, or its operation still
\* awaits its start and will bind or stop it: no reconnect, cancellation, logout or
\* rollback leaves a second listener behind that nobody stops.
ListenerIsAccountedFor ==
    \A o \in gw.open : gw.bound = o \/ op[o].pc = "listen"

\* A QR code is sent to the browser only as the code of the login in charge, though
\* the file is read while logins are cancelled and begun.
QrIsCurrent == reader.read /\ QrAnswer # NoOp => QrAnswer = gw.login.op

\* An operation that was cancelled, superseded or logged out and whose coroutine
\* still runs; one that retires the listener it has replaced is through.
Revoked(o) ==
    /\ op[o].pc \notin {"idle", "retire"}
    /\ ~(gw.login.op = o /\ gw.login.live)
    /\ ~(gw.restore.op = o /\ gw.restore.live)

\* No revoked operation installs its client, whatever its awaits return later.
RevokedNeverInstalls ==
    [][\A o \in Op : Revoked(o) /\ gw'.bound = o => gw.bound = o]_vars

\* The retries of a disconnected gateway end: connected, exhausted, or logged out.
RetriesEnd ==
    gw.timer /\ ~gw.connected
        ~> gw.connected \/ gw.recovery = "error" \/ (gw.recovery # "reconnecting" /\ ~gw.timer)

\* "A failed/blocked restore must not replace or stop" the active session: nothing a
\* revoked operation does on its way out touches client, listener and status.
RevokedChangesNothing ==
    [][\A o \in Op : Revoked(o) /\ op'[o] # op[o] => Remember(gw') = Remember(gw)]_vars

\* "Listener recovers automatically after a WS drop; status flips to error on
\* exhausted retries": a connection without its listener does not stay so.
DropIsRecovered ==
    gw.connected /\ ~gw.active ~> gw.active \/ gw.recovery = "error" \/ ~gw.connected
=============================================================================
