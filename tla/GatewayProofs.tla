---------------------------- MODULE GatewayProofs ----------------------------
(***************************************************************************)
(* Proofs about ZaloGateway, for every set of operation ids, any limit of  *)
(* attempts and any number of file system errors.                          *)
(***************************************************************************)
EXTENDS ZaloGateway, TLAPS

-----------------------------------------------------------------------------
(* The invariant *)

\* Whose client is installed, or was when an operation began, awaits nothing that could
\* fail: its id is not in use again, and nobody restores it as a revoked operation.
Settled(o) == op[o].pc \in {"idle", "retire"}

HeldInv ==
    /\ gw.bound # NoOp => Settled(gw.bound)
    /\ \A p \in Op : op[p].snap.bound # NoOp => Settled(op[p].snap.bound)

\* A slot names an operation of its kind; a code is shown only of the login in charge.
SlotInv ==
    /\ \A o \in Op : ~(op[o].pc = "idle") => op[o].kind \in {"restore", "login"}
    /\ gw.login.live => /\ gw.login.op \in Op
                        /\ op[gw.login.op].kind = "login"
                        /\ op[gw.login.op].pc = "connect" => ~gw.login.scanned
    /\ gw.shown => gw.login.live /\ ~gw.login.scanned /\ gw.qr = gw.login.op

\* Between the scan and the end of a login nothing is bound whose socket is open.
BareInv ==
    gw.login.live /\ op[gw.login.op].pc = "listen" => gw.bound \notin gw.open

\* The login a reader has seen in charge does not come back once its code is gone.
ReaderInv ==
    /\ reader.op # NoOp => op[reader.op].kind # "restore"
    /\ reader.op # NoOp /\ gw.login.op = reader.op /\ gw.login.live /\ ~gw.login.scanned
           => gw.shown
    /\ reader.read /\ OwnsQr(reader.op) => reader.got = reader.op

GatewayInv ==
    /\ TypeOK /\ OneOperation /\ ListenerIsAccountedFor
    /\ HeldInv /\ SlotInv /\ BareInv /\ ReaderInv

-----------------------------------------------------------------------------
(* What the helpers leave of a gateway *)

Kept(g, h) ==
    /\ h.login = g.login /\ h.restore = g.restore
    /\ h.bound = g.bound /\ h.open = g.open
    /\ h.qr = g.qr /\ h.shown = g.shown

LEMMA Scheduled ==
  ASSUME NEW g \in Gateway
  PROVE  ScheduleReconnect(g) \in Gateway /\ Kept(g, ScheduleReconnect(g))
  <1>1. CASE g.timer
    BY <1>1 DEF ScheduleReconnect, Kept
  <1>2. CASE ~g.timer /\ g.attempt >= MaxAttempts
    <2>1. ScheduleReconnect(g) = [g EXCEPT !.recovery = "error"]
      BY <1>2 DEF ScheduleReconnect
    <2> QED
      BY <2>1 DEF Gateway, Kept
  <1>3. CASE ~g.timer /\ ~(g.attempt >= MaxAttempts)
    <2>1. g.attempt + 1 \in 0 .. MaxAttempts
      BY <1>3, GatewayAssumption DEF Gateway
    <2>2. ScheduleReconnect(g) =
              [g EXCEPT !.timer = TRUE, !.attempt = g.attempt + 1, !.recovery = "scheduled"]
      BY <1>3 DEF ScheduleReconnect
    <2>3. ScheduleReconnect(g) \in Gateway
      BY <2>1, <2>2 DEF Gateway
    <2> QED
      BY <2>2, <2>3 DEF Gateway, Kept
  <1> QED
    BY <1>1, <1>2, <1>3

LEMMA LoginInvalidated ==
  ASSUME NEW g \in Gateway, NEW ok \in BOOLEAN
  PROVE  LET h == InvalidateLogin(g, ok)
         IN  /\ h \in Gateway
             /\ h.restore = g.restore /\ h.bound = g.bound /\ h.open = g.open
             /\ h.login.op \in {NoOp, g.login.op} /\ ~h.login.live /\ ~h.shown
             /\ ok => h.login.op = NoOp
  <1> DEFINE stays == g.login.op \in g.staged /\ ~ok
             login == IF stays THEN [NoLogin EXCEPT !.op = g.login.op] ELSE NoLogin
             staged == IF stays THEN g.staged ELSE g.staged \ {g.login.op}
             h == InvalidateLogin(g, ok)
  <1>1. /\ login \in [op : OpOrNone, live : BOOLEAN, scanned : BOOLEAN]
        /\ login.op \in {NoOp, g.login.op} /\ ~login.live
        /\ ok => login.op = NoOp
        /\ staged \in SUBSET Op
    BY DEF Gateway, NoLogin, OpOrNone
  <1>2. h = [g EXCEPT !.login = login, !.staged = staged, !.qr = NoOp, !.shown = FALSE]
    BY DEF InvalidateLogin
  <1> HIDE DEF login, staged, h
  <1>3. h \in Gateway
    BY <1>1, <1>2 DEF Gateway, OpOrNone
  <1>4. /\ h.restore = g.restore /\ h.bound = g.bound /\ h.open = g.open
        /\ h.login = login /\ h.shown = FALSE
    BY <1>2 DEF Gateway
  <1> QED
    BY <1>1, <1>3, <1>4 DEF h

LEMMA RestoreInvalidated ==
  ASSUME NEW g \in Gateway, NEW ok \in BOOLEAN
  PROVE  LET h == InvalidateRestore(g, ok)
         IN  /\ h \in Gateway
             /\ h.login = g.login /\ h.bound = g.bound /\ h.open = g.open
             /\ h.qr = g.qr /\ h.shown = g.shown
             /\ h.restore.op \in {NoOp, g.restore.op} /\ ~h.restore.live
             /\ ok => h.restore.op = NoOp
  <1> DEFINE stays == g.restore.op \in g.staged /\ ~ok
             restore == IF stays THEN [NoRestore EXCEPT !.op = g.restore.op] ELSE NoRestore
             staged == IF stays THEN g.staged ELSE g.staged \ {g.restore.op}
             h == InvalidateRestore(g, ok)
  <1>1. /\ restore \in [op : OpOrNone, live : BOOLEAN]
        /\ restore.op \in {NoOp, g.restore.op} /\ ~restore.live
        /\ ok => restore.op = NoOp
        /\ staged \in SUBSET Op
    BY DEF Gateway, NoRestore, OpOrNone
  <1>2. h = [g EXCEPT !.restore = restore, !.staged = staged]
    BY DEF InvalidateRestore
  <1> HIDE DEF restore, staged, h
  <1>3. h \in Gateway
    BY <1>1, <1>2 DEF Gateway, OpOrNone
  <1>4. /\ h.login = g.login /\ h.bound = g.bound /\ h.open = g.open
        /\ h.qr = g.qr /\ h.shown = g.shown /\ h.restore = restore
    BY <1>2 DEF Gateway
  <1> QED
    BY <1>1, <1>3, <1>4 DEF h

LEMMA Remembered == ASSUME NEW g \in Gateway PROVE Remember(g) \in Snapshot /\ Remember(g).bound = g.bound
  BY DEF Gateway, Remember, Snapshot

LEMMA LoginRolledBack ==
  ASSUME NEW g \in Gateway, NEW o \in Op, op \in [Op -> Process], NEW ok \in BOOLEAN
  PROVE  LET h == RollbackLogin(g, o, ok)
         IN  /\ h \in Gateway
             /\ h.restore = g.restore /\ h.bound = op[o].snap.bound
             /\ h.open \subseteq g.open /\ (g.bound # h.bound => g.bound \notin h.open)
             /\ h.login.op \in {NoOp, g.login.op} /\ ~h.login.live /\ ~h.shown
  <1> DEFINE snap == op[o].snap
             owned == IF g.bound # snap.bound THEN {g.bound} ELSE {}
             back == [g EXCEPT !.connected = snap.connected, !.api = snap.api,
                               !.active = snap.active, !.bound = snap.bound,
                               !.open = @ \ owned]
  <1>1. snap \in Snapshot
    BY DEF Process
  <1>2. g.open \ owned \in SUBSET Op
    BY DEF Gateway
  <1> HIDE DEF snap, owned
  <1>3. back \in Gateway
    BY <1>1, <1>2 DEF Gateway, Snapshot
  <1>4. /\ back.restore = g.restore /\ back.bound = snap.bound /\ back.login = g.login
        /\ back.open = g.open \ owned
    BY DEF Gateway
  <1>5. RollbackLogin(g, o, ok) = InvalidateLogin(back, ok)
    BY DEF RollbackLogin, snap, owned
  <1> HIDE DEF back
  <1> QED
    BY <1>3, <1>4, <1>5, LoginInvalidated DEF snap, owned

LEMMA SnapshotRestored ==
  ASSUME NEW g \in Gateway, NEW o \in Op, op \in [Op -> Process], NEW ok \in BOOLEAN
  PROVE  LET h == RestoreSnapshot(g, o, ok)
         IN  /\ h \in Gateway
             /\ h.login = g.login /\ h.restore = g.restore
             /\ h.qr = g.qr /\ h.shown = g.shown
             /\ h.bound = op[o].snap.bound /\ h.open \subseteq g.open
             /\ g.bound \notin {NoOp, h.bound} => g.bound \notin h.open
  <1> DEFINE snap == op[o].snap
             owns == g.bound # snap.bound \/ (~snap.active /\ g.active)
             current == IF g.bound # NoOp THEN g.bound
                        ELSE IF g.api # snap.api THEN g.api ELSE NoOp
             open == IF owns THEN g.open \ {current} ELSE g.open
             api == IF snap.connected \/ snap.active THEN snap.api ELSE NoOp
             staged == IF ok THEN g.staged \ {o} ELSE g.staged
             h == RestoreSnapshot(g, o, ok)
  <1>1. snap \in Snapshot
    BY DEF Process
  <1>2. /\ open \in SUBSET Op /\ staged \in SUBSET Op /\ open \subseteq g.open
        /\ g.bound \notin {NoOp, snap.bound} => g.bound \notin open
    BY DEF Gateway
  <1>3. api \in OpOrNone
    BY <1>1 DEF Snapshot, OpOrNone
  <1>4. h = [g EXCEPT !.open = open, !.api = api, !.active = snap.active, !.bound = snap.bound,
                      !.connected = snap.connected, !.staged = staged]
    BY DEF RestoreSnapshot
  <1> HIDE DEF open, api, staged, snap, h
  <1>5. h \in Gateway
    BY <1>1, <1>2, <1>3, <1>4 DEF Gateway, Snapshot
  <1>6. /\ h.login = g.login /\ h.restore = g.restore
        /\ h.qr = g.qr /\ h.shown = g.shown
        /\ h.bound = snap.bound /\ h.open = open
    BY <1>4 DEF Gateway
  <1> QED
    BY <1>2, <1>5, <1>6 DEF h, snap

LEMMA Unbound ==
  ASSUME NEW g \in Gateway, NEW o \in Op, op \in [Op -> Process], g.bound # o
  PROVE  Unbind(g, o) \in Gateway /\ Kept(g, Unbind(g, o))
  <1>1. op[o].snap \in Snapshot
    BY DEF Process
  <1>2. CASE g.bound = op[o].snap.bound
    <2>1. Unbind(g, o) = [g EXCEPT !.active = op[o].snap.active, !.bound = op[o].snap.bound]
      BY <1>2 DEF Unbind
    <2> QED
      BY <1>1, <1>2, <2>1 DEF Gateway, Kept, Snapshot
  <1>3. CASE g.bound # op[o].snap.bound
    BY <1>3 DEF Unbind, Kept
  <1> QED
    BY <1>2, <1>3

\* How an operation goes on when it, or the one before it, has answered: it is over, or
\* goes on as a new operation under its id, which nothing else was in charge of.
Goes(o, g, w) ==
    /\ w.gw \in Gateway /\ w.op \in Process
    /\ w.gw.bound = g.bound /\ w.gw.open = g.open
    /\ w.gw.qr = g.qr /\ w.gw.shown = g.shown
    /\ \/ /\ w.op = Idle
          /\ w.gw.login = g.login /\ w.gw.restore = g.restore
       \/ /\ ~Busy(g) /\ w.op.pc = "connect" /\ w.op.snap.bound = g.bound
          /\ \/ /\ w.op.kind = "restore"
                /\ w.gw.login = g.login /\ w.gw.restore = [op |-> o, live |-> TRUE]
             \/ /\ w.op.kind = "login" /\ w.gw.restore = g.restore
                /\ w.gw.login = [op |-> o, live |-> TRUE, scanned |-> FALSE]

LEMMA EndedGoes ==
  ASSUME NEW g \in Gateway, NEW o \in Op, NEW h \in Gateway, Kept(g, h)
  PROVE  Goes(o, g, Ended(h))
  <1>1. Idle \in Process
    BY DEF Idle, Process, Snapshot, NoSnapshot, OpOrNone, Caller
  <1> QED
    BY <1>1 DEF Goes, Ended, Kept

LEMMA ScanGoes ==
  ASSUME NEW g \in Gateway, NEW o \in Op
  PROVE  Goes(o, g, ScanUnlessTaken(g, o))
  <1>1. CASE Busy(g) \/ g.connected
    BY <1>1, EndedGoes DEF ScanUnlessTaken, Kept
  <1>2. CASE ~(Busy(g) \/ g.connected)
    <2> DEFINE login == [op |-> o, live |-> TRUE, scanned |-> FALSE]
               h == [g EXCEPT !.login = login]
               q == [Idle EXCEPT !.kind = "login", !.pc = "connect", !.snap = Remember(g)]
    <2>1. login \in [op : OpOrNone, live : BOOLEAN, scanned : BOOLEAN]
      BY DEF OpOrNone
    <2>2. /\ h \in Gateway /\ h.login = login /\ h.restore = g.restore
          /\ h.bound = g.bound /\ h.open = g.open /\ h.qr = g.qr /\ h.shown = g.shown
      <3> HIDE DEF login
      <3> QED
        BY <2>1 DEF Gateway
    <2>3. q \in Process /\ q.kind = "login" /\ q.pc = "connect" /\ q.snap = Remember(g)
      BY Remembered DEF Idle, Process, Caller
    <2>4. ScanUnlessTaken(g, o) = [gw |-> h, op |-> q]
      BY <1>2 DEF ScanUnlessTaken, BeginScan
    <2> HIDE DEF h, q
    <2> QED
      BY <1>2, <2>2, <2>3, <2>4, Remembered DEF Goes
  <1> QED
    BY <1>1, <1>2

LEMMA RestoreGoes ==
  ASSUME NEW g \in Gateway, NEW o \in Op, NEW caller \in Caller, ~Busy(g)
  PROVE  Goes(o, g, BeginRestore(g, o, caller))
  <1> DEFINE restore == [op |-> o, live |-> TRUE]
             h == [g EXCEPT !.restore = restore]
             q == [kind |-> "restore", pc |-> "connect", caller |-> caller, primary |-> g.saved,
                   snap |-> Remember(g)]
  <1>1. restore \in [op : OpOrNone, live : BOOLEAN]
    BY DEF OpOrNone
  <1>2. /\ h \in Gateway /\ h.restore = restore /\ h.login = g.login
        /\ h.bound = g.bound /\ h.open = g.open /\ h.qr = g.qr /\ h.shown = g.shown
    <2> HIDE DEF restore
    <2> QED
      BY <1>1 DEF Gateway
  <1>3. q \in Process /\ q.kind = "restore" /\ q.pc = "connect" /\ q.snap = Remember(g)
    <2>1. g.saved \in BOOLEAN
      BY DEF Gateway
    <2> QED
      BY <2>1, Remembered DEF Process
  <1>4. BeginRestore(g, o, caller) = [gw |-> h, op |-> q]
    BY DEF BeginRestore
  <1> HIDE DEF h, q
  <1> QED
    BY <1>2, <1>3, <1>4, Remembered DEF Goes

LEMMA RescheduledGoes ==
  ASSUME NEW g \in Gateway, NEW o \in Op, NEW w, w = [gw |-> w.gw, op |-> w.op], Goes(o, g, w)
  PROVE  Goes(o, g, Rescheduled(w))
  <1>1. CASE w.gw.connected
    BY <1>1 DEF Rescheduled
  <1>2. CASE ~w.gw.connected
    <2>1. Rescheduled(w) = [gw |-> ScheduleReconnect(w.gw), op |-> w.op]
      BY <1>2 DEF Rescheduled
    <2>2. w.gw \in Gateway
      BY DEF Goes
    <2>3. ScheduleReconnect(w.gw) \in Gateway /\ Kept(w.gw, ScheduleReconnect(w.gw))
      BY <2>2, Scheduled
    <2> QED
      BY <2>1, <2>3 DEF Goes, Kept
  <1> QED
    BY <1>1, <1>2

LEMMA LoginAnswersGoes ==
  ASSUME NEW g \in Gateway, NEW o \in Op, NEW caller \in Caller,
         NEW w, w = [gw |-> w.gw, op |-> w.op], Goes(o, g, w)
  PROVE  Goes(o, g, LoginAnswers(w, caller))
  <1>1. CASE caller = "timerLogin"
    BY <1>1, RescheduledGoes DEF LoginAnswers
  <1>2. CASE caller = "reconnectLogin"
    <2> DEFINE h == [w.gw EXCEPT !.locked = FALSE]
    <2>1. w.gw \in Gateway
      BY DEF Goes
    <2>2. h \in Gateway /\ Kept(w.gw, h)
      BY <2>1 DEF Gateway, Kept
    <2>3. LoginAnswers(w, caller) = [gw |-> h, op |-> w.op]
      BY <1>2 DEF LoginAnswers
    <2> HIDE DEF h
    <2> QED
      BY <2>2, <2>3 DEF Goes, Kept
  <1>3. CASE caller \notin {"timerLogin", "reconnectLogin"}
    BY <1>3 DEF LoginAnswers
  <1> QED
    BY <1>1, <1>2, <1>3

LEMMA RestoreAnswersGoes ==
  ASSUME NEW g \in Gateway, NEW o \in Op, NEW caller \in Caller, NEW restored \in BOOLEAN
  PROVE  /\ Goes(o, g, RestoreAnswers(g, o, caller, restored))
         /\ restored => RestoreAnswers(g, o, caller, restored).op = Idle
  <1>1. CASE caller \in {"start", "timerLogin", "reconnectLogin"}
    <2> DEFINE w == IF restored THEN Ended(g) ELSE ScanUnlessTaken(g, o)
    <2>1. Goes(o, g, w)
      BY EndedGoes, ScanGoes DEF Kept
    <2>2. w = [gw |-> w.gw, op |-> w.op]
      BY DEF Ended, ScanUnlessTaken, BeginScan
    <2>3. RestoreAnswers(g, o, caller, restored) = LoginAnswers(w, caller)
      BY <1>1 DEF RestoreAnswers
    <2>4. restored => w.op = Idle
      BY DEF Ended
    <2> HIDE DEF w
    <2>5. LoginAnswers(w, caller).op = w.op
      BY <2>2 DEF LoginAnswers, Rescheduled
    <2> QED
      BY <2>1, <2>2, <2>3, <2>4, <2>5, LoginAnswersGoes
  <1>2. CASE caller = "reconnect"
    <2> DEFINE h == [g EXCEPT !.locked = FALSE]
    <2>1. h \in Gateway /\ Kept(g, h)
      BY DEF Gateway, Kept
    <2>2. RestoreAnswers(g, o, caller, restored) = Ended(h)
      BY <1>2 DEF RestoreAnswers
    <2> HIDE DEF h
    <2>3. Ended(h).op = Idle
      BY DEF Ended
    <2> QED
      BY <2>1, <2>2, <2>3, EndedGoes
  <1>3. CASE caller \notin {"start", "timerLogin", "reconnectLogin", "reconnect"}
    <2>1. RestoreAnswers(g, o, caller, restored) = Ended(g)
      BY <1>3 DEF RestoreAnswers
    <2> QED
      BY <2>1, EndedGoes DEF Kept, Ended
  <1> QED
    BY <1>1, <1>2, <1>3

LEMMA RestoreSessionGoes ==
  ASSUME NEW g \in Gateway, NEW o \in Op, NEW caller \in Caller
  PROVE  Goes(o, g, RestoreSession(g, o, caller))
  <1>1. CASE CanRestore(g)
    BY <1>1, RestoreGoes DEF RestoreSession, CanRestore
  <1>2. CASE ~CanRestore(g)
    BY <1>2, RestoreAnswersGoes DEF RestoreSession
  <1> QED
    BY <1>1, <1>2

LEMMA StartLoginGoes ==
  ASSUME NEW g \in Gateway, NEW o \in Op, NEW caller \in Caller
  PROVE  Goes(o, g, StartLogin(g, o, caller))
  <1>1. CASE g.connected \/ Busy(g)
    <2>1. Goes(o, g, Ended(g))
      BY EndedGoes DEF Kept
    <2>2. Ended(g) = [gw |-> Ended(g).gw, op |-> Ended(g).op]
      BY DEF Ended
    <2> QED
      BY <1>1, <2>1, <2>2, LoginAnswersGoes DEF StartLogin
  <1>2. CASE ~(g.connected \/ Busy(g))
    BY <1>2, RestoreSessionGoes DEF StartLogin
  <1> QED
    BY <1>1, <1>2

LEMMA AnswerGoes ==
  ASSUME NEW g \in Gateway, NEW o \in Op, op \in [Op -> Process], NEW restored \in BOOLEAN
  PROVE  /\ Goes(o, g, Answer(g, o, restored))
         /\ restored => Answer(g, o, restored).op = Idle
  <1>1. op[o].caller \in Caller
    BY DEF Process
  <1>2. CASE op[o].caller # "timer"
    BY <1>1, <1>2, RestoreAnswersGoes DEF Answer
  <1>3. CASE op[o].caller = "timer" /\ restored
    BY <1>3, EndedGoes DEF Answer, Kept, Ended
  <1>4. CASE op[o].caller = "timer" /\ ~restored
    BY <1>4, StartLoginGoes DEF Answer, Caller
  <1> QED
    BY <1>2, <1>3, <1>4

-----------------------------------------------------------------------------
(* The end of an operation *)

\* The gateway that o leaves when it answers: sound without it.
Detached(g, o) ==
    /\ g \in Gateway
    /\ ~(g.login.op # NoOp /\ g.restore.op # NoOp)
    /\ \A x \in g.open : g.bound = x \/ (x # o /\ op[x].pc = "listen")
    /\ g.bound \notin {NoOp, o} => Settled(g.bound)
    /\ g.login.live => /\ g.login.op \in Op \ {o}
                       /\ op[g.login.op].kind = "login"
                       /\ op[g.login.op].pc = "connect" => ~g.login.scanned
    /\ g.shown => g.login.live /\ ~g.login.scanned /\ g.qr = g.login.op
    /\ g.login.live /\ op[g.login.op].pc = "listen" => g.bound \notin g.open
    /\ g.login.op = reader.op /\ g.login.live /\ ~g.login.scanned =>
           g.shown /\ (reader.read => reader.got = reader.op)

\* The other variables of a step of an operation.
Beside == /\ reader' = reader /\ leaving' \in BOOLEAN /\ faults' \in 0 .. MaxFaults

LEMMA GoesOn ==
  ASSUME GatewayInv, Beside,
         NEW o \in Op, NEW g, Detached(g, o),
         NEW w, Goes(o, g, w), Becomes(o, w),
         w.op # Idle => /\ reader.op # o /\ g.bound # o
                        /\ \A p \in Op : op[p].snap.bound # o
  PROVE  GatewayInv'
  <1> USE GatewayAssumption
  <1>1. /\ gw' = w.gw /\ gw' \in Gateway /\ w.op \in Process
        /\ op' = [op EXCEPT ![o] = w.op] /\ op \in [Op -> Process]
    BY DEF Becomes, Goes, GatewayInv, TypeOK
  <1>2. /\ op'[o] = w.op /\ \A p \in Op : p # o => op'[p] = op[p]
        /\ op' \in [Op -> Process]
    BY <1>1
  <1>3. gw'.bound = g.bound /\ gw'.open = g.open /\ gw'.qr = g.qr /\ gw'.shown = g.shown
    BY <1>1 DEF Goes
  <1>4. TypeOK'
    BY <1>1, <1>2 DEF TypeOK, GatewayInv, Beside
  <1>5. g.open \subseteq Op /\ g.bound \in OpOrNone
    BY DEF Detached, Gateway
  <1>6. ListenerIsAccountedFor'
    BY <1>2, <1>3, <1>5 DEF ListenerIsAccountedFor, Detached
  <1>7. HeldInv'
    <2>1. gw'.bound # NoOp => Settled(gw.bound)'
      <3>1. CASE gw'.bound = o
        BY <1>2, <1>3, <3>1 DEF Settled, Idle
      <3>2. CASE gw'.bound \notin {o, NoOp}
        BY <1>2, <1>3, <1>5, <3>2 DEF Settled, Detached, OpOrNone
      <3> QED
        BY <3>1, <3>2
    <2>2. ASSUME NEW p \in Op, op'[p].snap.bound # NoOp PROVE Settled(op[p].snap.bound)'
      <3>1. CASE p # o
        <4>1. /\ op'[p] = op[p] /\ Settled(op[p].snap.bound)
              /\ op[p].snap.bound \in Op
          BY <1>1, <1>2, <2>2, <3>1 DEF GatewayInv, HeldInv, Process, Snapshot, OpOrNone
        <4> QED
          BY <1>2, <4>1 DEF Settled, Idle
      <3>2. CASE p = o
        <4>1. w.op # Idle
          BY <1>2, <2>2, <3>2 DEF Idle, NoSnapshot
        <4>2. w.op.snap.bound = g.bound
          BY <4>1 DEF Goes
        <4> QED
          BY <1>2, <1>3, <2>1, <2>2, <3>2, <4>2
      <3> QED
        BY <3>1, <3>2
    <2> QED
      BY <2>1, <2>2 DEF HeldInv
  <1>8. \A x \in Op : op'[x].pc # "idle" => op'[x].kind \in {"restore", "login"}
    <2>1. w.op.pc # "idle" => w.op.kind \in {"restore", "login"}
      BY DEF Goes, Idle
    <2> QED
      BY <1>2, <2>1 DEF GatewayInv, SlotInv
  <1>9. CASE w.op = Idle
    <2>1. gw'.login = g.login /\ gw'.restore = g.restore
      BY <1>1, <1>9 DEF Goes, Idle
    <2>2. OneOperation'
      BY <2>1 DEF OneOperation, Detached
    <2>3. SlotInv'
      BY <1>2, <1>3, <1>8, <2>1 DEF SlotInv, Detached
    <2>4. BareInv'
      BY <1>2, <1>3, <2>1 DEF BareInv, Detached
    <2>5. ReaderInv'
      <3>1. reader.op # NoOp => op'[reader.op].kind # "restore"
        BY <1>1, <1>2, <1>9 DEF GatewayInv, ReaderInv, TypeOK, OpOrNone, Idle
      <3> QED
        BY <1>3, <2>1, <3>1 DEF ReaderInv, OwnsQr, Detached, Beside
    <2> QED
      BY <1>4, <1>6, <1>7, <2>2, <2>3, <2>4, <2>5 DEF GatewayInv
  <1>10. CASE w.op # Idle
    <2>1. ~Busy(g) /\ w.op.pc = "connect" /\ reader.op # o
      BY <1>10 DEF Goes
    <2>2. ~g.shown /\ ~g.login.live
      BY <2>1 DEF Busy, Detached
    <2>3. reader.op # NoOp => op'[reader.op].kind # "restore"
      BY <1>1, <1>2, <2>1 DEF GatewayInv, ReaderInv, TypeOK, OpOrNone
    <2>4. CASE w.op.kind = "restore"
      <3>1. gw'.login = g.login /\ gw'.restore = [op |-> o, live |-> TRUE]
        BY <1>1, <1>10, <2>4 DEF Goes
      <3>2. OneOperation' /\ SlotInv' /\ BareInv'
        BY <1>3, <1>8, <2>1, <2>2, <3>1 DEF OneOperation, SlotInv, BareInv, Busy
      <3>3. ReaderInv'
        BY <2>2, <2>3, <3>1 DEF ReaderInv, OwnsQr, Beside
      <3> QED
        BY <1>4, <1>6, <1>7, <3>2, <3>3 DEF GatewayInv
    <2>5. CASE w.op.kind # "restore"
      <3>1. /\ gw'.login = [op |-> o, live |-> TRUE, scanned |-> FALSE]
            /\ gw'.restore = g.restore /\ w.op.kind = "login"
        BY <1>1, <1>10, <2>5 DEF Goes
      <3>2. OneOperation'
        BY <2>1, <3>1 DEF OneOperation, Busy
      <3>3. SlotInv' /\ BareInv'
        BY <1>2, <1>3, <1>8, <2>1, <2>2, <3>1 DEF SlotInv, BareInv
      <3>4. ReaderInv'
        BY <2>1, <2>2, <2>3, <3>1 DEF ReaderInv, OwnsQr, Beside
      <3> QED
        BY <1>4, <1>6, <1>7, <3>2, <3>3, <3>4 DEF GatewayInv
    <2> QED
      BY <2>4, <2>5
  <1> QED
    BY <1>9, <1>10

\* Where a snapshot is put back, by a rollback or a failing restore.
LEMMA SnapshotIsSound ==
  ASSUME GatewayInv, NEW o \in Op, NEW h,
         h.bound = op[o].snap.bound, h.open \subseteq gw.open,
         gw.bound \notin {NoOp, h.bound} => gw.bound \notin h.open
  PROVE  /\ \A x \in h.open : h.bound = x \/ op[x].pc = "listen"
         /\ h.bound # NoOp => Settled(h.bound)
         /\ gw.login.live /\ op[gw.login.op].pc = "listen" => h.bound \notin h.open
  <1>1. gw.open \subseteq Op /\ NoOp \notin gw.open
    BY GatewayAssumption DEF GatewayInv, TypeOK, Gateway
  <1>2. h.bound # NoOp => Settled(h.bound)
    BY DEF GatewayInv, HeldInv
  <1>3. \A x \in h.open : h.bound = x \/ op[x].pc = "listen"
    BY <1>1 DEF GatewayInv, ListenerIsAccountedFor
  <1>4. ASSUME gw.login.live, op[gw.login.op].pc = "listen", h.bound \in h.open PROVE FALSE
    <2>1. gw.bound # h.bound
      BY <1>4 DEF GatewayInv, BareInv
    <2>2. op[h.bound].pc = "listen"
      BY <1>4, <2>1 DEF GatewayInv, ListenerIsAccountedFor
    <2> QED
      BY <1>1, <1>2, <1>4, <2>2 DEF Settled
  <1> QED
    BY <1>2, <1>3, <1>4

\* Whose client a step may install: that of an operation in charge, or one already held.
Installs ==
    \/ gw'.bound \in {gw.bound, NoOp}
    \/ Settled(gw'.bound)
    \/ Current(gw'.bound)

Sound == GatewayInv' /\ Installs

LEMMA GoesOnSound ==
  ASSUME GatewayInv, Beside,
         NEW o \in Op, NEW g, Detached(g, o),
         g.bound \in {gw.bound, NoOp} \/ Settled(g.bound) \/ Current(g.bound),
         NEW w, Goes(o, g, w), Becomes(o, w),
         w.op # Idle => /\ reader.op # o /\ g.bound # o
                        /\ \A p \in Op : op[p].snap.bound # o
  PROVE  Sound
  <1>1. gw'.bound = g.bound
    BY DEF Becomes, Goes
  <1>2. GatewayInv'
    BY GoesOn
  <1> QED
    BY <1>1, <1>2 DEF Sound, Installs

LEMMA DetachedNow ==
  ASSUME GatewayInv, NEW o \in Op, NEW g \in Gateway, Kept(gw, g),
         op[o].pc # "listen", ~(gw.login.live /\ gw.login.op = o)
  PROVE  Detached(g, o)
  <1> USE GatewayAssumption
  <1>1. ~(g.login.op # NoOp /\ g.restore.op # NoOp)
    BY DEF GatewayInv, OneOperation, Kept
  <1>2. \A x \in g.open : g.bound = x \/ (x # o /\ op[x].pc = "listen")
    BY DEF GatewayInv, ListenerIsAccountedFor, Kept
  <1>3. g.bound \notin {NoOp, o} => Settled(g.bound)
    BY DEF GatewayInv, HeldInv, Kept
  <1>4. /\ g.login.live => /\ g.login.op \in Op \ {o}
                           /\ op[g.login.op].kind = "login"
                           /\ op[g.login.op].pc = "connect" => ~g.login.scanned
        /\ g.shown => g.login.live /\ ~g.login.scanned /\ g.qr = g.login.op
    BY DEF GatewayInv, SlotInv, Kept
  <1>5. g.login.live /\ op[g.login.op].pc = "listen" => g.bound \notin g.open
    BY DEF GatewayInv, BareInv, Kept
  <1>6. g.login.op = reader.op /\ g.login.live /\ ~g.login.scanned =>
            g.shown /\ (reader.read => reader.got = reader.op)
    BY <1>4 DEF GatewayInv, ReaderInv, OwnsQr, Kept
  <1> QED
    BY <1>1, <1>2, <1>3, <1>4, <1>5, <1>6 DEF Detached

LEMMA Unsettled ==
  ASSUME GatewayInv, NEW o \in Op, ~Settled(o)
  PROVE  gw.bound # o /\ \A p \in Op : op[p].snap.bound # o
  BY GatewayAssumption DEF GatewayInv, HeldInv

LEMMA FreeIsUnused ==
  ASSUME GatewayInv, NEW o \in Op, Free(o)
  PROVE  /\ op[o] = Idle /\ reader.op # o /\ gw.bound # o /\ gw.login.op # o
         /\ \A p \in Op : op[p].snap.bound # o
  BY DEF Free

LEMMA StartsSound ==
  ASSUME GatewayInv, NEW o \in Op, Free(o), UNCHANGED <<leaving, reader, faults>>,
         NEW g \in Gateway, Kept(gw, g), NEW w, Goes(o, g, w), Becomes(o, w)
  PROVE  Sound
  <1>1. Detached(g, o)
    BY FreeIsUnused, DetachedNow DEF Idle
  <1>2. Beside
    BY DEF Beside, GatewayInv, TypeOK
  <1>3. g.bound = gw.bound
    BY DEF Kept
  <1> QED
    BY <1>1, <1>2, <1>3, FreeIsUnused, GoesOnSound

LEMMA StartSound ==
  ASSUME GatewayInv, NEW o \in Op,
         RestoreRequested(o) \/ LoginRequested(o) \/ ReconnectRequested(o) \/ TimerFires(o)
  PROVE  Sound
  <1>1. gw \in Gateway /\ Kept(gw, gw)
    BY DEF GatewayInv, TypeOK, Kept
  <1>2. CASE RestoreRequested(o)
    <2>1. Goes(o, gw, RestoreSession(gw, o, "plain"))
      BY <1>1, RestoreSessionGoes DEF Caller
    <2> QED
      BY <1>1, <1>2, <2>1, StartsSound DEF RestoreRequested
  <1>3. CASE LoginRequested(o)
    <2>1. Goes(o, gw, StartLogin(gw, o, "start"))
      BY <1>1, StartLoginGoes DEF Caller
    <2> QED
      BY <1>1, <1>3, <2>1, StartsSound DEF LoginRequested
  <1>4. CASE ReconnectRequested(o)
    <2> DEFINE g == [gw EXCEPT !.locked = TRUE]
               w == IF gw.saved \/ gw.backup THEN RestoreSession(g, o, "reconnect")
                                             ELSE StartLogin(g, o, "reconnectLogin")
    <2>1. g \in Gateway /\ Kept(gw, g)
      BY <1>1 DEF Gateway, Kept
    <2>2. Free(o) /\ UNCHANGED <<leaving, reader, faults>> /\ Becomes(o, w)
      BY <1>4 DEF ReconnectRequested
    <2> HIDE DEF g
    <2>3. Goes(o, g, w)
      BY <2>1, RestoreSessionGoes, StartLoginGoes DEF Caller
    <2> HIDE DEF w
    <2> QED
      BY <2>1, <2>2, <2>3, StartsSound
  <1>5. CASE TimerFires(o)
    <2> DEFINE g == Retrying(gw)
               w == IF CanRestore(gw) THEN BeginRestore(g, o, "timer")
                                      ELSE StartLogin(g, o, "timerLogin")
    <2>1. g \in Gateway /\ Kept(gw, g)
      BY <1>1 DEF Gateway, Kept, Retrying
    <2>2. /\ Free(o) /\ UNCHANGED <<leaving, reader, faults>> /\ Becomes(o, w)
          /\ ~Busy(gw)
      BY <1>5 DEF TimerFires
    <2> HIDE DEF g
    <2>3. ~Busy(g)
      BY <2>1, <2>2 DEF Busy, Kept
    <2>4. Goes(o, g, w)
      BY <2>1, <2>3, RestoreGoes, StartLoginGoes DEF Caller
    <2> HIDE DEF w
    <2> QED
      BY <2>1, <2>2, <2>4, StartsSound
  <1> QED
    BY <1>2, <1>3, <1>4, <1>5

-----------------------------------------------------------------------------
(* The steps of an operation *)

LEMMA DiskWorks == ASSUME TypeOK, NEW ok \in BOOLEAN, Disk(ok) PROVE faults' \in 0 .. MaxFaults
  BY GatewayAssumption DEF TypeOK, Disk

\* The operation is over, having changed nothing the invariant is about.
LEMMA AnswersSound ==
  ASSUME GatewayInv, Beside, NEW o \in Op, op[o].kind = "restore", op[o].pc # "listen",
         ~Settled(o), NEW g \in Gateway, Kept(gw, g), Becomes(o, Answer(g, o, FALSE))
  PROVE  Sound
  <1>1. ~(gw.login.live /\ gw.login.op = o)
    BY DEF GatewayInv, SlotInv
  <1>2. Detached(g, o)
    BY <1>1, DetachedNow
  <1>3. Goes(o, g, Answer(g, o, FALSE))
    BY AnswerGoes DEF GatewayInv, TypeOK
  <1>4. reader.op # o
    BY GatewayAssumption DEF GatewayInv, ReaderInv
  <1>5. g.bound = gw.bound
    BY DEF Kept
  <1> QED
    BY <1>2, <1>3, <1>4, <1>5, Unsettled, GoesOnSound

LEMMA FailRestoreSound ==
  ASSUME GatewayInv, NEW o \in Op, op[o].kind = "restore", op[o].pc # "listen",
         ~Settled(o), NEW g \in Gateway, Kept(gw, g), FailRestore(o, g),
         UNCHANGED <<leaving, reader>>
  PROVE  Sound
  <1> USE GatewayAssumption
  <1>1. PICK spoiled \in BOOLEAN, ok \in BOOLEAN :
           /\ Disk(ok)
           /\ LET undone == RestoreSnapshot(g, o, ok)
                  q == [undone EXCEPT !.saved = @ /\ ~(spoiled /\ op[o].primary)]
              IN Becomes(o, Answer(IF Current(o) THEN InvalidateRestore(q, ok) ELSE q, o, FALSE))
    BY DEF FailRestore
  <1> DEFINE undone == RestoreSnapshot(g, o, ok)
             q == [undone EXCEPT !.saved = @ /\ ~(spoiled /\ op[o].primary)]
             h == IF Current(o) THEN InvalidateRestore(q, ok) ELSE q
  <1>2. op \in [Op -> Process] /\ gw \in Gateway
    BY DEF GatewayInv, TypeOK
  <1>3. /\ undone \in Gateway
        /\ undone.login = g.login /\ undone.restore = g.restore
        /\ undone.qr = g.qr /\ undone.shown = g.shown
        /\ undone.bound = op[o].snap.bound /\ undone.open \subseteq g.open
        /\ g.bound \notin {NoOp, undone.bound} => g.bound \notin undone.open
    BY <1>2, SnapshotRestored
  <1> HIDE DEF undone
  <1>4. q \in Gateway /\ Kept(undone, q)
    <2>1. op[o].primary \in BOOLEAN
      BY <1>2 DEF Process
    <2>2. (undone.saved /\ ~(spoiled /\ op[o].primary)) \in BOOLEAN
      BY <1>3, <2>1 DEF Gateway
    <2> QED
      BY <1>3, <2>2 DEF Gateway, Kept
  <1> HIDE DEF q
  <1>5. /\ h \in Gateway /\ h.login = gw.login /\ h.qr = gw.qr /\ h.shown = gw.shown
        /\ h.restore.op \in {NoOp, gw.restore.op}
        /\ h.bound = op[o].snap.bound /\ h.open \subseteq gw.open
        /\ gw.bound \notin {NoOp, h.bound} => gw.bound \notin h.open
    BY <1>3, <1>4, RestoreInvalidated DEF Kept
  <1> HIDE DEF h
  <1>6. ~(gw.login.live /\ gw.login.op = o)
    BY DEF GatewayInv, SlotInv
  <1>7. Detached(gw, o)
    BY <1>2, <1>6, DetachedNow DEF Kept
  <1>8. /\ \A x \in h.open : h.bound = x \/ op[x].pc = "listen"
        /\ h.bound # NoOp => Settled(h.bound)
        /\ gw.login.live /\ op[gw.login.op].pc = "listen" => h.bound \notin h.open
    BY <1>5, SnapshotIsSound
  <1>9. Detached(h, o)
    BY <1>5, <1>7, <1>8 DEF Detached
  <1>10. Beside
    BY <1>1, DiskWorks DEF GatewayInv, TypeOK, Beside
  <1>11. Goes(o, h, Answer(h, o, FALSE)) /\ Becomes(o, Answer(h, o, FALSE))
    BY <1>1, <1>2, <1>5, AnswerGoes DEF undone, q, h
  <1>12. reader.op # o
    BY DEF GatewayInv, ReaderInv
  <1>13. h.bound # o
    BY <1>8
  <1> QED
    BY <1>8, <1>9, <1>10, <1>11, <1>12, <1>13, Unsettled, GoesOnSound

\* The gateway after a login was taken back.
LEMMA RollbackIsSound ==
  ASSUME GatewayInv, NEW o \in Op, NEW g \in Gateway, NEW ok \in BOOLEAN,
         g.restore = gw.restore, g.bound = gw.bound, g.open = gw.open, g.login.op = gw.login.op
  PROVE  LET h == RollbackLogin(g, o, ok)
         IN  /\ h \in Gateway
             /\ ~(h.login.op # NoOp /\ h.restore.op # NoOp)
             /\ \A x \in h.open : h.bound = x \/ op[x].pc = "listen"
             /\ h.bound # NoOp => Settled(h.bound)
             /\ ~h.login.live /\ ~h.shown
  <1> DEFINE h == RollbackLogin(g, o, ok)
  <1>1. /\ h \in Gateway
        /\ h.restore = g.restore /\ h.bound = op[o].snap.bound
        /\ h.open \subseteq g.open /\ (g.bound # h.bound => g.bound \notin h.open)
        /\ h.login.op \in {NoOp, g.login.op} /\ ~h.login.live /\ ~h.shown
    BY LoginRolledBack DEF GatewayInv, TypeOK
  <1> HIDE DEF h
  <1>2. ~(h.login.op # NoOp /\ h.restore.op # NoOp)
    BY <1>1 DEF GatewayInv, OneOperation
  <1>3. /\ \A x \in h.open : h.bound = x \/ op[x].pc = "listen"
        /\ h.bound # NoOp => Settled(h.bound)
    BY <1>1, SnapshotIsSound
  <1> QED
    BY <1>1, <1>2, <1>3 DEF h

\* A login ends, taken back.
LEMMA LoginEndsSound ==
  ASSUME GatewayInv, NEW o \in Op, op[o].pc # "listen", NEW ok \in BOOLEAN, Disk(ok),
         UNCHANGED <<leaving, reader>>, NEW g \in Gateway,
         g.restore = gw.restore, g.bound = gw.bound, g.open = gw.open, g.login.op = gw.login.op,
         NEW h \in Gateway, Kept(RollbackLogin(g, o, ok), h), Becomes(o, Ended(h))
  PROVE  Sound
  <1> DEFINE back == RollbackLogin(g, o, ok)
  <1>1. /\ back \in Gateway
        /\ ~(back.login.op # NoOp /\ back.restore.op # NoOp)
        /\ \A x \in back.open : back.bound = x \/ op[x].pc = "listen"
        /\ back.bound # NoOp => Settled(back.bound)
        /\ ~back.login.live /\ ~back.shown
    BY RollbackIsSound
  <1> HIDE DEF back
  <1>2. Kept(back, h)
    BY DEF back
  <1>3. Detached(h, o)
    BY <1>1, <1>2 DEF Detached, Kept
  <1>4. Goes(o, h, Ended(h)) /\ Ended(h).op = Idle
    BY EndedGoes DEF Kept, Ended
  <1>5. Beside
    BY DiskWorks DEF GatewayInv, TypeOK, Beside
  <1>6. h.bound = NoOp \/ Settled(h.bound)
    BY <1>1, <1>2 DEF Kept
  <1> QED
    BY <1>3, <1>4, <1>5, <1>6, GoesOnSound

\* A login ends that is no longer in charge.
LEMMA LoginLeavesSound ==
  ASSUME GatewayInv, Beside, NEW o \in Op, op[o].kind = "login", op[o].pc # "listen",
         ~Current(o), NEW g \in Gateway, Kept(gw, g), Becomes(o, Ended(g))
  PROVE  Sound
  <1>1. Detached(g, o)
    BY DetachedNow DEF Current
  <1>2. Goes(o, g, Ended(g)) /\ Ended(g).op = Idle
    BY EndedGoes DEF Kept, Ended
  <1>3. g.bound = gw.bound
    BY DEF Kept
  <1> QED
    BY <1>1, <1>2, <1>3, GoesOnSound

LEMMA StageSound ==
  ASSUME GatewayInv, Beside, NEW o \in Op, op[o].pc = "connect", op[o].kind \in {"restore", "login"},
         Current(o), NEW g \in Gateway, StageAndListen(o, g),
         g.restore = gw.restore, g.login.op = gw.login.op, g.login.live = gw.login.live,
         \/ op[o].kind = "restore" /\ Kept(gw, g)
         \/ /\ op[o].kind = "login" /\ ~g.shown /\ g.login.scanned
            /\ g.bound = NoOp /\ g.open = gw.open \ {gw.bound}
  PROVE  Sound
  <1> USE GatewayAssumption
  <1>1. /\ gw' \in Gateway /\ gw'.login = g.login /\ gw'.restore = g.restore
        /\ gw'.bound = g.bound /\ gw'.open = g.open \cup {o}
        /\ gw'.qr = g.qr /\ gw'.shown = g.shown
    <2>1. g.staged \cup {o} \in SUBSET Op /\ g.open \cup {o} \in SUBSET Op
      BY DEF Gateway
    <2> QED
      BY <2>1 DEF StageAndListen, Gateway
  <1>2. /\ op \in [Op -> Process] /\ op' \in [Op -> Process]
        /\ op'[o].pc = "listen" /\ op'[o].kind = op[o].kind /\ op'[o].snap = op[o].snap
        /\ \A p \in Op : p # o => op'[p] = op[p]
    BY DEF StageAndListen, GatewayInv, TypeOK, Process
  <1>3. TypeOK'
    BY <1>1, <1>2 DEF TypeOK, Beside, GatewayInv
  <1>4. OneOperation'
    BY <1>1 DEF GatewayInv, OneOperation
  <1>5. ListenerIsAccountedFor'
    <2>1. \A x \in g.open : x # o => g.bound = x \/ op[x].pc = "listen"
      BY DEF GatewayInv, ListenerIsAccountedFor, Kept
    <2> QED
      BY <1>1, <1>2, <2>1 DEF ListenerIsAccountedFor, Gateway
  <1>6. HeldInv'
    <2>1. gw.bound # o /\ \A p \in Op : op[p].snap.bound # o
      BY Unsettled DEF Settled
    <2>2. g.bound # NoOp => g.bound \in Op \ {o} /\ Settled(g.bound)
      BY <2>1 DEF GatewayInv, HeldInv, Kept, Gateway, OpOrNone
    <2>3. \A p \in Op : op'[p].snap = op[p].snap
      BY <1>2
    <2>4. \A p \in Op : op[p].snap.bound # NoOp =>
             op[p].snap.bound \in Op \ {o} /\ Settled(op[p].snap.bound)
      BY <1>2, <2>1 DEF GatewayInv, HeldInv, Process, Snapshot, OpOrNone
    <2> QED
      BY <1>1, <1>2, <2>2, <2>3, <2>4 DEF HeldInv, Settled
  <1>7. \A x \in Op : op'[x].pc # "idle" => op'[x].kind \in {"restore", "login"}
    BY <1>2 DEF GatewayInv, SlotInv
  <1>8. \A x \in Op : op'[x].kind = op[x].kind
    BY <1>2
  <1>9. CASE op[o].kind = "restore"
    <2>1. ~gw.login.live
      BY <1>9 DEF Current, GatewayInv, OneOperation, SlotInv
    <2>2. ~gw'.login.live /\ ~gw'.shown
      BY <1>1, <1>9, <2>1 DEF GatewayInv, SlotInv, Kept
    <2>3. SlotInv' /\ BareInv'
      BY <1>7, <2>2 DEF SlotInv, BareInv
    <2>4. ReaderInv'
      BY <1>8, <2>2 DEF ReaderInv, OwnsQr, GatewayInv, TypeOK, OpOrNone, Beside
    <2> QED
      BY <1>1, <1>3, <1>4, <1>5, <1>6, <1>9, <2>3, <2>4 DEF GatewayInv, Sound, Installs, Kept
  <1>10. CASE op[o].kind = "login"
    <2>1. gw.login.op = o /\ gw.login.live /\ gw'.login.scanned /\ ~gw'.shown
      BY <1>1, <1>10 DEF Current
    <2>2. gw'.bound = NoOp /\ NoOp \notin gw'.open
      BY <1>1, <1>10 DEF Gateway
    <2>3. SlotInv' /\ BareInv'
      BY <1>1, <1>2, <1>7, <1>10, <2>1, <2>2 DEF SlotInv, BareInv
    <2>4. ReaderInv'
      BY <1>8, <2>1 DEF ReaderInv, OwnsQr, GatewayInv, TypeOK, OpOrNone, Beside
    <2> QED
      BY <1>3, <1>4, <1>5, <1>6, <2>2, <2>3, <2>4 DEF GatewayInv, Sound, Installs
  <1> QED
    BY <1>9, <1>10

LEMMA StopSound ==
  ASSUME GatewayInv, Beside, NEW o \in Op, op[o].pc = "listen",
         NEW pc \in {"discard", "undoStart", "undoCommit"},
         NEW g \in Gateway, Kept(gw, g), StopOwn(g, o, pc)
  PROVE  Sound
  <1> USE GatewayAssumption
  <1>1. /\ gw' \in Gateway /\ gw'.login = gw.login /\ gw'.restore = gw.restore
        /\ gw'.bound = gw.bound /\ gw'.open = gw.open \ {o}
        /\ gw'.qr = gw.qr /\ gw'.shown = gw.shown
    <2>1. g.open \ {o} \in SUBSET Op
      BY DEF Gateway
    <2> QED
      BY <2>1 DEF StopOwn, Gateway, Kept
  <1>2. /\ op \in [Op -> Process] /\ op' \in [Op -> Process]
        /\ op'[o].pc = pc /\ op'[o].kind = op[o].kind /\ op'[o].snap = op[o].snap
        /\ \A p \in Op : p # o => op'[p] = op[p]
    BY DEF StopOwn, GatewayInv, TypeOK, Process
  <1>3. TypeOK'
    BY <1>1, <1>2 DEF TypeOK, Beside, GatewayInv
  <1>4. OneOperation'
    BY <1>1 DEF GatewayInv, OneOperation
  <1>5. ListenerIsAccountedFor'
    BY <1>1, <1>2 DEF GatewayInv, ListenerIsAccountedFor, Gateway
  <1>6. HeldInv'
    <2>1. gw.bound # o /\ \A p \in Op : op[p].snap.bound # o
      BY Unsettled DEF Settled
    <2>2. gw.bound # NoOp => gw.bound \in Op \ {o} /\ Settled(gw.bound)
      BY <2>1 DEF GatewayInv, HeldInv, TypeOK, Gateway, OpOrNone
    <2>3. \A p \in Op : op'[p].snap = op[p].snap
      BY <1>2
    <2>4. \A p \in Op : op[p].snap.bound # NoOp =>
             op[p].snap.bound \in Op \ {o} /\ Settled(op[p].snap.bound)
      BY <1>2, <2>1 DEF GatewayInv, HeldInv, Process, Snapshot, OpOrNone
    <2> QED
      BY <1>1, <1>2, <2>2, <2>3, <2>4 DEF HeldInv, Settled
  <1>7. \A x \in Op : op'[x].kind = op[x].kind
    BY <1>2
  <1>8. SlotInv'
    BY <1>1, <1>2, <1>7 DEF GatewayInv, SlotInv
  <1>9. BareInv'
    BY <1>1, <1>2 DEF GatewayInv, BareInv, SlotInv
  <1>10. ReaderInv'
    BY <1>1, <1>7 DEF ReaderInv, OwnsQr, GatewayInv, TypeOK, OpOrNone, Beside
  <1> QED
    BY <1>1, <1>3, <1>4, <1>5, <1>6, <1>8, <1>9, <1>10 DEF GatewayInv, Sound, Installs

LEMMA Installed ==
  ASSUME NEW g \in Gateway, NEW o \in Op
  PROVE  LET h == Install(g, o)
         IN  /\ h \in Gateway /\ h.bound = o /\ h.open = g.open
             /\ h.login = g.login /\ h.restore = g.restore /\ h.qr = g.qr /\ h.shown = g.shown
  <1> DEFINE h == [g EXCEPT !.staged = g.staged \ {o}, !.saved = TRUE, !.backup = TRUE,
                            !.api = o, !.bound = o, !.active = TRUE]
             q == [h EXCEPT !.connected = TRUE, !.attempt = 0, !.recovery = "idle"]
  <1>1. g.staged \ {o} \in SUBSET Op /\ o \in OpOrNone /\ 0 \in 0 .. MaxAttempts
    BY GatewayAssumption DEF Gateway, OpOrNone
  <1>2. /\ h \in Gateway /\ h.bound = o /\ h.open = g.open
        /\ h.login = g.login /\ h.restore = g.restore /\ h.qr = g.qr /\ h.shown = g.shown
    BY <1>1 DEF Gateway
  <1>3. Install(g, o) = q
    BY DEF Install, SetConnected
  <1> HIDE DEF h
  <1>4. /\ q \in Gateway /\ q.bound = h.bound /\ q.open = h.open
        /\ q.login = h.login /\ q.restore = h.restore /\ q.qr = h.qr /\ q.shown = h.shown
    BY <1>1, <1>2 DEF Gateway
  <1> QED
    BY <1>2, <1>3, <1>4

LEMMA CommitRestoreSound ==
  ASSUME GatewayInv, Beside, NEW o \in Op, op[o].kind = "restore", op[o].pc = "listen",
         Current(o), CommitRestore(o)
  PROVE  Sound
  <1> USE GatewayAssumption
  <1> DEFINE cleared == InvalidateRestore(gw, TRUE)
             g == Install(cleared, o)
             stopped == [g EXCEPT !.open = @ \ {gw.bound}]
  <1>1. /\ gw \in Gateway /\ op \in [Op -> Process]
        /\ NoOp \notin gw.open
    BY DEF GatewayInv, TypeOK, Gateway
  <1>2. /\ cleared \in Gateway
        /\ cleared.login = gw.login /\ cleared.open = gw.open
        /\ cleared.qr = gw.qr /\ cleared.shown = gw.shown /\ cleared.restore.op = NoOp
    BY <1>1, RestoreInvalidated
  <1> HIDE DEF cleared
  <1>3. /\ g \in Gateway /\ g.bound = o /\ g.open = gw.open
        /\ g.login = gw.login /\ g.restore.op = NoOp /\ g.qr = gw.qr /\ g.shown = gw.shown
    BY <1>2, Installed
  <1> HIDE DEF g
  <1>4. gw.login.op = NoOp /\ ~gw.login.live /\ ~gw.shown
    BY DEF Current, GatewayInv, OneOperation, SlotInv
  <1>5. gw.bound # o /\ \A p \in Op : op[p].snap.bound # o
    BY Unsettled DEF Settled
  <1>6. CASE gw.bound = NoOp
    <2>1. Becomes(o, Answer(g, o, TRUE))
      BY <1>6 DEF CommitRestore, g, cleared
    <2>2. \A x \in g.open : g.bound = x \/ (x # o /\ op[x].pc = "listen")
      BY <1>1, <1>3, <1>6 DEF GatewayInv, ListenerIsAccountedFor
    <2>3. Detached(g, o)
      BY <1>3, <1>4, <2>2 DEF Detached
    <2>4. Goes(o, g, Answer(g, o, TRUE)) /\ Answer(g, o, TRUE).op = Idle
      BY <1>1, <1>3, AnswerGoes
    <2>5. Current(g.bound)
      BY <1>3
    <2> QED
      BY <2>1, <2>3, <2>4, <2>5, GoesOnSound
  <1>7. CASE gw.bound # NoOp
    <2>1. /\ stopped \in Gateway /\ stopped.bound = o /\ stopped.open = gw.open \ {gw.bound}
          /\ stopped.login = gw.login /\ stopped.restore = g.restore
          /\ stopped.qr = gw.qr /\ stopped.shown = gw.shown
      <3>1. g.open \ {gw.bound} \in SUBSET Op
        BY <1>3 DEF Gateway
      <3> QED
        BY <1>3, <3>1 DEF Gateway
    <2>2. gw' = stopped /\ op' = [op EXCEPT ![o].pc = "retire"]
      BY <1>7 DEF CommitRestore, g, cleared
    <2> HIDE DEF stopped
    <2>3. /\ op' \in [Op -> Process]
          /\ op'[o].pc = "retire" /\ op'[o].kind = op[o].kind /\ op'[o].snap = op[o].snap
          /\ \A p \in Op : p # o => op'[p] = op[p]
      BY <1>1, <2>2 DEF Process
    <2>4. TypeOK'
      BY <2>1, <2>2, <2>3 DEF TypeOK, Beside, GatewayInv
    <2>5. OneOperation'
      BY <1>3, <2>1, <2>2 DEF OneOperation
    <2>6. ListenerIsAccountedFor'
      BY <1>1, <2>1, <2>2, <2>3 DEF GatewayInv, ListenerIsAccountedFor, Gateway
    <2>7. HeldInv'
      <3>1. \A p \in Op : op'[p].snap = op[p].snap
        BY <2>3
      <3>2. \A p \in Op : op[p].snap.bound # NoOp =>
               op[p].snap.bound \in Op \ {o} /\ Settled(op[p].snap.bound)
        BY <1>1, <1>5 DEF GatewayInv, HeldInv, Process, Snapshot, OpOrNone
      <3> QED
        BY <2>1, <2>2, <2>3, <3>1, <3>2 DEF HeldInv, Settled
    <2>8. \A x \in Op : op'[x].kind = op[x].kind
      BY <2>3
    <2>9. SlotInv' /\ BareInv'
      BY <1>4, <2>1, <2>2, <2>3, <2>8 DEF GatewayInv, SlotInv, BareInv
    <2>10. ReaderInv'
      BY <1>4, <2>1, <2>2, <2>8 DEF ReaderInv, OwnsQr, GatewayInv, TypeOK, OpOrNone, Beside
    <2>11. Installs
      BY <2>1, <2>2 DEF Installs
    <2> QED
      BY <2>4, <2>5, <2>6, <2>7, <2>9, <2>10, <2>11 DEF GatewayInv, Sound
  <1> QED
    BY <1>6, <1>7

LEMMA CommitLoginSound ==
  ASSUME GatewayInv, Beside, NEW o \in Op, op[o].kind = "login", op[o].pc = "listen",
         Current(o), CommitLogin(o)
  PROVE  Sound
  <1> DEFINE g == Install(gw, o)
             h == InvalidateLogin(g, TRUE)
  <1>1. gw \in Gateway
    BY DEF GatewayInv, TypeOK
  <1>2. /\ g \in Gateway /\ g.bound = o /\ g.open = gw.open
        /\ g.login = gw.login /\ g.restore = gw.restore
    BY <1>1, Installed
  <1>3. Becomes(o, Ended(h))
    BY DEF CommitLogin
  <1> HIDE DEF g
  <1>4. /\ h \in Gateway /\ h.restore = gw.restore /\ h.bound = o /\ h.open = gw.open
        /\ h.login.op = NoOp /\ ~h.login.live /\ ~h.shown
    BY <1>2, LoginInvalidated
  <1> HIDE DEF h
  <1>5. gw.login.live /\ gw.login.op = o
    BY DEF Current
  <1>6. gw.bound \notin gw.open
    BY <1>5 DEF GatewayInv, BareInv
  <1>7. \A x \in h.open : h.bound = x \/ (x # o /\ op[x].pc = "listen")
    BY <1>4, <1>6 DEF GatewayInv, ListenerIsAccountedFor
  <1>8. Detached(h, o)
    BY <1>4, <1>7 DEF Detached
  <1>9. Goes(o, h, Ended(h)) /\ Ended(h).op = Idle
    BY <1>4, EndedGoes DEF Kept, Ended
  <1>10. Current(h.bound)
    BY <1>4
  <1> QED
    BY <1>3, <1>8, <1>9, <1>10, GoesOnSound

LEMMA OpStepSound ==
  ASSUME GatewayInv, NEW o \in Op, OpStep(o)
  PROVE  Sound
  <1>1. /\ gw \in Gateway /\ Kept(gw, gw) /\ op \in [Op -> Process]
        /\ UNCHANGED <<leaving, reader, faults>> => Beside
    BY DEF GatewayInv, TypeOK, Kept, Beside
  <1>2. \A ok \in BOOLEAN : Disk(ok) /\ UNCHANGED <<leaving, reader>> => Beside
    BY DiskWorks DEF GatewayInv, TypeOK, Beside
  <1>3. CASE RestoreConnects(o)
    <2>1. op[o].kind = "restore" /\ op[o].pc = "connect" /\ ~Settled(o)
      BY <1>3 DEF RestoreConnects, Settled
    <2>2. CASE ~Current(o) /\ Becomes(o, Answer(gw, o, FALSE)) /\ UNCHANGED faults
      BY <1>1, <1>3, <2>1, <2>2, AnswersSound DEF RestoreConnects
    <2>3. CASE Current(o) /\ StageAndListen(o, gw) /\ UNCHANGED faults
      BY <1>1, <1>3, <2>1, <2>3, StageSound DEF RestoreConnects
    <2>4. CASE Current(o) /\ FailRestore(o, gw)
      BY <1>1, <1>3, <2>1, <2>4, FailRestoreSound DEF RestoreConnects
    <2> QED
      BY <1>3, <2>2, <2>3, <2>4 DEF RestoreConnects
  <1>4. CASE QrScanned(o)
    <2> DEFINE g == [gw EXCEPT !.login.scanned = TRUE, !.qr = NoOp, !.shown = FALSE]
               bare == [g EXCEPT !.open = @ \ {gw.bound}, !.bound = NoOp]
    <2>1. op[o].kind = "login" /\ op[o].pc = "connect" /\ UNCHANGED <<leaving, reader>>
      BY <1>4 DEF QrScanned
    <2>2. /\ g \in Gateway /\ g.restore = gw.restore /\ g.bound = gw.bound /\ g.open = gw.open
          /\ g.login.op = gw.login.op /\ g.login.live = gw.login.live /\ g.login.scanned
          /\ ~g.shown
      BY <1>1 DEF Gateway, OpOrNone
    <2>3. \/ ~Current(o) /\ Becomes(o, Ended(gw)) /\ UNCHANGED faults
          \/ Current(o) /\ StageAndListen(o, bare) /\ UNCHANGED faults
          \/ \E ok \in BOOLEAN : Disk(ok) /\ Becomes(o, Ended(RollbackLogin(g, o, ok)))
      BY <1>4 DEF QrScanned
    <2> HIDE DEF g
    <2>4. CASE ~Current(o) /\ Becomes(o, Ended(gw)) /\ UNCHANGED faults
      BY <1>1, <2>1, <2>4, LoginLeavesSound
    <2>5. CASE Current(o) /\ StageAndListen(o, bare) /\ UNCHANGED faults
      <3>1. /\ bare \in Gateway /\ bare.login = g.login /\ bare.restore = g.restore
            /\ bare.bound = NoOp /\ bare.open = g.open \ {gw.bound} /\ bare.shown = g.shown
        <4>1. g.open \ {gw.bound} \in SUBSET Op
          BY <2>2 DEF Gateway
        <4> QED
          BY <2>2, <4>1 DEF Gateway, OpOrNone
      <3> HIDE DEF bare
      <3> QED
        BY <1>1, <2>1, <2>2, <2>5, <3>1, StageSound
    <2>6. ASSUME NEW ok \in BOOLEAN, Disk(ok), Becomes(o, Ended(RollbackLogin(g, o, ok)))
          PROVE Sound
      <3>1. RollbackLogin(g, o, ok) \in Gateway
        BY <2>2, RollbackIsSound
      <3> QED
        BY <2>1, <2>2, <2>6, <3>1, LoginEndsSound DEF Kept
    <2> QED
      BY <2>3, <2>4, <2>5, <2>6
  <1>5. CASE LoginFails(o)
    <2>1. op[o].kind = "login" /\ op[o].pc = "connect" /\ UNCHANGED <<leaving, reader>>
      BY <1>5 DEF LoginFails
    <2>2. CASE ~Current(o) /\ Becomes(o, Ended(gw)) /\ UNCHANGED faults
      BY <1>1, <2>1, <2>2, LoginLeavesSound
    <2>3. ASSUME NEW ok \in BOOLEAN, Disk(ok),
                 Becomes(o, Ended(ScheduleReconnect(RollbackLogin(gw, o, ok))))
          PROVE Sound
      <3>1. RollbackLogin(gw, o, ok) \in Gateway
        BY <1>1, RollbackIsSound
      <3> QED
        BY <1>1, <2>1, <2>3, <3>1, Scheduled, LoginEndsSound
    <2> QED
      BY <1>5, <2>2, <2>3 DEF LoginFails
  <1>6. CASE ListenerStarts(o)
    <2>1. op[o].pc = "listen" /\ UNCHANGED <<leaving, reader>>
      BY <1>6 DEF ListenerStarts
    <2>2. CASE StopOwn(gw, o, "discard") /\ UNCHANGED faults
      BY <1>1, <2>1, <2>2, StopSound
    <2>3. CASE Current(o) /\ UNCHANGED faults /\ op[o].kind = "restore" /\ CommitRestore(o)
      BY <1>1, <2>1, <2>3, CommitRestoreSound
    <2>4. CASE Current(o) /\ UNCHANGED faults /\ op[o].kind # "restore" /\ CommitLogin(o)
      <3>1. op[o].kind = "login"
        BY <2>1, <2>4 DEF GatewayInv, SlotInv
      <3> QED
        BY <1>1, <2>1, <2>4, <3>1, CommitLoginSound
    <2>5. CASE StopOwn(gw, o, "undoCommit") /\ Disk(FALSE)
      BY <1>1, <1>2, <2>1, <2>5, StopSound
    <2> QED
      BY <1>6, <2>2, <2>3, <2>4, <2>5 DEF ListenerStarts
  <1>7. CASE ListenerFails(o)
    BY <1>1, <1>7, StopSound DEF ListenerFails
  <1>8. CASE RestoreStopped(o)
    <2>1. op[o].kind = "restore" /\ UNCHANGED <<leaving, reader>>
      BY <1>8 DEF RestoreStopped
    <2>2. CASE op[o].pc \in {"discard", "undoStart"} /\ Becomes(o, Answer(gw, o, FALSE)) /\ UNCHANGED faults
      BY <1>1, <2>1, <2>2, AnswersSound DEF Settled
    <2>3. CASE op[o].pc = "retire" /\ Becomes(o, Answer(gw, o, TRUE)) /\ UNCHANGED faults
      <3>1. Detached(gw, o)
        BY <1>1, <2>1, <2>3, DetachedNow DEF GatewayInv, SlotInv
      <3>2. Goes(o, gw, Answer(gw, o, TRUE)) /\ Answer(gw, o, TRUE).op = Idle
        BY <1>1, AnswerGoes
      <3> QED
        BY <1>1, <2>1, <2>3, <3>1, <3>2, GoesOnSound
    <2>4. CASE op[o].pc = "undoStart" /\ FailRestore(o, gw)
      BY <1>1, <2>1, <2>4, FailRestoreSound DEF Settled
    <2>5. CASE op[o].pc = "undoCommit" /\ FailRestore(o, Unbind(gw, o))
      <3>1. gw.bound # o
        BY <2>5, Unsettled DEF Settled
      <3>2. Unbind(gw, o) \in Gateway /\ Kept(gw, Unbind(gw, o))
        BY <1>1, <3>1, Unbound
      <3> QED
        BY <2>1, <2>5, <3>2, FailRestoreSound DEF Settled
    <2> QED
      BY <1>8, <2>2, <2>3, <2>4, <2>5 DEF RestoreStopped
  <1>9. CASE LoginStopped(o)
    <2> DEFINE g == IF op[o].pc = "undoCommit" THEN Unbind(gw, o) ELSE gw
    <2>1. /\ op[o].kind = "login" /\ op[o].pc # "listen" /\ ~Settled(o)
          /\ UNCHANGED <<leaving, reader>>
      BY <1>9 DEF LoginStopped, Settled
    <2>2. g \in Gateway /\ Kept(gw, g)
      BY <1>1, <2>1, Unsettled, Unbound
    <2>3. \/ ~Current(o) /\ Becomes(o, Ended(g)) /\ UNCHANGED faults
          \/ \E ok \in BOOLEAN : Disk(ok) /\ Becomes(o, Ended(RollbackLogin(g, o, ok)))
      BY <1>9 DEF LoginStopped
    <2> HIDE DEF g
    <2>4. CASE ~Current(o) /\ Becomes(o, Ended(g)) /\ UNCHANGED faults
      BY <1>1, <2>1, <2>2, <2>4, LoginLeavesSound
    <2>5. ASSUME NEW ok \in BOOLEAN, Disk(ok), Becomes(o, Ended(RollbackLogin(g, o, ok)))
          PROVE Sound
      <3>1. /\ g.restore = gw.restore /\ g.bound = gw.bound /\ g.open = gw.open
            /\ g.login.op = gw.login.op
        BY <2>2 DEF Kept
      <3>2. RollbackLogin(g, o, ok) \in Gateway
        BY <2>2, <3>1, RollbackIsSound
      <3> QED
        BY <2>1, <2>2, <2>5, <3>1, <3>2, LoginEndsSound DEF Kept
    <2> QED
      BY <2>3, <2>4, <2>5
  <1> QED
    BY <1>3, <1>4, <1>5, <1>6, <1>7, <1>8, <1>9 DEF OpStep

-----------------------------------------------------------------------------
(* What interferes *)

LEMMA KeptSound ==
  ASSUME GatewayInv, Beside, gw' \in Gateway, Kept(gw, gw'), op' = op
  PROVE  Sound
  <1>1. TypeOK'
    BY DEF GatewayInv, TypeOK, Beside
  <1>2. OneOperation' /\ ListenerIsAccountedFor' /\ Installs
    BY DEF GatewayInv, OneOperation, ListenerIsAccountedFor, Kept, Installs
  <1>3. HeldInv'
    BY DEF GatewayInv, HeldInv, Settled, Kept
  <1>4. SlotInv' /\ BareInv'
    BY DEF GatewayInv, SlotInv, BareInv, Kept
  <1>5. ReaderInv'
    BY DEF GatewayInv, ReaderInv, OwnsQr, Kept, Beside
  <1> QED
    BY <1>1, <1>2, <1>3, <1>4, <1>5 DEF GatewayInv, Sound

\* A login is taken back, or the gateway left, while the coroutine goes on.
LEMMA TakenSound ==
  ASSUME GatewayInv, Beside, op' = op, gw' \in Gateway,
         ~gw'.login.live, ~gw'.shown,
         ~(gw'.login.op # NoOp /\ gw'.restore.op # NoOp),
         \A x \in gw'.open : gw'.bound = x \/ op[x].pc = "listen",
         gw'.bound # NoOp => Settled(gw'.bound)
  PROVE  Sound
  <1>1. TypeOK'
    BY DEF GatewayInv, TypeOK, Beside
  <1>2. OneOperation' /\ ListenerIsAccountedFor' /\ Installs
    BY DEF GatewayInv, OneOperation, ListenerIsAccountedFor, Installs
  <1>3. HeldInv'
    BY DEF GatewayInv, HeldInv, Settled
  <1>4. SlotInv' /\ BareInv'
    BY DEF GatewayInv, SlotInv, BareInv
  <1>5. ReaderInv'
    BY DEF GatewayInv, ReaderInv, OwnsQr, Beside
  <1> QED
    BY <1>1, <1>2, <1>3, <1>4, <1>5 DEF GatewayInv, Sound

LEMMA RolledBackSound ==
  ASSUME GatewayInv, NEW o \in Op, NEW ok \in BOOLEAN, Disk(ok),
         gw' = RollbackLogin(gw, o, ok), UNCHANGED <<op, leaving, reader>>
  PROVE  Sound
  <1>1. Beside
    BY DiskWorks DEF GatewayInv, TypeOK, Beside
  <1>2. gw \in Gateway
    BY DEF GatewayInv, TypeOK
  <1> QED
    BY <1>1, <1>2, RollbackIsSound, TakenSound

LEMMA QrShownSound ==
  ASSUME GatewayInv, NEW o \in Op, QrShown(o)
  PROVE  Sound
  <1> USE GatewayAssumption DEF QrShown
  <1>1. /\ gw' \in Gateway /\ gw'.login = gw.login /\ gw'.restore = gw.restore
        /\ gw'.bound = gw.bound /\ gw'.open = gw.open /\ gw'.qr = o /\ gw'.shown
    BY DEF GatewayInv, TypeOK, Gateway, OpOrNone
  <1>2. gw.login.live /\ gw.login.op = o /\ ~gw.login.scanned
    BY DEF Current, GatewayInv, SlotInv
  <1>3. TypeOK'
    BY <1>1 DEF GatewayInv, TypeOK
  <1>4. OneOperation' /\ ListenerIsAccountedFor' /\ Installs
    BY <1>1 DEF GatewayInv, OneOperation, ListenerIsAccountedFor, Installs
  <1>5. HeldInv'
    BY <1>1 DEF GatewayInv, HeldInv, Settled
  <1>6. SlotInv' /\ BareInv'
    BY <1>1, <1>2 DEF GatewayInv, SlotInv, BareInv
  <1>7. ReaderInv'
    <2>1. reader.op # o
      BY <1>2 DEF GatewayInv, ReaderInv
    <2> QED
      BY <1>1, <1>2, <2>1 DEF GatewayInv, ReaderInv, OwnsQr
  <1> QED
    BY <1>3, <1>4, <1>5, <1>6, <1>7 DEF GatewayInv, Sound

LEMMA CancelSound ==
  ASSUME GatewayInv, CancelLogin
  PROVE  Sound
  <1>1. PICK ok \in BOOLEAN :
           /\ Disk(ok)
           /\ gw' = IF gw.login.live THEN RollbackLogin(gw, gw.login.op, ok)
                                     ELSE InvalidateLogin(gw, ok)
    BY DEF CancelLogin
  <1>2. UNCHANGED <<op, leaving, reader>> /\ gw \in Gateway
    BY DEF CancelLogin, GatewayInv, TypeOK
  <1>3. CASE gw.login.live
    <2>1. gw.login.op \in Op
      BY <1>3 DEF GatewayInv, SlotInv
    <2> QED
      BY <1>1, <1>2, <1>3, <2>1, RolledBackSound
  <1>4. CASE ~gw.login.live
    <2>1. Beside
      BY <1>1, <1>2, DiskWorks DEF GatewayInv, TypeOK, Beside
    <2>2. /\ gw' \in Gateway
          /\ gw'.restore = gw.restore /\ gw'.bound = gw.bound /\ gw'.open = gw.open
          /\ gw'.login.op \in {NoOp, gw.login.op} /\ ~gw'.login.live /\ ~gw'.shown
      BY <1>1, <1>2, <1>4, LoginInvalidated
    <2> QED
      BY <1>2, <2>1, <2>2, TakenSound
         DEF GatewayInv, OneOperation, ListenerIsAccountedFor, HeldInv
  <1> QED
    BY <1>3, <1>4

LEMMA LogoutBeginsSound ==
  ASSUME GatewayInv, LogoutBegins
  PROVE  Sound
  <1>1. PICK ok \in BOOLEAN :
           /\ Disk(ok)
           /\ gw' = [InvalidateRestore(InvalidateLogin(gw, ok), ok) EXCEPT
                        !.timer = FALSE, !.active = FALSE, !.bound = NoOp,
                        !.open = @ \ {IF gw.bound # NoOp THEN gw.bound ELSE gw.api}]
    BY DEF LogoutBegins
  <1>2. UNCHANGED <<op, reader>> /\ leaving' = TRUE /\ gw \in Gateway
    BY DEF LogoutBegins, GatewayInv, TypeOK
  <1>3. Beside
    BY <1>1, <1>2, DiskWorks DEF GatewayInv, Beside
  <1> DEFINE g == InvalidateLogin(gw, ok)
             h == InvalidateRestore(g, ok)
             x == IF gw.bound # NoOp THEN gw.bound ELSE gw.api
  <1>4. /\ g \in Gateway /\ g.restore = gw.restore /\ g.open = gw.open
        /\ g.login.op \in {NoOp, gw.login.op} /\ ~g.login.live /\ ~g.shown
    BY <1>2, LoginInvalidated
  <1> HIDE DEF g
  <1>5. /\ h \in Gateway /\ h.login = g.login /\ h.open = gw.open
        /\ h.shown = g.shown /\ h.restore.op \in {NoOp, gw.restore.op}
    BY <1>4, RestoreInvalidated
  <1> HIDE DEF h
  <1>6. gw' = [h EXCEPT !.timer = FALSE, !.active = FALSE, !.bound = NoOp, !.open = h.open \ {x}]
    BY <1>1 DEF g, h
  <1> HIDE DEF x
  <1>7. /\ gw' \in Gateway /\ gw'.login = h.login /\ gw'.restore = h.restore
        /\ gw'.bound = NoOp /\ gw'.open = h.open \ {x} /\ gw'.shown = h.shown
    <2>1. h.open \ {x} \in SUBSET Op
      BY <1>5 DEF Gateway
    <2> QED
      BY <1>5, <1>6, <2>1 DEF Gateway, OpOrNone
  <1>8. \A y \in gw'.open : op[y].pc = "listen"
    <2>1. NoOp \notin gw.open
      BY <1>2, GatewayAssumption DEF Gateway
    <2> QED
      BY <1>5, <1>7, <2>1 DEF GatewayInv, ListenerIsAccountedFor, x
  <1>9. ~(gw'.login.op # NoOp /\ gw'.restore.op # NoOp)
    BY <1>4, <1>5, <1>7 DEF GatewayInv, OneOperation
  <1> QED
    BY <1>2, <1>3, <1>4, <1>5, <1>7, <1>8, <1>9, TakenSound

LEMMA ReaderSound ==
  ASSUME GatewayInv, ReadQr \/ QrRead \/ QrAnswered
  PROVE  Sound
  <1> USE GatewayAssumption
  <1>1. UNCHANGED <<gw, op, leaving, faults>>
    BY DEF ReadQr, QrRead, QrAnswered
  <1>2. TypeOK' /\ ReaderInv'
    <2>1. CASE ReadQr
      <3>1. PICK o \in Op : OwnsQr(o) /\ reader' = [NoReader EXCEPT !.op = o]
        BY <2>1 DEF ReadQr
      <3>2. reader'.op = o /\ ~reader'.read /\ reader'.got = NoOp
        BY <3>1 DEF NoReader
      <3>3. reader' \in [op : OpOrNone, read : BOOLEAN, got : OpOrNone]
        BY <3>1 DEF NoReader, OpOrNone
      <3>4. op[o].kind = "login" /\ gw.shown
        BY <3>1 DEF OwnsQr, GatewayInv, SlotInv
      <3> QED
        BY <1>1, <3>2, <3>3, <3>4 DEF GatewayInv, TypeOK, ReaderInv, OwnsQr
    <2>2. CASE QrRead
      <3>1. CASE gw.qr = NoOp
        BY <1>1, <2>2, <3>1 DEF QrRead, NoReader, GatewayInv, TypeOK, ReaderInv, OwnsQr, OpOrNone
      <3>2. CASE gw.qr # NoOp
        <4>1. reader' = [reader EXCEPT !.read = TRUE, !.got = gw.qr]
          BY <2>2, <3>2 DEF QrRead
        <4>2. /\ reader \in [op : OpOrNone, read : BOOLEAN, got : OpOrNone]
              /\ gw.qr \in OpOrNone
          BY DEF GatewayInv, TypeOK, Gateway
        <4>3. /\ reader' \in [op : OpOrNone, read : BOOLEAN, got : OpOrNone]
              /\ reader'.op = reader.op /\ reader'.got = gw.qr
          BY <4>1, <4>2
        <4>4. OwnsQr(reader.op) => gw.qr = reader.op
          BY DEF GatewayInv, SlotInv, OwnsQr
        <4> QED
          BY <1>1, <4>3, <4>4 DEF GatewayInv, TypeOK, ReaderInv, OwnsQr
      <3> QED
        BY <3>1, <3>2
    <2>3. CASE QrAnswered
      BY <1>1, <2>3 DEF QrAnswered, NoReader, GatewayInv, TypeOK, ReaderInv, OwnsQr, OpOrNone
    <2> QED
      BY <2>1, <2>2, <2>3
  <1>3. OneOperation' /\ ListenerIsAccountedFor' /\ HeldInv' /\ SlotInv' /\ BareInv' /\ Installs
    BY <1>1 DEF GatewayInv, OneOperation, ListenerIsAccountedFor, HeldInv, Settled, SlotInv,
                BareInv, Installs
  <1> QED
    BY <1>2, <1>3 DEF GatewayInv, Sound

LEMMA NextSound ==
  ASSUME GatewayInv, Next
  PROVE  Sound
  <1>1. /\ gw \in Gateway
        /\ UNCHANGED <<leaving, reader, faults>> => Beside
    BY DEF GatewayInv, TypeOK, Beside
  <1>2. ASSUME NEW o \in Op, QrExpires(o) PROVE Sound
    BY <1>2, RolledBackSound DEF QrExpires
  <1>3. CASE TimerFindsOperation
    <2> DEFINE g == Retrying(gw)
    <2>1. g \in Gateway /\ Kept(gw, g)
      BY <1>1 DEF Retrying, Gateway, Kept
    <2>2. gw' = Rescheduled(Ended(g)).gw /\ UNCHANGED <<op, leaving, reader, faults>>
      BY <1>3 DEF TimerFindsOperation
    <2> HIDE DEF g
    <2>3. gw' \in {g, ScheduleReconnect(g)}
      BY <2>2 DEF Rescheduled, Ended
    <2>4. gw' \in Gateway /\ Kept(gw, gw')
      BY <2>1, <2>3, Scheduled DEF Kept
    <2> QED
      BY <1>1, <2>2, <2>4, KeptSound
  <1>4. CASE WsDrops \/ WatchdogTick
    <2> DEFINE g == [gw EXCEPT !.active = FALSE]
    <2>1. g \in Gateway /\ Kept(gw, g)
      BY <1>1 DEF Gateway, Kept
    <2>2. gw' = ScheduleReconnect(g) /\ UNCHANGED <<op, leaving, reader, faults>>
      BY <1>4 DEF WsDrops, WatchdogTick
    <2> HIDE DEF g
    <2>3. gw' \in Gateway /\ Kept(gw, gw')
      BY <2>1, <2>2, Scheduled DEF Kept
    <2> QED
      BY <1>1, <2>2, <2>3, KeptSound
  <1>5. CASE LogoutEnds
    <2>1. PICK ok \in BOOLEAN :
             /\ Disk(ok)
             /\ gw' = [gw EXCEPT !.saved = @ /\ ~ok, !.api = NoOp, !.connected = FALSE]
      BY <1>5 DEF LogoutEnds
    <2>2. gw' \in Gateway /\ Kept(gw, gw')
      <3> DEFINE saved == gw.saved /\ ~ok
      <3>1. gw' = [gw EXCEPT !.saved = saved, !.api = NoOp, !.connected = FALSE]
        BY <2>1
      <3>2. saved \in BOOLEAN
        OBVIOUS
      <3> HIDE DEF saved
      <3> QED
        BY <1>1, <3>1, <3>2 DEF Gateway, Kept, OpOrNone
    <2>3. UNCHANGED <<op, reader>> /\ leaving' = FALSE
      BY <1>5 DEF LogoutEnds
    <2>4. Beside
      BY <2>1, <2>3, DiskWorks DEF GatewayInv, Beside
    <2> QED
      BY <2>2, <2>3, <2>4, KeptSound
  <1>6. CASE PersistSession
    <2>1. gw' \in Gateway /\ Kept(gw, gw') /\ UNCHANGED <<op, leaving, reader, faults>>
      BY <1>1, <1>6 DEF PersistSession, Gateway, Kept
    <2> QED
      BY <1>1, <2>1, KeptSound
  <1> QED
    BY <1>2, <1>3, <1>4, <1>5, <1>6, StartSound, OpStepSound, QrShownSound, CancelSound,
       LogoutBeginsSound, ReaderSound DEF Next

LEMMA InitSound == Init => GatewayInv
  <1> SUFFICES ASSUME Init PROVE GatewayInv
    OBVIOUS
  <1> USE GatewayAssumption
  <1>0. op = [o \in Op |-> Idle] /\ leaving = FALSE /\ reader = NoReader /\ faults = 0
    BY DEF Init
  <1>1. PICK s \in BOOLEAN, b \in BOOLEAN :
           gw = [connected |-> FALSE, api |-> NoOp, active |-> FALSE, bound |-> NoOp,
                 login |-> NoLogin, restore |-> NoRestore, timer |-> FALSE, attempt |-> 0,
                 recovery |-> "idle", locked |-> FALSE, open |-> {}, staged |-> {},
                 saved |-> s, backup |-> b, qr |-> NoOp, shown |-> FALSE]
    BY DEF Init
  <1>2. gw \in Gateway
    <2>1. /\ NoLogin \in [op : OpOrNone, live : BOOLEAN, scanned : BOOLEAN]
          /\ NoRestore \in [op : OpOrNone, live : BOOLEAN]
          /\ NoOp \in OpOrNone /\ 0 \in 0 .. MaxAttempts
      BY DEF NoLogin, NoRestore, OpOrNone
    <2> QED
      BY <1>1, <2>1 DEF Gateway
  <1>3. Idle \in Process
    BY DEF Idle, Process, Snapshot, NoSnapshot, OpOrNone, Caller
  <1>4. TypeOK
    <2>1. op \in [Op -> Process]
      BY <1>0, <1>3
    <2>3. leaving \in BOOLEAN
      BY <1>0
    <2>4. faults \in 0 .. MaxFaults
      BY <1>0
    <2>2. reader \in [op : OpOrNone, read : BOOLEAN, got : OpOrNone]
      BY <1>0 DEF NoReader, OpOrNone
    <2> QED
      BY <1>2, <2>1, <2>2, <2>3, <2>4 DEF TypeOK
  <1>5. OneOperation /\ ListenerIsAccountedFor
    BY <1>1 DEF OneOperation, ListenerIsAccountedFor, NoLogin
  <1>6. HeldInv
    BY <1>0, <1>1 DEF HeldInv, Idle, NoSnapshot
  <1>7. SlotInv /\ BareInv
    BY <1>0, <1>1 DEF SlotInv, BareInv, NoLogin, Idle
  <1>8. ReaderInv
    BY <1>0 DEF ReaderInv, NoReader
  <1> QED
    BY <1>4, <1>5, <1>6, <1>7, <1>8 DEF GatewayInv

-----------------------------------------------------------------------------
(* The theorems *)

\* The gateway keeps its invariant: startLogin, restoreSession, their error paths, the
\* timer, the watchdog, a logout and the QR route of zalo-gateway.service.ts, in any order.
THEOREM GatewayInvariant == Spec => []GatewayInv
  <1>1. GatewayInv /\ [Next]_vars => GatewayInv'
    <2> SUFFICES ASSUME GatewayInv, [Next]_vars PROVE GatewayInv'
      OBVIOUS
    <2>1. CASE Next
      BY <2>1, NextSound DEF Sound
    <2>2. CASE UNCHANGED vars
      <3>1. gw' = gw /\ op' = op /\ reader' = reader /\ leaving' = leaving /\ faults' = faults
        BY <2>2 DEF vars
      <3>2. Beside /\ gw' \in Gateway /\ Kept(gw, gw')
        BY <3>1 DEF GatewayInv, TypeOK, Beside, Kept
      <3> QED
        BY <3>1, <3>2, KeptSound DEF Sound
    <2> QED
      BY <2>1, <2>2
  <1> QED
    BY <1>1, InitSound, PTL DEF Spec

\* The fields of the gateway keep their values: no more attempts than configured.
THEOREM GatewayTyped == Spec => []TypeOK
  <1>1. GatewayInv => TypeOK
    BY DEF GatewayInv
  <1> QED
    BY <1>1, GatewayInvariant, PTL

\* A QR login and a restore are never in charge of the gateway together, whoever starts
\* them between whose awaits (zalo-gateway.service.ts, startLogin and restoreSession).
THEOREM OneInCharge == Spec => []OneOperation
  <1>1. GatewayInv => OneOperation
    BY DEF GatewayInv
  <1> QED
    BY <1>1, GatewayInvariant, PTL

\* Every open listener is the bound one or awaited by its operation: no reconnect,
\* cancellation, logout or rollback leaves one behind that nobody stops.
THEOREM ListenersAccountedFor == Spec => []ListenerIsAccountedFor
  <1>1. GatewayInv => ListenerIsAccountedFor
    BY DEF GatewayInv
  <1> QED
    BY <1>1, GatewayInvariant, PTL

\* readCurrentQr answers with the code of the login in charge, or with none.
THEOREM CurrentQr == Spec => []QrIsCurrent
  <1>1. GatewayInv => QrIsCurrent
    BY DEF GatewayInv, SlotInv, ReaderInv, QrIsCurrent, QrAnswer, OwnsQr
  <1> QED
    BY <1>1, GatewayInvariant, PTL

\* An operation that was cancelled, superseded or logged out never installs its client,
\* whatever its awaits return later.
THEOREM RevokedInstallsNothing == Spec => RevokedNeverInstalls
  <1>1. GatewayInv /\ [Next]_vars =>
           [\A o \in Op : Revoked(o) /\ gw'.bound = o => gw.bound = o]_vars
    <2> SUFFICES ASSUME GatewayInv, Next, NEW o \in Op, Revoked(o), gw'.bound = o
                 PROVE  gw.bound = o
      OBVIOUS
    <2>1. Installs
      BY NextSound DEF Sound
    <2>2. ~Settled(o)
      BY DEF Revoked, Settled
    <2>3. ~Current(o)
      BY DEF Revoked, Current
    <2> QED
      BY <2>1, <2>2, <2>3, GatewayAssumption DEF Installs
  <1> QED
    BY <1>1, GatewayInvariant, PTL DEF RevokedNeverInstalls, Spec
=============================================================================
