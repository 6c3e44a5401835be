--------------------------- MODULE OutboundProofs ---------------------------
(***************************************************************************)
(* Proofs about Outbound, for every set of dispatches, keys, sessions,     *)
(* threads and intents, finite or not, any number of parts, crashes and    *)
(* database errors: what a key promises, under which live-test session a   *)
(* message may reach Zalo, how many a session can confirm, and that the    *)
(* success of a dry_run_only dispatch stays provable.                      *)
(***************************************************************************)
EXTENDS Outbound, FiniteSetTheorems, TLAPS

-----------------------------------------------------------------------------
(* Type correctness *)

LEMMA InitTyped == Init => TypeOK
  <1> SUFFICES ASSUME Init PROVE TypeOK
    OBVIOUS
  <1> USE LiveTestAssumption, OutboundAssumption DEF Init
  <1>1. session \in [Session -> Row]
    <2>1. ASSUME NEW s \in Session PROVE session[s] \in Row
      <3>1. PICK t \in Thread, q \in Quota :
               session[s] = [status |-> "absent", thread |-> t, maxMessages |-> q,
                             sentCount |-> 0, due |-> FALSE]
        BY DEF LiveTestInit
      <3> QED
        BY <3>1 DEF Row
    <2> QED
      BY <2>1 DEF LiveTestInit
  <1>2. LiveTestTypeOK
    BY <1>1 DEF LiveTestInit, LiveTestTypeOK, StarterState
  <1>3. SomeJob \in Job
    BY DEF SomeJob
  <1>4. dispatch \in [Dispatch -> DispatchState]
    BY <1>3 DEF DispatchState, Pc, Outcome, Result
  <1>5. record \in [Key -> RecordRow]
    BY DEF RecordRow, Reason
  <1>6. message \in [Dispatch -> MessageRow]
    BY DEF MessageRow
  <1>7. accepted \in [Dispatch -> 0 .. Parts]
    OBVIOUS
  <1>8. cooldown \in [Thread -> CooldownRow]
    BY DEF CooldownRow
  <1> QED
    BY <1>2, <1>4, <1>5, <1>6, <1>7, <1>8 DEF TypeOK

\* A write of one column of one session row (of no row, if s is not one).
LEMMA SessionWriteTyped ==
  ASSUME session \in [Session -> Row], NEW s
  PROVE  /\ \A status \in {"absent", "active"} \cup Terminal :
               Closed(s, status) \in [Session -> Row]
         /\ [session EXCEPT ![s].due = TRUE] \in [Session -> Row]
         /\ Counted(s) \in [Session -> Row]
  <1>1. ASSUME NEW status \in {"absent", "active"} \cup Terminal
        PROVE  Closed(s, status) \in [Session -> Row]
    BY DEF Row, Closed, Terminal
  <1>2. [session EXCEPT ![s].due = TRUE] \in [Session -> Row]
    BY DEF Row
  <1>3. Counted(s) \in [Session -> Row]
    <2>1. CASE s \in Session
      <3>1. session[s] \in Row /\ session[s].sentCount \in Nat
        BY <2>1 DEF Row
      <3>2. [session[s] EXCEPT !.sentCount = @ + 1] \in Row
        BY <3>1 DEF Row
      <3> QED
        BY <2>1, <3>2 DEF Counted
    <2>2. CASE s \notin Session
      BY <2>2 DEF Counted
    <2> QED
      BY <2>1, <2>2
  <1> QED
    BY <1>1, <1>2, <1>3

\* The part of the state that the admin requests own.
LEMMA AdminTyped == LiveTestTypeOK /\ AdminStep => LiveTestTypeOK'
  <1> SUFFICES ASSUME LiveTestTypeOK, AdminStep PROVE LiveTestTypeOK'
    OBVIOUS
  <1> USE LiveTestAssumption DEF LiveTestTypeOK, DbOk, DbError
  <1>0. startQueue # << >> => Tail(startQueue) \in Seq(Starter)
    OBVIOUS
  <1>1. ASSUME NEW a \in Starter, StartGuards(a) PROVE LiveTestTypeOK'
    <2>1. starter' \in [Starter -> StarterState]
      BY <1>1 DEF StartGuards, StarterState
    <2>2. startQueue' \in Seq(Starter)
      BY <1>1 DEF StartGuards
    <2> QED
      BY <1>1, <2>1, <2>2 DEF StartGuards
  <1>2. ASSUME NEW a \in Starter, StartExpires(a) PROVE LiveTestTypeOK'
    <2>1. ExpireActiveSessions \in [Session -> Row]
      BY DEF ExpireActiveSessions, Row, Terminal
    <2>2. starter' \in [Starter -> StarterState]
      BY <1>2 DEF StartExpires, LeaveStartLock, StarterState
    <2>3. session' \in [Session -> Row]
      BY <1>2, <2>1 DEF StartExpires
    <2>4. startQueue' \in Seq(Starter)
      BY <1>0, <1>2 DEF StartExpires, LeaveStartLock, HoldsStartLock
    <2>5. faults' \in 0 .. MaxFaults
      BY <1>2 DEF StartExpires
    <2> QED
      BY <1>2, <2>2, <2>3, <2>4, <2>5 DEF StartExpires
  <1>3. ASSUME NEW a \in Starter, StartFindsActive(a) PROVE LiveTestTypeOK'
    <2>1. starter' \in [Starter -> StarterState]
      BY <1>3 DEF StartFindsActive, LeaveStartLock, StarterState
    <2>2. startQueue' \in Seq(Starter)
      BY <1>0, <1>3 DEF StartFindsActive, LeaveStartLock, HoldsStartLock
    <2> QED
      BY <1>3, <2>1, <2>2 DEF StartFindsActive
  <1>4. ASSUME NEW a \in Starter, StartCreates(a) PROVE LiveTestTypeOK'
    <2>1. session' \in [Session -> Row]
      <3>1. CASE UNCHANGED session
        BY <3>1
      <3>2. CASE \E s \in Session : session' = Closed(s, "active")
        <4>1. PICK s \in Session : session' = Closed(s, "active")
          BY <3>2
        <4>2. Closed(s, "active") \in [Session -> Row]
          BY SessionWriteTyped
        <4> QED
          BY <4>1, <4>2
      <3> QED
        <4>1. UNCHANGED session \/ \E s \in Session : session' = Closed(s, "active")
          BY <1>4, SMT DEF StartCreates, Closed
        <4> QED
          BY <4>1, <3>1, <3>2
    <2>2. starter' \in [Starter -> StarterState]
      BY <1>4 DEF StartCreates, LeaveStartLock, StarterState
    <2>3. startQueue' \in Seq(Starter)
      BY <1>0, <1>4 DEF StartCreates, LeaveStartLock, HoldsStartLock
    <2> QED
      BY <1>4, <2>1, <2>2, <2>3 DEF StartCreates
  <1>5. ASSUME NEW b \in Stopper, StopFinds(b) PROVE LiveTestTypeOK'
    BY <1>5 DEF StopFinds
  <1>6. ASSUME NEW b \in Stopper, StopCancels(b) PROVE LiveTestTypeOK'
    <2>1. session' \in [Session -> Row]
      <3>1. CASE UNCHANGED session
        BY <3>1
      <3>2. CASE \E s \in Session : session' = Closed(s, "cancelled")
        <4>1. PICK s \in Session : session' = Closed(s, "cancelled")
          BY <3>2
        <4>2. Closed(s, "cancelled") \in [Session -> Row]
          BY SessionWriteTyped DEF Terminal
        <4> QED
          BY <4>1, <4>2
      <3> QED
        <4>1. UNCHANGED session \/ \E s \in Session : session' = Closed(s, "cancelled")
          BY <1>6, SMT DEF StopCancels, Closed
        <4> QED
          BY <4>1, <3>1, <3>2
    <2>2. stopper' \in [Stopper -> [pc : {"idle", "cancel", "done"}, todo : SUBSET Session]]
      BY <1>6 DEF StopCancels
    <2> QED
      BY <1>6, <2>1, <2>2 DEF StopCancels
  <1>7. ASSUME NEW s \in Session, TtlPasses(s) PROVE LiveTestTypeOK'
    BY <1>7, SessionWriteTyped DEF TtlPasses
  <1> QED
    BY <1>1, <1>2, <1>3, <1>4, <1>5, <1>6, <1>7 DEF AdminStep

LEMMA CrashTyped == LiveTestTypeOK /\ LiveTestCrash => LiveTestTypeOK'
  BY LiveTestAssumption DEF LiveTestTypeOK, LiveTestCrash, StarterState

-----------------------------------------------------------------------------
(* Which actions of a dispatch write which variable *)

Frame(d) ==
    /\ UNCHANGED cooldown \/ AcquireCooldown(d) \/ SetCooldown(d)
    /\ UNCHANGED record \/ Reserve(d) \/ DryRecord(d) \/ Settle(d)
    /\ UNCHANGED message \/ WriteMessage(d) \/ DryMessage(d) \/ NoteMessage(d)
    /\ UNCHANGED noting \/ DryRecord(d) \/ Settle(d) \/ NoteMessage(d)
    /\ UNCHANGED accounting \/ ProviderAccepts(d) \/ CountSent(d) \/ CompleteSession(d)
    /\ UNCHANGED accepted \/ ProviderAccepts(d) \/ ProviderFails(d)
    /\ UNCHANGED session \/ DispatcherCloses(d) \/ SenderCloses(d)
                         \/ CountSent(d) \/ CompleteSession(d)
    /\ UNCHANGED <<starter, startQueue, stopper, crashes>>
    /\ DbOk \/ DbError

LEMMA DispatchFrame ==
  ASSUME NEW d \in Dispatch, Call(d) \/ Advance(d) \/ Background(d)
  PROVE  Frame(d)
  <1>1. CASE AcquireCooldown(d)
    BY <1>1, Zenon DEF Frame, AcquireCooldown
  <1>2. CASE DispatcherGate(d)
    BY <1>2, Zenon DEF Frame, DispatcherGate
  <1>3. CASE DispatcherCloses(d)
    BY <1>3, Zenon DEF Frame, DispatcherCloses
  <1>4. CASE LookUp(d)
    BY <1>4, Zenon DEF Frame, LookUp
  <1>5. CASE StrictReplay(d)
    BY <1>5, Zenon DEF Frame, StrictReplay
  <1>6. CASE Reserve(d)
    BY <1>6, Zenon DEF Frame, Reserve
  <1>7. CASE WriteMessage(d)
    BY <1>7, Zenon DEF Frame, WriteMessage
  <1>8. CASE DryMessage(d)
    BY <1>8, Zenon DEF Frame, DryMessage
  <1>9. CASE DryRecord(d)
    BY <1>9, Zenon DEF Frame, DryRecord
  <1>10. CASE SenderGate(d)
    BY <1>10, Zenon DEF Frame, SenderGate
  <1>11. CASE SenderCloses(d)
    BY <1>11, Zenon DEF Frame, SenderCloses
  <1>12. CASE SenderRefuses(d)
    BY <1>12, Zenon DEF Frame, SenderRefuses, liveTestVars, DbOk
  <1>13. CASE ProviderAccepts(d)
    BY <1>13, Zenon DEF Frame, ProviderAccepts, liveTestVars, DbOk
  <1>14. CASE ProviderFails(d)
    BY <1>14, Zenon DEF Frame, ProviderFails, liveTestVars, DbOk
  <1>15. CASE Settle(d)
    BY <1>15, Zenon DEF Frame, Settle
  <1>16. CASE SetCooldown(d)
    BY <1>16, Zenon DEF Frame, SetCooldown
  <1>17. CASE CountSent(d)
    BY <1>17, Zenon DEF Frame, CountSent
  <1>18. CASE CompleteSession(d)
    BY <1>18, Zenon DEF Frame, CompleteSession
  <1>19. CASE NoteMessage(d)
    BY <1>19, Zenon DEF Frame, NoteMessage
  <1>20. CASE Call(d)
    BY <1>20, Zenon DEF Frame, Call, liveTestVars, DbOk
  <1> QED
    BY <1>1, <1>2, <1>3, <1>4, <1>5, <1>6, <1>7, <1>8, <1>9, <1>10, <1>11, <1>12, <1>13, <1>14, <1>15, <1>16, <1>17, <1>18, <1>19, <1>20 DEF Advance, Background

-----------------------------------------------------------------------------
(* Type correctness of the steps of a dispatch *)

\* Every action of a dispatch types the part of LiveTest.
LEMMA DispatchTyped ==
  ASSUME TypeOK, NEW d \in Dispatch, Call(d) \/ Advance(d) \/ Background(d)
  PROVE  LiveTestTypeOK'
  <1>f. Frame(d)
    BY DispatchFrame
  <1>1. session' \in [Session -> Row]
    <2>1. session \in [Session -> Row] /\ dispatch[d].closeAs \in {"expired", "completed"}
      BY DEF TypeOK, LiveTestTypeOK, DispatchState
    <2>2. \A s : \A status \in {"absent", "active"} \cup Terminal :
              Closed(s, status) \in [Session -> Row] /\ Counted(s) \in [Session -> Row]
      BY <2>1, SessionWriteTyped
    <2>3. CASE DispatcherCloses(d)
      BY <2>1, <2>2, <2>3 DEF DispatcherCloses, Terminal
    <2>4. CASE SenderCloses(d)
      BY <2>1, <2>2, <2>4 DEF SenderCloses, Terminal
    <2>5. CASE CountSent(d) \/ CompleteSession(d)
      BY <2>1, <2>2, <2>5 DEF CountSent, CompleteSession, Terminal
    <2> QED
      BY <1>f, <2>1, <2>3, <2>4, <2>5 DEF Frame
  <1>2. faults' \in 0 .. MaxFaults
    BY <1>f, LiveTestAssumption DEF Frame, DbOk, DbError, TypeOK, LiveTestTypeOK
  <1> QED
    BY <1>f, <1>1, <1>2 DEF Frame, TypeOK, LiveTestTypeOK

\* Writes to the local state of a dispatch keep its type, one lemma per shape.
LEMMA GotoTyped ==
  ASSUME dispatch \in [Dispatch -> DispatchState], NEW d \in Dispatch, NEW pc \in Pc,
         Goto(d, pc)
  PROVE  dispatch' \in [Dispatch -> DispatchState]
  <1> DEFINE x == [dispatch[d] EXCEPT !.pc = pc]
  <1>1. dispatch[d] \in DispatchState
    OBVIOUS
  <1>2. x \in DispatchState
    BY <1>1 DEF DispatchState
  <1>3. dispatch' = [dispatch EXCEPT ![d] = x]
    BY <1>1 DEF Goto
  <1> HIDE DEF x
  <1> QED
    BY <1>2, <1>3

LEMMA ReturnTyped ==
  ASSUME dispatch \in [Dispatch -> DispatchState], NEW d \in Dispatch, NEW result \in Result,
         Return(d, result)
  PROVE  dispatch' \in [Dispatch -> DispatchState]
  <1> DEFINE x == [dispatch[d] EXCEPT !.pc = "done", !.result = result]
  <1>1. dispatch[d] \in DispatchState
    OBVIOUS
  <1>2. x \in DispatchState
    BY <1>1 DEF DispatchState, Pc
  <1>3. dispatch' = [dispatch EXCEPT ![d] = x]
    BY <1>1 DEF Return
  <1> HIDE DEF x
  <1> QED
    BY <1>2, <1>3

LEMMA StrictFailureTyped ==
  ASSUME dispatch \in [Dispatch -> DispatchState], NEW d \in Dispatch, StrictFailure(d)
  PROVE  dispatch' \in [Dispatch -> DispatchState]
  BY ReturnTyped DEF StrictFailure, Result

LEMMA OutcomeTyped ==
  ASSUME dispatch \in [Dispatch -> DispatchState], NEW d \in Dispatch, NEW pc \in Pc, NEW outcome \in Outcome,
         dispatch' = [dispatch EXCEPT ![d].pc = pc, ![d].outcome = outcome]
  PROVE  dispatch' \in [Dispatch -> DispatchState]
  <1> DEFINE x == [dispatch[d] EXCEPT !.pc = pc, !.outcome = outcome]
  <1>1. dispatch[d] \in DispatchState
    OBVIOUS
  <1>2. x \in DispatchState
    BY <1>1 DEF DispatchState
  <1>3. dispatch' = [dispatch EXCEPT ![d] = x]
    BY <1>1
  <1> HIDE DEF x
  <1> QED
    BY <1>2, <1>3

LEMMA PlanTyped ==
  ASSUME dispatch \in [Dispatch -> DispatchState], NEW d \in Dispatch, NEW pc \in Pc, NEW s \in Session,
         dispatch' = [dispatch EXCEPT ![d].pc = pc, ![d].plan = s]
  PROVE  dispatch' \in [Dispatch -> DispatchState]
  <1> DEFINE x == [dispatch[d] EXCEPT !.pc = pc, !.plan = s]
  <1>1. dispatch[d] \in DispatchState
    OBVIOUS
  <1>2. x \in DispatchState
    BY <1>1 DEF DispatchState
  <1>3. dispatch' = [dispatch EXCEPT ![d] = x]
    BY <1>1
  <1> HIDE DEF x
  <1> QED
    BY <1>2, <1>3

LEMMA AuthTyped ==
  ASSUME dispatch \in [Dispatch -> DispatchState], NEW d \in Dispatch, NEW pc \in Pc, NEW s \in Session,
         dispatch' = [dispatch EXCEPT ![d].pc = pc, ![d].auth = s]
  PROVE  dispatch' \in [Dispatch -> DispatchState]
  <1> DEFINE x == [dispatch[d] EXCEPT !.pc = pc, !.auth = s]
  <1>1. dispatch[d] \in DispatchState
    OBVIOUS
  <1>2. x \in DispatchState
    BY <1>1 DEF DispatchState
  <1>3. dispatch' = [dispatch EXCEPT ![d] = x]
    BY <1>1
  <1> HIDE DEF x
  <1> QED
    BY <1>2, <1>3

LEMMA StaleTyped ==
  ASSUME dispatch \in [Dispatch -> DispatchState], NEW d \in Dispatch, NEW pc \in Pc, NEW s \in Session,
         dispatch' = [dispatch EXCEPT ![d].pc = pc, ![d].stale = s, ![d].closeAs = SpentAs(s)]
  PROVE  dispatch' \in [Dispatch -> DispatchState]
  <1> DEFINE x == [dispatch[d] EXCEPT !.pc = pc, !.stale = s, !.closeAs = SpentAs(s)]
  <1>1. dispatch[d] \in DispatchState
    OBVIOUS
  <1>2. x \in DispatchState
    BY <1>1 DEF DispatchState, SpentAs
  <1>3. dispatch' = [dispatch EXCEPT ![d] = x]
    BY <1>1
  <1> HIDE DEF x
  <1> QED
    BY <1>2, <1>3

LEMMA OwnedTyped ==
  ASSUME dispatch \in [Dispatch -> DispatchState], NEW d \in Dispatch,
         dispatch' = [dispatch EXCEPT ![d].pc = "write", ![d].owned = TRUE]
  PROVE  dispatch' \in [Dispatch -> DispatchState]
  <1> DEFINE x == [dispatch[d] EXCEPT !.pc = "write", !.owned = TRUE]
  <1>1. dispatch[d] \in DispatchState
    OBVIOUS
  <1>2. x \in DispatchState
    BY <1>1 DEF DispatchState, Pc
  <1>3. dispatch' = [dispatch EXCEPT ![d] = x]
    BY <1>1
  <1> HIDE DEF x
  <1> QED
    BY <1>2, <1>3

LEMMA AcceptedCallTyped ==
  ASSUME dispatch \in [Dispatch -> DispatchState], NEW d \in Dispatch, NEW j \in Job,
         dispatch' = [dispatch EXCEPT ![d].pc = "begin", ![d].job = j]
  PROVE  dispatch' \in [Dispatch -> DispatchState]
  <1> DEFINE x == [dispatch[d] EXCEPT !.pc = "begin", !.job = j]
  <1>1. dispatch[d] \in DispatchState
    OBVIOUS
  <1>2. x \in DispatchState
    BY <1>1 DEF DispatchState, Pc
  <1>3. dispatch' = [dispatch EXCEPT ![d] = x]
    BY <1>1
  <1> HIDE DEF x
  <1> QED
    BY <1>2, <1>3

LEMMA RefusedCallTyped ==
  ASSUME dispatch \in [Dispatch -> DispatchState], NEW d \in Dispatch, NEW j \in Job,
         dispatch' = [dispatch EXCEPT ![d].pc = "done", ![d].job = j, ![d].result = "refused"]
  PROVE  dispatch' \in [Dispatch -> DispatchState]
  <1> DEFINE x == [dispatch[d] EXCEPT !.pc = "done", !.job = j, !.result = "refused"]
  <1>1. dispatch[d] \in DispatchState
    OBVIOUS
  <1>2. x \in DispatchState
    BY <1>1 DEF DispatchState, Pc, Result
  <1>3. dispatch' = [dispatch EXCEPT ![d] = x]
    BY <1>1
  <1> HIDE DEF x
  <1> QED
    BY <1>2, <1>3

\* One step for each action of a dispatch, and under it one per shape it writes.
LEMMA DispatchStateTyped ==
  ASSUME TypeOK, NEW d \in Dispatch, Call(d) \/ Advance(d) \/ Background(d)
  PROVE  dispatch' \in [Dispatch -> DispatchState]
  <1>0. dispatch \in [Dispatch -> DispatchState]
    BY DEF TypeOK
  <1>p. /\ {"gate", "closing", "replay", "reserve", "write", "dryRecord", "settle", "cool",
            "senderClosing", "send"} \subseteq Pc
        /\ AfterGate(d) \in Pc /\ AfterWrite(d) \in Pc
    BY DEF Pc, AfterGate, AfterWrite
  <1>r. /\ {"cooldown", "duplicate", "thrown", "dry_run", "live_test", "send_failed"}
              \subseteq Result
        /\ {"none", "dry", "failed", "ok"} \subseteq Outcome
    BY DEF Result, Outcome
  <1>1. CASE Call(d)
    <2>1. CASE \E j \in Job : dispatch' = [dispatch EXCEPT ![d].pc = "begin", ![d].job = j]
      <3>1. PICK j \in Job : dispatch' = [dispatch EXCEPT ![d].pc = "begin", ![d].job = j]
        BY <2>1
      <3> QED
        BY <1>0, <1>p, <3>1, AcceptedCallTyped
    <2>2. CASE \E j \in Job : dispatch' = [dispatch EXCEPT ![d].pc = "done", ![d].job = j, ![d].result = "refused"]
      <3>1. PICK j \in Job : dispatch' = [dispatch EXCEPT ![d].pc = "done", ![d].job = j, ![d].result = "refused"]
        BY <2>2
      <3> QED
        BY <1>0, <1>p, <3>1, RefusedCallTyped
    <2> QED
      BY <1>1, <2>1, <2>2 DEF Call
  <1>2. CASE AcquireCooldown(d)
    <2>1. CASE Return(d, "cooldown")
      BY <2>1, <1>0, <1>r, ReturnTyped
    <2>2. CASE Return(d, "thrown")
      BY <2>2, <1>0, <1>r, ReturnTyped
    <2>3. CASE Goto(d, AfterGate(d))
      BY <2>3, <1>0, <1>p, GotoTyped
    <2>4. CASE Goto(d, "gate")
      BY <2>4, <1>0, <1>p, GotoTyped
    <2> QED
      BY <1>2, <2>1, <2>2, <2>3, <2>4 DEF AcquireCooldown
  <1>3. CASE DispatcherGate(d)
    <2>1. CASE Goto(d, AfterGate(d))
      BY <2>1, <1>0, <1>p, GotoTyped
    <2>2. CASE \E s \in Session : dispatch' = [dispatch EXCEPT ![d].pc = "closing", ![d].stale = s, ![d].closeAs = SpentAs(s)]
      <3>1. PICK s \in Session : dispatch' = [dispatch EXCEPT ![d].pc = "closing", ![d].stale = s, ![d].closeAs = SpentAs(s)]
        BY <2>2
      <3> QED
        BY <1>0, <1>p, <3>1, StaleTyped
    <2>3. CASE \E s \in Session : dispatch' = [dispatch EXCEPT ![d].pc = AfterGate(d), ![d].plan = s]
      <3>1. PICK s \in Session : dispatch' = [dispatch EXCEPT ![d].pc = AfterGate(d), ![d].plan = s]
        BY <2>3
      <3> QED
        BY <1>0, <1>p, <3>1, PlanTyped
    <2> QED
      BY <1>3, <2>1, <2>2, <2>3 DEF DispatcherGate, ActiveFor
  <1>4. CASE DispatcherCloses(d)
    <2>1. CASE Goto(d, AfterGate(d))
      BY <2>1, <1>0, <1>p, GotoTyped
    <2> QED
      BY <1>4, <2>1 DEF DispatcherCloses
  <1>5. CASE LookUp(d)
    <2>1. CASE Goto(d, "replay")
      BY <2>1, <1>0, <1>p, GotoTyped
    <2>2. CASE Goto(d, "reserve")
      BY <2>2, <1>0, <1>p, GotoTyped
    <2>3. CASE Return(d, "duplicate")
      BY <2>3, <1>0, <1>r, ReturnTyped
    <2>4. CASE StrictFailure(d)
      BY <2>4, <1>0, StrictFailureTyped
    <2> QED
      BY <1>5, <2>1, <2>2, <2>3, <2>4 DEF LookUp
  <1>6. CASE StrictReplay(d)
    <2>1. CASE Return(d, "duplicate")
      BY <2>1, <1>0, <1>r, ReturnTyped
    <2>2. CASE StrictFailure(d)
      BY <2>2, <1>0, StrictFailureTyped
    <2> QED
      BY <1>6, <2>1, <2>2 DEF StrictReplay
  <1>7. CASE Reserve(d)
    <2>1. CASE Goto(d, "replay")
      BY <2>1, <1>0, <1>p, GotoTyped
    <2>2. CASE Goto(d, "write")
      BY <2>2, <1>0, <1>p, GotoTyped
    <2>3. CASE Return(d, "duplicate")
      BY <2>3, <1>0, <1>r, ReturnTyped
    <2>4. CASE StrictFailure(d)
      BY <2>4, <1>0, StrictFailureTyped
    <2>5. CASE dispatch' = [dispatch EXCEPT ![d].pc = "write", ![d].owned = TRUE]
      BY <2>5, <1>0, OwnedTyped
    <2> QED
      BY <1>7, <2>1, <2>2, <2>3, <2>4, <2>5 DEF Reserve
  <1>8. CASE WriteMessage(d)
    <2>1. CASE StrictFailure(d)
      BY <2>1, <1>0, StrictFailureTyped
    <2>2. CASE Proceed(d)
      <3>1. (IF Live(d) /\ IsText(d) THEN "none" ELSE "dry") \in Outcome
        BY DEF Outcome
      <3> QED
        BY <1>0, <1>p, <2>2, <3>1, OutcomeTyped DEF Proceed
    <2> QED
      BY <1>8, <2>1, <2>2 DEF WriteMessage
  <1>9. CASE DryMessage(d)
    <2>1. CASE Goto(d, "dryRecord")
      BY <2>1, <1>0, <1>p, GotoTyped
    <2>2. CASE StrictFailure(d)
      BY <2>2, <1>0, StrictFailureTyped
    <2> QED
      BY <1>9, <2>1, <2>2 DEF DryMessage
  <1>10. CASE DryRecord(d)
    <2>1. CASE Goto(d, "cool")
      BY <2>1, <1>0, <1>p, GotoTyped
    <2>2. CASE StrictFailure(d)
      BY <2>2, <1>0, StrictFailureTyped
    <2> QED
      BY <1>10, <2>1, <2>2 DEF DryRecord
  <1>11. CASE SenderGate(d)
    <2>1. CASE dispatch' = [dispatch EXCEPT ![d].pc = "settle", ![d].outcome = "dry"]
      BY <2>1, <1>0, <1>p, <1>r, OutcomeTyped
    <2>2. CASE \E s \in Session : dispatch' = [dispatch EXCEPT ![d].pc = "senderClosing", ![d].stale = s, ![d].closeAs = SpentAs(s)]
      <3>1. PICK s \in Session : dispatch' = [dispatch EXCEPT ![d].pc = "senderClosing", ![d].stale = s, ![d].closeAs = SpentAs(s)]
        BY <2>2
      <3> QED
        BY <1>0, <1>p, <3>1, StaleTyped
    <2>3. CASE \E s \in Session : dispatch' = [dispatch EXCEPT ![d].pc = "send", ![d].auth = s]
      <3>1. PICK s \in Session : dispatch' = [dispatch EXCEPT ![d].pc = "send", ![d].auth = s]
        BY <2>3
      <3> QED
        BY <1>0, <1>p, <3>1, AuthTyped
    <2> QED
      BY <1>11, <2>1, <2>2, <2>3 DEF SenderGate, ActiveFor
  <1>12. CASE SenderCloses(d)
    <2>1. CASE dispatch' = [dispatch EXCEPT ![d].pc = "settle", ![d].outcome = "dry"]
      BY <2>1, <1>0, <1>p, <1>r, OutcomeTyped
    <2> QED
      BY <1>12, <2>1 DEF SenderCloses
  <1>13. CASE SenderRefuses(d)
    <2>1. CASE dispatch' = [dispatch EXCEPT ![d].pc = "settle", ![d].outcome = "failed"]
      BY <2>1, <1>0, <1>p, <1>r, OutcomeTyped
    <2> QED
      BY <1>13, <2>1 DEF SenderRefuses
  <1>14. CASE ProviderAccepts(d)
    <2>1. CASE dispatch' = [dispatch EXCEPT ![d].pc = "settle", ![d].outcome = "ok"]
      BY <2>1, <1>0, <1>p, <1>r, OutcomeTyped
    <2>2. CASE UNCHANGED dispatch
      BY <2>2, <1>0
    <2> QED
      BY <1>14, <2>1, <2>2 DEF ProviderAccepts
  <1>15. CASE ProviderFails(d)
    <2>1. CASE dispatch' = [dispatch EXCEPT ![d].pc = "settle", ![d].outcome = "failed"]
      BY <2>1, <1>0, <1>p, <1>r, OutcomeTyped
    <2> QED
      BY <1>15, <2>1 DEF ProviderFails
  <1>16. CASE Settle(d)
    <2>1. CASE Goto(d, "cool")
      BY <2>1, <1>0, <1>p, GotoTyped
    <2> QED
      BY <1>16, <2>1 DEF Settle
  <1>17. CASE SetCooldown(d)
    <2>1. CASE Return(d, "dry_run")
      BY <2>1, <1>0, <1>r, ReturnTyped
    <2>2. CASE Return(d, "send_failed")
      BY <2>2, <1>0, <1>r, ReturnTyped
    <2>3. CASE Return(d, "live_test")
      BY <2>3, <1>0, <1>r, ReturnTyped
    <2> QED
      BY <1>17, <2>1, <2>2, <2>3 DEF SetCooldown
  <1>18. CASE Background(d)
    BY <1>0, <1>18 DEF Background, CountSent, CompleteSession, NoteMessage
  <1> QED
    BY <1>1, <1>2, <1>3, <1>4, <1>5, <1>6, <1>7, <1>8, <1>9, <1>10, <1>11, <1>12, <1>13, <1>14, <1>15, <1>16, <1>17, <1>18 DEF Advance

-----------------------------------------------------------------------------
(* Type correctness of the outbound variables *)

LEMMA CooldownHeld ==
  ASSUME cooldown \in [Thread -> CooldownRow], NEW t \in Thread
  PROVE  [cooldown EXCEPT ![t].held = TRUE] \in [Thread -> CooldownRow]
  <1> DEFINE row == [cooldown[t] EXCEPT !.held = TRUE]
  <1>1. row \in CooldownRow
    BY DEF CooldownRow
  <1>2. [cooldown EXCEPT ![t].held = TRUE] = [cooldown EXCEPT ![t] = row]
    OBVIOUS
  <1> HIDE DEF row
  <1> QED
    BY <1>1, <1>2

LEMMA OutboundTyped ==
  ASSUME TypeOK, NEW d \in Dispatch, Call(d) \/ Advance(d) \/ Background(d)
  PROVE  /\ cooldown' \in [Thread -> CooldownRow]
         /\ record' \in [Key -> RecordRow]
         /\ message' \in [Dispatch -> MessageRow]
         /\ noting' \in SUBSET Dispatch
         /\ accounting' \in [Dispatch -> {"none", "count", "complete"}]
         /\ accepted' \in [Dispatch -> 0 .. Parts]
  <1> USE OutboundAssumption
  <1>f. Frame(d)
    BY DispatchFrame
  <1>t. /\ dispatch[d] \in DispatchState /\ cooldown \in [Thread -> CooldownRow]
        /\ record \in [Key -> RecordRow] /\ message \in [Dispatch -> MessageRow]
        /\ noting \in SUBSET Dispatch
        /\ accounting \in [Dispatch -> {"none", "count", "complete"}]
        /\ accepted \in [Dispatch -> 0 .. Parts]
    BY DEF TypeOK
  <1>j. JobOf(d).thread \in Thread
    BY <1>t DEF JobOf, DispatchState, OutboundAssumption
  <1>1. cooldown' \in [Thread -> CooldownRow]
    <2>1. CASE AcquireCooldown(d)
      <3>1. \/ UNCHANGED cooldown
            \/ cooldown' = [cooldown EXCEPT ![JobOf(d).thread].held = TRUE]
        BY <2>1 DEF AcquireCooldown
      <3> QED
        BY <1>t, <1>j, <3>1, CooldownHeld
    <2>2. CASE SetCooldown(d)
      <3>1. \/ UNCHANGED cooldown
            \/ cooldown' = [cooldown EXCEPT ![JobOf(d).thread].held = TRUE]
        BY <2>2 DEF SetCooldown
      <3> QED
        BY <1>t, <1>j, <3>1, CooldownHeld
    <2> QED
      BY <1>f, <1>t, <2>1, <2>2 DEF Frame
  <1>2. record' \in [Key -> RecordRow]
    <2>1. CASE Reserve(d)
      <3> DEFINE row == [reason |-> "reserved", sentId |-> NoDispatch,
                         dryRun |-> ~Live(d), owner |-> d]
      <3>1. row \in RecordRow
        BY DEF RecordRow, Reason, Live
      <3>2. UNCHANGED record \/ record' = [record EXCEPT ![KeyOf(d)] = row]
        BY <2>1 DEF Reserve
      <3> HIDE DEF row
      <3> QED
        BY <1>t, <3>1, <3>2
    <2>2. ASSUME NEW reason \in Reason, NEW sentId \in Dispatch \cup {NoDispatch}
          PROVE  [record EXCEPT ![KeyOf(d)] = [@ EXCEPT !.reason = reason, !.sentId = sentId]]
                    \in [Key -> RecordRow]
      <3>1. CASE KeyOf(d) \in Key
        <4> DEFINE row == [record[KeyOf(d)] EXCEPT !.reason = reason, !.sentId = sentId]
        <4>1. record[KeyOf(d)] \in RecordRow
          BY <1>t, <3>1
        <4>2. row \in RecordRow
          BY <4>1 DEF RecordRow
        <4> HIDE DEF row
        <4>3. [record EXCEPT ![KeyOf(d)] = row] \in [Key -> RecordRow]
          BY <1>t, <4>2
        <4> QED
          BY <4>3, Zenon DEF row
      <3>2. CASE KeyOf(d) \notin Key
        BY <1>t, <3>2
      <3> QED
        BY <3>1, <3>2
    <2>3. CASE DryRecord(d)
      <3>1. \/ record' = [record EXCEPT ![KeyOf(d)] =
                              [@ EXCEPT !.reason = "dry_run", !.sentId = d]]
            \/ UNCHANGED record
        BY <2>3, Zenon DEF DryRecord
      <3>2. [record EXCEPT ![KeyOf(d)] = [@ EXCEPT !.reason = "dry_run", !.sentId = d]]
               \in [Key -> RecordRow]
        BY <2>2 DEF Reason
      <3> QED
        BY <1>t, <3>1, <3>2, Zenon
    <2>4. CASE Settle(d)
      <3> DEFINE reason == IF dispatch[d].outcome = "failed" THEN "send_failed" ELSE "live_test"
      <3>1. \/ record' = [record EXCEPT ![KeyOf(d)] =
                              [@ EXCEPT !.reason = reason, !.sentId = SentId(d)]]
            \/ UNCHANGED record
        BY <2>4, Zenon DEF Settle
      <3>2. reason \in Reason /\ SentId(d) \in Dispatch \cup {NoDispatch}
        BY DEF Reason, SentId
      <3> HIDE DEF reason
      <3>3. [record EXCEPT ![KeyOf(d)] = [@ EXCEPT !.reason = reason, !.sentId = SentId(d)]]
               \in [Key -> RecordRow]
        BY <2>2, <3>2, Zenon
      <3> QED
        BY <1>t, <3>1, <3>3, Zenon
    <2> QED
      BY <1>f, <1>t, <2>1, <2>3, <2>4 DEF Frame
  <1>3. message' \in [Dispatch -> MessageRow]
    <2>1. CASE WriteMessage(d)
      <3> DEFINE row == [status |-> IF JobOf(d).strict THEN "draft"
                                    ELSE IF Live(d) THEN "sending" ELSE "dryRun",
                         sentId |-> NoDispatch,
                         record |-> IF dispatch[d].owned THEN KeyOf(d) ELSE NoKey]
      <3>1. KeyOf(d) \in Key \cup {NoKey}
        BY <1>t DEF KeyOf, JobOf, DispatchState
      <3>2. row \in MessageRow
        BY <3>1 DEF MessageRow
      <3>3. UNCHANGED message \/ message' = [message EXCEPT ![d] = row]
        BY <2>1 DEF WriteMessage
      <3> HIDE DEF row
      <3> QED
        BY <1>t, <3>2, <3>3
    <2>2. ASSUME NEW status \in {"dryRun", "sent", "failed"},
                 NEW sentId \in Dispatch \cup {NoDispatch}
          PROVE  [message EXCEPT ![d] = [@ EXCEPT !.status = status, !.sentId = sentId]]
                    \in [Dispatch -> MessageRow]
      <3> DEFINE row == [message[d] EXCEPT !.status = status, !.sentId = sentId]
      <3>1. message[d] \in MessageRow
        BY <1>t
      <3>2. row \in MessageRow
        BY <3>1 DEF MessageRow
      <3> HIDE DEF row
      <3>3. [message EXCEPT ![d] = row] \in [Dispatch -> MessageRow]
        BY <1>t, <3>2
      <3> QED
        BY <3>3, Zenon DEF row
    <2>3. CASE DryMessage(d)
      <3>1. \/ message' = [message EXCEPT ![d] = [@ EXCEPT !.status = "dryRun", !.sentId = d]]
            \/ UNCHANGED message
        BY <2>3, Zenon DEF DryMessage
      <3>2. [message EXCEPT ![d] = [@ EXCEPT !.status = "dryRun", !.sentId = d]]
               \in [Dispatch -> MessageRow]
        BY <2>2
      <3> QED
        BY <1>t, <3>1, <3>2
    <2>4. CASE NoteMessage(d)
      <3> DEFINE status == IF ~Live(d) THEN "dryRun"
                           ELSE IF dispatch[d].outcome = "failed" THEN "failed" ELSE "sent"
      <3>1. \/ message' = [message EXCEPT ![d] = [@ EXCEPT !.status = status, !.sentId = SentId(d)]]
            \/ UNCHANGED message
        BY <2>4, Zenon DEF NoteMessage
      <3>2. status \in {"dryRun", "sent", "failed"}
        OBVIOUS
      <3>3. SentId(d) \in Dispatch \cup {NoDispatch}
        BY DEF SentId
      <3> HIDE DEF status
      <3>4. [message EXCEPT ![d] = [@ EXCEPT !.status = status, !.sentId = SentId(d)]]
               \in [Dispatch -> MessageRow]
        BY <2>2, <3>2, <3>3
      <3> QED
        BY <1>t, <3>1, <3>4
    <2> QED
      BY <1>f, <1>t, <2>1, <2>3, <2>4 DEF Frame
  <1>4. noting' \in SUBSET Dispatch
    BY <1>f, <1>t DEF Frame, DryRecord, Settle, NoteMessage
  <1>5. accounting' \in [Dispatch -> {"none", "count", "complete"}]
    BY <1>f, <1>t DEF Frame, ProviderAccepts, CountSent, CompleteSession
  <1>6. accepted' \in [Dispatch -> 0 .. Parts]
    <2>1. CASE ProviderAccepts(d)
      BY <1>t, <2>1 DEF ProviderAccepts
    <2>2. CASE ProviderFails(d)
      BY <1>t, <2>2 DEF ProviderFails
    <2> QED
      BY <1>f, <1>t, <2>1, <2>2 DEF Frame
  <1> QED
    BY <1>1, <1>2, <1>3, <1>4, <1>5, <1>6

LEMMA OutboundCrashTyped == TypeOK /\ Crash => TypeOK'
  <1> SUFFICES ASSUME TypeOK, Crash PROVE TypeOK'
    OBVIOUS
  <1>1. LiveTestTypeOK'
    BY CrashTyped DEF TypeOK, Crash
  <1>2. \A d \in Dispatch : [dispatch[d] EXCEPT !.pc = "dead"] \in DispatchState
    BY DEF TypeOK, DispatchState, Pc
  <1>3. dispatch' \in [Dispatch -> DispatchState]
    BY <1>2 DEF Crash, TypeOK
  <1> QED
    BY <1>1, <1>3 DEF Crash, TypeOK

\* Every variable of the outbound path keeps its type, the counter of accepted
\* parts its bound included: no dispatch hands Zalo more parts than its text has.
THEOREM TypeCorrect == Spec => []TypeOK
  <1>1. Init => TypeOK
    BY InitTyped
  <1>2. TypeOK /\ [Next]_vars => TypeOK'
    <2> SUFFICES ASSUME TypeOK, [Next]_vars PROVE TypeOK'
      OBVIOUS
    <2>1. CASE AdminStep /\ UNCHANGED outboundVars
      <3>1. LiveTestTypeOK'
        BY <2>1, AdminTyped DEF TypeOK
      <3> QED
        BY <2>1, <3>1 DEF TypeOK, outboundVars
    <2>2. ASSUME NEW d \in Dispatch, Call(d) \/ Advance(d) \/ Background(d) PROVE TypeOK'
      BY <2>2, DispatchTyped, DispatchStateTyped, OutboundTyped DEF TypeOK
    <2>3. ASSUME NEW t \in Thread, CooldownExpires(t) \/ ClearCooldown(t) PROVE TypeOK'
      <3>1. UNCHANGED cooldown \/ CooldownEnds(t)
        BY <2>3 DEF CooldownExpires, ClearCooldown
      <3>2. cooldown \in [Thread -> CooldownRow] /\ cooldown[t].outlived \in Nat
        BY DEF TypeOK, CooldownRow
      <3>3. cooldown' \in [Thread -> CooldownRow]
        <4> DEFINE more == cooldown[t].outlived + (IF Outlives(t) THEN 1 ELSE 0)
        <4>1. more \in Nat
          BY <3>2
        <4>2. UNCHANGED cooldown
              \/ cooldown' = [cooldown EXCEPT ![t] = [held |-> FALSE, outlived |-> more]]
          BY <3>1 DEF CooldownEnds
        <4> HIDE DEF more
        <4>3. [held |-> FALSE, outlived |-> more] \in CooldownRow
          BY <4>1 DEF CooldownRow
        <4> QED
          BY <3>2, <4>2, <4>3, Zenon
      <3>4. UNCHANGED <<session, starter, startQueue, stopper, crashes,
                        dispatch, record, message, noting, accounting, accepted>>
        BY <2>3 DEF CooldownExpires, ClearCooldown, liveTestVars
      <3>5. faults' \in 0 .. MaxFaults
        BY <2>3, LiveTestAssumption
           DEF CooldownExpires, ClearCooldown, DbOk, DbError, liveTestVars, TypeOK, LiveTestTypeOK
      <3> QED
        BY <3>3, <3>4, <3>5 DEF TypeOK, LiveTestTypeOK
    <2>4. CASE Crash
      BY <2>4, OutboundCrashTyped
    <2>5. CASE UNCHANGED vars
      BY <2>5 DEF vars, liveTestVars, outboundVars, TypeOK, LiveTestTypeOK
    <2> QED
      BY <2>1, <2>2, <2>3, <2>4, <2>5 DEF Next
  <1> QED
    BY <1>1, <1>2, PTL DEF Spec

-----------------------------------------------------------------------------
(* The start lock, and the one active live-test session *)

\* Neither a close nor a count makes a row active.
LEMMA WritesActivateNothing ==
  ASSUME session \in [Session -> Row], NEW r, NEW status \in Terminal,
         session' = Closed(r, status) \/ session' = Counted(r)
  PROVE  \A s \in Session : Active(s)' => Active(s)
  <1> SUFFICES ASSUME NEW s \in Session, Active(s)' PROVE Active(s)
    OBVIOUS
  <1>1. status # "active"
    BY DEF Terminal
  <1>2. CASE session' = Closed(r, status)
    BY <1>1, <1>2 DEF Active, Closed, Row
  <1>3. CASE session' = Counted(r)
    BY <1>3 DEF Active, Counted, Row
  <1> QED
    BY <1>2, <1>3

LEMMA DispatchActivatesNothing ==
  ASSUME TypeOK, NEW d \in Dispatch, Call(d) \/ Advance(d) \/ Background(d)
  PROVE  \A s \in Session : Active(s)' => Active(s)
  <1>1. session \in [Session -> Row] /\ dispatch[d].closeAs \in Terminal
    BY DEF TypeOK, LiveTestTypeOK, DispatchState, Terminal
  <1>2. "completed" \in Terminal
    BY DEF Terminal
  <1>3. CASE UNCHANGED session
    BY <1>3 DEF Active
  <1>4. CASE session' = Closed(dispatch[d].stale, dispatch[d].closeAs)
    BY <1>1, <1>4, WritesActivateNothing
  <1>5. CASE session' = Closed(dispatch[d].auth, "completed")
    BY <1>1, <1>2, <1>5, WritesActivateNothing
  <1>6. CASE session' = Counted(dispatch[d].auth)
    BY <1>1, <1>2, <1>6, WritesActivateNothing
  <1>7. Frame(d)
    BY DispatchFrame
  <1>8. \/ UNCHANGED session \/ session' = Closed(dispatch[d].stale, dispatch[d].closeAs)
        \/ session' = Closed(dispatch[d].auth, "completed")
        \/ session' = Counted(dispatch[d].auth)
    BY <1>7, Zenon DEF Frame, DispatcherCloses, SenderCloses, CountSent, CompleteSession
  <1> QED
    BY <1>3, <1>4, <1>5, <1>6, <1>8

LockInv == StartLockInv /\ AtMostOneActive

\* A step that leaves the starts alone and activates nothing keeps both.
LEMMA QuietKeepsLockInv ==
  ASSUME LockInv, UNCHANGED <<starter, startQueue>>,
         \A s \in Session : Active(s)' => Active(s)
  PROVE  LockInv'
  <1>1. StartLockInv'
    BY DEF LockInv, StartLockInv, HoldsStartLock
  <1>2. AtMostOneActive'
    BY DEF LockInv, AtMostOneActive
  <1> QED
    BY <1>1, <1>2 DEF LockInv

\* Leaving the section: no start but the holder was inside it.
LEMMA LeaveKeepsLock ==
  ASSUME LiveTestTypeOK, StartLockInv, NEW a \in Starter, HoldsStartLock(a),
         NEW outcome \in {"exists", "started", "failed"}, LeaveStartLock(a, outcome)
  PROVE  \A b \in Starter : starter'[b] \notin {"find", "create"}
  <1>1. \A b \in Starter : starter[b] \in {"find", "create"} => b = a
    BY DEF StartLockInv, HoldsStartLock
  <1>2. /\ starter'[a] = outcome
        /\ \A b \in Starter : b # a => starter'[b] = starter[b]
    BY DEF LeaveStartLock, LiveTestTypeOK
  <1> QED
    BY <1>1, <1>2

LEMMA AdminKeepsLockInv ==
  ASSUME LiveTestTypeOK, LockInv, AdminStep
  PROVE  LockInv'
  <1>t. session \in [Session -> Row] /\ starter \in [Starter -> StarterState]
        /\ startQueue \in Seq(Starter)
    BY DEF LiveTestTypeOK
  <1>1. ASSUME NEW a \in Starter, StartGuards(a) PROVE LockInv'
    <2>1. \A b \in Starter : starter'[b] \in {"find", "create"} =>
             b # a /\ starter'[b] = starter[b]
      BY <1>t, <1>1 DEF StartGuards, StarterState
    <2>2. \A b \in Starter : HoldsStartLock(b) => HoldsStartLock(b)'
      BY <1>t, <1>1 DEF StartGuards, HoldsStartLock
    <2>3. UNCHANGED session
      BY <1>1 DEF StartGuards
    <2> QED
      BY <2>1, <2>2, <2>3 DEF LockInv, StartLockInv, AtMostOneActive, Active
  <1>2. ASSUME NEW a \in Starter, StartExpires(a) PROVE LockInv'
    <2>1. \A s \in Session : Active(s)' => Active(s)
      <3>1. \A s \in Session : ExpireActiveSessions[s].status = "active" => Active(s)
        BY <1>t DEF ExpireActiveSessions, Active, Row
      <3> QED
        BY <1>2, <3>1 DEF StartExpires, Active
    <2>2. AtMostOneActive'
      BY <2>1 DEF LockInv, AtMostOneActive
    <2>3. \A b \in Starter : starter[b] \in {"find", "create"} => b = a
      BY <1>2 DEF LockInv, StartLockInv, HoldsStartLock, StartExpires
    <2>4. CASE LeaveStartLock(a, "failed")
      <3>1. HoldsStartLock(a)
        BY <1>2 DEF StartExpires
      <3> QED
        BY <2>2, <2>4, <3>1, LeaveKeepsLock DEF LockInv, StartLockInv
    <2>5. CASE starter' = [starter EXCEPT ![a] = "find"] /\ UNCHANGED startQueue
      <3>1. HoldsStartLock(a)'
        BY <1>2, <2>5 DEF StartExpires, HoldsStartLock
      <3>2. \A b \in Starter : starter'[b] \in {"find", "create"} => b = a /\ starter'[b] = "find"
        BY <1>t, <2>3, <2>5
      <3> QED
        BY <2>2, <3>1, <3>2 DEF LockInv, StartLockInv
    <2> QED
      BY <1>2, <2>4, <2>5 DEF StartExpires
  <1>3. ASSUME NEW a \in Starter, StartFindsActive(a) PROVE LockInv'
    <2>1. UNCHANGED session /\ HoldsStartLock(a)
      BY <1>3 DEF StartFindsActive
    <2>2. AtMostOneActive'
      BY <2>1 DEF LockInv, AtMostOneActive, Active
    <2>3. CASE LeaveStartLock(a, "exists") \/ LeaveStartLock(a, "failed")
      BY <2>1, <2>2, <2>3, LeaveKeepsLock DEF LockInv, StartLockInv
    <2>4. CASE /\ \A s \in Session : ~Active(s)
               /\ starter' = [starter EXCEPT ![a] = "create"]
               /\ UNCHANGED startQueue
      <3>1. HoldsStartLock(a)'
        BY <2>1, <2>4 DEF HoldsStartLock
      <3>2. \A b \in Starter : starter'[b] \in {"find", "create"} => b = a
        BY <1>t, <2>1, <2>4 DEF LockInv, StartLockInv, HoldsStartLock
      <3>3. \A s \in Session : ~Active(s)'
        BY <2>1, <2>4 DEF Active
      <3> QED
        BY <2>2, <3>1, <3>2, <3>3 DEF LockInv, StartLockInv
    <2> QED
      BY <1>3, <2>3, <2>4 DEF StartFindsActive
  <1>4. ASSUME NEW a \in Starter, StartCreates(a) PROVE LockInv'
    <2>1. HoldsStartLock(a) /\ \A s \in Session : ~Active(s)
      BY <1>4 DEF StartCreates, LockInv, StartLockInv
    <2>2. LeaveStartLock(a, "started") \/ LeaveStartLock(a, "failed")
      BY <1>4, Zenon DEF StartCreates
    <2>3. \A b \in Starter : starter'[b] \notin {"find", "create"}
      BY <2>1, <2>2, LeaveKeepsLock DEF LockInv
    <2>4. CASE UNCHANGED session
      BY <2>3, <2>4 DEF LockInv, StartLockInv, AtMostOneActive, Active
    <2>5. ASSUME NEW r \in Session, session' = [session EXCEPT ![r].status = "active"]
          PROVE  LockInv'
      <3>1. \A s \in Session : Active(s)' => s = r
        BY <1>t, <2>1, <2>5 DEF Active, Row
      <3> QED
        BY <2>3, <3>1 DEF LockInv, StartLockInv, AtMostOneActive
    <2> QED
      BY <1>4, <2>4, <2>5, Zenon DEF StartCreates
  <1>5. ASSUME NEW b \in Stopper, StopFinds(b) PROVE LockInv'
    <2>1. UNCHANGED <<session, starter, startQueue>>
      BY <1>5 DEF StopFinds
    <2> QED
      BY <2>1, QuietKeepsLockInv DEF Active
  <1>6. ASSUME NEW b \in Stopper, StopCancels(b) PROVE LockInv'
    <2>1. UNCHANGED <<starter, startQueue>>
      BY <1>6, Zenon DEF StopCancels
    <2>2. CASE UNCHANGED session
      BY <2>1, <2>2, QuietKeepsLockInv DEF Active
    <2>3. ASSUME NEW r \in Session, session' = Closed(r, "cancelled")
          PROVE  LockInv'
      <3>1. "cancelled" \in Terminal
        BY DEF Terminal
      <3> QED
        BY <1>t, <2>1, <2>3, <3>1, WritesActivateNothing, QuietKeepsLockInv
    <2>4. UNCHANGED session \/ \E r \in Session : session' = Closed(r, "cancelled")
      <3>1. LiveTestTypeOK => stopper[b].todo \subseteq Session
        BY DEF LiveTestTypeOK
      <3> QED
        BY <1>6, <3>1 DEF StopCancels, Closed
    <2> QED
      BY <2>2, <2>3, <2>4
  <1>7. ASSUME NEW s \in Session, TtlPasses(s) PROVE LockInv'
    <2>1. UNCHANGED <<starter, startQueue>>
      BY <1>7 DEF TtlPasses
    <2>2. \A r \in Session : Active(r)' => Active(r)
      BY <1>t, <1>7 DEF TtlPasses, Active, Row
    <2> QED
      BY <2>1, <2>2, QuietKeepsLockInv
  <1> QED
    BY <1>1, <1>2, <1>3, <1>4, <1>5, <1>6, <1>7 DEF AdminStep

\* Whatever starts, stops, expiries, live checks, counts, crashes and database errors
\* interleave, at most one live-test session is active in the whole system: the promise
\* chain of startLiveTest is the only guard of the row, there is no index behind it.
THEOREM OneActiveSession == Spec => []AtMostOneActive
  <1>1. Init => LockInv
    <2> SUFFICES ASSUME Init PROVE LockInv
      OBVIOUS
    <2>1. \A a \in Starter : starter[a] = "idle"
      BY DEF Init, LiveTestInit
    <2>2. \A s \in Session : ~Active(s)
      BY DEF Init, LiveTestInit, Active
    <2> QED
      BY <2>1, <2>2 DEF LockInv, StartLockInv, AtMostOneActive
  <1>2. TypeOK /\ LockInv /\ [Next]_vars => LockInv'
    <2> SUFFICES ASSUME TypeOK, LockInv, [Next]_vars PROVE LockInv'
      OBVIOUS
    <2>1. CASE AdminStep /\ UNCHANGED outboundVars
      BY <2>1, AdminKeepsLockInv DEF TypeOK
    <2>2. ASSUME NEW d \in Dispatch, Call(d) \/ Advance(d) \/ Background(d) PROVE LockInv'
      <3>1. UNCHANGED <<starter, startQueue>>
        BY <2>2, DispatchFrame DEF Frame
      <3> QED
        BY <2>2, <3>1, DispatchActivatesNothing, QuietKeepsLockInv
    <2>3. ASSUME NEW t \in Thread, CooldownExpires(t) \/ ClearCooldown(t) PROVE LockInv'
      BY <2>3, QuietKeepsLockInv DEF CooldownExpires, ClearCooldown, liveTestVars, Active
    <2>4. CASE Crash
      <3>1. UNCHANGED session /\ \A a \in Starter : starter'[a] \notin {"find", "create"}
        BY <2>4 DEF Crash, LiveTestCrash
      <3> QED
        BY <3>1 DEF LockInv, StartLockInv, AtMostOneActive, Active
    <2>5. CASE UNCHANGED vars
      BY <2>5, QuietKeepsLockInv DEF vars, liveTestVars, Active
    <2> QED
      BY <2>1, <2>2, <2>3, <2>4, <2>5 DEF Next
  <1>3. LockInv => AtMostOneActive
    BY DEF LockInv
  <1> QED
    BY <1>1, <1>2, <1>3, TypeCorrect, PTL DEF Spec

-----------------------------------------------------------------------------
(* One reply per key: what a step of a dispatch does to the fields that count *)

Others(d) == \A e \in Dispatch \ {d} : dispatch'[e] = dispatch[e]

Moves(d, pc) ==
    /\ Others(d)
    /\ dispatch'[d].pc = pc
    /\ dispatch'[d].job = dispatch[d].job
    /\ dispatch'[d].owned = dispatch[d].owned
    /\ dispatch'[d].plan = dispatch[d].plan

LEMMA GotoMoves ==
  ASSUME dispatch \in [Dispatch -> DispatchState], NEW d \in Dispatch, NEW pc, Goto(d, pc)
  PROVE  Moves(d, pc)
  BY DEF Goto, Moves, Others, DispatchState

LEMMA ReturnMoves ==
  ASSUME dispatch \in [Dispatch -> DispatchState], NEW d \in Dispatch, NEW result,
         Return(d, result)
  PROVE  Moves(d, "done")
  BY DEF Return, Moves, Others, DispatchState

LEMMA StrictFailureMoves ==
  ASSUME dispatch \in [Dispatch -> DispatchState], NEW d \in Dispatch, StrictFailure(d)
  PROVE  Moves(d, "done")
  BY ReturnMoves DEF StrictFailure

LEMMA OutcomeMoves ==
  ASSUME dispatch \in [Dispatch -> DispatchState], NEW d \in Dispatch, NEW pc, NEW outcome,
         dispatch' = [dispatch EXCEPT ![d].pc = pc, ![d].outcome = outcome]
  PROVE  Moves(d, pc)
  BY DEF Moves, Others, DispatchState

LEMMA AuthMoves ==
  ASSUME dispatch \in [Dispatch -> DispatchState], NEW d \in Dispatch, NEW pc, NEW s,
         dispatch' = [dispatch EXCEPT ![d].pc = pc, ![d].auth = s]
  PROVE  Moves(d, pc)
  BY DEF Moves, Others, DispatchState

LEMMA StaleMoves ==
  ASSUME dispatch \in [Dispatch -> DispatchState], NEW d \in Dispatch, NEW pc, NEW s, NEW c,
         dispatch' = [dispatch EXCEPT ![d].pc = pc, ![d].stale = s, ![d].closeAs = c]
  PROVE  Moves(d, pc)
  BY DEF Moves, Others, DispatchState

\* A step that only moves the program counter keeps the invariant when it does not
\* step back, and enters the stages after the reservation only with a reservation.
LEMMA MoveKeepsReplyInv ==
  ASSUME TypeOK, ReplyInv, NEW d \in Dispatch, NEW pc, Moves(d, pc),
         UNCHANGED <<record, accepted>>, faults' = 0 => faults = 0,
         pc \notin {"idle", "begin"},
         pc \in BeforeReservation => dispatch[d].pc \in BeforeReservation,
         pc \in {"gate", "closing"} => ~JobOf(d).strict,
         pc \in Unsettled =>
            \/ dispatch[d].pc \in Unsettled
            \/ dispatch[d].pc \in BeforeReservation /\ (~IsText(d) \/ faults' # 0),
         pc \in {"lookup", "reserve", "replay"} => IsText(d),
         pc \in {"sender", "senderClosing", "send"} => Live(d) /\ IsText(d)
  PROVE  ReplyInv'
  <1>1. \A e \in Dispatch : /\ JobOf(e)' = JobOf(e) /\ KeyOf(e)' = KeyOf(e)
                            /\ IsText(e)' = IsText(e) /\ Live(e)' = Live(e)
                            /\ dispatch'[e].owned = dispatch[e].owned
    BY DEF Moves, Others, JobOf, KeyOf, IsText, Live
  <1>2. \A e \in Dispatch \ {d} : dispatch'[e].pc = dispatch[e].pc
    BY DEF Moves, Others
  <1>3. dispatch'[d].pc = pc
    BY DEF Moves
  <1>4. \A k \in Key : Reserved(k)' = Reserved(k)
    BY DEF Reserved
  <1>5. \A e \in Dispatch : Stage(e)'
    <2> SUFFICES ASSUME NEW e \in Dispatch PROVE Stage(e)'
      OBVIOUS
    <2>1. Stage(e)
      BY DEF ReplyInv
    <2>2. CASE e = d
      BY <1>1, <1>3, <2>1, <2>2 DEF Stage
    <2>3. CASE e # d
      BY <1>1, <1>2, <2>1, <2>3 DEF Stage
    <2> QED
      BY <2>2, <2>3
  <1>6. OwnershipInv'
    <2>1. Stage(d)
      BY DEF ReplyInv
    <2>2. ASSUME NEW e \in Dispatch, dispatch'[e].owned
          PROVE  /\ IsText(e)' /\ Reserved(KeyOf(e))' /\ record'[KeyOf(e)'].owner = e
                 /\ dispatch'[e].pc \in Unsettled => record'[KeyOf(e)'].reason = "reserved"
      <3>1. dispatch[e].owned /\ IsText(e) /\ Reserved(KeyOf(e)) /\ record[KeyOf(e)].owner = e
        BY <1>1, <2>2 DEF ReplyInv, OwnershipInv
      <3>2. dispatch'[e].pc \in Unsettled => dispatch[e].pc \in Unsettled
        BY <1>2, <1>3, <2>1, <3>1 DEF Stage
      <3> QED
        BY <1>1, <2>2, <3>1, <3>2 DEF ReplyInv, OwnershipInv, Reserved
    <2>3. ASSUME NEW k \in Key, Reserved(k)'
          PROVE  /\ record'[k].owner \in Dispatch
                 /\ dispatch'[record'[k].owner].owned
                 /\ KeyOf(record[k].owner)' = k
                 /\ record'[k].dryRun = ~Live(record[k].owner)'
      BY <1>1, <1>4, <2>3 DEF ReplyInv, OwnershipInv
    <2> QED
      BY <2>2, <2>3 DEF OwnershipInv
  <1> QED
    BY <1>5, <1>6 DEF ReplyInv

\* One step per action that writes only the program counter, as far as ReplyInv sees.
LEMMA MovesKeepReplyInv ==
  ASSUME TypeOK, ReplyInv, NEW d \in Dispatch,
         \/ AcquireCooldown(d) \/ DispatcherCloses(d) \/ LookUp(d) \/ StrictReplay(d)
         \/ WriteMessage(d) \/ DryMessage(d) \/ SenderGate(d) \/ SenderCloses(d)
         \/ SenderRefuses(d) \/ SetCooldown(d)
  PROVE  ReplyInv'
  <1>t. dispatch \in [Dispatch -> DispatchState] /\ faults \in Nat /\ Stage(d)
    BY LiveTestAssumption DEF TypeOK, LiveTestTypeOK, ReplyInv
  <1>g. (AfterGate(d) = "lookup" /\ IsText(d)) \/ (AfterGate(d) = "write" /\ ~IsText(d))
    BY DEF AfterGate
  <1> USE DEF At, BeforeReservation, Unsettled
  <1>1. CASE AcquireCooldown(d)
    <2>1. UNCHANGED <<record, accepted>> /\ At(d, "begin") /\ (faults' = 0 => faults = 0)
      BY <1>t, <1>1, SMT DEF AcquireCooldown, DbOk, DbError
    <2>2. \/ Moves(d, "done") \/ (Moves(d, "gate") /\ ~JobOf(d).strict)
          \/ (Moves(d, "lookup") /\ IsText(d)) \/ (Moves(d, "write") /\ ~IsText(d))
      <3>1. \/ Return(d, "cooldown") \/ Return(d, "thrown")
            \/ (Goto(d, "gate") /\ ~JobOf(d).strict) \/ Goto(d, AfterGate(d))
        BY <1>1 DEF AcquireCooldown
      <3> QED
        BY <1>t, <1>g, <3>1, GotoMoves, ReturnMoves
    <2> QED
      BY <2>1, <2>2, MoveKeepsReplyInv
  <1>2. CASE DispatcherCloses(d)
    <2>1. UNCHANGED <<record, accepted>> /\ At(d, "closing") /\ (faults' = 0 => faults = 0)
      BY <1>t, <1>2, SMT DEF DispatcherCloses, DbOk, DbError
    <2>2. (Moves(d, "lookup") /\ IsText(d)) \/ (Moves(d, "write") /\ ~IsText(d))
      BY <1>t, <1>g, <1>2, GotoMoves DEF DispatcherCloses
    <2> QED
      BY <2>1, <2>2, MoveKeepsReplyInv
  <1>3. CASE LookUp(d)
    <2>1. UNCHANGED <<record, accepted>> /\ At(d, "lookup") /\ (faults' = 0 => faults = 0)
      BY <1>t, <1>3, SMT DEF LookUp, DbOk, DbError
    <2>2. Moves(d, "done") \/ Moves(d, "replay") \/ Moves(d, "reserve")
      BY <1>t, <1>3, GotoMoves, ReturnMoves, StrictFailureMoves DEF LookUp
    <2> QED
      BY <1>t, <2>1, <2>2, MoveKeepsReplyInv DEF Stage
  <1>4. CASE StrictReplay(d)
    <2>1. UNCHANGED <<record, accepted>> /\ (faults' = 0 => faults = 0)
      BY <1>t, <1>4, SMT DEF StrictReplay, DbOk, DbError
    <2>2. Moves(d, "done")
      BY <1>t, <1>4, ReturnMoves, StrictFailureMoves DEF StrictReplay
    <2> QED
      BY <2>1, <2>2, MoveKeepsReplyInv
  <1>5. CASE WriteMessage(d)
    <2>1. UNCHANGED <<record, accepted>> /\ At(d, "write") /\ (faults' = 0 => faults = 0)
      BY <1>t, <1>5, SMT DEF WriteMessage, DbOk, DbError
    <2>2. Moves(d, "done") \/ Moves(d, AfterWrite(d))
      <3>1. Proceed(d) => Moves(d, AfterWrite(d))
        BY <1>t, OutcomeMoves DEF Proceed
      <3> QED
        BY <1>t, <1>5, <3>1, StrictFailureMoves, Zenon DEF WriteMessage
    <2>3. /\ AfterWrite(d) \in Unsettled
          /\ AfterWrite(d) \in {"sender", "senderClosing", "send"} => Live(d) /\ IsText(d)
      BY DEF AfterWrite
    <2> QED
      BY <2>1, <2>2, <2>3, MoveKeepsReplyInv
  <1>6. CASE DryMessage(d)
    <2>1. UNCHANGED <<record, accepted>> /\ At(d, "dryMessage") /\ (faults' = 0 => faults = 0)
      BY <1>t, <1>6, SMT DEF DryMessage, DbOk, DbError
    <2>2. Moves(d, "done") \/ Moves(d, "dryRecord")
      BY <1>t, <1>6, GotoMoves, StrictFailureMoves DEF DryMessage
    <2> QED
      BY <2>1, <2>2, MoveKeepsReplyInv
  <1>7. CASE SenderGate(d)
    <2>1. UNCHANGED <<record, accepted>> /\ At(d, "sender") /\ (faults' = 0 => faults = 0)
      <3>1. UNCHANGED <<record, accepted>> /\ At(d, "sender") /\ (DbOk \/ DbError)
        BY <1>7, Zenon DEF SenderGate
      <3> QED
        BY <1>t, <3>1 DEF DbOk, DbError
    <2>2. Moves(d, "settle") \/ Moves(d, "senderClosing") \/ Moves(d, "send")
      BY <1>t, <1>7, OutcomeMoves, AuthMoves, StaleMoves DEF SenderGate
    <2> QED
      BY <1>t, <2>1, <2>2, MoveKeepsReplyInv DEF Stage
  <1>8. CASE SenderCloses(d)
    <2>1. UNCHANGED <<record, accepted>> /\ At(d, "senderClosing") /\ (faults' = 0 => faults = 0)
      BY <1>t, <1>8, SMT DEF SenderCloses, DbOk, DbError
    <2>2. Moves(d, "settle")
      BY <1>t, <1>8, OutcomeMoves DEF SenderCloses
    <2> QED
      BY <2>1, <2>2, MoveKeepsReplyInv
  <1>9. CASE SenderRefuses(d)
    <2>1. UNCHANGED <<record, accepted, faults>> /\ At(d, "send")
      BY <1>9 DEF SenderRefuses, liveTestVars
    <2>2. Moves(d, "settle")
      BY <1>t, <1>9, OutcomeMoves DEF SenderRefuses
    <2> QED
      BY <2>1, <2>2, MoveKeepsReplyInv
  <1>10. CASE SetCooldown(d)
    <2>1. UNCHANGED <<record, accepted>> /\ (faults' = 0 => faults = 0)
      BY <1>t, <1>10, SMT DEF SetCooldown, DbOk, DbError
    <2>2. Moves(d, "done")
      BY <1>t, <1>10, ReturnMoves DEF SetCooldown
    <2> QED
      BY <2>1, <2>2, MoveKeepsReplyInv
  <1> QED
    BY <1>1, <1>2, <1>3, <1>4, <1>5, <1>6, <1>7, <1>8, <1>9, <1>10

\* What a dispatch without a reservation does to itself does not matter to the others.
LEMMA UnownedKeepsOwnership ==
  ASSUME OwnershipInv, NEW d \in Dispatch, Others(d), UNCHANGED record,
         ~dispatch[d].owned, ~dispatch'[d].owned
  PROVE  OwnershipInv'
  <1>1. \A e \in Dispatch \ {d} : /\ dispatch'[e] = dispatch[e] /\ KeyOf(e)' = KeyOf(e)
                                  /\ IsText(e)' = IsText(e) /\ Live(e)' = Live(e)
    BY DEF Others, KeyOf, JobOf, IsText, Live
  <1>2. \A k \in Key : Reserved(k)' = Reserved(k)
    BY DEF Reserved
  <1>3. \A k \in Key : Reserved(k) => record[k].owner \in Dispatch \ {d}
    BY DEF OwnershipInv
  <1>4. ASSUME NEW e \in Dispatch, dispatch'[e].owned
        PROVE  /\ IsText(e)' /\ Reserved(KeyOf(e))' /\ record'[KeyOf(e)'].owner = e
               /\ dispatch'[e].pc \in Unsettled => record'[KeyOf(e)'].reason = "reserved"
    BY <1>1, <1>4 DEF OwnershipInv, Reserved
  <1>5. ASSUME NEW k \in Key, Reserved(k)'
        PROVE  /\ record'[k].owner \in Dispatch
               /\ dispatch'[record'[k].owner].owned
               /\ KeyOf(record[k].owner)' = k
               /\ record'[k].dryRun = ~Live(record[k].owner)'
    BY <1>1, <1>2, <1>3, <1>5 DEF OwnershipInv
  <1> QED
    BY <1>4, <1>5 DEF OwnershipInv

\* The call sets the job of an idle dispatch, which owns and has sent nothing.
LEMMA CallKeepsReplyInv ==
  ASSUME TypeOK, ReplyInv, NEW d \in Dispatch, Call(d)
  PROVE  ReplyInv'
  <1>t. /\ dispatch \in [Dispatch -> DispatchState]
        /\ Stage(d) /\ At(d, "idle")
        /\ UNCHANGED <<record, accepted, faults>>
    BY DEF TypeOK, ReplyInv, Call, liveTestVars
  <1> DEFINE Shape == /\ Others(d) /\ dispatch'[d].pc \in {"begin", "done"}
                      /\ dispatch'[d].owned = dispatch[d].owned
                      /\ dispatch'[d].plan = dispatch[d].plan
  <1>1. Shape
    <2>1. ASSUME NEW j, dispatch' = [dispatch EXCEPT ![d].pc = "begin", ![d].job = j]
          PROVE  Shape
      BY <1>t, <2>1 DEF DispatchState, Others
    <2>2. ASSUME NEW j, dispatch' = [dispatch EXCEPT ![d].pc = "done", ![d].job = j,
                                                     ![d].result = "refused"]
          PROVE  Shape
      BY <1>t, <2>2 DEF DispatchState, Others
    <2> QED
      BY <2>1, <2>2 DEF Call
  <1>2. ~dispatch[d].owned /\ accepted[d] = 0 /\ ~Live(d)
    BY <1>t DEF Stage, At, BeforeReservation
  <1>3. ~dispatch'[d].owned /\ accepted'[d] = 0 /\ ~Live(d)'
    BY <1>t, <1>1, <1>2 DEF Live
  <1>4. Stage(d)'
    BY <1>1, <1>3 DEF Stage, BeforeReservation, Unsettled
  <1>5. \A e \in Dispatch \ {d} : /\ Stage(e)' = Stage(e) /\ KeyOf(e)' = KeyOf(e)
                                  /\ IsText(e)' = IsText(e) /\ Live(e)' = Live(e)
    BY <1>t, <1>1 DEF Others, Stage, KeyOf, JobOf, IsText, Live
  <1>6. OwnershipInv'
    BY <1>t, <1>1, <1>2, <1>3, UnownedKeepsOwnership DEF ReplyInv
  <1> QED
    BY <1>4, <1>5, <1>6 DEF ReplyInv

\* The dispatcher goes live: nothing is reserved or sent yet.
LEMMA PlanKeepsReplyInv ==
  ASSUME TypeOK, ReplyInv, NEW d \in Dispatch, NEW s \in Session, At(d, "gate"),
         dispatch' = [dispatch EXCEPT ![d].pc = AfterGate(d), ![d].plan = s],
         UNCHANGED <<record, accepted>>, faults' = 0 => faults = 0
  PROVE  ReplyInv'
  <1>t. dispatch \in [Dispatch -> DispatchState] /\ Stage(d)
    BY DEF TypeOK, ReplyInv
  <1>g. (AfterGate(d) = "lookup" /\ IsText(d)) \/ (AfterGate(d) = "write" /\ ~IsText(d))
    BY DEF AfterGate
  <1>1. /\ Others(d) /\ dispatch'[d].pc = AfterGate(d) /\ dispatch'[d].job = dispatch[d].job
        /\ dispatch'[d].owned = dispatch[d].owned
    BY <1>t DEF DispatchState, Others
  <1>2. ~dispatch[d].owned /\ accepted[d] = 0 /\ ~JobOf(d).strict
    BY <1>t DEF Stage, At, BeforeReservation
  <1>3. ~dispatch'[d].owned /\ accepted'[d] = 0 /\ JobOf(d)' = JobOf(d) /\ IsText(d)' = IsText(d)
    BY <1>1, <1>2 DEF JobOf, KeyOf, IsText
  <1>4. Stage(d)'
    BY <1>g, <1>1, <1>2, <1>3 DEF Stage, BeforeReservation, Unsettled
  <1>5. \A e \in Dispatch \ {d} : /\ Stage(e) => Stage(e)' /\ KeyOf(e)' = KeyOf(e)
                                  /\ IsText(e)' = IsText(e) /\ Live(e)' = Live(e)
    BY <1>1 DEF Others, Stage, KeyOf, JobOf, IsText, Live
  <1>6. OwnershipInv'
    BY <1>1, <1>2, <1>3, UnownedKeepsOwnership DEF ReplyInv
  <1> QED
    BY <1>4, <1>5, <1>6 DEF ReplyInv

LEMMA DispatcherGateKeepsReplyInv ==
  ASSUME TypeOK, ReplyInv, NEW d \in Dispatch, DispatcherGate(d)
  PROVE  ReplyInv'
  <1>t. dispatch \in [Dispatch -> DispatchState] /\ faults \in Nat /\ Stage(d)
    BY LiveTestAssumption DEF TypeOK, LiveTestTypeOK, ReplyInv
  <1>g. (AfterGate(d) = "lookup" /\ IsText(d)) \/ (AfterGate(d) = "write" /\ ~IsText(d))
    BY DEF AfterGate
  <1>1. UNCHANGED <<record, accepted>> /\ At(d, "gate") /\ (DbOk \/ DbError)
    BY Zenon DEF DispatcherGate
  <1>2. faults' = 0 => faults = 0
    BY <1>t, <1>1 DEF DbOk, DbError
  <1>3. \/ Moves(d, AfterGate(d)) \/ Moves(d, "closing")
        \/ \E s \in Session : dispatch' = [dispatch EXCEPT ![d].pc = AfterGate(d), ![d].plan = s]
    BY <1>t, GotoMoves, StaleMoves DEF DispatcherGate, ActiveFor
  <1>4. CASE Moves(d, AfterGate(d)) \/ Moves(d, "closing")
    BY <1>t, <1>g, <1>1, <1>2, <1>4, MoveKeepsReplyInv DEF At, Stage, BeforeReservation, Unsettled
  <1> QED
    BY <1>1, <1>2, <1>3, <1>4, PlanKeepsReplyInv

\* The reservation: no dispatch owned the key, since its entry was absent.
LEMMA ReservationKeepsReplyInv ==
  ASSUME TypeOK, ReplyInv, NEW d \in Dispatch, At(d, "reserve"), ~Reserved(KeyOf(d)),
         record' = [record EXCEPT ![KeyOf(d)] = [reason |-> "reserved", sentId |-> NoDispatch,
                                                 dryRun |-> ~Live(d), owner |-> d]],
         dispatch' = [dispatch EXCEPT ![d].pc = "write", ![d].owned = TRUE],
         UNCHANGED <<accepted, faults>>
  PROVE  ReplyInv'
  <1> DEFINE k == KeyOf(d)
             row == [reason |-> "reserved", sentId |-> NoDispatch,
                     dryRun |-> ~Live(d), owner |-> d]
  <1>t. /\ dispatch \in [Dispatch -> DispatchState] /\ record \in [Key -> RecordRow]
        /\ Stage(d) /\ OwnershipInv
    BY DEF TypeOK, ReplyInv
  <1>1. /\ Others(d) /\ dispatch'[d].pc = "write" /\ dispatch'[d].owned
        /\ dispatch'[d].job = dispatch[d].job /\ dispatch'[d].plan = dispatch[d].plan
    BY <1>t DEF DispatchState, Others
  <1>2. k \in Key /\ IsText(d)
    <2>1. KeyOf(d) \in Key \cup {NoKey}
      BY <1>t, OutboundAssumption DEF KeyOf, JobOf, DispatchState
    <2> QED
      BY <1>t, <2>1 DEF Stage, At, IsText
  <1>3. \A e \in Dispatch : /\ JobOf(e)' = JobOf(e) /\ KeyOf(e)' = KeyOf(e)
                            /\ IsText(e)' = IsText(e) /\ Live(e)' = Live(e)
    BY <1>1 DEF Others, KeyOf, JobOf, IsText, Live
  <1>4. \A e \in Dispatch \ {d} : dispatch'[e] = dispatch[e]
    BY <1>1 DEF Others
  <1>5. accepted[d] = 0 /\ (JobOf(d).strict => ~Live(d))
    BY <1>t DEF Stage, At, BeforeReservation
  <1>6. Stage(d)'
    BY <1>1, <1>3, <1>5 DEF Stage, BeforeReservation, Unsettled
  <1>7. \A e \in Dispatch \ {d} : Stage(e)'
    BY <1>3, <1>4 DEF ReplyInv, Stage
  <1>8. \A j \in Key : record'[j] = IF j = k THEN row ELSE record[j]
    BY <1>t, <1>2
  <1>9. /\ row.reason = "reserved" /\ row.owner = d /\ row.dryRun = ~Live(d)
    OBVIOUS
  <1> HIDE DEF k, row
  <1>10. ASSUME NEW e \in Dispatch, dispatch'[e].owned
         PROVE  /\ IsText(e)' /\ Reserved(KeyOf(e))' /\ record'[KeyOf(e)'].owner = e
                /\ dispatch'[e].pc \in Unsettled => record'[KeyOf(e)'].reason = "reserved"
    <2>1. CASE e = d
      BY <1>2, <1>3, <1>8, <1>9, <2>1 DEF Reserved, k
    <2>2. CASE e # d
      <3>1. dispatch[e].owned /\ KeyOf(e) # k /\ KeyOf(e) \in Key
        <4>1. KeyOf(e) \in Key \cup {NoKey}
          BY <1>t, OutboundAssumption DEF KeyOf, JobOf, DispatchState
        <4>2. dispatch[e].owned
          BY <1>4, <1>10, <2>2
        <4> QED
          BY <1>t, <4>1, <4>2 DEF OwnershipInv, IsText, k
      <3> QED
        BY <1>t, <1>3, <1>4, <1>8, <2>2, <3>1 DEF OwnershipInv, Reserved
    <2> QED
      BY <2>1, <2>2
  <1>11. ASSUME NEW j \in Key, Reserved(j)'
         PROVE  /\ record'[j].owner \in Dispatch
                /\ dispatch'[record'[j].owner].owned
                /\ (KeyOf(record[j].owner) = j)'
                /\ (record[j].dryRun = ~Live(record[j].owner))'
    <2>1. CASE j = k
      BY <1>1, <1>3, <1>8, <1>9, <2>1 DEF k
    <2>2. CASE j # k
      <3>1. Reserved(j) /\ record'[j] = record[j]
        BY <1>8, <1>11, <2>2 DEF Reserved
      <3>2. /\ record[j].owner \in Dispatch /\ dispatch[record[j].owner].owned
            /\ KeyOf(record[j].owner) = j /\ record[j].dryRun = ~Live(record[j].owner)
        BY <1>t, <3>1 DEF OwnershipInv
      <3>3. dispatch'[record[j].owner].owned
        BY <1>1, <1>4, <3>2
      <3> QED
        BY <1>3, <3>1, <3>2, <3>3
    <2> QED
      BY <2>1, <2>2
  <1>12. OwnershipInv'
    BY <1>10, <1>11 DEF OwnershipInv
  <1> QED
    BY <1>6, <1>7, <1>12 DEF ReplyInv

LEMMA ReserveKeepsReplyInv ==
  ASSUME TypeOK, ReplyInv, NEW d \in Dispatch, Reserve(d)
  PROVE  ReplyInv'
  <1>t. /\ dispatch \in [Dispatch -> DispatchState] /\ faults \in Nat /\ Stage(d)
        /\ UNCHANGED accepted /\ At(d, "reserve")
    BY LiveTestAssumption DEF TypeOK, LiveTestTypeOK, ReplyInv, Reserve
  <1>1. CASE /\ UNCHANGED <<record, faults>>
             /\ Goto(d, "replay") \/ Return(d, "duplicate")
    <2>1. Moves(d, "replay") \/ Moves(d, "done")
      BY <1>t, <1>1, GotoMoves, ReturnMoves
    <2> QED
      BY <1>t, <1>1, <2>1, MoveKeepsReplyInv DEF Stage, At, BeforeReservation, Unsettled
  <1>2. CASE /\ UNCHANGED record /\ DbError
             /\ Goto(d, "write") \/ StrictFailure(d)
    <2>1. Moves(d, "write") \/ Moves(d, "done")
      BY <1>t, <1>2, GotoMoves, StrictFailureMoves
    <2>2. faults' # 0
      BY <1>t, <1>2 DEF DbError
    <2> QED
      BY <1>t, <1>2, <2>1, <2>2, MoveKeepsReplyInv DEF At, BeforeReservation, Unsettled
  <1> QED
    BY <1>t, <1>1, <1>2, ReservationKeepsReplyInv DEF Reserve, DbOk

\* The outcome: the row leaves "reserved", and so does its dispatch the stages that need it.
LEMMA OutcomeKeepsReplyInv ==
  ASSUME TypeOK, ReplyInv, NEW d \in Dispatch, NEW pc \in {"cool", "done"}, Moves(d, pc),
         dispatch[d].owned, NEW reason \in {"dry_run", "live_test", "send_failed"}, NEW sentId,
         record' = [record EXCEPT ![KeyOf(d)] = [@ EXCEPT !.reason = reason, !.sentId = sentId]],
         UNCHANGED <<accepted, faults>>
  PROVE  ReplyInv'
  <1> DEFINE row == [record[KeyOf(d)] EXCEPT !.reason = reason, !.sentId = sentId]
  <1>t. /\ record \in [Key -> RecordRow] /\ Stage(d) /\ OwnershipInv
        /\ KeyOf(d) \in Key
    <2>1. dispatch[d].job \in Job
      BY DEF TypeOK, DispatchState
    <2>2. KeyOf(d) \in Key \cup {NoKey}
      BY <2>1, OutboundAssumption DEF KeyOf, JobOf
    <2>3. IsText(d)
      BY DEF ReplyInv, OwnershipInv
    <2> QED
      BY <2>2, <2>3 DEF TypeOK, ReplyInv, IsText
  <1>1. /\ row.reason = reason /\ row.owner = record[KeyOf(d)].owner
        /\ row.dryRun = record[KeyOf(d)].dryRun
    <2>1. record[KeyOf(d)] \in RecordRow
      BY <1>t
    <2> QED
      BY <2>1 DEF RecordRow
  <1>2. record' = [record EXCEPT ![KeyOf(d)] = row]
    BY Zenon
  <1> HIDE DEF row
  <1>3. \A j \in Key : record'[j] = IF j = KeyOf(d) THEN row ELSE record[j]
    BY <1>t, <1>2
  <1>4. \A j \in Key : /\ Reserved(j)' => Reserved(j)
                       /\ Reserved(j) => Reserved(j)'
                       /\ record'[j].owner = record[j].owner
                       /\ record'[j].dryRun = record[j].dryRun
    BY <1>t, <1>1, <1>3 DEF Reserved, OwnershipInv
  <1>5. \A e \in Dispatch : /\ JobOf(e)' = JobOf(e) /\ KeyOf(e)' = KeyOf(e)
                            /\ IsText(e)' = IsText(e) /\ Live(e)' = Live(e)
                            /\ dispatch'[e].owned = dispatch[e].owned
    BY DEF Moves, Others, JobOf, KeyOf, IsText, Live
  <1>6. /\ dispatch'[d].pc = pc
        /\ \A e \in Dispatch \ {d} : dispatch'[e] = dispatch[e]
    BY DEF Moves, Others
  <1>7. Stage(d)'
    BY <1>t, <1>5, <1>6 DEF Stage, BeforeReservation, Unsettled
  <1>8. \A e \in Dispatch \ {d} : Stage(e)'
    BY <1>5, <1>6 DEF ReplyInv, Stage
  <1>9. ASSUME NEW e \in Dispatch, dispatch'[e].owned
        PROVE  /\ IsText(e)' /\ Reserved(KeyOf(e))' /\ record'[KeyOf(e)'].owner = e
               /\ dispatch'[e].pc \in Unsettled => record'[KeyOf(e)'].reason = "reserved"
    <2>1. /\ IsText(e) /\ Reserved(KeyOf(e)) /\ record[KeyOf(e)].owner = e
          /\ dispatch[e].pc \in Unsettled => record[KeyOf(e)].reason = "reserved"
      BY <1>t, <1>5, <1>9 DEF OwnershipInv
    <2>2. KeyOf(e) \in Key
      <3>1. dispatch[e].job \in Job
        BY DEF TypeOK, DispatchState
      <3>2. KeyOf(e) \in Key \cup {NoKey}
        BY <3>1, OutboundAssumption DEF KeyOf, JobOf
      <3> QED
        BY <2>1, <3>2 DEF IsText
    <2>3. e = d => dispatch'[e].pc \notin Unsettled
      BY <1>6 DEF Unsettled
    <2>4. e # d => KeyOf(e) # KeyOf(d)
      BY <1>t, <2>1 DEF OwnershipInv
    <2>5. Reserved(KeyOf(e))' /\ record'[KeyOf(e)'].owner = e
      BY <1>4, <1>5, <2>1, <2>2 DEF Reserved
    <2>6. dispatch'[e].pc \in Unsettled => record'[KeyOf(e)'].reason = "reserved"
      BY <1>3, <1>5, <1>6, <2>1, <2>2, <2>3, <2>4
    <2> QED
      BY <1>5, <2>1, <2>5, <2>6
  <1>10. ASSUME NEW j \in Key, Reserved(j)'
         PROVE  /\ record'[j].owner \in Dispatch
                /\ dispatch'[record'[j].owner].owned
                /\ (KeyOf(record[j].owner) = j)'
                /\ (record[j].dryRun = ~Live(record[j].owner))'
    <2>1. Reserved(j) /\ record'[j].owner = record[j].owner
          /\ record'[j].dryRun = record[j].dryRun
      BY <1>4, <1>10
    <2>2. /\ record[j].owner \in Dispatch /\ dispatch[record[j].owner].owned
          /\ KeyOf(record[j].owner) = j /\ record[j].dryRun = ~Live(record[j].owner)
      BY <1>t, <2>1 DEF OwnershipInv
    <2>3. PICK o \in Dispatch : o = record[j].owner
      BY <2>2
    <2>4. /\ record'[j].owner = o /\ record'[j].dryRun = ~Live(o)'
          /\ KeyOf(o)' = j /\ dispatch'[o].owned
      BY <1>5, <2>1, <2>2, <2>3
    <2>5. dispatch'[o].job.key = j /\ record'[j].dryRun = ~(dispatch'[o].plan # NoSession)
      BY <2>4, Zenon DEF KeyOf, JobOf, Live
    <2>6. o = record'[j].owner
      BY <2>4
    <2>7. (KeyOf(record[j].owner) = j)'
      BY <2>5, <2>6 DEF KeyOf, JobOf
    <2>8. (record[j].dryRun = ~Live(record[j].owner))'
      BY <2>5, <2>6 DEF Live
    <2> QED
      BY <2>4, <2>6, <2>7, <2>8
  <1>11. OwnershipInv'
    BY <1>9, <1>10 DEF OwnershipInv
  <1> QED
    BY <1>7, <1>8, <1>11 DEF ReplyInv

LEMMA SettleKeepsReplyInv ==
  ASSUME TypeOK, ReplyInv, NEW d \in Dispatch, DryRecord(d) \/ Settle(d)
  PROVE  ReplyInv'
  <1>t. /\ dispatch \in [Dispatch -> DispatchState] /\ faults \in Nat /\ Stage(d)
        /\ UNCHANGED accepted
    <2>1. faults \in Nat
      BY LiveTestAssumption DEF TypeOK, LiveTestTypeOK
    <2>2. UNCHANGED accepted
      BY Zenon DEF DryRecord, Settle
    <2> QED
      BY <2>1, <2>2 DEF TypeOK, ReplyInv
  <1>f. DbOk \/ DbError
    BY Zenon DEF DryRecord, Settle
  <1>1. Moves(d, "cool") \/ Moves(d, "done")
    BY <1>t, GotoMoves, StrictFailureMoves DEF DryRecord, Settle
  <1>2. CASE UNCHANGED record
    <2>1. faults' = 0 => faults = 0
      BY <1>t, <1>f DEF DbOk, DbError
    <2> QED
      BY <1>t, <1>1, <1>2, <2>1, MoveKeepsReplyInv DEF BeforeReservation, Unsettled
  <1>3. CASE /\ DbOk /\ dispatch[d].owned
             /\ \E reason \in {"dry_run", "live_test", "send_failed"}, sentId \in {d, SentId(d)} :
                   record' = [record EXCEPT ![KeyOf(d)] =
                                [@ EXCEPT !.reason = reason, !.sentId = sentId]]
    BY <1>t, <1>1, <1>3, OutcomeKeepsReplyInv DEF DbOk
  <1>4. DryRecord(d) => \/ UNCHANGED record
                        \/ /\ DbOk /\ dispatch[d].owned
                           /\ record' = [record EXCEPT ![KeyOf(d)] =
                                           [@ EXCEPT !.reason = "dry_run", !.sentId = d]]
    BY Zenon DEF DryRecord
  <1> DEFINE outcome == IF dispatch[d].outcome = "failed" THEN "send_failed" ELSE "live_test"
  <1>5. Settle(d) => \/ UNCHANGED record
                     \/ /\ DbOk /\ dispatch[d].owned
                        /\ record' = [record EXCEPT ![KeyOf(d)] =
                                        [@ EXCEPT !.reason = outcome, !.sentId = SentId(d)]]
    BY Zenon DEF Settle
  <1>6. outcome \in {"dry_run", "live_test", "send_failed"}
    OBVIOUS
  <1> HIDE DEF outcome
  <1> QED
    BY <1>2, <1>3, <1>4, <1>5, <1>6, Zenon

\* A send delivers only for a dispatch that is live and, without a fault, owns its key.
LEMMA SendKeepsReplyInv ==
  ASSUME TypeOK, ReplyInv, NEW d \in Dispatch, ProviderAccepts(d) \/ ProviderFails(d)
  PROVE  ReplyInv'
  <1>t. dispatch \in [Dispatch -> DispatchState] /\ accepted \in [Dispatch -> 0 .. Parts]
        /\ Stage(d) /\ OwnershipInv
    BY DEF TypeOK, ReplyInv
  <1>1. UNCHANGED <<record, faults>> /\ At(d, "send")
    BY DEF ProviderAccepts, ProviderFails, liveTestVars
  <1>2. Moves(d, "settle") \/ Moves(d, "send")
    <2>1. CASE UNCHANGED dispatch
      BY <1>1, <2>1 DEF Moves, Others, At
    <2>2. CASE \E o : dispatch' = [dispatch EXCEPT ![d].pc = "settle", ![d].outcome = o]
      BY <1>t, <2>2, OutcomeMoves
    <2> QED
      BY <2>1, <2>2, Zenon DEF ProviderAccepts, ProviderFails
  <1>3. \A e \in Dispatch \ {d} : accepted'[e] = accepted[e]
    BY <1>t DEF ProviderAccepts, ProviderFails
  <1>4. \A e \in Dispatch : /\ JobOf(e)' = JobOf(e) /\ KeyOf(e)' = KeyOf(e)
                            /\ IsText(e)' = IsText(e) /\ Live(e)' = Live(e)
                            /\ dispatch'[e].owned = dispatch[e].owned
    BY <1>2 DEF Moves, Others, JobOf, KeyOf, IsText, Live
  <1>5. /\ dispatch'[d].pc \in {"settle", "send"}
        /\ \A e \in Dispatch \ {d} : dispatch'[e] = dispatch[e]
    BY <1>2 DEF Moves, Others
  <1>6. \A e \in Dispatch : dispatch'[e].pc \in Unsettled => dispatch[e].pc \in Unsettled
    BY <1>1, <1>5 DEF At, Unsettled
  <1>7. Stage(d)'
    BY <1>t, <1>1, <1>4, <1>5 DEF Stage, At, BeforeReservation, Unsettled
  <1>8. \A e \in Dispatch \ {d} : Stage(e)'
    BY <1>1, <1>3, <1>4, <1>5 DEF ReplyInv, Stage
  <1>9. OwnershipInv'
    <2>1. ASSUME NEW e \in Dispatch, dispatch'[e].owned
          PROVE  /\ IsText(e)' /\ Reserved(KeyOf(e))' /\ record'[KeyOf(e)'].owner = e
                 /\ dispatch'[e].pc \in Unsettled => record'[KeyOf(e)'].reason = "reserved"
      BY <1>t, <1>1, <1>4, <1>6, <2>1 DEF OwnershipInv, Reserved
    <2>2. ASSUME NEW j \in Key, Reserved(j)'
          PROVE  /\ record'[j].owner \in Dispatch
                 /\ dispatch'[record'[j].owner].owned
                 /\ (KeyOf(record[j].owner) = j)'
                 /\ (record[j].dryRun = ~Live(record[j].owner))'
      BY <1>t, <1>1, <1>4, <2>2 DEF OwnershipInv, Reserved
    <2> QED
      BY <2>1, <2>2 DEF OwnershipInv
  <1> QED
    BY <1>7, <1>8, <1>9 DEF ReplyInv

\* Steps that leave the dispatches, the rows and the deliveries alone.
LEMMA IdleKeepsReplyInv ==
  ASSUME ReplyInv, UNCHANGED <<dispatch, record, accepted>>, faults' = 0 => faults = 0
  PROVE  ReplyInv'
  <1>1. OwnershipInv'
    BY DEF ReplyInv, OwnershipInv, IsText, KeyOf, JobOf, Reserved, Live
  <1>2. \A e \in Dispatch : Stage(e)'
    BY DEF ReplyInv, Stage, IsText, KeyOf, JobOf, Live
  <1> QED
    BY <1>1, <1>2 DEF ReplyInv

\* A crash leaves what a dispatch owned, its intent and its plan on its record.
LEMMA CrashKeepsReplyInv ==
  ASSUME TypeOK, ReplyInv, Crash
  PROVE  ReplyInv'
  <1>1. \A e \in Dispatch : /\ dispatch'[e].job = dispatch[e].job
                            /\ dispatch'[e].owned = dispatch[e].owned
                            /\ dispatch'[e].plan = dispatch[e].plan
                            /\ dispatch'[e].pc \in {dispatch[e].pc, "dead"}
    BY DEF Crash, TypeOK, DispatchState
  <1>2. UNCHANGED <<record, accepted, faults>>
    BY DEF Crash, LiveTestCrash
  <1>3. \A e \in Dispatch : /\ JobOf(e)' = JobOf(e) /\ KeyOf(e)' = KeyOf(e)
                            /\ IsText(e)' = IsText(e) /\ Live(e)' = Live(e)
    BY <1>1 DEF JobOf, KeyOf, IsText, Live
  <1>4. \A e \in Dispatch : Stage(e)'
    BY <1>1, <1>2, <1>3 DEF ReplyInv, Stage, BeforeReservation, Unsettled
  <1>5. ASSUME NEW e \in Dispatch, dispatch'[e].owned
        PROVE  /\ IsText(e)' /\ Reserved(KeyOf(e))' /\ record'[KeyOf(e)'].owner = e
               /\ dispatch'[e].pc \in Unsettled => record'[KeyOf(e)'].reason = "reserved"
    BY <1>1, <1>2, <1>3, <1>5 DEF ReplyInv, OwnershipInv, Reserved, Unsettled
  <1>6. ASSUME NEW j \in Key, Reserved(j)'
        PROVE  /\ record'[j].owner \in Dispatch
               /\ dispatch'[record'[j].owner].owned
               /\ (KeyOf(record[j].owner) = j)'
               /\ (record[j].dryRun = ~Live(record[j].owner))'
    BY <1>1, <1>2, <1>3, <1>6 DEF ReplyInv, OwnershipInv, Reserved
  <1>7. OwnershipInv'
    BY <1>5, <1>6 DEF OwnershipInv
  <1> QED
    BY <1>4, <1>7 DEF ReplyInv

LEMMA NextKeepsReplyInv == TypeOK /\ ReplyInv /\ [Next]_vars => ReplyInv'
  <1> SUFFICES ASSUME TypeOK, ReplyInv, [Next]_vars PROVE ReplyInv'
    OBVIOUS
  <1>t. faults \in Nat
    BY LiveTestAssumption DEF TypeOK, LiveTestTypeOK
  <1>1. CASE AdminStep /\ UNCHANGED outboundVars
    <2>1. faults' = 0 => faults = 0
      BY <1>t, <1>1 DEF AdminStep, StartGuards, StartExpires, StartFindsActive, StartCreates,
           StopFinds, StopCancels, TtlPasses, DbOk, DbError
    <2> QED
      BY <1>1, <2>1, IdleKeepsReplyInv DEF outboundVars
  <1>2. ASSUME NEW d \in Dispatch, Call(d) \/ Advance(d) PROVE ReplyInv'
    <2>1. CASE Call(d)
      BY <2>1, CallKeepsReplyInv
    <2>2. CASE \/ AcquireCooldown(d) \/ DispatcherCloses(d) \/ LookUp(d) \/ StrictReplay(d)
               \/ WriteMessage(d) \/ DryMessage(d) \/ SenderGate(d) \/ SenderCloses(d)
               \/ SenderRefuses(d) \/ SetCooldown(d)
      BY <2>2, MovesKeepReplyInv
    <2>3. CASE DispatcherGate(d)
      BY <2>3, DispatcherGateKeepsReplyInv
    <2>4. CASE Reserve(d)
      BY <2>4, ReserveKeepsReplyInv
    <2>5. CASE DryRecord(d) \/ Settle(d)
      BY <2>5, SettleKeepsReplyInv
    <2>6. CASE ProviderAccepts(d) \/ ProviderFails(d)
      BY <2>6, SendKeepsReplyInv
    <2> QED
      BY <1>2, <2>1, <2>2, <2>3, <2>4, <2>5, <2>6, Zenon DEF Advance
  <1>3. ASSUME NEW d \in Dispatch, Background(d) PROVE ReplyInv'
    <2>1. UNCHANGED <<dispatch, record, accepted>> /\ (DbOk \/ DbError)
      BY <1>3, Zenon DEF Background, CountSent, CompleteSession, NoteMessage
    <2>2. faults' = 0 => faults = 0
      BY <1>t, <2>1 DEF DbOk, DbError
    <2> QED
      BY <2>1, <2>2, IdleKeepsReplyInv
  <1>4. ASSUME NEW t \in Thread, CooldownExpires(t) \/ ClearCooldown(t) PROVE ReplyInv'
    <2>1. UNCHANGED <<dispatch, record, accepted>> /\ (UNCHANGED faults \/ DbOk \/ DbError)
      BY <1>4 DEF CooldownExpires, ClearCooldown, liveTestVars
    <2>2. faults' = 0 => faults = 0
      BY <1>t, <2>1 DEF DbOk, DbError
    <2> QED
      BY <2>1, <2>2, IdleKeepsReplyInv
  <1>5. CASE Crash
    BY <1>5, CrashKeepsReplyInv
  <1>6. CASE UNCHANGED vars
    BY <1>6, IdleKeepsReplyInv DEF vars, liveTestVars, outboundVars
  <1> QED
    BY <1>1, <1>2, <1>3, <1>4, <1>5, <1>6, Zenon DEF Next

\* The invariant behind the reply properties: reservations belong to the dispatch that
\* made them, and what a dispatch has done is bounded by the stage it is in.
THEOREM ReplyInvariant == Spec => []ReplyInv
  <1>1. Init => ReplyInv
    <2> SUFFICES ASSUME Init PROVE ReplyInv
      OBVIOUS
    <2>1. \A d \in Dispatch : /\ dispatch[d].pc = "idle" /\ ~dispatch[d].owned
                              /\ ~Live(d) /\ accepted[d] = 0
      BY DEF Init, Live
    <2>2. \A k \in Key : ~Reserved(k)
      BY DEF Init, Reserved
    <2>3. \A d \in Dispatch : Stage(d)
      BY <2>1 DEF Stage, Unsettled
    <2>4. OwnershipInv
      BY <2>1, <2>2 DEF OwnershipInv
    <2> QED
      BY <2>3, <2>4 DEF ReplyInv
  <1> QED
    BY <1>1, NextKeepsReplyInv, TypeCorrect, PTL DEF Spec

\* As long as no database error lets a dispatch past the gate without a reservation, an
\* idempotency key reaches Zalo through one dispatch at most, for any number of calls,
\* parts, crashes and cooldown expiries.
THEOREM OneReply == Spec => []OneReplyPerKey
  <1>1. TypeOK /\ ReplyInv => OneReplyPerKey
    <2> SUFFICES ASSUME TypeOK, ReplyInv, faults = 0, NEW d \in Dispatch, NEW e \in Dispatch,
                        IsText(d), KeyOf(d) = KeyOf(e), accepted[d] > 0, accepted[e] > 0
                 PROVE  d = e
      BY DEF OneReplyPerKey
    <2>1. Stage(d) /\ Stage(e) /\ IsText(e)
      BY DEF ReplyInv, IsText
    <2>2. dispatch[d].owned /\ dispatch[e].owned
      BY <2>1 DEF Stage
    <2>3. record[KeyOf(d)].owner = d /\ record[KeyOf(e)].owner = e
      BY <2>2 DEF ReplyInv, OwnershipInv
    <2> QED
      BY <2>3
  <1> QED
    BY <1>1, TypeCorrect, ReplyInvariant, PTL

\* A dry_run_only dispatch never reaches Zalo, and a row marked dryRun is never the row
\* of a delivered message, whatever fails.
THEOREM DryRunStaysDry == Spec => []DryRunDeliversNothing
  <1>1. TypeOK /\ ReplyInv => DryRunDeliversNothing
    <2> SUFFICES ASSUME TypeOK, ReplyInv PROVE DryRunDeliversNothing
      OBVIOUS
    <2>1. \A d \in Dispatch : accepted[d] \in Nat /\ Stage(d)
      BY OutboundAssumption DEF TypeOK, ReplyInv
    <2>2. \A d \in Dispatch : ~Live(d) => accepted[d] = 0
      BY <2>1 DEF Stage
    <2>3. \A d \in Dispatch : JobOf(d).strict => accepted[d] = 0
      BY <2>1, <2>2 DEF Stage
    <2>4. \A k \in Key : Reserved(k) /\ record[k].dryRun => accepted[record[k].owner] = 0
      BY <2>2 DEF ReplyInv, OwnershipInv
    <2> QED
      BY <2>3, <2>4 DEF DryRunDeliversNothing
  <1> QED
    BY <1>1, TypeCorrect, ReplyInvariant, PTL

-----------------------------------------------------------------------------
(* The outbound path implements the write-ahead ledger *)

\* Two states that agree on the rows and on who delivered under which key look the
\* same from the ledger.
LEMMA LedgerSame ==
  ASSUME \A k \in Key : record'[k].reason = record[k].reason,
         \A e \in Dispatch :
            /\ (dispatch'[e].owned /\ accepted'[e] > 0) <=> (dispatch[e].owned /\ accepted[e] > 0)
            /\ dispatch[e].owned /\ accepted[e] > 0 => KeyOf(e)' = KeyOf(e)
  PROVE  UNCHANGED Ledger!vars
  <1>1. LedgerEntry' = LedgerEntry
    BY DEF LedgerEntry
  <1>2. ASSUME NEW k \in Key
        PROVE  {d \in Dispatch : dispatch[d].owned /\ KeyOf(d) = k /\ accepted[d] > 0}'
                 = {d \in Dispatch : dispatch[d].owned /\ KeyOf(d) = k /\ accepted[d] > 0}
    OBVIOUS
  <1>3. LedgerSenders' = LedgerSenders
    BY <1>2 DEF LedgerSenders
  <1> QED
    BY <1>1, <1>3 DEF Ledger!vars

LEMMA MoveIsStutter ==
  ASSUME NEW d \in Dispatch, NEW pc, Moves(d, pc), UNCHANGED <<record, accepted>>
  PROVE  UNCHANGED Ledger!vars
  <1>1. \A e \in Dispatch : dispatch'[e].owned = dispatch[e].owned /\ KeyOf(e)' = KeyOf(e)
    BY DEF Moves, Others, KeyOf, JobOf
  <1> QED
    BY <1>1, LedgerSame

LEMMA MovesAreStutters ==
  ASSUME TypeOK, NEW d \in Dispatch,
         \/ AcquireCooldown(d) \/ DispatcherCloses(d) \/ LookUp(d) \/ StrictReplay(d)
         \/ WriteMessage(d) \/ DryMessage(d) \/ SenderGate(d) \/ SenderCloses(d)
         \/ SenderRefuses(d) \/ SetCooldown(d)
  PROVE  UNCHANGED Ledger!vars
  <1>t. dispatch \in [Dispatch -> DispatchState]
    BY DEF TypeOK
  <1>1. UNCHANGED <<record, accepted>>
    BY Zenon DEF AcquireCooldown, DispatcherCloses, LookUp, StrictReplay, WriteMessage,
       DryMessage, SenderGate, SenderCloses, SenderRefuses, SetCooldown
  <1>2. \E pc : Moves(d, pc)
    <2>1. CASE \E pc : Goto(d, pc)
      BY <1>t, <2>1, GotoMoves
    <2>2. CASE \E result : Return(d, result)
      BY <1>t, <2>2, ReturnMoves
    <2>3. CASE StrictFailure(d)
      BY <1>t, <2>3, StrictFailureMoves
    <2>4. CASE \E pc, o : dispatch' = [dispatch EXCEPT ![d].pc = pc, ![d].outcome = o]
      BY <1>t, <2>4, OutcomeMoves
    <2>5. CASE \E pc, s : dispatch' = [dispatch EXCEPT ![d].pc = pc, ![d].auth = s]
      BY <1>t, <2>5, AuthMoves
    <2>6. CASE \E pc, s, c : dispatch' = [dispatch EXCEPT ![d].pc = pc, ![d].stale = s,
                                                         ![d].closeAs = c]
      BY <1>t, <2>6, StaleMoves
    <2> DEFINE Shape == \/ \E pc : Goto(d, pc)
                        \/ \E result : Return(d, result)
                        \/ StrictFailure(d)
                        \/ \E pc, o : dispatch' = [dispatch EXCEPT ![d].pc = pc, ![d].outcome = o]
                        \/ \E pc, s : dispatch' = [dispatch EXCEPT ![d].pc = pc, ![d].auth = s]
                        \/ \E pc, s, c : dispatch' = [dispatch EXCEPT ![d].pc = pc,
                                                      ![d].stale = s, ![d].closeAs = c]
    <2>7. AcquireCooldown(d) \/ DispatcherCloses(d) \/ LookUp(d) \/ StrictReplay(d) => Shape
      BY DEF AcquireCooldown, DispatcherCloses, LookUp, StrictReplay
    <2>8. WriteMessage(d) \/ DryMessage(d) \/ SenderRefuses(d) \/ SetCooldown(d) => Shape
      BY DEF WriteMessage, Proceed, DryMessage, SenderRefuses, SetCooldown
    <2>9. SenderGate(d) \/ SenderCloses(d) => Shape
      BY DEF SenderGate, SenderCloses
    <2> QED
      BY <2>1, <2>2, <2>3, <2>4, <2>5, <2>6, <2>7, <2>8, <2>9
  <1> QED
    BY <1>1, <1>2, MoveIsStutter

\* A call and a live check touch only dispatches that have delivered nothing.
LEMMA EarlyIsStutter ==
  ASSUME TypeOK, ReplyInv, NEW d \in Dispatch, Call(d) \/ DispatcherGate(d)
  PROVE  UNCHANGED Ledger!vars
  <1>1. UNCHANGED <<record, accepted>>
    BY Zenon DEF Call, DispatcherGate
  <1>2. accepted[d] = 0
    BY DEF ReplyInv, Stage, Call, DispatcherGate, At, BeforeReservation
  <1>3. \A e \in Dispatch \ {d} : dispatch'[e] = dispatch[e]
    <2>1. dispatch \in [Dispatch -> DispatchState]
      BY DEF TypeOK
    <2>2. CASE Call(d)
      BY <2>1, <2>2 DEF Call
    <2>3. CASE DispatcherGate(d)
      BY <2>1, <2>3 DEF DispatcherGate, Goto
    <2> QED
      BY <2>2, <2>3
  <1> QED
    BY <1>1, <1>2, <1>3, LedgerSame DEF KeyOf, JobOf

LEMMA ReserveIsLedgerStep ==
  ASSUME TypeOK, ReplyInv, NEW d \in Dispatch, Reserve(d)
  PROVE  [Ledger!Next]_Ledger!vars
  <1>t. /\ dispatch \in [Dispatch -> DispatchState] /\ record \in [Key -> RecordRow]
        /\ UNCHANGED accepted /\ Stage(d) /\ At(d, "reserve")
    BY DEF TypeOK, ReplyInv, Reserve
  <1>1. CASE UNCHANGED record /\ (\/ Goto(d, "replay") \/ Return(d, "duplicate")
                                  \/ StrictFailure(d) \/ Goto(d, "write"))
    BY <1>t, <1>1, GotoMoves, ReturnMoves, StrictFailureMoves, MoveIsStutter
  <1>2. CASE /\ ~Reserved(KeyOf(d))
             /\ record' = [record EXCEPT ![KeyOf(d)] =
                    [reason |-> "reserved", sentId |-> NoDispatch,
                     dryRun |-> ~Live(d), owner |-> d]]
             /\ dispatch' = [dispatch EXCEPT ![d].pc = "write", ![d].owned = TRUE]
    <2>1. KeyOf(d) \in Key
      <3>1. dispatch[d].job \in Job
        BY <1>t DEF DispatchState
      <3>2. KeyOf(d) \in Key \cup {NoKey}
        BY <3>1, OutboundAssumption DEF KeyOf, JobOf
      <3> QED
        BY <1>t, <3>2 DEF Stage, At, IsText
    <2>2. accepted[d] = 0
      BY <1>t DEF Stage, At, BeforeReservation
    <2>3. /\ \A e \in Dispatch \ {d} : dispatch'[e] = dispatch[e]
          /\ \A e \in Dispatch : KeyOf(e)' = KeyOf(e)
      BY <1>t, <1>2 DEF DispatchState, KeyOf, JobOf
    <2>4. LedgerSenders' = LedgerSenders
      <3>1. ASSUME NEW k \in Key
            PROVE  {e \in Dispatch : dispatch[e].owned /\ KeyOf(e) = k /\ accepted[e] > 0}'
                     = {e \in Dispatch : dispatch[e].owned /\ KeyOf(e) = k /\ accepted[e] > 0}
        BY <1>t, <2>2, <2>3
      <3> QED
        BY <3>1 DEF LedgerSenders
    <2>5. LedgerEntry[KeyOf(d)] = "free"
      BY <1>2, <2>1 DEF LedgerEntry, Reserved
    <2>6. \A k \in Key : record'[k].reason = IF k = KeyOf(d) THEN "reserved" ELSE record[k].reason
      BY <1>t, <1>2, <2>1
    <2>7. LedgerEntry' = [LedgerEntry EXCEPT ![KeyOf(d)] = "reserved"]
      BY <2>1, <2>6 DEF LedgerEntry
    <2> QED
      BY <2>1, <2>4, <2>5, <2>7 DEF Ledger!Next, Ledger!Reserve
  <1> QED
    BY <1>1, <1>2, Zenon DEF Reserve

LEMMA SettleIsLedgerStep ==
  ASSUME TypeOK, ReplyInv, NEW d \in Dispatch, DryRecord(d) \/ Settle(d)
  PROVE  [Ledger!Next]_Ledger!vars
  <1>t. /\ dispatch \in [Dispatch -> DispatchState] /\ record \in [Key -> RecordRow]
        /\ OwnershipInv
    BY DEF TypeOK, ReplyInv
  <1>a. UNCHANGED accepted /\ (At(d, "dryRecord") \/ At(d, "settle"))
    BY Zenon DEF DryRecord, Settle
  <1>m. Moves(d, "cool") \/ Moves(d, "done")
    BY <1>t, GotoMoves, StrictFailureMoves DEF DryRecord, Settle
  <1>1. CASE UNCHANGED record
    BY <1>a, <1>m, <1>1, MoveIsStutter
  <1>2. ASSUME dispatch[d].owned, NEW reason \in {"dry_run", "live_test", "send_failed"}, NEW sentId,
               record' = [record EXCEPT ![KeyOf(d)] = [@ EXCEPT !.reason = reason, !.sentId = sentId]]
        PROVE  [Ledger!Next]_Ledger!vars
    <2>1. KeyOf(d) \in Key
      <3>1. dispatch[d].job \in Job
        BY <1>t DEF DispatchState
      <3>2. KeyOf(d) \in Key \cup {NoKey}
        BY <3>1, OutboundAssumption DEF KeyOf, JobOf
      <3> QED
        BY <1>t, <1>2, <3>2 DEF OwnershipInv, IsText
    <2>2. record[KeyOf(d)].reason = "reserved"
      BY <1>t, <1>a, <1>2 DEF OwnershipInv, At, Unsettled
    <2>3. \A k \in Key : record'[k].reason = IF k = KeyOf(d) THEN reason ELSE record[k].reason
      <3>1. record[KeyOf(d)] \in RecordRow
        BY <1>t, <2>1
      <3> DEFINE row == [record[KeyOf(d)] EXCEPT !.reason = reason, !.sentId = sentId]
      <3>2. row.reason = reason
        BY <3>1 DEF RecordRow
      <3>3. record' = [record EXCEPT ![KeyOf(d)] = row]
        BY <1>2, Zenon
      <3> HIDE DEF row
      <3> QED
        BY <1>t, <2>1, <3>2, <3>3
    <2>4. LedgerEntry[KeyOf(d)] = "reserved" /\ LedgerEntry' = [LedgerEntry EXCEPT ![KeyOf(d)] = "settled"]
      BY <2>1, <2>2, <2>3 DEF LedgerEntry
    <2>5. \A e \in Dispatch : dispatch'[e].owned = dispatch[e].owned /\ KeyOf(e)' = KeyOf(e)
      BY <1>m DEF Moves, Others, KeyOf, JobOf
    <2>6. LedgerSenders' = LedgerSenders
      <3>1. ASSUME NEW k \in Key
            PROVE  {e \in Dispatch : dispatch[e].owned /\ KeyOf(e) = k /\ accepted[e] > 0}'
                     = {e \in Dispatch : dispatch[e].owned /\ KeyOf(e) = k /\ accepted[e] > 0}
        BY <1>a, <2>5
      <3> QED
        BY <3>1 DEF LedgerSenders
    <2> QED
      BY <2>1, <2>4, <2>6 DEF Ledger!Next, Ledger!Settle
  <1> DEFINE outcome == IF dispatch[d].outcome = "failed" THEN "send_failed" ELSE "live_test"
  <1>3. \/ UNCHANGED record
        \/ /\ dispatch[d].owned
           /\ \/ record' = [record EXCEPT ![KeyOf(d)] =
                                [@ EXCEPT !.reason = "dry_run", !.sentId = d]]
              \/ record' = [record EXCEPT ![KeyOf(d)] =
                                [@ EXCEPT !.reason = outcome, !.sentId = SentId(d)]]
    BY Zenon DEF DryRecord, Settle
  <1>4. outcome \in {"dry_run", "live_test", "send_failed"}
    OBVIOUS
  <1> HIDE DEF outcome
  <1> QED
    BY <1>1, <1>2, <1>3, <1>4

LEMMA SendIsLedgerStep ==
  ASSUME TypeOK, ReplyInv, NEW d \in Dispatch, ProviderAccepts(d) \/ ProviderFails(d)
  PROVE  [Ledger!Next]_Ledger!vars
  <1>t. /\ dispatch \in [Dispatch -> DispatchState] /\ accepted \in [Dispatch -> 0 .. Parts]
        /\ OwnershipInv /\ Parts \in Nat
    BY OutboundAssumption DEF TypeOK, ReplyInv
  <1>1. UNCHANGED record /\ At(d, "send")
    BY DEF ProviderAccepts, ProviderFails
  <1>2. Moves(d, "settle") \/ Moves(d, "send")
    <2>1. CASE UNCHANGED dispatch
      BY <1>1, <2>1 DEF Moves, Others, At
    <2>2. CASE \E o : dispatch' = [dispatch EXCEPT ![d].pc = "settle", ![d].outcome = o]
      BY <1>t, <2>2, OutcomeMoves
    <2> QED
      BY <2>1, <2>2, Zenon DEF ProviderAccepts, ProviderFails
  <1>3. \A e \in Dispatch : dispatch'[e].owned = dispatch[e].owned /\ KeyOf(e)' = KeyOf(e)
    BY <1>2 DEF Moves, Others, KeyOf, JobOf
  <1>4. /\ \A e \in Dispatch \ {d} : accepted'[e] = accepted[e]
        /\ accepted[d] > 0 => accepted'[d] > 0
    BY <1>t DEF ProviderAccepts, ProviderFails
  <1>5. CASE ~dispatch[d].owned \/ accepted[d] > 0 \/ ~(accepted'[d] > 0)
    <2>1. \A e \in Dispatch :
             /\ (dispatch'[e].owned /\ accepted'[e] > 0) <=> (dispatch[e].owned /\ accepted[e] > 0)
             /\ dispatch[e].owned /\ accepted[e] > 0 => KeyOf(e)' = KeyOf(e)
      BY <1>3, <1>4, <1>5
    <2> QED
      BY <1>1, <2>1, LedgerSame
  <1>6. CASE dispatch[d].owned /\ ~(accepted[d] > 0) /\ accepted'[d] > 0
    <2>1. KeyOf(d) \in Key
      <3>1. dispatch[d].job \in Job
        BY <1>t DEF DispatchState
      <3>2. KeyOf(d) \in Key \cup {NoKey}
        BY <3>1, OutboundAssumption DEF KeyOf, JobOf
      <3> QED
        BY <1>t, <1>6, <3>2 DEF OwnershipInv, IsText
    <2>2. record[KeyOf(d)].reason = "reserved"
      BY <1>t, <1>1, <1>6 DEF OwnershipInv, At, Unsettled
    <2>3. \A e \in Dispatch : dispatch[e].owned /\ KeyOf(e) = KeyOf(d) => e = d
      BY <1>t, <1>6 DEF OwnershipInv
    <2>4. LedgerEntry[KeyOf(d)] = "reserved" /\ LedgerEntry' = LedgerEntry
      BY <1>1, <2>1, <2>2 DEF LedgerEntry
    <2>5. LedgerSenders[KeyOf(d)] = {}
      BY <1>6, <2>1, <2>3 DEF LedgerSenders
    <2>6. LedgerSenders' = [LedgerSenders EXCEPT ![KeyOf(d)] = {d}]
      <3> DEFINE S(k) == {e \in Dispatch : dispatch[e].owned /\ KeyOf(e) = k /\ accepted[e] > 0}
      <3>1. ASSUME NEW k \in Key, k # KeyOf(d) PROVE S(k)' = S(k)
        BY <1>3, <1>4, <3>1
      <3>2. S(KeyOf(d))' = {d}
        BY <1>3, <1>4, <1>6, <2>3
      <3>3. KeyOf(d)' = KeyOf(d)
        BY <1>3
      <3>4. \A k \in Key : S(k)' = IF k = KeyOf(d) THEN {d} ELSE S(k)
        BY <3>1, <3>2, <3>3
      <3>5. LedgerSenders = [k \in Key |-> S(k)] /\ LedgerSenders' = [k \in Key |-> S(k)']
        BY DEF LedgerSenders
      <3> HIDE DEF S
      <3> QED
        BY <2>1, <3>4, <3>5
    <2> QED
      BY <2>1, <2>4, <2>5, <2>6 DEF Ledger!Next, Ledger!Deliver
  <1> QED
    BY <1>5, <1>6

\* Every behaviour of the outbound path is, key by key, a behaviour of the write-ahead
\* ledger: an entry before the delivery, one sender for it, and an outcome at most once.
THEOREM LedgerImplemented == Spec => ImplementsLedger
  <1>1. Init => Ledger!Init
    <2> SUFFICES ASSUME Init PROVE Ledger!Init
      OBVIOUS
    <2>1. LedgerEntry = [k \in Key |-> "free"]
      BY DEF Init, LedgerEntry
    <2>2. \A d \in Dispatch : ~dispatch[d].owned
      BY DEF Init
    <2>3. LedgerSenders = [k \in Key |-> {}]
      BY <2>2 DEF LedgerSenders
    <2> QED
      BY <2>1, <2>3 DEF Ledger!Init
  <1>2. TypeOK /\ ReplyInv /\ [Next]_vars => [Ledger!Next]_Ledger!vars
    <2> SUFFICES ASSUME TypeOK, ReplyInv, [Next]_vars PROVE [Ledger!Next]_Ledger!vars
      OBVIOUS
    <2>0. CASE UNCHANGED <<dispatch, record, accepted>>
      BY <2>0, LedgerSame DEF KeyOf, JobOf
    <2>1. ASSUME NEW d \in Dispatch, Call(d) \/ Advance(d) PROVE [Ledger!Next]_Ledger!vars
      <3>1. CASE Call(d) \/ DispatcherGate(d)
        BY <3>1, EarlyIsStutter
      <3>2. CASE \/ AcquireCooldown(d) \/ DispatcherCloses(d) \/ LookUp(d) \/ StrictReplay(d)
                 \/ WriteMessage(d) \/ DryMessage(d) \/ SenderGate(d) \/ SenderCloses(d)
                 \/ SenderRefuses(d) \/ SetCooldown(d)
        BY <3>2, MovesAreStutters
      <3>3. CASE Reserve(d)
        BY <3>3, ReserveIsLedgerStep
      <3>4. CASE DryRecord(d) \/ Settle(d)
        BY <3>4, SettleIsLedgerStep
      <3>5. CASE ProviderAccepts(d) \/ ProviderFails(d)
        BY <3>5, SendIsLedgerStep
      <3> QED
        BY <2>1, <3>1, <3>2, <3>3, <3>4, <3>5, Zenon DEF Advance
    <2>2. ASSUME NEW d \in Dispatch, Background(d) PROVE [Ledger!Next]_Ledger!vars
      BY <2>0, <2>2, Zenon DEF Background, CountSent, CompleteSession, NoteMessage
    <2>3. CASE Crash
      <3>1. \A e \in Dispatch : dispatch'[e].owned = dispatch[e].owned /\ KeyOf(e)' = KeyOf(e)
        BY <2>3 DEF Crash, TypeOK, DispatchState, KeyOf, JobOf
      <3> QED
        BY <2>3, <3>1, LedgerSame DEF Crash
    <2> QED
      BY <2>0, <2>1, <2>2, <2>3 DEF Next, CooldownExpires, ClearCooldown, outboundVars, vars
  <1> QED
    BY <1>1, <1>2, TypeCorrect, ReplyInvariant, PTL DEF Spec, ImplementsLedger, Ledger!Spec

-----------------------------------------------------------------------------
(* Sessions, cooldowns and quotas: the invariants *)

Opened(s, t) == s \in Session /\ session[s].status # "absent" /\ session[s].thread = t

\* A session a dispatch was let through by is a row of the dispatch's own thread.
SessionInv ==
    \A d \in Dispatch :
        /\ Live(d) => Opened(dispatch[d].plan, JobOf(d).thread)
        /\ dispatch[d].auth # NoSession => Opened(dispatch[d].auth, JobOf(d).thread)
        /\ dispatch[d].pc = "send" \/ accepted[d] > 0 => dispatch[d].auth # NoSession
        /\ dispatch[d].pc \in {"idle", "begin"} => dispatch[d].auth = NoSession
        /\ accounting[d] # "none" =>
               dispatch[d].auth # NoSession /\ dispatch[d].pc \in {"settle", "cool", "done"}
        /\ dispatch[d].pc \in {"sender", "senderClosing", "send"} => dispatch[d].outcome = "none"

Flight(t) == {d \in Dispatch : JobOf(d).thread = t /\ InFlight(d)}
Confirmed(s) == {d \in Dispatch : dispatch[d].auth = s /\ dispatch[d].outcome = "ok"}
Pending(s) == {d \in Dispatch : dispatch[d].auth = s /\ accounting[d] = "count"}
Underway(s) == {d \in Dispatch : dispatch[d].auth = s /\ dispatch[d].pc = "send"}

\* The dispatches of a thread in flight beyond the one that its cooldown stands for.
Excess(t) == Cardinality(Flight(t)) - (IF cooldown[t].held /\ Flight(t) # {} THEN 1 ELSE 0)

\* Sends that a crash, an error or an early end of the cooldown can account for.
Allowance(s) == crashes + faults + cooldown[session[s].thread].outlived

\* A confirmed send is counted, pending, or accounted for, and so is every dispatch in
\* flight that is one too many; the sends under way fit what is left of the quota.
Within(s) ==
    /\ IsFiniteSet(Flight(session[s].thread)) /\ IsFiniteSet(Confirmed(s))
    /\ Cardinality(Confirmed(s)) + Excess(session[s].thread)
           <= session[s].sentCount + Cardinality(Pending(s)) + Allowance(s)
    /\ Cardinality(Confirmed(s)) + Cardinality(Underway(s))
           <= session[s].maxMessages + Allowance(s)

CountInv == \A s \in Session : Within(s)

Sealing == {"cool", "done", "dead"}
Unwritten == [status |-> "absent", sentId |-> NoDispatch, record |-> NoKey]

\* What a dispatch has written at each stage, and what the final row of a key says of
\* the dispatch that owns it.
Written(d) ==
    /\ dispatch[d].result # "none" => dispatch[d].pc = "done"
    /\ dispatch[d].pc \in BeforeReservation \cup {"write"} =>
           message[d] = Unwritten /\ d \notin noting
    /\ message[d].record # NoKey => dispatch[d].owned /\ message[d].record = KeyOf(d)
    /\ dispatch[d].pc = "dryMessage" =>
           JobOf(d).strict /\ message[d].record = KeyOf(d) /\ message[d].sentId = NoDispatch
    /\ dispatch[d].pc \in {"dryMessage", "dryRecord"} => dispatch[d].outcome = "dry"
    /\ dispatch[d].pc = "dryRecord" /\ JobOf(d).strict =>
           message[d] = [status |-> "dryRun", sentId |-> d, record |-> KeyOf(d)]
    /\ dispatch[d].pc \in {"dryMessage", "dryRecord", "cool"} /\ JobOf(d).strict =>
           IsText(d) /\ dispatch[d].owned
    /\ dispatch[d].pc = "settle" => Live(d)
    /\ JobOf(d).strict => d \notin noting

Sealed(k) ==
    /\ record[k].sentId \in {NoDispatch, record[k].owner}
    /\ record[k].sentId # NoDispatch =>
           /\ record[k].reason # "reserved"
           /\ dispatch[record[k].owner].pc \in Sealing
           /\ dispatch[record[k].owner].outcome # "failed"

WrittenInv ==
    /\ \A d \in Dispatch : Written(d)
    /\ \A k \in Key : Reserved(k) => Sealed(k)

\* What a dry_run_only dispatch has behind it when it reports success, and just before.
ProvenInv ==
    \A d \in Dispatch :
        JobOf(d).strict
            /\ (dispatch[d].pc = "cool" \/ dispatch[d].result \in {"dry_run", "duplicate"})
        => IsText(d) /\ Proven(KeyOf(d))

-----------------------------------------------------------------------------
(* What a step of a dispatch does to its own record *)

Sets(d, pc, plan, auth, outcome, result) ==
    /\ Others(d)
    /\ dispatch'[d].pc = pc
    /\ dispatch'[d].job = dispatch[d].job
    /\ dispatch'[d].plan = plan
    /\ dispatch'[d].auth = auth
    /\ dispatch'[d].outcome = outcome
    /\ dispatch'[d].result = result

\* A step that moves on without an answer from a session or the sender.
MovesOn(d, pc) == Sets(d, pc, dispatch[d].plan, dispatch[d].auth, dispatch[d].outcome, dispatch[d].result)
Ends(d, result) == Sets(d, "done", dispatch[d].plan, dispatch[d].auth, dispatch[d].outcome, result)
Answers(d, pc, outcome) == Sets(d, pc, dispatch[d].plan, dispatch[d].auth, outcome, dispatch[d].result)

LEMMA GotoSets ==
  ASSUME dispatch \in [Dispatch -> DispatchState], NEW d \in Dispatch, NEW pc, Goto(d, pc)
  PROVE  MovesOn(d, pc) /\ dispatch'[d].owned = dispatch[d].owned
  BY DEF Goto, MovesOn, Sets, Others, DispatchState

LEMMA ReturnSets ==
  ASSUME dispatch \in [Dispatch -> DispatchState], NEW d \in Dispatch, NEW result,
         Return(d, result)
  PROVE  Ends(d, result) /\ dispatch'[d].owned = dispatch[d].owned
  BY DEF Return, Ends, Sets, Others, DispatchState

LEMMA StrictFailureSets ==
  ASSUME dispatch \in [Dispatch -> DispatchState], NEW d \in Dispatch, StrictFailure(d)
  PROVE  Ends(d, "unproven") /\ JobOf(d).strict /\ dispatch'[d].owned = dispatch[d].owned
  BY ReturnSets DEF StrictFailure

LEMMA OutcomeSets ==
  ASSUME dispatch \in [Dispatch -> DispatchState], NEW d \in Dispatch, NEW pc, NEW outcome,
         dispatch' = [dispatch EXCEPT ![d].pc = pc, ![d].outcome = outcome]
  PROVE  Answers(d, pc, outcome) /\ dispatch'[d].owned = dispatch[d].owned
  BY DEF Answers, Sets, Others, DispatchState

LEMMA PlanSets ==
  ASSUME dispatch \in [Dispatch -> DispatchState], NEW d \in Dispatch, NEW pc, NEW s,
         dispatch' = [dispatch EXCEPT ![d].pc = pc, ![d].plan = s]
  PROVE  /\ Sets(d, pc, s, dispatch[d].auth, dispatch[d].outcome, dispatch[d].result)
         /\ dispatch'[d].owned = dispatch[d].owned
  BY DEF Sets, Others, DispatchState

LEMMA AuthSets ==
  ASSUME dispatch \in [Dispatch -> DispatchState], NEW d \in Dispatch, NEW pc, NEW s,
         dispatch' = [dispatch EXCEPT ![d].pc = pc, ![d].auth = s]
  PROVE  /\ Sets(d, pc, dispatch[d].plan, s, dispatch[d].outcome, dispatch[d].result)
         /\ dispatch'[d].owned = dispatch[d].owned
  BY DEF Sets, Others, DispatchState

LEMMA StaleSets ==
  ASSUME dispatch \in [Dispatch -> DispatchState], NEW d \in Dispatch, NEW pc, NEW s, NEW c,
         dispatch' = [dispatch EXCEPT ![d].pc = pc, ![d].stale = s, ![d].closeAs = c]
  PROVE  MovesOn(d, pc) /\ dispatch'[d].owned = dispatch[d].owned
  BY DEF MovesOn, Sets, Others, DispatchState

LEMMA OwnedSets ==
  ASSUME dispatch \in [Dispatch -> DispatchState], NEW d \in Dispatch,
         dispatch' = [dispatch EXCEPT ![d].pc = "write", ![d].owned = TRUE]
  PROVE  MovesOn(d, "write") /\ dispatch'[d].owned
  BY DEF MovesOn, Sets, Others, DispatchState

\* Which fields of its record a dispatch may change at which stage.
Accepts(d) ==
    /\ dispatch[d].pc = "send" /\ dispatch'[d].pc = "settle"
    /\ dispatch'[d].auth = dispatch[d].auth
    /\ accounting' = [accounting EXCEPT ![d] = "count"]

LetThrough(d) ==
    /\ dispatch[d].pc = "sender" /\ dispatch'[d].pc = "send"
    /\ dispatch'[d].auth \in ActiveFor(JobOf(d).thread)
    /\ ~Spent(dispatch'[d].auth)
    /\ dispatch'[d].outcome = dispatch[d].outcome

Acquires(d) ==
    /\ dispatch[d].pc = "begin"
    /\ ~cooldown[JobOf(d).thread].held
    /\ cooldown' = [cooldown EXCEPT ![JobOf(d).thread].held = TRUE]

Sending == {"sender", "senderClosing", "send"}
Resting == {"idle", "begin", "done", "dead"}
Ending == {"settle", "cool", "done"}

Delta(d) ==
    /\ Others(d)
    /\ \/ dispatch'[d].job = dispatch[d].job
       \/ dispatch[d].pc = "idle" /\ dispatch'[d].pc \in {"begin", "done"}
    /\ dispatch'[d].pc \in {"idle", "begin"} => dispatch[d].pc \in {"idle", "begin"}
    /\ \/ dispatch'[d].plan = dispatch[d].plan
       \/ dispatch[d].pc = "gate" /\ dispatch'[d].plan \in ActiveFor(JobOf(d).thread)
    /\ \/ dispatch'[d].auth = dispatch[d].auth /\ (dispatch'[d].pc = "send" => dispatch[d].pc = "send")
       \/ LetThrough(d)
    /\ dispatch'[d].pc \in Sending =>
          \/ dispatch'[d].outcome = "none"
          \/ dispatch[d].pc \in Sending /\ dispatch'[d].outcome = dispatch[d].outcome
    /\ dispatch'[d].outcome = "ok" => dispatch[d].outcome = "ok" \/ Accepts(d)
    /\ dispatch'[d].pc \in Resting \/ dispatch[d].pc \notin Resting \/ Acquires(d)
    /\ dispatch[d].pc \in Ending => dispatch'[d].pc \in Ending
    /\ dispatch[d].pc \in Sealing =>
          dispatch'[d].pc \in Sealing /\ dispatch'[d].outcome = dispatch[d].outcome

LEMMA DispatchDelta ==
  ASSUME TypeOK, NEW d \in Dispatch, Call(d) \/ Advance(d) \/ Background(d)
  PROVE  Delta(d)
  <1>t. dispatch \in [Dispatch -> DispatchState] /\ accounting \in [Dispatch -> {"none", "count", "complete"}]
    BY DEF TypeOK
  <1>g. AfterGate(d) \in {"lookup", "write"}
    BY DEF AfterGate
  <1>n. /\ \A pc : MovesOn(d, pc) /\ dispatch[d].pc \notin {"send", "idle", "begin"} \cup Ending
                  /\ pc \notin {"send", "idle", "begin"} /\ (pc \in Sending => dispatch[d].pc \in Sending)
                  /\ dispatch[d].pc \notin Resting
                  => Delta(d)
        /\ \A result : Ends(d, result) => Delta(d)
    BY DEF MovesOn, Ends, Sets, Delta, Sending, Resting, Ending, Sealing
  <1> USE DEF At
  <1>1. CASE Call(d)
    <2>1. PICK j \in Job :
             \/ dispatch' = [dispatch EXCEPT ![d].pc = "begin", ![d].job = j]
             \/ dispatch' = [dispatch EXCEPT ![d].pc = "done", ![d].job = j, ![d].result = "refused"]
      BY <1>1 DEF Call
    <2>2. /\ Others(d) /\ dispatch[d].pc = "idle" /\ dispatch'[d].pc \in {"begin", "done"}
          /\ dispatch'[d].plan = dispatch[d].plan /\ dispatch'[d].auth = dispatch[d].auth
          /\ dispatch'[d].outcome = dispatch[d].outcome
      <3>1. dispatch[d].pc = "idle"
        BY <1>1 DEF Call
      <3>2. CASE dispatch' = [dispatch EXCEPT ![d].pc = "begin", ![d].job = j]
        BY <1>t, <3>1, <3>2 DEF Others, DispatchState
      <3>3. CASE dispatch' = [dispatch EXCEPT ![d].pc = "done", ![d].job = j, ![d].result = "refused"]
        BY <1>t, <3>1, <3>3 DEF Others, DispatchState
      <3> QED
        BY <2>1, <3>2, <3>3
    <2> QED
      BY <2>2 DEF Delta, Sending, Resting, Ending, Sealing
  <1>2. CASE AcquireCooldown(d)
    <2>1. CASE \E result : Ends(d, result)
      BY <1>n, <2>1
    <2>2. CASE Acquires(d) /\ (MovesOn(d, "gate") \/ MovesOn(d, AfterGate(d)))
      BY <1>g, <2>2 DEF Acquires, MovesOn, Sets, Delta, Sending, Resting, Ending, Sealing
    <2> QED
      <3>1. \/ Return(d, "cooldown") \/ Return(d, "thrown")
            \/ Acquires(d) /\ (Goto(d, "gate") \/ Goto(d, AfterGate(d)))
        BY <1>2 DEF AcquireCooldown, Acquires
      <3> QED
        BY <1>t, <2>1, <2>2, <3>1, ReturnSets, GotoSets
  <1>3. CASE DispatcherGate(d)
    <2>1. CASE Goto(d, AfterGate(d))
      BY <1>t, <1>3, <1>g, <1>n, <2>1, GotoSets DEF DispatcherGate, Resting, Ending, Sending, Sealing
    <2>2. CASE \E s \in ActiveFor(JobOf(d).thread) :
                  dispatch' = [dispatch EXCEPT ![d].pc = "closing", ![d].stale = s, ![d].closeAs = SpentAs(s)]
      <3>1. MovesOn(d, "closing")
        BY <1>t, <2>2, StaleSets
      <3> QED
        BY <1>3, <1>n, <3>1 DEF DispatcherGate, Resting, Ending, Sending, Sealing
    <2>3. CASE \E s \in ActiveFor(JobOf(d).thread) :
                  dispatch' = [dispatch EXCEPT ![d].pc = AfterGate(d), ![d].plan = s]
      <3>1. PICK s \in ActiveFor(JobOf(d).thread) :
               dispatch' = [dispatch EXCEPT ![d].pc = AfterGate(d), ![d].plan = s]
        BY <2>3
      <3>2. Sets(d, AfterGate(d), s, dispatch[d].auth, dispatch[d].outcome, dispatch[d].result)
        BY <1>t, <3>1, PlanSets
      <3> QED
        BY <1>3, <1>g, <3>2 DEF DispatcherGate, Sets, Delta, Sending, Resting, Ending, Sealing
    <2> QED
      BY <1>3, <2>1, <2>2, <2>3 DEF DispatcherGate
  <1>4. CASE DispatcherCloses(d)
    BY <1>t, <1>4, <1>g, <1>n, GotoSets DEF DispatcherCloses, Resting, Ending, Sending, Sealing
  <1>5. CASE LookUp(d)
    <2>1. \/ Return(d, "duplicate") \/ StrictFailure(d) \/ Goto(d, "replay") \/ Goto(d, "reserve")
      BY <1>5 DEF LookUp
    <2> QED
      BY <1>t, <1>5, <1>n, <2>1, GotoSets, ReturnSets, StrictFailureSets DEF LookUp, Resting, Ending, Sending, Sealing
  <1>6. CASE StrictReplay(d)
    <2>1. Return(d, "duplicate") \/ StrictFailure(d)
      BY <1>6 DEF StrictReplay
    <2> QED
      BY <1>t, <1>n, <2>1, ReturnSets, StrictFailureSets
  <1>7. CASE Reserve(d)
    <2>1. \/ Return(d, "duplicate") \/ StrictFailure(d) \/ Goto(d, "replay") \/ Goto(d, "write")
          \/ dispatch' = [dispatch EXCEPT ![d].pc = "write", ![d].owned = TRUE]
      BY <1>7 DEF Reserve
    <2>2. \/ \E result : Ends(d, result)
          \/ MovesOn(d, "replay") \/ MovesOn(d, "write")
      BY <1>t, <2>1, GotoSets, ReturnSets, StrictFailureSets, OwnedSets
    <2> QED
      BY <1>7, <1>n, <2>2 DEF Reserve, Resting, Ending, Sending, Sealing
  <1>8. CASE WriteMessage(d)
    <2>1. CASE StrictFailure(d)
      BY <1>t, <1>n, <2>1, StrictFailureSets
    <2>2. CASE Proceed(d)
      <3>1. Answers(d, AfterWrite(d), IF Live(d) /\ IsText(d) THEN "none" ELSE "dry")
        BY <1>t, <2>2, OutcomeSets DEF Proceed
      <3>2. /\ AfterWrite(d) \in {"sender", "settle", "dryMessage", "dryRecord"}
            /\ AfterWrite(d) = "sender" => Live(d) /\ IsText(d)
        BY DEF AfterWrite
      <3> QED
        BY <1>8, <3>1, <3>2, SMT DEF WriteMessage, Answers, Sets, Delta, Sending, Resting, Ending, Sealing
    <2> QED
      BY <1>8, <2>1, <2>2, Zenon DEF WriteMessage
  <1>9. CASE DryMessage(d)
    BY <1>t, <1>9, <1>n, GotoSets, StrictFailureSets DEF DryMessage, Resting, Ending, Sending, Sealing
  <1>10. CASE DryRecord(d)
    <2>1. Goto(d, "cool") \/ StrictFailure(d)
      BY <1>10 DEF DryRecord
    <2> QED
      BY <1>t, <1>10, <1>n, <2>1, GotoSets, StrictFailureSets DEF DryRecord, Resting, Ending, Sending, Sealing
  <1>11. CASE SenderGate(d)
    <2>1. CASE dispatch' = [dispatch EXCEPT ![d].pc = "settle", ![d].outcome = "dry"]
      <3>1. Answers(d, "settle", "dry")
        BY <1>t, <2>1, OutcomeSets
      <3> QED
        BY <1>11, <3>1 DEF SenderGate, Answers, Sets, Delta, Sending, Resting, Ending, Sealing
    <2>2. CASE \E s \in ActiveFor(JobOf(d).thread) :
                  dispatch' = [dispatch EXCEPT ![d].pc = "senderClosing", ![d].stale = s, ![d].closeAs = SpentAs(s)]
      <3>1. MovesOn(d, "senderClosing")
        BY <1>t, <2>2, StaleSets
      <3> QED
        BY <1>11, <1>n, <3>1 DEF SenderGate, Resting, Ending, Sending, Sealing
    <2>3. CASE \E s \in ActiveFor(JobOf(d).thread) :
                  ~Spent(s) /\ dispatch' = [dispatch EXCEPT ![d].pc = "send", ![d].auth = s]
      <3>1. PICK s \in ActiveFor(JobOf(d).thread) :
               ~Spent(s) /\ dispatch' = [dispatch EXCEPT ![d].pc = "send", ![d].auth = s]
        BY <2>3
      <3>2. Sets(d, "send", dispatch[d].plan, s, dispatch[d].outcome, dispatch[d].result)
        BY <1>t, <3>1, AuthSets
      <3>3. LetThrough(d)
        BY <1>11, <3>1, <3>2 DEF SenderGate, Sets, LetThrough
      <3> QED
        BY <1>11, <3>2, <3>3 DEF SenderGate, Sets, Delta, Sending, Resting, Ending, Sealing
    <2> QED
      BY <1>11, <2>1, <2>2, <2>3 DEF SenderGate
  <1>12. CASE SenderCloses(d)
    <2>1. Answers(d, "settle", "dry")
      BY <1>t, <1>12, OutcomeSets DEF SenderCloses
    <2> QED
      BY <1>12, <2>1 DEF SenderCloses, Answers, Sets, Delta, Sending, Resting, Ending, Sealing
  <1>13. CASE SenderRefuses(d) \/ ProviderFails(d)
    <2>1. Answers(d, "settle", "failed") /\ dispatch[d].pc = "send"
      BY <1>t, <1>13, OutcomeSets DEF SenderRefuses, ProviderFails
    <2> QED
      BY <2>1 DEF Answers, Sets, Delta, Sending, Resting, Ending, Sealing
  <1>14. CASE ProviderAccepts(d)
    <2>1. CASE dispatch' = [dispatch EXCEPT ![d].pc = "settle", ![d].outcome = "ok"]
               /\ accounting' = [accounting EXCEPT ![d] = "count"]
      <3>1. Answers(d, "settle", "ok")
        BY <1>t, <2>1, OutcomeSets
      <3>2. Accepts(d)
        BY <1>14, <2>1, <3>1 DEF ProviderAccepts, Answers, Sets, Accepts
      <3> QED
        BY <3>1, <3>2 DEF Accepts, Answers, Sets, Delta, Sending, Resting, Ending, Sealing
    <2>2. CASE UNCHANGED dispatch
      BY <2>2 DEF Delta, Others
    <2> QED
      BY <1>14, <2>1, <2>2 DEF ProviderAccepts
  <1>15. CASE Settle(d)
    <2>1. MovesOn(d, "cool") /\ dispatch[d].pc = "settle"
      BY <1>t, <1>15, GotoSets DEF Settle
    <2> QED
      BY <2>1 DEF MovesOn, Sets, Delta, Sending, Resting, Ending, Sealing
  <1>16. CASE SetCooldown(d)
    BY <1>t, <1>16, <1>n, ReturnSets DEF SetCooldown
  <1>17. CASE Background(d)
    <2>1. UNCHANGED dispatch
      BY <1>17, Zenon DEF Background, CountSent, CompleteSession, NoteMessage
    <2> QED
      BY <2>1 DEF Delta, Others
  <1> QED
    BY <1>1, <1>2, <1>3, <1>4, <1>5, <1>6, <1>7, <1>8, <1>9, <1>10, <1>11, <1>12, <1>13, <1>14, <1>15, <1>16, <1>17, Zenon DEF Advance

-----------------------------------------------------------------------------
(* What no step does to a session row, to the counters and to the cooldowns *)

RowsKept == \A s \in Session :
    /\ session'[s].thread = session[s].thread
    /\ session'[s].maxMessages = session[s].maxMessages
    /\ session'[s].sentCount \in Nat /\ session'[s].sentCount >= session[s].sentCount
    /\ session[s].status # "absent" => session'[s].status # "absent"

LEMMA WriteKeepsRows ==
  ASSUME session \in [Session -> Row], NEW s,
         \/ UNCHANGED session
         \/ \E status \in {"active"} \cup Terminal : session' = Closed(s, status)
         \/ session' = Counted(s)
         \/ session' = [session EXCEPT ![s].due = TRUE]
         \/ session' = ExpireActiveSessions
  PROVE  RowsKept
  <1>t. \A r \in Session : session[r] \in Row /\ session[r].sentCount \in Nat
    BY DEF Row
  <1>1. CASE UNCHANGED session
    BY <1>t, <1>1 DEF RowsKept
  <1>2. CASE \E status \in {"active"} \cup Terminal : session' = Closed(s, status)
    BY <1>t, <1>2 DEF RowsKept, Closed, Terminal, Row
  <1>3. CASE session' = Counted(s)
    BY <1>t, <1>3 DEF RowsKept, Counted, Row
  <1>4. CASE session' = [session EXCEPT ![s].due = TRUE]
    BY <1>t, <1>4 DEF RowsKept, Row
  <1>5. CASE session' = ExpireActiveSessions
    BY <1>t, <1>5 DEF RowsKept, ExpireActiveSessions, Active, Row
  <1> QED
    BY <1>1, <1>2, <1>3, <1>4, <1>5

LEMMA DispatchKeepsRows ==
  ASSUME TypeOK, NEW d \in Dispatch, Call(d) \/ Advance(d) \/ Background(d)
  PROVE  RowsKept
  <1>1. session \in [Session -> Row] /\ dispatch[d].closeAs \in {"expired", "completed"}
    BY DEF TypeOK, LiveTestTypeOK, DispatchState
  <1>2. \/ UNCHANGED session
        \/ \E s, status : status \in Terminal /\ session' = Closed(s, status)
        \/ \E s : session' = Counted(s)
    <2>1. CASE DispatcherCloses(d)
      BY <1>1, <2>1 DEF DispatcherCloses, Terminal
    <2>2. CASE SenderCloses(d)
      BY <1>1, <2>2 DEF SenderCloses, Terminal
    <2>3. CASE CountSent(d)
      BY <2>3 DEF CountSent
    <2>4. CASE CompleteSession(d)
      BY <2>4 DEF CompleteSession, Terminal
    <2> QED
      BY DispatchFrame, <2>1, <2>2, <2>3, <2>4 DEF Frame
  <1> QED
    BY <1>1, <1>2, WriteKeepsRows

LEMMA AdminKeepsRows ==
  ASSUME LiveTestTypeOK, AdminStep
  PROVE  RowsKept /\ (DbOk \/ DbError) /\ UNCHANGED crashes
  <1>t. session \in [Session -> Row]
    BY DEF LiveTestTypeOK
  <1>1. ASSUME NEW a \in Starter, StartGuards(a) \/ StartFindsActive(a)
        PROVE  UNCHANGED session /\ (DbOk \/ DbError) /\ UNCHANGED crashes
    BY <1>1, Zenon DEF StartGuards, StartFindsActive, DbOk
  <1>2. ASSUME NEW a \in Starter, StartExpires(a)
        PROVE  /\ UNCHANGED session \/ session' = ExpireActiveSessions
               /\ (DbOk \/ DbError) /\ UNCHANGED crashes
    BY <1>2, Zenon DEF StartExpires
  <1>3. ASSUME NEW a \in Starter, StartCreates(a)
        PROVE  /\ UNCHANGED session \/ \E s : session' = Closed(s, "active")
               /\ (DbOk \/ DbError) /\ UNCHANGED crashes
    BY <1>3, Zenon DEF StartCreates, Closed
  <1>4. ASSUME NEW b \in Stopper, StopFinds(b) \/ StopCancels(b)
        PROVE  /\ UNCHANGED session \/ \E s : session' = Closed(s, "cancelled")
               /\ (DbOk \/ DbError) /\ UNCHANGED crashes
    BY <1>4, Zenon DEF StopFinds, StopCancels, Closed, DbOk
  <1>5. ASSUME NEW s \in Session, TtlPasses(s)
        PROVE  /\ session' = [session EXCEPT ![s].due = TRUE]
               /\ (DbOk \/ DbError) /\ UNCHANGED crashes
    BY <1>5, Zenon DEF TtlPasses, DbOk
  <1>6. /\ \/ UNCHANGED session \/ session' = ExpireActiveSessions
           \/ \E s : \/ session' = Closed(s, "active") \/ session' = Closed(s, "cancelled")
                     \/ session' = [session EXCEPT ![s].due = TRUE]
        /\ (DbOk \/ DbError) /\ UNCHANGED crashes
    BY <1>1, <1>2, <1>3, <1>4, <1>5, Zenon DEF AdminStep
  <1>7. \A s : session' = Closed(s, "active") \/ session' = Closed(s, "cancelled") => RowsKept
    BY <1>t, WriteKeepsRows DEF Terminal
  <1> QED
    BY <1>t, <1>6, <1>7, WriteKeepsRows

\* Time only adds errors and crashes, and a thread's outlived cooldown is never forgotten.
CountersGrow ==
    /\ faults \in Nat /\ faults' \in Nat /\ faults' >= faults
    /\ crashes \in Nat /\ crashes' \in Nat /\ crashes' >= crashes

LEMMA NextGrows ==
  ASSUME TypeOK, [Next]_vars
  PROVE  CountersGrow
  <1>t. faults \in Nat /\ crashes \in Nat
    BY LiveTestAssumption DEF TypeOK, LiveTestTypeOK
  <1>1. CASE AdminStep
    BY <1>t, <1>1, AdminKeepsRows DEF TypeOK, DbOk, DbError, CountersGrow
  <1>2. ASSUME NEW d \in Dispatch, Call(d) \/ Advance(d) \/ Background(d) PROVE CountersGrow
    BY <1>t, <1>2, DispatchFrame DEF Frame, DbOk, DbError, CountersGrow
  <1>3. ASSUME NEW t \in Thread, CooldownExpires(t) \/ ClearCooldown(t) PROVE CountersGrow
    <2>1. UNCHANGED crashes /\ (UNCHANGED faults \/ DbOk \/ DbError)
      BY <1>3 DEF CooldownExpires, ClearCooldown, liveTestVars
    <2>2. faults' \in {faults, faults + 1}
      BY <2>1 DEF DbOk, DbError
    <2> QED
      BY <1>t, <2>1, <2>2 DEF CountersGrow
  <1>4. CASE Crash
    BY <1>t, <1>4 DEF Crash, LiveTestCrash, CountersGrow
  <1>5. CASE UNCHANGED vars
    BY <1>t, <1>5 DEF vars, liveTestVars, CountersGrow
  <1> QED
    BY <1>1, <1>2, <1>3, <1>4, <1>5, Zenon DEF Next

-----------------------------------------------------------------------------
(* What a step does to the count of a send and to what Zalo has accepted *)

\* A statement of recordLiveTestSent: the increment succeeds or the error is swallowed.
Counts(d) ==
    /\ accounting[d] # "none" /\ accounting'[d] \in {"none", "complete"}
    /\ \A e \in Dispatch \ {d} : accounting'[e] = accounting[e]
    /\ UNCHANGED dispatch
    /\ accounting[d] = "count" =>
          session' = Counted(dispatch[d].auth) \/ faults' = faults + 1

CountDelta(d) ==
    /\ \A e \in Dispatch \ {d} : accepted'[e] = accepted[e]
    /\ accepted'[d] # accepted[d] => dispatch[d].pc = "send"
    /\ UNCHANGED accounting \/ Accepts(d) \/ Counts(d)

LEMMA DispatchCountDelta ==
  ASSUME TypeOK, NEW d \in Dispatch, Call(d) \/ Advance(d) \/ Background(d)
  PROVE  CountDelta(d)
  <1>t. /\ dispatch \in [Dispatch -> DispatchState]
        /\ accounting \in [Dispatch -> {"none", "count", "complete"}]
        /\ accepted \in [Dispatch -> 0 .. Parts]
    BY DEF TypeOK
  <1>1. CASE UNCHANGED <<accounting, accepted>>
    BY <1>1 DEF CountDelta
  <1>2. CASE ProviderAccepts(d)
    <2>1. /\ dispatch[d].pc = "send"
          /\ accepted' = [accepted EXCEPT ![d] = @ + 1]
          /\ \/ /\ dispatch' = [dispatch EXCEPT ![d].pc = "settle", ![d].outcome = "ok"]
                /\ accounting' = [accounting EXCEPT ![d] = "count"]
             \/ UNCHANGED accounting
      BY <1>2 DEF ProviderAccepts, At
    <2>2. dispatch' = [dispatch EXCEPT ![d].pc = "settle", ![d].outcome = "ok"] =>
             dispatch'[d].pc = "settle" /\ dispatch'[d].auth = dispatch[d].auth
      BY <1>t DEF DispatchState
    <2>3. \A e \in Dispatch \ {d} : accepted'[e] = accepted[e]
      BY <1>t, <2>1
    <2> QED
      BY <2>1, <2>2, <2>3 DEF CountDelta, Accepts
  <1>3. CASE ProviderFails(d)
    <2>1. /\ dispatch[d].pc = "send" /\ UNCHANGED accounting
          /\ \E n : accepted' = [accepted EXCEPT ![d] = n]
      BY <1>3 DEF ProviderFails, At
    <2> QED
      BY <1>t, <2>1 DEF CountDelta
  <1>4. CASE CountSent(d) \/ CompleteSession(d)
    <2>1. /\ UNCHANGED <<accepted, dispatch>>
          /\ accounting[d] # "none"
          /\ \E a \in {"none", "complete"} : accounting' = [accounting EXCEPT ![d] = a]
      BY <1>4 DEF CountSent, CompleteSession
    <2>2. accounting[d] = "count" => session' = Counted(dispatch[d].auth) \/ faults' = faults + 1
      BY <1>4 DEF CountSent, CompleteSession, DbError
    <2>3. Counts(d)
      BY <1>t, <2>1, <2>2 DEF Counts
    <2> QED
      BY <2>1, <2>3 DEF CountDelta
  <1> QED
    BY <1>1, <1>2, <1>3, <1>4, DispatchFrame DEF Frame

-----------------------------------------------------------------------------
(* Sessions belong to the thread they opened *)

LEMMA OpenedStays ==
  ASSUME RowsKept, NEW s, NEW t, Opened(s, t)
  PROVE  Opened(s, t)'
  BY DEF RowsKept, Opened

LEMMA DispatchKeepsSessions ==
  ASSUME TypeOK, ReplyInv, SessionInv, NEW d \in Dispatch, Call(d) \/ Advance(d) \/ Background(d)
  PROVE  SessionInv'
  <1>1. Delta(d) /\ CountDelta(d) /\ RowsKept /\ Stage(d)
    BY DispatchDelta, DispatchCountDelta, DispatchKeepsRows DEF ReplyInv
  <1>t. /\ accepted[d] \in Nat /\ NoSession \notin Session
        /\ accounting \in [Dispatch -> {"none", "count", "complete"}]
    BY OutboundAssumption DEF TypeOK
  <1>2. ASSUME NEW e \in Dispatch
        PROVE  /\ Live(e)' => Opened(dispatch[e].plan, JobOf(e).thread)'
               /\ dispatch'[e].auth # NoSession => Opened(dispatch[e].auth, JobOf(e).thread)'
               /\ dispatch'[e].pc = "send" \/ accepted'[e] > 0 => dispatch'[e].auth # NoSession
               /\ dispatch'[e].pc \in {"idle", "begin"} => dispatch'[e].auth = NoSession
               /\ accounting'[e] # "none" =>
                     dispatch'[e].auth # NoSession /\ dispatch'[e].pc \in Ending
               /\ dispatch'[e].pc \in Sending => dispatch'[e].outcome = "none"
    <2>1. /\ Live(e) => Opened(dispatch[e].plan, JobOf(e).thread)
          /\ dispatch[e].auth # NoSession => Opened(dispatch[e].auth, JobOf(e).thread)
          /\ dispatch[e].pc = "send" \/ accepted[e] > 0 => dispatch[e].auth # NoSession
          /\ dispatch[e].pc \in {"idle", "begin"} => dispatch[e].auth = NoSession
          /\ accounting[e] # "none" => dispatch[e].auth # NoSession /\ dispatch[e].pc \in Ending
          /\ dispatch[e].pc \in Sending => dispatch[e].outcome = "none"
      BY DEF SessionInv, Ending, Sending
    <2>2. CASE e # d
      <3>1. /\ dispatch'[e] = dispatch[e] /\ accepted'[e] = accepted[e]
            /\ accounting'[e] = accounting[e]
        BY <1>1, <1>t, <2>2 DEF Delta, Others, CountDelta, Accepts, Counts
      <3>2. \A s : Opened(s, JobOf(e).thread) => Opened(dispatch[e].plan, JobOf(e).thread)' \/ s # dispatch[e].plan
        BY <1>1, <3>1, OpenedStays DEF Opened, RowsKept, JobOf
      <3>3. \A s : Opened(s, JobOf(e).thread) => Opened(dispatch[e].auth, JobOf(e).thread)' \/ s # dispatch[e].auth
        BY <1>1, <3>1, OpenedStays DEF Opened, RowsKept, JobOf
      <3> QED
        BY <2>1, <3>1, <3>2, <3>3 DEF Live
    <2>3. CASE e = d
      <3>1. \A s : /\ Opened(s, JobOf(d).thread) \/ s \in ActiveFor(JobOf(d).thread)
                   /\ dispatch'[d].job = dispatch[d].job
                   => /\ s = dispatch'[d].plan => Opened(dispatch[d].plan, JobOf(d).thread)'
                      /\ s = dispatch'[d].auth => Opened(dispatch[d].auth, JobOf(d).thread)'
        BY <1>1 DEF Opened, RowsKept, JobOf, ActiveFor, Active
      <3>2. Live(d)' => Opened(dispatch[d].plan, JobOf(d).thread)'
        BY <1>1, <2>1, <2>3, <3>1 DEF Delta, Stage, Live
      <3>3. dispatch'[d].auth # NoSession => Opened(dispatch[d].auth, JobOf(d).thread)'
        BY <1>1, <2>1, <2>3, <3>1 DEF Delta, LetThrough
      <3>4. dispatch'[d].pc = "send" \/ accepted'[d] > 0 => dispatch'[d].auth # NoSession
        BY <1>1, <1>t, <2>1, <2>3 DEF Delta, LetThrough, CountDelta, ActiveFor
      <3>5. dispatch'[d].pc \in {"idle", "begin"} => dispatch'[d].auth = NoSession
        BY <1>1, <2>1, <2>3 DEF Delta, LetThrough
      <3>6. accounting'[d] # "none" => dispatch'[d].auth # NoSession /\ dispatch'[d].pc \in Ending
        <4>1. CASE Accepts(d)
          BY <2>1, <2>3, <4>1 DEF Accepts, Ending
        <4>2. CASE Counts(d)
          BY <2>1, <2>3, <4>2 DEF Counts
        <4>3. CASE UNCHANGED accounting
          BY <1>1, <2>1, <2>3, <4>3 DEF Delta, LetThrough, Ending
        <4> QED
          BY <1>1, <4>1, <4>2, <4>3 DEF CountDelta
      <3>7. dispatch'[d].pc \in Sending => dispatch'[d].outcome = "none"
        BY <1>1, <2>1, <2>3 DEF Delta
      <3> QED
        BY <2>3, <3>2, <3>3, <3>4, <3>5, <3>6, <3>7
    <2> QED
      BY <2>2, <2>3
  <1> QED
    BY <1>2 DEF SessionInv, Ending, Sending

\* Steps that let no dispatch go on: requests of the admin, the clock, a crash.
Halts(e) ==
    /\ dispatch'[e].pc \in {dispatch[e].pc, "dead"}
    /\ dispatch[e].pc \in {"idle", "done"} => dispatch'[e].pc = dispatch[e].pc
    /\ dispatch'[e].job = dispatch[e].job
    /\ dispatch'[e].plan = dispatch[e].plan
    /\ dispatch'[e].auth = dispatch[e].auth
    /\ dispatch'[e].outcome = dispatch[e].outcome
    /\ dispatch'[e].result = dispatch[e].result
    /\ dispatch'[e].owned = dispatch[e].owned
    /\ \/ dispatch'[e].pc = dispatch[e].pc /\ accounting'[e] = accounting[e]
       \/ accounting'[e] = "none"

AllHalt ==
    /\ RowsKept
    /\ UNCHANGED <<record, message, accepted>>
    /\ noting' \subseteq noting
    /\ \A e \in Dispatch : Halts(e)

LEMMA OthersHalt ==
  ASSUME TypeOK,
         \/ AdminStep /\ UNCHANGED outboundVars
         \/ \E t \in Thread : CooldownExpires(t) \/ ClearCooldown(t)
         \/ Crash
         \/ UNCHANGED vars
  PROVE  AllHalt
  <1>t. session \in [Session -> Row] /\ dispatch \in [Dispatch -> DispatchState]
    BY DEF TypeOK, LiveTestTypeOK
  <1>u. UNCHANGED session => RowsKept
    BY <1>t, WriteKeepsRows
  <1>1. CASE AdminStep /\ UNCHANGED outboundVars
    BY <1>1, AdminKeepsRows DEF outboundVars, AllHalt, Halts, TypeOK
  <1>2. CASE \E t \in Thread : CooldownExpires(t) \/ ClearCooldown(t)
    BY <1>2, <1>u DEF CooldownExpires, ClearCooldown, liveTestVars, AllHalt, Halts
  <1>3. CASE Crash
    <2>1. /\ UNCHANGED <<session, record, message, accepted>> /\ noting' = {}
          /\ accounting' = [d \in Dispatch |-> "none"]
          /\ dispatch' = [d \in Dispatch |->
                IF dispatch[d].pc \in {"idle", "done", "dead"} THEN dispatch[d]
                ELSE [dispatch[d] EXCEPT !.pc = "dead"]]
      BY <1>3 DEF Crash, LiveTestCrash
    <2>2. \A e \in Dispatch : Halts(e)
      BY <1>t, <2>1 DEF Halts, DispatchState
    <2> QED
      BY <1>u, <2>1, <2>2 DEF AllHalt
  <1>4. CASE UNCHANGED vars
    BY <1>4, <1>u DEF vars, liveTestVars, outboundVars, AllHalt, Halts
  <1> QED
    BY <1>1, <1>2, <1>3, <1>4

LEMMA HaltKeepsSessions ==
  ASSUME SessionInv, AllHalt
  PROVE  SessionInv'
  <1> SUFFICES ASSUME NEW e \in Dispatch
               PROVE  /\ Live(e)' => Opened(dispatch[e].plan, JobOf(e).thread)'
                      /\ dispatch'[e].auth # NoSession => Opened(dispatch[e].auth, JobOf(e).thread)'
                      /\ dispatch'[e].pc = "send" \/ accepted'[e] > 0 => dispatch'[e].auth # NoSession
                      /\ dispatch'[e].pc \in {"idle", "begin"} => dispatch'[e].auth = NoSession
                      /\ accounting'[e] # "none" =>
                            dispatch'[e].auth # NoSession /\ dispatch'[e].pc \in Ending
                      /\ dispatch'[e].pc \in Sending => dispatch'[e].outcome = "none"
    BY DEF SessionInv, Ending, Sending
  <1>1. /\ Live(e) => Opened(dispatch[e].plan, JobOf(e).thread)
        /\ dispatch[e].auth # NoSession => Opened(dispatch[e].auth, JobOf(e).thread)
        /\ dispatch[e].pc = "send" \/ accepted[e] > 0 => dispatch[e].auth # NoSession
        /\ dispatch[e].pc \in {"idle", "begin"} => dispatch[e].auth = NoSession
        /\ accounting[e] # "none" => dispatch[e].auth # NoSession /\ dispatch[e].pc \in Ending
        /\ dispatch[e].pc \in Sending => dispatch[e].outcome = "none"
    BY DEF SessionInv, Ending, Sending
  <1>2. Halts(e) /\ RowsKept /\ UNCHANGED accepted
    BY DEF AllHalt
  <1>3. \A s, t : Opened(s, t) /\ s \in {dispatch[e].plan, dispatch[e].auth} /\ t = JobOf(e).thread
           => /\ s = dispatch[e].plan => Opened(dispatch[e].plan, JobOf(e).thread)'
              /\ s = dispatch[e].auth => Opened(dispatch[e].auth, JobOf(e).thread)'
    BY <1>2 DEF Halts, Opened, RowsKept, JobOf
  <1> QED
    BY <1>1, <1>2, <1>3 DEF Halts, Live, Sending

\* Every session a dispatch was let through by is a row of its own thread.
THEOREM SessionInvariant == Spec => []SessionInv
  <1>1. Init => SessionInv
    BY DEF Init, SessionInv, Live
  <1>2. TypeOK /\ ReplyInv /\ SessionInv /\ [Next]_vars => SessionInv'
    <2> SUFFICES ASSUME TypeOK, ReplyInv, SessionInv, [Next]_vars PROVE SessionInv'
      OBVIOUS
    <2>1. CASE \E d \in Dispatch : Call(d) \/ Advance(d) \/ Background(d)
      BY <2>1, DispatchKeepsSessions
    <2>2. CASE \/ AdminStep /\ UNCHANGED outboundVars
               \/ \E t \in Thread : CooldownExpires(t) \/ ClearCooldown(t)
               \/ Crash
               \/ UNCHANGED vars
      BY <2>2, OthersHalt, HaltKeepsSessions, Zenon
    <2> QED
      BY <2>1, <2>2, Zenon DEF Next
  <1> QED
    BY <1>1, <1>2, TypeCorrect, ReplyInvariant, PTL DEF Spec

\* Nothing reaches Zalo but under two readings of live-test sessions of its own thread,
\* whatever the sessions, the dispatches and the errors do in between.
THEOREM DeliveryUnderSession == Spec => []DeliveredUnderSession
  <1>1. TypeOK /\ ReplyInv /\ SessionInv => DeliveredUnderSession
    <2> SUFFICES ASSUME TypeOK, ReplyInv, SessionInv, NEW d \in Dispatch, accepted[d] > 0,
                        NEW s \in {dispatch[d].plan, dispatch[d].auth}
                 PROVE  Opened(s, JobOf(d).thread)
      BY DEF DeliveredUnderSession, Opened
    <2>1. Live(d) /\ dispatch[d].auth # NoSession
      BY DEF ReplyInv, Stage, SessionInv
    <2> QED
      BY <2>1 DEF SessionInv
  <1> QED
    BY <1>1, TypeCorrect, ReplyInvariant, SessionInvariant, PTL

-----------------------------------------------------------------------------
(* Confirmed sends, what is in flight, and the count of a session *)

LEMMA SessionNumbers ==
  ASSUME TypeOK, NEW s \in Session
  PROVE  /\ session[s].thread \in Thread /\ session[s].sentCount \in Nat
         /\ session[s].maxMessages \in Nat
  BY LiveTestAssumption DEF TypeOK, LiveTestTypeOK, Row

LEMMA CooldownNumbers ==
  ASSUME TypeOK, NEW t \in Thread
  PROVE  cooldown[t].held \in BOOLEAN /\ cooldown[t].outlived \in Nat
  BY DEF TypeOK, CooldownRow

\* A dispatch only ever sets a cooldown.
CooldownsStay == \A t \in Thread :
    /\ cooldown'[t].outlived = cooldown[t].outlived
    /\ cooldown[t].held => cooldown'[t].held

LEMMA DispatchKeepsCooldowns ==
  ASSUME TypeOK, NEW d \in Dispatch, Call(d) \/ Advance(d) \/ Background(d)
  PROVE  CooldownsStay
  <1>t. cooldown \in [Thread -> CooldownRow]
    BY DEF TypeOK
  <1>1. UNCHANGED cooldown \/ \E t : cooldown' = [cooldown EXCEPT ![t].held = TRUE]
    BY DispatchFrame DEF Frame, AcquireCooldown, SetCooldown
  <1> QED
    BY <1>t, <1>1 DEF CooldownsStay, CooldownRow

\* The steps of one dispatch put no other one in flight.
LEMMA FlightDelta ==
  ASSUME TypeOK, SessionInv, NEW d \in Dispatch, Call(d) \/ Advance(d) \/ Background(d),
         NEW e \in Dispatch, InFlight(e)'
  PROVE  /\ JobOf(e)' = JobOf(e)
         /\ InFlight(e) \/ (e = d /\ Acquires(d))
  <1>1. Delta(d) /\ CountDelta(d)
    BY DispatchDelta, DispatchCountDelta
  <1>t. accounting \in [Dispatch -> {"none", "count", "complete"}]
    BY DEF TypeOK
  <1>2. CASE e # d
    <2>1. dispatch'[e] = dispatch[e] /\ accounting'[e] = accounting[e]
      BY <1>1, <1>t, <1>2 DEF Delta, Others, CountDelta, Accepts, Counts
    <2> QED
      BY <2>1 DEF InFlight, JobOf
  <1>3. CASE e = d
    <2>1. CASE dispatch'[d].pc \notin Resting
      BY <1>1, <1>3, <2>1 DEF Delta, InFlight, Resting, JobOf, Acquires
    <2>2. CASE accounting'[d] # "none"
      <3>1. CASE accounting[d] # "none"
        BY <1>1, <1>3, <3>1 DEF SessionInv, Delta, InFlight, JobOf
      <3>2. CASE accounting[d] = "none"
        <4>1. Accepts(d)
          BY <1>1, <2>2, <3>2 DEF CountDelta, Counts
        <4> QED
          BY <1>1, <1>3, <4>1 DEF Accepts, Delta, InFlight, JobOf
      <3> QED
        BY <3>1, <3>2
    <2> QED
      BY <1>3, <2>1, <2>2 DEF InFlight, Resting
  <1> QED
    BY <1>2, <1>3

\* What is in flight of a thread may finish; only an ended cooldown makes it one too many.
Contained(t) ==
    /\ IsFiniteSet(Flight(t)')
    /\ Excess(t)' \in Int /\ Excess(t) \in Int
    /\ Excess(t)' - cooldown'[t].outlived <= Excess(t) - cooldown[t].outlived

LEMMA FlightNumbers ==
  ASSUME TypeOK, NEW t \in Thread, IsFiniteSet(Flight(t))
  PROVE  /\ Cardinality(Flight(t)) \in Nat
         /\ Excess(t) \in Nat
         /\ Cardinality(Flight(t)) <= Excess(t) + 1
  <1>1. Cardinality(Flight(t)) \in Nat /\ (Flight(t) # {} => Cardinality(Flight(t)) # 0)
    BY FS_CardinalityType, FS_EmptySet
  <1> QED
    BY <1>1 DEF Excess

LEMMA FlightShrinks ==
  ASSUME TypeOK, TypeOK', NEW t \in Thread, IsFiniteSet(Flight(t)),
         Flight(t)' \subseteq Flight(t),
         cooldown[t].held => cooldown'[t].held,
         cooldown'[t].outlived = cooldown[t].outlived
  PROVE  Contained(t)
  <1>1. /\ Cardinality(Flight(t)) \in Nat
        /\ IsFiniteSet(Flight(t)') /\ Cardinality(Flight(t)') \in Nat
        /\ Cardinality(Flight(t)') <= Cardinality(Flight(t))
        /\ Flight(t)' = {} <=> Cardinality(Flight(t)') = 0
    BY FS_Subset, FS_CardinalityType, FS_EmptySet
  <1>2. cooldown[t].outlived \in Nat
    BY CooldownNumbers
  <1>3. Flight(t) = {} <=> Cardinality(Flight(t)) = 0
    BY FS_EmptySet
  <1> QED
    BY <1>1, <1>2, <1>3 DEF Contained, Excess

LEMMA DispatchContained ==
  ASSUME TypeOK, TypeOK', SessionInv, NEW t \in Thread, IsFiniteSet(Flight(t)),
         NEW x \in Dispatch, Call(x) \/ Advance(x) \/ Background(x)
  PROVE  Contained(t)
  <1>1. /\ cooldown'[t].outlived = cooldown[t].outlived
        /\ cooldown[t].held => cooldown'[t].held
    BY DispatchKeepsCooldowns DEF CooldownsStay
  <1>2. \A e \in Flight(t)' : e \in Flight(t) \/ (e = x /\ Acquires(x) /\ JobOf(x).thread = t)
    BY FlightDelta DEF Flight
  <1>3. CASE Acquires(x) /\ JobOf(x).thread = t
    <2>1. /\ Flight(t)' \subseteq Flight(t) \cup {x}
          /\ ~cooldown[t].held /\ cooldown'[t].held
      BY <1>2, <1>3 DEF Acquires, TypeOK, CooldownRow
    <2>2. /\ Cardinality(Flight(t)) \in Nat
          /\ IsFiniteSet(Flight(t) \cup {x})
          /\ Cardinality(Flight(t) \cup {x}) \in {Cardinality(Flight(t)), Cardinality(Flight(t)) + 1}
      BY FS_AddElement, FS_CardinalityType
    <2>3. /\ IsFiniteSet(Flight(t)') /\ Cardinality(Flight(t)') \in Nat
          /\ Cardinality(Flight(t)') <= Cardinality(Flight(t) \cup {x})
          /\ Flight(t)' = {} <=> Cardinality(Flight(t)') = 0
      BY <2>1, <2>2, FS_Subset, FS_CardinalityType, FS_EmptySet
    <2>4. cooldown[t].outlived \in Nat
      BY CooldownNumbers
    <2> QED
      BY <1>1, <2>1, <2>2, <2>3, <2>4 DEF Contained, Excess
  <1>4. CASE ~(Acquires(x) /\ JobOf(x).thread = t)
    BY <1>1, <1>2, <1>4, FlightShrinks
  <1> QED
    BY <1>3, <1>4

LEMMA EndContained ==
  ASSUME TypeOK, NEW t \in Thread, IsFiniteSet(Flight(t)),
         NEW u \in Thread, CooldownExpires(u) \/ ClearCooldown(u)
  PROVE  Contained(t)
  <1>1. UNCHANGED <<dispatch, accounting>>
    BY DEF CooldownExpires, ClearCooldown
  <1>2. Flight(t)' = Flight(t) /\ (Outlives(t) <=> Flight(t) # {})
    BY <1>1 DEF Flight, InFlight, JobOf, Outlives
  <1>3. /\ Cardinality(Flight(t)) \in Nat
        /\ Flight(t) = {} <=> Cardinality(Flight(t)) = 0
    BY FS_CardinalityType, FS_EmptySet
  <1>4. cooldown \in [Thread -> CooldownRow] /\ cooldown[t].outlived \in Nat
    BY CooldownNumbers DEF TypeOK
  <1>5. CASE CooldownEnds(u) /\ u = t
    <2>1. cooldown'[t] = [held |-> FALSE,
                          outlived |-> cooldown[t].outlived + (IF Outlives(t) THEN 1 ELSE 0)]
      BY <1>4, <1>5 DEF CooldownEnds
    <2> QED
      BY <1>2, <1>3, <1>4, <2>1 DEF Contained, Excess
  <1>6. CASE (CooldownEnds(u) /\ u # t) \/ UNCHANGED cooldown
    <2>1. cooldown'[t] = cooldown[t]
      BY <1>4, <1>6 DEF CooldownEnds
    <2> QED
      BY <1>2, <1>3, <1>4, <2>1 DEF Contained, Excess
  <1> QED
    BY <1>5, <1>6 DEF CooldownExpires, ClearCooldown

\* The parts of a session's account that are in flight are finite, and disjoint.
LEMMA AccountNumbers ==
  ASSUME TypeOK, SessionInv, NEW s \in Session, Within(s)
  PROVE  /\ Pending(s) \subseteq Flight(session[s].thread)
         /\ Underway(s) \subseteq Flight(session[s].thread)
         /\ Pending(s) \cap Underway(s) = {}
         /\ IsFiniteSet(Pending(s)) /\ IsFiniteSet(Underway(s))
         /\ Cardinality(Pending(s)) \in Nat /\ Cardinality(Underway(s)) \in Nat
         /\ Cardinality(Confirmed(s)) \in Nat
         /\ Allowance(s) \in Nat
  <1>1. /\ Pending(s) \subseteq Flight(session[s].thread)
        /\ Underway(s) \subseteq Flight(session[s].thread)
        /\ Pending(s) \cap Underway(s) = {}
    BY OutboundAssumption DEF Pending, Underway, Flight, InFlight, SessionInv, Opened
  <1>2. IsFiniteSet(Pending(s)) /\ IsFiniteSet(Underway(s))
    BY <1>1, FS_Subset DEF Within
  <1>3. Allowance(s) \in Nat
    BY SessionNumbers, CooldownNumbers, LiveTestAssumption DEF Allowance, TypeOK, LiveTestTypeOK
  <1> QED
    BY <1>1, <1>2, <1>3, FS_CardinalityType DEF Within

\* A step that neither confirms a send nor lets one through, and loses a pending count
\* only to the row, to an error or to a crash.
Quiet(s) ==
    /\ Confirmed(s)' \subseteq Confirmed(s)
    /\ Underway(s)' \subseteq Underway(s)
    /\ \/ Pending(s) \subseteq Pending(s)'
       \/ /\ \E d : Pending(s) \ {d} \subseteq Pending(s)'
          /\ session'[s].sentCount + crashes' + faults' >= session[s].sentCount + crashes + faults + 1

LEMMA QuietKeepsWithin ==
  ASSUME TypeOK, TypeOK', SessionInv, SessionInv', NEW s \in Session, Within(s), Quiet(s),
         RowsKept, CountersGrow, Contained(session[s].thread),
         cooldown'[session[s].thread].outlived >= cooldown[session[s].thread].outlived
  PROVE  Within(s)'
  <1> DEFINE t == session[s].thread
  <1>1. /\ t \in Thread /\ session[s].sentCount \in Nat /\ session[s].maxMessages \in Nat
        /\ cooldown[t].outlived \in Nat /\ cooldown'[t].outlived \in Nat
    <2>1. t \in Thread /\ session[s].sentCount \in Nat /\ session[s].maxMessages \in Nat
      BY SessionNumbers
    <2>2. cooldown[t].outlived \in Nat
      BY <2>1, CooldownNumbers
    <2>3. cooldown'[t].outlived \in Nat
      BY <2>1 DEF TypeOK, CooldownRow
    <2> QED
      BY <2>1, <2>2, <2>3
  <1>2. /\ session'[s].thread = t /\ session'[s].maxMessages = session[s].maxMessages
        /\ session'[s].sentCount \in Nat /\ session'[s].sentCount >= session[s].sentCount
    BY DEF RowsKept
  <1>3. /\ IsFiniteSet(Confirmed(s)') /\ Cardinality(Confirmed(s)') \in Nat
        /\ Cardinality(Confirmed(s)') <= Cardinality(Confirmed(s))
        /\ Cardinality(Underway(s)') \in Nat
        /\ Cardinality(Underway(s)') <= Cardinality(Underway(s))
    BY AccountNumbers, FS_Subset, FS_CardinalityType DEF Within, Quiet
  <1>4. Cardinality(Pending(s)) \in Nat /\ Cardinality(Underway(s)) \in Nat
        /\ Cardinality(Confirmed(s)) \in Nat /\ IsFiniteSet(Pending(s))
    BY AccountNumbers
  <1>5. IsFiniteSet(Pending(s)') /\ Cardinality(Pending(s)') \in Nat
    <2>1. Pending(s)' \subseteq Flight(t)'
      BY <1>1, <1>2, OutboundAssumption DEF Pending, Flight, InFlight, SessionInv, Opened
    <2> QED
      BY <2>1, FS_Subset, FS_CardinalityType DEF Contained
  <1>6. session'[s].sentCount + crashes' + faults' + Cardinality(Pending(s)')
           >= session[s].sentCount + crashes + faults + Cardinality(Pending(s))
    <2>1. CASE Pending(s) \subseteq Pending(s)'
      <3>1. Cardinality(Pending(s)) <= Cardinality(Pending(s)')
        BY <1>5, <2>1, FS_Subset
      <3> QED
        BY <1>1, <1>2, <1>4, <1>5, <3>1 DEF CountersGrow
    <2>2. CASE ~(Pending(s) \subseteq Pending(s)')
      <3>1. PICK d : Pending(s) \ {d} \subseteq Pending(s)'
        BY <2>2 DEF Quiet
      <3>2. /\ Cardinality(Pending(s) \ {d}) <= Cardinality(Pending(s)')
            /\ Cardinality(Pending(s) \ {d}) \in {Cardinality(Pending(s)) - 1, Cardinality(Pending(s))}
        BY <1>4, <1>5, <3>1, FS_Subset, FS_RemoveElement
      <3>3. session'[s].sentCount + crashes' + faults' >= session[s].sentCount + crashes + faults + 1
        BY <2>2 DEF Quiet
      <3> QED
        BY <1>1, <1>2, <1>4, <1>5, <3>2, <3>3 DEF CountersGrow
    <2> QED
      BY <2>1, <2>2
  <1>7. /\ Cardinality(Confirmed(s)) + Excess(t)
               <= session[s].sentCount + Cardinality(Pending(s)) + Allowance(s)
        /\ Cardinality(Confirmed(s)) + Cardinality(Underway(s))
               <= session[s].maxMessages + Allowance(s)
    BY DEF Within
  <1>8. /\ Allowance(s) = crashes + faults + cooldown[t].outlived
        /\ Allowance(s)' = crashes' + faults' + cooldown'[t].outlived
        /\ Excess(session[s].thread)' = Excess(t)'
        /\ Flight(session[s].thread)' = Flight(t)'
    BY <1>2 DEF Allowance, Excess, Flight
  <1>9. /\ Excess(t) \in Int /\ Excess(t)' \in Int /\ IsFiniteSet(Flight(t)')
        /\ Excess(t)' - cooldown'[t].outlived <= Excess(t) - cooldown[t].outlived
    BY DEF Contained
  <1> HIDE DEF t
  <1>10. Cardinality(Confirmed(s)') + Excess(t)'
            <= session'[s].sentCount + Cardinality(Pending(s)') + crashes' + faults' + cooldown'[t].outlived
    BY <1>1, <1>2, <1>3, <1>4, <1>5, <1>6, <1>7, <1>8, <1>9 DEF CountersGrow
  <1>11. Cardinality(Confirmed(s)') + Cardinality(Underway(s)')
            <= session'[s].maxMessages + crashes' + faults' + cooldown'[t].outlived
    BY <1>1, <1>2, <1>3, <1>4, <1>7, <1>8 DEF CountersGrow, t
  <1>12. crashes' \in Nat /\ faults' \in Nat
    BY DEF CountersGrow
  <1>13. /\ IsFiniteSet(Flight(session[s].thread)') /\ IsFiniteSet(Confirmed(s)')
         /\ Cardinality(Confirmed(s)') + Excess(session[s].thread)'
               <= session'[s].sentCount + Cardinality(Pending(s)') + Allowance(s)'
         /\ Cardinality(Confirmed(s)') + Cardinality(Underway(s)')
               <= session'[s].maxMessages + Allowance(s)'
    BY <1>1, <1>2, <1>3, <1>5, <1>8, <1>9, <1>10, <1>11, <1>12
  <1> QED
    BY <1>13 DEF Within


\* What Within(s)' comes to once the row of the session has kept its thread and quota.
LEMMA WithinNext ==
  ASSUME TypeOK, TypeOK', SessionInv, SessionInv', NEW s \in Session, Within(s),
         RowsKept, CountersGrow, Contained(session[s].thread),
         cooldown'[session[s].thread].outlived = cooldown[session[s].thread].outlived,
         IsFiniteSet(Confirmed(s)'),
         Cardinality(Confirmed(s)') - Cardinality(Pending(s)')
             <= Cardinality(Confirmed(s)) - Cardinality(Pending(s)),
         Cardinality(Confirmed(s)') + Cardinality(Underway(s)')
             <= session[s].maxMessages + Allowance(s)
  PROVE  Within(s)'
  <1> DEFINE t == session[s].thread
  <1>1. /\ session[s].sentCount \in Nat /\ session[s].maxMessages \in Nat
        /\ t \in Thread /\ cooldown[t].outlived \in Nat
    BY SessionNumbers, CooldownNumbers
  <1>2. /\ session'[s].thread = t /\ session'[s].maxMessages = session[s].maxMessages
        /\ session'[s].sentCount \in Nat /\ session'[s].sentCount >= session[s].sentCount
    BY DEF RowsKept
  <1>3. /\ Cardinality(Pending(s)) \in Nat /\ Cardinality(Underway(s)) \in Nat
        /\ Cardinality(Confirmed(s)) \in Nat /\ Cardinality(Confirmed(s)') \in Nat
    BY AccountNumbers, FS_CardinalityType
  <1>4. /\ Pending(s)' \subseteq Flight(t)' /\ Underway(s)' \subseteq Flight(t)'
    BY <1>1, <1>2, OutboundAssumption
       DEF Pending, Underway, Flight, InFlight, SessionInv, Opened
  <1>5. /\ Cardinality(Pending(s)') \in Nat /\ Cardinality(Underway(s)') \in Nat
    BY <1>4, FS_Subset, FS_CardinalityType DEF Contained
  <1>6. /\ Allowance(s) = crashes + faults + cooldown[t].outlived
        /\ Allowance(s)' = crashes' + faults' + cooldown[t].outlived
        /\ Excess(session[s].thread)' = Excess(t)'
        /\ Flight(session[s].thread)' = Flight(t)'
    BY <1>2 DEF Allowance, Excess, Flight
  <1>7. /\ Excess(t) \in Int /\ Excess(t)' \in Int /\ IsFiniteSet(Flight(t)')
        /\ Excess(t)' - cooldown'[t].outlived <= Excess(t) - cooldown[t].outlived
        /\ cooldown'[t].outlived = cooldown[t].outlived
    BY DEF Contained
  <1>8. Cardinality(Confirmed(s)) + Excess(t)
           <= session[s].sentCount + Cardinality(Pending(s)) + Allowance(s)
    BY DEF Within
  <1> HIDE DEF t
  <1>9. /\ crashes \in Nat /\ crashes' \in Nat /\ crashes' >= crashes
        /\ faults \in Nat /\ faults' \in Nat /\ faults' >= faults
    BY DEF CountersGrow
  <1>10. Cardinality(Confirmed(s)') + Excess(t)'
            <= session'[s].sentCount + Cardinality(Pending(s)') + Allowance(s)'
    BY <1>1, <1>2, <1>3, <1>5, <1>6, <1>7, <1>8, <1>9
  <1>11. Cardinality(Confirmed(s)') + Cardinality(Underway(s)')
            <= session'[s].maxMessages + Allowance(s)'
    BY <1>1, <1>2, <1>3, <1>5, <1>6, <1>9
  <1>12. /\ IsFiniteSet(Flight(session[s].thread)') /\ IsFiniteSet(Confirmed(s)')
         /\ Cardinality(Confirmed(s)') + Excess(session[s].thread)'
               <= session'[s].sentCount + Cardinality(Pending(s)') + Allowance(s)'
    BY <1>6, <1>7, <1>10
  <1> QED
    BY <1>11, <1>12 DEF Within

\* The last part of a send is accepted: its count is pending from here on.
LEMMA AcceptKeepsWithin ==
  ASSUME TypeOK, TypeOK', SessionInv, SessionInv', NEW s \in Session, Within(s),
         NEW x \in Dispatch, Delta(x), Accepts(x), dispatch[x].auth = s,
         RowsKept, CountersGrow, CooldownsStay, Contained(session[s].thread)
  PROVE  Within(s)'
  <1>1. /\ session[s].thread \in Thread
        /\ cooldown'[session[s].thread].outlived = cooldown[session[s].thread].outlived
    BY SessionNumbers DEF CooldownsStay
  <1>2. /\ IsFiniteSet(Pending(s)) /\ IsFiniteSet(Underway(s)) /\ IsFiniteSet(Confirmed(s))
        /\ Cardinality(Pending(s)) \in Nat /\ Cardinality(Underway(s)) \in Nat
        /\ Cardinality(Confirmed(s)) \in Nat /\ Allowance(s) \in Nat
        /\ session[s].maxMessages \in Nat
    BY AccountNumbers, SessionNumbers DEF Within
  <1>3. /\ Confirmed(s)' \subseteq Confirmed(s) \cup {x}
        /\ Underway(s)' \subseteq Underway(s) \ {x}
        /\ x \in Underway(s)
    BY DEF Confirmed, Underway, Delta, Others, Accepts
  <1>4. Pending(s)' = Pending(s) \cup {x} /\ x \notin Pending(s)
    <2>1. accounting \in [Dispatch -> {"none", "count", "complete"}]
      BY DEF TypeOK
    <2>2. \A e \in Dispatch : dispatch'[e].auth = dispatch[e].auth
      BY DEF Delta, Others, Accepts
    <2>3. accounting[x] = "none"
      BY DEF Accepts, SessionInv
    <2> QED
      BY <2>1, <2>2, <2>3 DEF Accepts, Pending
  <1>5. Cardinality(Pending(s)') = Cardinality(Pending(s)) + 1
    BY <1>2, <1>4, FS_AddElement
  <1>6. /\ Cardinality(Confirmed(s) \cup {x}) \in {Cardinality(Confirmed(s)), Cardinality(Confirmed(s)) + 1}
        /\ IsFiniteSet(Confirmed(s) \cup {x})
        /\ IsFiniteSet(Underway(s) \ {x})
        /\ Cardinality(Underway(s) \ {x}) = Cardinality(Underway(s)) - 1
    BY <1>2, <1>3, FS_AddElement, FS_RemoveElement
  <1>7. /\ IsFiniteSet(Confirmed(s)') /\ Cardinality(Confirmed(s)') \in Nat
        /\ Cardinality(Confirmed(s)') <= Cardinality(Confirmed(s) \cup {x})
        /\ Cardinality(Underway(s)') \in Nat
        /\ Cardinality(Underway(s)') <= Cardinality(Underway(s) \ {x})
    BY <1>3, <1>6, FS_Subset, FS_CardinalityType
  <1>8. Cardinality(Confirmed(s)) + Cardinality(Underway(s)) <= session[s].maxMessages + Allowance(s)
    BY DEF Within
  <1>9. Cardinality(Confirmed(s)') - Cardinality(Pending(s)')
           <= Cardinality(Confirmed(s)) - Cardinality(Pending(s))
    BY <1>2, <1>5, <1>6, <1>7
  <1>10. Cardinality(Confirmed(s)') + Cardinality(Underway(s)') <= session[s].maxMessages + Allowance(s)
    BY <1>2, <1>6, <1>7, <1>8
  <1> QED
    BY <1>1, <1>7, <1>9, <1>10, WithinNext

\* A send is let through by a session that is not spent: with those under way and those
\* pending it is in flight, so what its cooldown does not stand for is in the excess.
LEMMA LetThroughKeepsWithin ==
  ASSUME TypeOK, TypeOK', SessionInv, SessionInv', NEW s \in Session, Within(s),
         NEW x \in Dispatch, Delta(x), LetThrough(x), dispatch'[x].auth = s,
         UNCHANGED accounting, RowsKept, CountersGrow, CooldownsStay, Contained(session[s].thread)
  PROVE  Within(s)'
  <1> DEFINE t == session[s].thread
  <1>1. /\ session[s].thread \in Thread
        /\ cooldown'[session[s].thread].outlived = cooldown[session[s].thread].outlived
    BY SessionNumbers DEF CooldownsStay
  <1>2. /\ IsFiniteSet(Pending(s)) /\ IsFiniteSet(Underway(s)) /\ IsFiniteSet(Confirmed(s))
        /\ Cardinality(Pending(s)) \in Nat /\ Cardinality(Underway(s)) \in Nat
        /\ Cardinality(Confirmed(s)) \in Nat /\ Allowance(s) \in Nat
        /\ Pending(s) \cap Underway(s) = {}
        /\ Pending(s) \subseteq Flight(t) /\ Underway(s) \subseteq Flight(t)
    BY AccountNumbers DEF Within
  <1>3. accounting[x] = "none" /\ dispatch'[x].outcome = "none"
    BY DEF LetThrough, SessionInv
  <1>4. /\ Confirmed(s)' \subseteq Confirmed(s)
        /\ Underway(s)' \subseteq Underway(s) \cup {x}
        /\ Pending(s)' = Pending(s)
        /\ x \notin Pending(s) /\ x \notin Underway(s)
    <2>1. \A e \in Dispatch \ {x} : dispatch'[e] = dispatch[e]
      BY DEF Delta, Others
    <2>2. dispatch[x].pc # "send"
      BY DEF LetThrough
    <2> QED
      BY <1>3, <2>1, <2>2 DEF Confirmed, Underway, Pending
  <1>5. x \in Flight(t)
    BY DEF LetThrough, Flight, InFlight, ActiveFor
  <1>6. Cardinality(Pending(s)) + Cardinality(Underway(s)) + 1 <= Excess(t) + 1
    <2>1. /\ IsFiniteSet(Pending(s) \cup Underway(s))
          /\ Cardinality(Pending(s) \cup Underway(s)) = Cardinality(Pending(s)) + Cardinality(Underway(s))
      <3>1. Cardinality(Pending(s) \cap Underway(s)) = 0
        BY <1>2, FS_EmptySet
      <3>2. /\ IsFiniteSet(Pending(s) \cup Underway(s))
            /\ Cardinality(Pending(s) \cup Underway(s)) =
                  Cardinality(Pending(s)) + Cardinality(Underway(s)) - Cardinality(Pending(s) \cap Underway(s))
        BY <1>2, FS_Union, Zenon
      <3> HIDE DEF t
      <3> QED
        BY <1>2, <3>1, <3>2
    <2>2. Cardinality((Pending(s) \cup Underway(s)) \cup {x}) = Cardinality(Pending(s) \cup Underway(s)) + 1
      BY <1>4, <2>1, FS_AddElement
    <2>3. (Pending(s) \cup Underway(s)) \cup {x} \subseteq Flight(t)
      BY <1>2, <1>5
    <2>4. IsFiniteSet(Flight(t))
      BY DEF Within
    <2>5. /\ Cardinality((Pending(s) \cup Underway(s)) \cup {x}) <= Cardinality(Flight(t))
          /\ Cardinality(Flight(t)) \in Nat /\ Excess(t) \in Nat
          /\ Cardinality(Flight(t)) <= Excess(t) + 1
      BY <1>1, <2>3, <2>4, FS_Subset, FlightNumbers
    <2> HIDE DEF t
    <2> QED
      BY <1>2, <2>1, <2>2, <2>5
  <1>7. session[s].sentCount < session[s].maxMessages
        /\ session[s].sentCount \in Nat /\ session[s].maxMessages \in Nat
    BY SessionNumbers DEF LetThrough, Spent
  <1>8. /\ IsFiniteSet(Confirmed(s)') /\ Cardinality(Confirmed(s)') \in Nat
        /\ Cardinality(Confirmed(s)') <= Cardinality(Confirmed(s))
        /\ IsFiniteSet(Underway(s) \cup {x})
        /\ Cardinality(Underway(s) \cup {x}) = Cardinality(Underway(s)) + 1
        /\ Cardinality(Underway(s)') \in Nat
        /\ Cardinality(Underway(s)') <= Cardinality(Underway(s) \cup {x})
    BY <1>2, <1>4, FS_Subset, FS_CardinalityType, FS_AddElement
  <1>9. Cardinality(Confirmed(s)) + Excess(t)
           <= session[s].sentCount + Cardinality(Pending(s)) + Allowance(s)
    BY DEF Within
  <1>10. Excess(t) \in Int
    BY DEF Contained
  <1> HIDE DEF t
  <1>11. Cardinality(Confirmed(s)') + Cardinality(Underway(s)') <= session[s].maxMessages + Allowance(s)
    BY <1>2, <1>6, <1>7, <1>8, <1>9, <1>10
  <1>12. Cardinality(Confirmed(s)') - Cardinality(Pending(s)')
            <= Cardinality(Confirmed(s)) - Cardinality(Pending(s))
    BY <1>2, <1>4, <1>8
  <1> QED
    BY <1>1, <1>8, <1>11, <1>12, WithinNext

LEMMA DispatchKeepsWithin ==
  ASSUME TypeOK, TypeOK', SessionInv, SessionInv', NEW s \in Session, Within(s), CountersGrow,
         NEW x \in Dispatch, Call(x) \/ Advance(x) \/ Background(x)
  PROVE  Within(s)'
  <1>1. Delta(x) /\ CountDelta(x) /\ RowsKept /\ CooldownsStay
    BY DispatchDelta, DispatchCountDelta, DispatchKeepsRows, DispatchKeepsCooldowns
  <1>2. /\ Contained(session[s].thread)
        /\ cooldown'[session[s].thread].outlived >= cooldown[session[s].thread].outlived
    <2>1. session[s].thread \in Thread /\ IsFiniteSet(Flight(session[s].thread))
      BY SessionNumbers DEF Within
    <2>2. Contained(session[s].thread)
      BY <2>1, DispatchContained
    <2>3. cooldown[session[s].thread].outlived \in Nat
      BY <2>1, CooldownNumbers
    <2> QED
      BY <1>1, <2>1, <2>2, <2>3 DEF CooldownsStay
  <1>t. /\ accounting \in [Dispatch -> {"none", "count", "complete"}]
        /\ session \in [Session -> Row] /\ session[s].sentCount \in Nat
    BY SessionNumbers DEF TypeOK, LiveTestTypeOK
  <1>3. CASE Accepts(x) /\ dispatch[x].auth = s
    BY <1>1, <1>2, <1>3, AcceptKeepsWithin
  <1>4. CASE LetThrough(x) /\ dispatch'[x].auth = s
    <2>1. UNCHANGED accounting
      BY <1>1, <1>4 DEF LetThrough, CountDelta, Accepts, Counts, SessionInv
    <2> QED
      BY <1>1, <1>2, <1>4, <2>1, LetThroughKeepsWithin
  <1>5. CASE ~(Accepts(x) /\ dispatch[x].auth = s) /\ ~(LetThrough(x) /\ dispatch'[x].auth = s)
    <2>1. Confirmed(s)' \subseteq Confirmed(s)
      <3> SUFFICES ASSUME NEW e \in Dispatch, dispatch'[e].auth = s, dispatch'[e].outcome = "ok"
                   PROVE  dispatch[e].auth = s /\ dispatch[e].outcome = "ok"
        BY DEF Confirmed
      <3>1. CASE e # x
        BY <1>1, <3>1 DEF Delta, Others
      <3>2. CASE e = x
        BY <1>1, <1>5, <3>2 DEF Delta, Accepts
      <3> QED
        BY <3>1, <3>2
    <2>2. Underway(s)' \subseteq Underway(s)
      BY <1>1, <1>5 DEF Underway, Delta, Others
    <2>3. \A e \in Pending(s) : dispatch'[e].auth = s
      BY <1>1 DEF Pending, Delta, Others, LetThrough, SessionInv
    <2>4. CASE UNCHANGED accounting \/ Accepts(x)
      <3>1. Pending(s) \subseteq Pending(s)'
        BY <1>t, <2>3, <2>4 DEF Accepts, Pending
      <3> QED
        BY <1>1, <1>2, <2>1, <2>2, <3>1, QuietKeepsWithin DEF Quiet
    <2>5. CASE Counts(x)
      <3>1. Pending(s) \ {x} \subseteq Pending(s)'
        BY <2>3, <2>5 DEF Counts, Pending
      <3>2. CASE x \notin Pending(s)
        <4>1. Pending(s) \subseteq Pending(s)'
          BY <3>1, <3>2
        <4> QED
          BY <1>1, <1>2, <2>1, <2>2, <4>1, QuietKeepsWithin DEF Quiet
      <3>3. CASE x \in Pending(s)
        <4>1. session' = Counted(s) \/ faults' = faults + 1
          BY <2>5, <3>3 DEF Counts, Pending
        <4>2. session' = Counted(s) => session'[s].sentCount = session[s].sentCount + 1
          BY <1>t DEF Counted, Row
        <4>3. session'[s].sentCount \in Nat /\ session'[s].sentCount >= session[s].sentCount
          BY <1>1 DEF RowsKept
        <4>4. session'[s].sentCount + crashes' + faults' >= session[s].sentCount + crashes + faults + 1
          BY <1>t, <4>1, <4>2, <4>3 DEF CountersGrow
        <4>5. Quiet(s)
          BY <2>1, <2>2, <3>1, <4>4 DEF Quiet
        <4> QED
          BY <1>1, <1>2, <4>5, QuietKeepsWithin
      <3> QED
        BY <3>2, <3>3
    <2> QED
      BY <1>1, <2>4, <2>5 DEF CountDelta
  <1> QED
    BY <1>3, <1>4, <1>5

\* Requests of the admin and the end of a cooldown leave every dispatch where it is.
LEMMA PauseKeepsWithin ==
  ASSUME TypeOK, TypeOK', SessionInv, SessionInv', NEW s \in Session, Within(s),
         RowsKept, CountersGrow, UNCHANGED <<dispatch, accounting>>,
         UNCHANGED cooldown \/ \E t \in Thread : CooldownExpires(t) \/ ClearCooldown(t)
  PROVE  Within(s)'
  <1>1. session[s].thread \in Thread /\ IsFiniteSet(Flight(session[s].thread))
    BY SessionNumbers DEF Within
  <1>2. /\ Confirmed(s)' = Confirmed(s) /\ Underway(s)' = Underway(s) /\ Pending(s)' = Pending(s)
    BY DEF Confirmed, Underway, Pending
  <1>3. /\ Contained(session[s].thread)
        /\ cooldown'[session[s].thread].outlived >= cooldown[session[s].thread].outlived
    <2>1. cooldown[session[s].thread].outlived \in Nat /\ cooldown \in [Thread -> CooldownRow]
      BY <1>1, CooldownNumbers DEF TypeOK
    <2>2. CASE UNCHANGED cooldown
      <3>1. \A t : Flight(t)' = Flight(t)
        BY DEF Flight, InFlight, JobOf
      <3> QED
        BY <1>1, <2>1, <2>2, <3>1, FlightShrinks
    <2>3. CASE \E t \in Thread : CooldownExpires(t) \/ ClearCooldown(t)
      <3>1. Contained(session[s].thread)
        BY <1>1, <2>3, EndContained
      <3>2. UNCHANGED cooldown \/ \E t \in Thread : CooldownEnds(t)
        BY <2>3 DEF CooldownExpires, ClearCooldown
      <3>3. cooldown'[session[s].thread].outlived >= cooldown[session[s].thread].outlived
        BY <1>1, <2>1, <3>2 DEF CooldownEnds, CooldownRow
      <3> QED
        BY <3>1, <3>3
    <2> QED
      BY <2>2, <2>3
  <1> QED
    BY <1>2, <1>3, QuietKeepsWithin DEF Quiet

\* A crash loses the pending counts: one of them is the crash, the others are in the excess.
LEMMA CrashKeepsWithin ==
  ASSUME TypeOK, TypeOK', SessionInv, SessionInv', NEW s \in Session, Within(s), CountersGrow, Crash
  PROVE  Within(s)'
  <1> DEFINE t == session[s].thread
  <1>1. /\ t \in Thread /\ IsFiniteSet(Flight(t))
        /\ session[s].sentCount \in Nat /\ session[s].maxMessages \in Nat
        /\ cooldown[t].outlived \in Nat
    BY SessionNumbers, CooldownNumbers DEF Within
  <1>2. /\ session' = session /\ cooldown' = cooldown
        /\ crashes' = crashes + 1 /\ faults' = faults
        /\ accounting' = [d \in Dispatch |-> "none"]
        /\ dispatch' = [d \in Dispatch |->
              IF dispatch[d].pc \in {"idle", "done", "dead"} THEN dispatch[d]
              ELSE [dispatch[d] EXCEPT !.pc = "dead"]]
    BY DEF Crash, LiveTestCrash
  <1>3. \A d \in Dispatch : /\ dispatch'[d].pc \in {"idle", "done", "dead"}
                            /\ dispatch'[d].auth = dispatch[d].auth
                            /\ dispatch'[d].outcome = dispatch[d].outcome
    BY <1>2 DEF TypeOK, DispatchState
  <1>4. /\ Confirmed(s)' = Confirmed(s) /\ Underway(s)' = {} /\ Pending(s)' = {}
        /\ Flight(t)' = {}
    BY <1>2, <1>3 DEF Confirmed, Underway, Pending, Flight, InFlight
  <1>5. /\ Cardinality(Pending(s)) \in Nat /\ Cardinality(Underway(s)) \in Nat
        /\ Cardinality(Confirmed(s)) \in Nat /\ Pending(s) \subseteq Flight(t)
    BY AccountNumbers
  <1>6. /\ Cardinality(Flight(t)) \in Nat /\ Excess(t) \in Nat
        /\ Cardinality(Flight(t)) <= Excess(t) + 1
        /\ Cardinality(Pending(s)) <= Cardinality(Flight(t))
    BY <1>1, <1>5, FlightNumbers, FS_Subset
  <1>7. /\ Allowance(s) = crashes + faults + cooldown[t].outlived
        /\ Allowance(s)' = crashes + 1 + faults + cooldown[t].outlived
    BY <1>2 DEF Allowance
  <1>8. /\ Flight(session[s].thread)' = {} /\ IsFiniteSet({}) /\ Cardinality({}) = 0
        /\ Excess(session[s].thread)' = 0
    <2>1. Flight(session[s].thread)' = {}
      BY <1>2, <1>4 DEF Flight
    <2> QED
      BY <2>1, FS_EmptySet DEF Excess
  <1>9. /\ Cardinality(Confirmed(s)) + Excess(t)
             <= session[s].sentCount + Cardinality(Pending(s)) + Allowance(s)
        /\ Cardinality(Confirmed(s)) + Cardinality(Underway(s)) <= session[s].maxMessages + Allowance(s)
        /\ IsFiniteSet(Confirmed(s))
    BY DEF Within
  <1>10. crashes \in Nat /\ faults \in Nat
    BY DEF CountersGrow
  <1> HIDE DEF t
  <1>11. /\ Cardinality(Confirmed(s)) + 0 <= session[s].sentCount + 0 + Allowance(s)'
         /\ Cardinality(Confirmed(s)) + 0 <= session[s].maxMessages + Allowance(s)'
    BY <1>1, <1>5, <1>6, <1>7, <1>9, <1>10
  <1>12. /\ IsFiniteSet(Flight(session[s].thread)') /\ IsFiniteSet(Confirmed(s)')
         /\ Cardinality(Confirmed(s)') + Excess(session[s].thread)'
               <= session'[s].sentCount + Cardinality(Pending(s)') + Allowance(s)'
         /\ Cardinality(Confirmed(s)') + Cardinality(Underway(s)')
               <= session'[s].maxMessages + Allowance(s)'
    BY <1>2, <1>4, <1>8, <1>9, <1>11
  <1> QED
    BY <1>12 DEF Within

\* What a session has confirmed is in its count, pending, or accounted for by a crash, an
\* error or an early end of the cooldown; and so is every dispatch that is one too many.
THEOREM CountInvariant == Spec => []CountInv
  <1>1. Init /\ TypeOK => CountInv
    <2> SUFFICES ASSUME Init, TypeOK, NEW s \in Session PROVE Within(s)
      BY DEF CountInv
    <2>1. Confirmed(s) = {} /\ Pending(s) = {} /\ Underway(s) = {} /\ Flight(session[s].thread) = {}
      BY DEF Init, Confirmed, Pending, Underway, Flight, InFlight
    <2>2. IsFiniteSet({}) /\ Cardinality({}) = 0
      BY FS_EmptySet
    <2>3. /\ session[s].sentCount \in Nat /\ session[s].maxMessages \in Nat
          /\ cooldown[session[s].thread].outlived \in Nat
      BY SessionNumbers, CooldownNumbers
    <2>4. crashes = 0 /\ faults = 0
      BY DEF Init, LiveTestInit
    <2>5. Excess(session[s].thread) = 0 /\ Allowance(s) \in Nat
      BY <2>1, <2>2, <2>3, <2>4 DEF Excess, Allowance
    <2> QED
      BY <2>1, <2>2, <2>3, <2>5 DEF Within
  <1>2. TypeOK /\ TypeOK' /\ SessionInv /\ SessionInv' /\ CountInv /\ [Next]_vars => CountInv'
    <2> SUFFICES ASSUME TypeOK, TypeOK', SessionInv, SessionInv', CountInv, [Next]_vars,
                        NEW s \in Session
                 PROVE  Within(s)'
      BY DEF CountInv
    <2>0. Within(s) /\ CountersGrow
      BY NextGrows DEF CountInv
    <2>1. CASE \E d \in Dispatch : Call(d) \/ Advance(d) \/ Background(d)
      BY <2>0, <2>1, DispatchKeepsWithin
    <2>2. CASE \/ AdminStep /\ UNCHANGED outboundVars
               \/ UNCHANGED vars
               \/ \E t \in Thread : CooldownExpires(t) \/ ClearCooldown(t)
      <3>1. AllHalt
        BY <2>2, OthersHalt, Zenon
      <3>2. /\ UNCHANGED <<dispatch, accounting>>
            /\ UNCHANGED cooldown \/ \E t \in Thread : CooldownExpires(t) \/ ClearCooldown(t)
        BY <2>2 DEF outboundVars, vars, CooldownExpires, ClearCooldown
      <3>3. RowsKept
        BY <3>1 DEF AllHalt
      <3> QED
        BY <2>0, <3>2, <3>3, PauseKeepsWithin
    <2>3. CASE Crash
      BY <2>0, <2>3, CrashKeepsWithin
    <2> QED
      BY <2>1, <2>2, <2>3, Zenon DEF Next
  <1> QED
    BY <1>1, <1>2, TypeCorrect, SessionInvariant, PTL DEF Spec

\* A session confirms no more sends than it was given, plus one for each crash or error
\* that lost a count and one for each time the cooldown of its thread ended, by its time
\* or by processBatchNow's clear, under a dispatch in flight.
THEOREM QuotaKept == Spec => []QuotaOvershootBounded
  <1>1. TypeOK /\ SessionInv /\ CountInv => QuotaOvershootBounded
    <2> SUFFICES ASSUME TypeOK, SessionInv, CountInv, NEW s \in Session
                 PROVE  Cardinality(Confirmed(s)) <=
                            session[s].maxMessages + crashes + faults + cooldown[session[s].thread].outlived
      BY DEF QuotaOvershootBounded, Confirmed
    <2>0. /\ crashes \in Nat /\ faults \in Nat
          /\ cooldown[session[s].thread].outlived \in Nat
      BY SessionNumbers, CooldownNumbers, LiveTestAssumption DEF TypeOK, LiveTestTypeOK
    <2>1. Within(s)
      BY DEF CountInv
    <2>2. /\ Cardinality(Confirmed(s)) \in Nat /\ Cardinality(Underway(s)) \in Nat
          /\ session[s].maxMessages \in Nat /\ Allowance(s) \in Nat
      BY <2>1, AccountNumbers, SessionNumbers
    <2>3. Cardinality(Confirmed(s)) + Cardinality(Underway(s)) <= session[s].maxMessages + Allowance(s)
      BY <2>1 DEF Within
    <2> QED
      BY <2>0, <2>2, <2>3 DEF Allowance
  <1> QED
    BY <1>1, TypeCorrect, SessionInvariant, CountInvariant, PTL

-----------------------------------------------------------------------------
(* What a dispatch writes about itself *)

\* The steps before the message is written.
LEMMA EarlyKeepsWritten ==
  ASSUME NEW d \in Dispatch, Written(d),
         dispatch[d].pc \in BeforeReservation,
         dispatch'[d].pc \in BeforeReservation \cup {"write", "done"},
         dispatch'[d].result = dispatch[d].result \/ dispatch'[d].pc = "done",
         UNCHANGED <<message, noting>>
  PROVE  Written(d)'
  <1>1. message[d] = Unwritten /\ d \notin noting /\ dispatch[d].result = "none"
    BY DEF Written, BeforeReservation
  <1> QED
    BY <1>1 DEF Written, Unwritten, BeforeReservation

\* A step that writes nothing but the state of a dispatch past the reservation.
LEMMA LateKeepsWritten ==
  ASSUME NEW d \in Dispatch, Written(d),
         dispatch'[d].owned = dispatch[d].owned, dispatch'[d].job = dispatch[d].job,
         dispatch'[d].pc \notin BeforeReservation \cup {"write", "dryMessage", "dryRecord"},
         dispatch'[d].pc = "settle" => Live(d)',
         dispatch'[d].pc = "cool" /\ JobOf(d).strict => IsText(d) /\ dispatch[d].owned,
         dispatch'[d].result = dispatch[d].result \/ dispatch'[d].pc = "done",
         dispatch[d].result # "none" => dispatch'[d].pc = "done",
         message'[d].record = message[d].record,
         d \in noting' => d \in noting \/ ~JobOf(d).strict
  PROVE  Written(d)'
  <1>1. JobOf(d)' = JobOf(d) /\ KeyOf(d)' = KeyOf(d) /\ IsText(d)' = IsText(d)
    BY DEF JobOf, KeyOf, IsText
  <1> QED
    BY <1>1 DEF Written

\* The three writes to a message are made by the dispatch that it belongs to.
MessageDelta(d) ==
    /\ \A e \in Dispatch \ {d} : message'[e] = message[e] /\ (e \in noting' <=> e \in noting)
    /\ UNCHANGED message \/ WriteMessage(d) \/ DryMessage(d) \/ NoteMessage(d)
    /\ UNCHANGED noting \/ DryRecord(d) \/ Settle(d) \/ NoteMessage(d)

LEMMA DispatchMessageDelta ==
  ASSUME TypeOK, NEW d \in Dispatch, Call(d) \/ Advance(d) \/ Background(d)
  PROVE  MessageDelta(d)
  <1>1. Frame(d) /\ message \in [Dispatch -> MessageRow]
    BY DispatchFrame DEF TypeOK
  <1>2. UNCHANGED message \/ \E row : message' = [message EXCEPT ![d] = row]
    BY <1>1 DEF Frame, WriteMessage, DryMessage, NoteMessage
  <1>3. UNCHANGED noting \/ noting' = noting \cup {d} \/ noting' = noting \ {d}
    BY <1>1 DEF Frame, DryRecord, Settle, NoteMessage
  <1> QED
    BY <1>1, <1>2, <1>3 DEF Frame, MessageDelta

LEMMA OthersKeepWritten ==
  ASSUME NEW d \in Dispatch, NEW e \in Dispatch \ {d}, Others(d), MessageDelta(d), Written(e)
  PROVE  Written(e)'
  <1>1. dispatch'[e] = dispatch[e] /\ message'[e] = message[e] /\ (e \in noting' <=> e \in noting)
    BY DEF Others, MessageDelta
  <1>2. JobOf(e)' = JobOf(e) /\ KeyOf(e)' = KeyOf(e) /\ IsText(e)' = IsText(e) /\ Live(e)' = Live(e)
    BY <1>1 DEF JobOf, KeyOf, IsText, Live
  <1> QED
    BY <1>1, <1>2 DEF Written

LEMMA ActorKeepsWritten ==
  ASSUME TypeOK, ReplyInv, NEW d \in Dispatch, Written(d),
         Call(d) \/ Advance(d) \/ Background(d)
  PROVE  Written(d)'
  <1>t. /\ dispatch \in [Dispatch -> DispatchState] /\ Stage(d)
        /\ message \in [Dispatch -> MessageRow] /\ noting \in SUBSET Dispatch
    BY DEF TypeOK, ReplyInv
  <1>f. Frame(d)
    BY DispatchFrame
  <1>g. AfterGate(d) \in BeforeReservation \cup {"write"}
    BY DEF AfterGate, BeforeReservation
  <1> USE DEF At
  <1>1. CASE \/ Call(d) \/ AcquireCooldown(d) \/ DispatcherGate(d) \/ DispatcherCloses(d)
             \/ LookUp(d) \/ StrictReplay(d) \/ Reserve(d)
    <2>1. dispatch[d].pc \in BeforeReservation /\ UNCHANGED <<message, noting>>
      BY <1>1, Zenon DEF BeforeReservation, Call, AcquireCooldown, DispatcherGate,
           DispatcherCloses, LookUp, StrictReplay, Reserve
    <2>2. \/ \E pc \in BeforeReservation \cup {"write"} : MovesOn(d, pc)
          \/ \E result : Ends(d, result)
          \/ \E pc \in BeforeReservation \cup {"write"} : \E s :
                Sets(d, pc, s, dispatch[d].auth, dispatch[d].outcome, dispatch[d].result)
          \/ Call(d)
      <3> USE DEF BeforeReservation
      <3>1. CASE AcquireCooldown(d)
        BY <1>t, <1>g, <3>1, GotoSets, ReturnSets DEF AcquireCooldown
      <3>2. CASE DispatcherGate(d)
        <4>1. \/ Goto(d, AfterGate(d))
              \/ \E s : dispatch' = [dispatch EXCEPT ![d].pc = "closing", ![d].stale = s, ![d].closeAs = SpentAs(s)]
              \/ \E s : dispatch' = [dispatch EXCEPT ![d].pc = AfterGate(d), ![d].plan = s]
          BY <3>2 DEF DispatcherGate
        <4>2. Goto(d, AfterGate(d)) => MovesOn(d, AfterGate(d))
          BY <1>t, GotoSets
        <4>3. \A s : dispatch' = [dispatch EXCEPT ![d].pc = "closing", ![d].stale = s, ![d].closeAs = SpentAs(s)]
                 => MovesOn(d, "closing")
          BY <1>t, StaleSets
        <4>4. \A s : dispatch' = [dispatch EXCEPT ![d].pc = AfterGate(d), ![d].plan = s]
                 => Sets(d, AfterGate(d), s, dispatch[d].auth, dispatch[d].outcome, dispatch[d].result)
          BY <1>t, PlanSets
        <4> QED
          BY <1>g, <4>1, <4>2, <4>3, <4>4
      <3>3. CASE DispatcherCloses(d)
        BY <1>t, <1>g, <3>3, GotoSets DEF DispatcherCloses
      <3>4. CASE LookUp(d)
        BY <1>t, <3>4, GotoSets, ReturnSets, StrictFailureSets DEF LookUp
      <3>5. CASE StrictReplay(d)
        BY <1>t, <3>5, ReturnSets, StrictFailureSets DEF StrictReplay
      <3>6. CASE Reserve(d)
        <4>1. \/ Return(d, "duplicate") \/ StrictFailure(d) \/ Goto(d, "replay") \/ Goto(d, "write")
              \/ dispatch' = [dispatch EXCEPT ![d].pc = "write", ![d].owned = TRUE]
          BY <3>6 DEF Reserve
        <4> QED
          BY <1>t, <4>1, GotoSets, ReturnSets, StrictFailureSets, OwnedSets
      <3> QED
        BY <1>1, <3>1, <3>2, <3>3, <3>4, <3>5, <3>6
    <2>3. /\ dispatch'[d].pc \in BeforeReservation \cup {"write", "done"}
          /\ dispatch'[d].result = dispatch[d].result \/ dispatch'[d].pc = "done"
      <3>1. CASE Call(d)
        <4>1. PICK j \in Job :
                 \/ dispatch' = [dispatch EXCEPT ![d].pc = "begin", ![d].job = j]
                 \/ dispatch' = [dispatch EXCEPT ![d].pc = "done", ![d].job = j, ![d].result = "refused"]
          BY <3>1 DEF Call
        <4> QED
          BY <1>t, <4>1 DEF BeforeReservation, DispatchState
      <3>2. CASE ~Call(d)
        BY <2>2, <3>2 DEF MovesOn, Ends, Sets
      <3> QED
        BY <3>1, <3>2
    <2> QED
      BY <2>1, <2>3, EarlyKeepsWritten
  <1>2. CASE WriteMessage(d)
    <2>1. /\ dispatch[d].pc = "write" /\ UNCHANGED noting
          /\ message[d] = Unwritten /\ d \notin noting /\ dispatch[d].result = "none"
      BY <1>2 DEF WriteMessage, Written
    <2>2. CASE StrictFailure(d) /\ UNCHANGED message
      <3>1. Ends(d, "unproven")
        BY <1>t, <2>2, StrictFailureSets
      <3> QED
        BY <2>1, <2>2, <3>1 DEF Ends, Sets, Written, Unwritten, BeforeReservation
    <2>3. CASE Proceed(d)
      <3>1. /\ Answers(d, AfterWrite(d), IF Live(d) /\ IsText(d) THEN "none" ELSE "dry")
            /\ dispatch'[d].owned = dispatch[d].owned
        BY <1>t, <2>3, OutcomeSets DEF Proceed
      <3>2. /\ JobOf(d)' = JobOf(d) /\ KeyOf(d)' = KeyOf(d) /\ IsText(d)' = IsText(d)
            /\ Live(d)' = Live(d) /\ dispatch'[d].result = "none"
            /\ dispatch'[d].pc = AfterWrite(d)
            /\ dispatch'[d].outcome = IF Live(d) /\ IsText(d) THEN "none" ELSE "dry"
        BY <2>1, <3>1 DEF Answers, Sets, JobOf, KeyOf, IsText, Live
      <3>3. /\ AfterWrite(d) \in {"sender", "settle", "dryMessage", "dryRecord"}
            /\ AfterWrite(d) \in {"sender", "settle"} <=> Live(d)
            /\ AfterWrite(d) = "dryMessage" <=> ~Live(d) /\ JobOf(d).strict
            /\ AfterWrite(d) = "dryRecord" <=> ~Live(d) /\ ~JobOf(d).strict
            /\ JobOf(d).strict => ~Live(d)
        BY <1>t DEF AfterWrite, Stage
      <3>4. /\ JobOf(d).strict => IsText(d) /\ dispatch[d].owned
            /\ message'[d].sentId = NoDispatch
            /\ message'[d].record # NoKey => dispatch[d].owned /\ message'[d].record = KeyOf(d)
            /\ JobOf(d).strict => message'[d].record = KeyOf(d)
        <4>1. CASE /\ IsText(d) /\ (JobOf(d).strict => dispatch[d].owned)
                   /\ message' = [message EXCEPT ![d] =
                        [status |-> IF JobOf(d).strict THEN "draft"
                                    ELSE IF Live(d) THEN "sending" ELSE "dryRun",
                         sentId |-> NoDispatch,
                         record |-> IF dispatch[d].owned THEN KeyOf(d) ELSE NoKey]]
          BY <1>t, <4>1 DEF IsText
        <4>2. CASE ~JobOf(d).strict /\ UNCHANGED message
          BY <2>1, <4>2 DEF Unwritten
        <4>3. ~(StrictFailure(d) /\ UNCHANGED message)
          <5>1. StrictFailure(d) => dispatch'[d].pc = "done"
            BY <1>t, StrictFailureSets DEF Ends, Sets
          <5> QED
            BY <3>2, <3>3, <5>1
        <4> QED
          BY <1>2, <4>1, <4>2, <4>3, Zenon DEF WriteMessage
      <3> QED
        BY <2>1, <3>1, <3>2, <3>3, <3>4 DEF Written, BeforeReservation
    <2> QED
      BY <1>2, <2>2, <2>3, Zenon DEF WriteMessage
  <1>3. CASE DryMessage(d)
    <2>1. dispatch[d].pc = "dryMessage" /\ UNCHANGED noting
      BY <1>3 DEF DryMessage
    <2>2. CASE StrictFailure(d) /\ UNCHANGED message
      <3>1. Ends(d, "unproven") /\ dispatch'[d].owned = dispatch[d].owned
        BY <1>t, <2>2, StrictFailureSets
      <3> QED
        BY <2>1, <2>2, <3>1, LateKeepsWritten DEF Ends, Sets, BeforeReservation, Written
    <2>3. CASE /\ Goto(d, "dryRecord")
               /\ message' = [message EXCEPT ![d] = [@ EXCEPT !.status = "dryRun", !.sentId = d]]
      <3>1. MovesOn(d, "dryRecord") /\ dispatch'[d].owned = dispatch[d].owned
        BY <1>t, <2>3, GotoSets
      <3>2. /\ JobOf(d)' = JobOf(d) /\ KeyOf(d)' = KeyOf(d) /\ IsText(d)' = IsText(d)
            /\ dispatch'[d].pc = "dryRecord" /\ dispatch'[d].outcome = dispatch[d].outcome
            /\ dispatch'[d].result = dispatch[d].result
        BY <3>1 DEF MovesOn, Sets, JobOf, KeyOf, IsText
      <3>3. message'[d] = [status |-> "dryRun", sentId |-> d, record |-> message[d].record]
        BY <1>t, <2>3 DEF MessageRow
      <3> QED
        BY <2>1, <3>1, <3>2, <3>3 DEF Written, BeforeReservation
    <2> QED
      BY <1>3, <2>2, <2>3 DEF DryMessage
  <1>4. CASE DryRecord(d)
    <2>1. /\ dispatch[d].pc = "dryRecord" /\ UNCHANGED message
          /\ noting' = IF ~JobOf(d).strict /\ HasMessage(d) THEN noting \cup {d} ELSE noting
          /\ Goto(d, "cool") \/ StrictFailure(d)
      BY <1>4 DEF DryRecord
    <2>2. (MovesOn(d, "cool") \/ Ends(d, "unproven")) /\ dispatch'[d].owned = dispatch[d].owned
      BY <1>t, <2>1, GotoSets, StrictFailureSets
    <2> QED
      BY <2>1, <2>2, LateKeepsWritten DEF MovesOn, Ends, Sets, BeforeReservation, Written
  <1>5. CASE SenderGate(d) \/ SenderCloses(d) \/ SenderRefuses(d) \/ ProviderAccepts(d) \/ ProviderFails(d)
    <2>1. dispatch[d].pc \in Sending /\ UNCHANGED <<message, noting>>
      BY <1>5, Zenon DEF Sending, SenderGate, SenderCloses, SenderRefuses, ProviderAccepts, ProviderFails
    <2>2. /\ \/ \E pc \in {"settle", "senderClosing", "send"} : \E auth, outcome :
                   Sets(d, pc, dispatch[d].plan, auth, outcome, dispatch[d].result)
             \/ UNCHANGED dispatch
          /\ dispatch'[d].owned = dispatch[d].owned
      <3>1. \/ \E outcome : dispatch' = [dispatch EXCEPT ![d].pc = "settle", ![d].outcome = outcome]
            \/ \E s, c : dispatch' = [dispatch EXCEPT ![d].pc = "senderClosing", ![d].stale = s, ![d].closeAs = c]
            \/ \E s : dispatch' = [dispatch EXCEPT ![d].pc = "send", ![d].auth = s]
            \/ UNCHANGED dispatch
        BY <1>5 DEF SenderGate, SenderCloses, SenderRefuses, ProviderAccepts, ProviderFails
      <3>2. \A outcome : dispatch' = [dispatch EXCEPT ![d].pc = "settle", ![d].outcome = outcome]
               => /\ Sets(d, "settle", dispatch[d].plan, dispatch[d].auth, outcome, dispatch[d].result)
                  /\ dispatch'[d].owned = dispatch[d].owned
        BY <1>t, OutcomeSets DEF Answers
      <3>4. \A s : dispatch' = [dispatch EXCEPT ![d].pc = "send", ![d].auth = s]
               => /\ Sets(d, "send", dispatch[d].plan, s, dispatch[d].outcome, dispatch[d].result)
                  /\ dispatch'[d].owned = dispatch[d].owned
        BY <1>t, AuthSets
      <3>5. CASE \E outcome : dispatch' = [dispatch EXCEPT ![d].pc = "settle", ![d].outcome = outcome]
        BY <3>2, <3>5
      <3>6. CASE \E s, c : dispatch' = [dispatch EXCEPT ![d].pc = "senderClosing", ![d].stale = s, ![d].closeAs = c]
        <4>1. PICK s, c : dispatch' = [dispatch EXCEPT ![d].pc = "senderClosing", ![d].stale = s, ![d].closeAs = c]
          BY <3>6
        <4>2. MovesOn(d, "senderClosing") /\ dispatch'[d].owned = dispatch[d].owned
          BY <1>t, <4>1, StaleSets
        <4> QED
          BY <4>2 DEF MovesOn
      <3>7. CASE \E s : dispatch' = [dispatch EXCEPT ![d].pc = "send", ![d].auth = s]
        BY <3>4, <3>7
      <3>8. CASE UNCHANGED dispatch
        BY <3>8
      <3> QED
        BY <3>1, <3>5, <3>6, <3>7, <3>8
    <2>3. /\ dispatch'[d].pc \in Sending \cup {"settle"} /\ dispatch'[d].job = dispatch[d].job
          /\ dispatch'[d].plan = dispatch[d].plan /\ dispatch'[d].result = dispatch[d].result
      BY <2>1, <2>2 DEF Sets, Sending
    <2>4. Live(d)' /\ dispatch[d].result = "none"
      BY <1>t, <2>1, <2>3 DEF Stage, Live, Sending, Written
    <2> QED
      BY <2>1, <2>2, <2>3, <2>4, LateKeepsWritten DEF Sending, BeforeReservation
  <1>6. CASE Settle(d)
    <2>1. /\ dispatch[d].pc = "settle" /\ UNCHANGED message /\ noting' \subseteq noting \cup {d}
          /\ Goto(d, "cool")
      BY <1>6 DEF Settle
    <2>2. MovesOn(d, "cool") /\ dispatch'[d].owned = dispatch[d].owned
      BY <1>t, <2>1, GotoSets
    <2>3. ~JobOf(d).strict /\ dispatch[d].result = "none"
      BY <1>t, <2>1 DEF Written, Stage
    <2> QED
      BY <2>1, <2>2, <2>3, LateKeepsWritten DEF MovesOn, Sets, BeforeReservation
  <1>7. CASE SetCooldown(d)
    <2>1. /\ dispatch[d].pc = "cool" /\ UNCHANGED <<message, noting>>
          /\ \E result : Return(d, result)
      BY <1>7 DEF SetCooldown
    <2>2. (\E result : Ends(d, result)) /\ dispatch'[d].owned = dispatch[d].owned
      BY <1>t, <2>1, ReturnSets
    <2> QED
      BY <2>1, <2>2, LateKeepsWritten DEF Ends, Sets, BeforeReservation
  <1>8. CASE NoteMessage(d)
    <2>1. /\ d \in noting /\ d \notin noting' /\ UNCHANGED dispatch
          /\ message'[d].record = message[d].record
      <3>1. /\ d \in noting /\ d \notin noting' /\ UNCHANGED dispatch
            /\ \/ UNCHANGED message
               \/ \E status : message' = [message EXCEPT ![d] =
                                 [@ EXCEPT !.status = status, !.sentId = SentId(d)]]
        BY <1>8 DEF NoteMessage
      <3> QED
        BY <1>t, <3>1 DEF MessageRow
    <2>2. /\ dispatch[d].pc \notin BeforeReservation \cup {"write"} /\ ~JobOf(d).strict
      BY <2>1 DEF Written
    <2> QED
      BY <2>1, <2>2 DEF Written, JobOf, KeyOf, IsText, Live
  <1>9. CASE CountSent(d) \/ CompleteSession(d)
    <2>1. UNCHANGED <<dispatch, message, noting>>
      BY <1>9, Zenon DEF CountSent, CompleteSession
    <2> QED
      BY <2>1 DEF Written, JobOf, KeyOf, IsText, Live
  <1> QED
    BY <1>1, <1>2, <1>3, <1>4, <1>5, <1>6, <1>7, <1>8, <1>9, Zenon DEF Advance, Background

-----------------------------------------------------------------------------
(* The final row of a key is written once, by its owner *)

\* A dispatch that writes the row of a key either reserves it, or owns it, finds it
\* reserved, and is past its outcome once it has written.
RowDelta(d) ==
    \A k \in Key :
        \/ record'[k] = record[k]
        \/ ~Reserved(k) /\ record'[k].sentId = NoDispatch
        \/ /\ record[k].owner = d /\ record[k].reason = "reserved"
           /\ dispatch[d].owned /\ KeyOf(d) = k
           /\ record'[k].owner = d
           /\ record'[k].reason \in {"dry_run", "live_test", "send_failed"}
           /\ record'[k].sentId \in {NoDispatch, d}
           /\ dispatch'[d].pc \in Sealing
           /\ record'[k].sentId = d => dispatch'[d].outcome # "failed"

LEMMA DispatchRowDelta ==
  ASSUME TypeOK, ReplyInv, NEW d \in Dispatch, Written(d), Call(d) \/ Advance(d) \/ Background(d)
  PROVE  RowDelta(d)
  <1>t. /\ record \in [Key -> RecordRow] /\ dispatch \in [Dispatch -> DispatchState]
        /\ NoDispatch \notin Dispatch
    BY OutboundAssumption DEF TypeOK
  <1>f. Frame(d)
    BY DispatchFrame
  <1>1. CASE UNCHANGED record
    BY <1>1 DEF RowDelta
  <1>2. CASE Reserve(d)
    <2>1. /\ ~Reserved(KeyOf(d)) \/ UNCHANGED record
          /\ \/ UNCHANGED record
             \/ record' = [record EXCEPT ![KeyOf(d)] = [reason |-> "reserved", sentId |-> NoDispatch,
                                                        dryRun |-> ~Live(d), owner |-> d]]
      BY <1>2 DEF Reserve
    <2> QED
      BY <1>t, <2>1 DEF RowDelta
  <1>3. CASE DryRecord(d)
    <2>1. /\ dispatch[d].pc = "dryRecord"
          /\ \/ UNCHANGED record
             \/ /\ dispatch[d].owned /\ Goto(d, "cool")
                /\ record' = [record EXCEPT ![KeyOf(d)] =
                                [@ EXCEPT !.reason = "dry_run", !.sentId = d]]
      BY <1>3 DEF DryRecord, At
    <2>2. CASE UNCHANGED record
      BY <2>2 DEF RowDelta
    <2>3. CASE /\ dispatch[d].owned /\ Goto(d, "cool")
               /\ record' = [record EXCEPT ![KeyOf(d)] =
                                [@ EXCEPT !.reason = "dry_run", !.sentId = d]]
      <3>1. record[KeyOf(d)].owner = d /\ record[KeyOf(d)].reason = "reserved"
        BY <2>1, <2>3 DEF ReplyInv, OwnershipInv, Unsettled
      <3>2. dispatch'[d].pc = "cool" /\ dispatch'[d].outcome = "dry"
        BY <1>t, <2>1, <2>3, GotoSets DEF MovesOn, Sets, Written
      <3>3. /\ \A k \in Key \ {KeyOf(d)} : record'[k] = record[k]
            /\ KeyOf(d) \in Key => record'[KeyOf(d)] = [record[KeyOf(d)] EXCEPT !.reason = "dry_run", !.sentId = d]
        BY <1>t, <2>3
      <3>4. KeyOf(d) \in Key => /\ record'[KeyOf(d)].reason = "dry_run"
                                /\ record'[KeyOf(d)].sentId = d
                                /\ record'[KeyOf(d)].owner = record[KeyOf(d)].owner
        BY <1>t, <3>3 DEF RecordRow
      <3> QED
        BY <2>3, <3>1, <3>2, <3>3, <3>4 DEF RowDelta, Sealing
    <2> QED
      BY <2>1, <2>2, <2>3
  <1>4. CASE Settle(d)
    <2>1. /\ dispatch[d].pc = "settle" /\ Goto(d, "cool")
          /\ \/ UNCHANGED record
             \/ /\ dispatch[d].owned
                /\ record' = [record EXCEPT ![KeyOf(d)] = [@ EXCEPT
                               !.reason = IF dispatch[d].outcome = "failed"
                                          THEN "send_failed" ELSE "live_test",
                               !.sentId = SentId(d)]]
      BY <1>4 DEF Settle, At
    <2>2. CASE UNCHANGED record
      BY <2>2 DEF RowDelta
    <2>3. CASE /\ dispatch[d].owned
               /\ record' = [record EXCEPT ![KeyOf(d)] = [@ EXCEPT
                               !.reason = IF dispatch[d].outcome = "failed"
                                          THEN "send_failed" ELSE "live_test",
                               !.sentId = SentId(d)]]
      <3> DEFINE reason == IF dispatch[d].outcome = "failed" THEN "send_failed" ELSE "live_test"
      <3>1. record[KeyOf(d)].owner = d /\ record[KeyOf(d)].reason = "reserved"
        BY <2>1, <2>3 DEF ReplyInv, OwnershipInv, Unsettled
      <3>2. dispatch'[d].pc = "cool" /\ dispatch'[d].outcome = dispatch[d].outcome
        BY <1>t, <2>1, GotoSets DEF MovesOn, Sets
      <3>3. reason \in {"live_test", "send_failed"}
        OBVIOUS
      <3>s. /\ SentId(d) \in {NoDispatch, d}
            /\ SentId(d) = d => dispatch[d].outcome # "failed"
        BY <1>t DEF SentId
      <3> HIDE DEF reason
      <3>4. /\ \A k \in Key \ {KeyOf(d)} : record'[k] = record[k]
            /\ KeyOf(d) \in Key => /\ record'[KeyOf(d)].reason = reason
                                   /\ record'[KeyOf(d)].sentId = SentId(d)
                                   /\ record'[KeyOf(d)].owner = record[KeyOf(d)].owner
        <4>1. record' = [record EXCEPT ![KeyOf(d)] = [@ EXCEPT !.reason = reason, !.sentId = SentId(d)]]
          BY <2>3 DEF reason
        <4> QED
          BY <1>t, <4>1 DEF RecordRow
      <3> QED
        BY <2>3, <3>1, <3>2, <3>3, <3>s, <3>4 DEF RowDelta, Sealing
    <2> QED
      BY <2>1, <2>2, <2>3
  <1> QED
    BY <1>f, <1>1, <1>2, <1>3, <1>4 DEF Frame

LEMMA DispatchKeepsSealed ==
  ASSUME TypeOK, ReplyInv, WrittenInv, NEW d \in Dispatch, Call(d) \/ Advance(d) \/ Background(d),
         NEW k \in Key, Reserved(k)'
  PROVE  Sealed(k)'
  <1>1. RowDelta(d) /\ Delta(d)
    BY DispatchRowDelta, DispatchDelta DEF WrittenInv
  <1>t. NoDispatch \notin Dispatch
    BY OutboundAssumption
  <1>2. CASE record'[k] = record[k]
    <2>1. Reserved(k) /\ Sealed(k) /\ record[k].owner \in Dispatch
      BY <1>2 DEF Reserved, WrittenInv, ReplyInv, OwnershipInv
    <2>2. CASE record[k].sentId # NoDispatch
      <3>1. dispatch'[record[k].owner].pc \in Sealing
            /\ dispatch'[record[k].owner].outcome = dispatch[record[k].owner].outcome
        BY <1>1, <2>1, <2>2 DEF Sealed, Delta, Others
      <3> QED
        BY <1>2, <2>1, <2>2, <3>1 DEF Sealed
    <2>3. CASE record[k].sentId = NoDispatch
      BY <1>2, <2>1, <2>3 DEF Sealed
    <2> QED
      BY <2>2, <2>3
  <1>3. CASE record'[k].sentId = NoDispatch
    BY <1>3 DEF Sealed
  <1>4. CASE /\ record'[k].owner = d /\ record'[k].sentId \in {NoDispatch, d}
             /\ record'[k].reason \in {"dry_run", "live_test", "send_failed"}
             /\ dispatch'[d].pc \in Sealing
             /\ record'[k].sentId = d => dispatch'[d].outcome # "failed"
    BY <1>4 DEF Sealed
  <1> QED
    BY <1>1, <1>2, <1>3, <1>4 DEF RowDelta

LEMMA HaltKeepsWritten ==
  ASSUME TypeOK, ReplyInv, WrittenInv, AllHalt
  PROVE  WrittenInv'
  <1>1. ASSUME NEW e \in Dispatch PROVE Written(e)'
    <2>1. Written(e) /\ Halts(e) /\ UNCHANGED message /\ noting' \subseteq noting
      BY DEF WrittenInv, AllHalt
    <2>2. JobOf(e)' = JobOf(e) /\ KeyOf(e)' = KeyOf(e) /\ IsText(e)' = IsText(e) /\ Live(e)' = Live(e)
      BY <2>1 DEF Halts, JobOf, KeyOf, IsText, Live
    <2> QED
      BY <2>1, <2>2 DEF Written, Halts, BeforeReservation
  <1>2. ASSUME NEW k \in Key, Reserved(k)' PROVE Sealed(k)'
    <2>1. Sealed(k) /\ UNCHANGED record /\ record[k].owner \in Dispatch
      BY <1>2 DEF AllHalt, Reserved, WrittenInv, ReplyInv, OwnershipInv
    <2>2. Halts(record[k].owner)
      BY <2>1 DEF AllHalt
    <2> QED
      BY <2>1, <2>2 DEF Sealed, Halts, Sealing
  <1> QED
    BY <1>1, <1>2 DEF WrittenInv

\* What a dispatch has written matches the stage it is in, and the final row of a key
\* names the dispatch that reserved it.
THEOREM WrittenInvariant == Spec => []WrittenInv
  <1>1. Init => WrittenInv
    BY DEF Init, WrittenInv, Written, Unwritten, Reserved
  <1>2. TypeOK /\ ReplyInv /\ WrittenInv /\ [Next]_vars => WrittenInv'
    <2> SUFFICES ASSUME TypeOK, ReplyInv, WrittenInv, [Next]_vars PROVE WrittenInv'
      OBVIOUS
    <2>1. ASSUME NEW d \in Dispatch, Call(d) \/ Advance(d) \/ Background(d) PROVE WrittenInv'
      <3>1. Delta(d) /\ MessageDelta(d)
        BY <2>1, DispatchDelta, DispatchMessageDelta
      <3>2. ASSUME NEW e \in Dispatch PROVE Written(e)'
        <4>1. Written(e) /\ Written(d)
          BY DEF WrittenInv
        <4> QED
          BY <2>1, <3>1, <4>1, ActorKeepsWritten, OthersKeepWritten DEF Delta
      <3> QED
        BY <2>1, <3>2, DispatchKeepsSealed DEF WrittenInv
    <2>2. CASE \/ AdminStep /\ UNCHANGED outboundVars
               \/ \E t \in Thread : CooldownExpires(t) \/ ClearCooldown(t)
               \/ Crash
               \/ UNCHANGED vars
      BY <2>2, OthersHalt, HaltKeepsWritten, Zenon
    <2> QED
      BY <2>1, <2>2, Zenon DEF Next
  <1> QED
    BY <1>1, <1>2, TypeCorrect, ReplyInvariant, PTL DEF Spec

-----------------------------------------------------------------------------
(* What is proven stays proven *)

\* The message of a proven pair is its owner's and is not written again, except by the
\* unawaited note of a send that did not fail.
LEMMA WitnessStays ==
  ASSUME TypeOK, ReplyInv, WrittenInv, NEW d \in Dispatch, Call(d) \/ Advance(d) \/ Background(d),
         NEW k \in Key, NEW e \in Dispatch, Reserved(k), record[k].sentId # NoDispatch,
         message[e].record = k, message[e].sentId = record[k].sentId,
         message[e].status \in {"dryRun", "sent"}
  PROVE  /\ message'[e].record = k /\ message'[e].sentId = record[k].sentId
         /\ message'[e].status \in {"dryRun", "sent"}
  <1>t. message \in [Dispatch -> MessageRow] /\ NoKey \notin Key
    BY OutboundAssumption DEF TypeOK
  <1>1. MessageDelta(d) /\ Written(e) /\ Sealed(k)
    BY DispatchMessageDelta DEF WrittenInv
  <1>2. CASE message'[e] = message[e]
    BY <1>2
  <1>3. CASE message'[e] # message[e]
    <2>1. e = d /\ (WriteMessage(d) \/ DryMessage(d) \/ NoteMessage(d))
      BY <1>1, <1>3 DEF MessageDelta
    <2>2. dispatch[e].owned /\ KeyOf(e) = k /\ record[k].owner = e /\ record[k].sentId = e
      BY <1>t, <1>1 DEF Written, Sealed, ReplyInv, OwnershipInv
    <2>3. dispatch[e].outcome # "failed"
      BY <1>1, <2>2 DEF Sealed
    <2>4. ~WriteMessage(d)
      BY <1>t, <1>1, <2>1 DEF WriteMessage, At, Written, Unwritten
    <2>5. ~DryMessage(d)
      BY <1>1, <2>1 DEF DryMessage, At, Written
    <2>6. CASE NoteMessage(d)
      <3>1. PICK status \in {"dryRun", "sent"} :
               \/ message' = [message EXCEPT ![d] = [@ EXCEPT !.status = status, !.sentId = SentId(d)]]
               \/ UNCHANGED message
        <4>1. (IF ~Live(d) THEN "dryRun"
               ELSE IF dispatch[d].outcome = "failed" THEN "failed" ELSE "sent") \in {"dryRun", "sent"}
          BY <2>1, <2>3
        <4> QED
          BY <2>6, <4>1 DEF NoteMessage
      <3>2. SentId(d) = e
        BY <2>1, <2>3 DEF SentId
      <3>3. message' = [message EXCEPT ![d] = [@ EXCEPT !.status = status, !.sentId = SentId(d)]]
        BY <1>3, <3>1
      <3>4. /\ message'[e].record = message[e].record /\ message'[e].sentId = SentId(d)
            /\ message'[e].status = status
        BY <1>t, <2>1, <3>3 DEF MessageRow
      <3> QED
        BY <2>2, <3>2, <3>4
    <2> QED
      BY <2>1, <2>4, <2>5, <2>6
  <1> QED
    BY <1>2, <1>3

LEMMA ProvenStays ==
  ASSUME TypeOK, ReplyInv, WrittenInv, NEW d \in Dispatch, Call(d) \/ Advance(d) \/ Background(d),
         NEW k \in Key, Proven(k)
  PROVE  Proven(k)'
  <1>1. PICK e \in Dispatch : /\ message[e].record = k
                              /\ message[e].sentId = record[k].sentId
                              /\ message[e].status \in {"dryRun", "sent"}
    BY DEF Proven
  <1>2. Reserved(k) /\ record[k].sentId # NoDispatch /\ record[k].reason # "reserved"
    BY DEF Proven, Reserved
  <1>3. record'[k] = record[k]
    BY <1>2, DispatchRowDelta DEF RowDelta, WrittenInv
  <1>4. /\ message'[e].record = k /\ message'[e].sentId = record[k].sentId
        /\ message'[e].status \in {"dryRun", "sent"}
    BY <1>1, <1>2, WitnessStays
  <1> QED
    BY <1>3, <1>4 DEF Proven

\* A dry_run_only dispatch arrives at its success with a proven pair.
LEMMA SuccessIsProven ==
  ASSUME TypeOK, ReplyInv, WrittenInv, ProvenInv, NEW d \in Dispatch,
         Call(d) \/ Advance(d) \/ Background(d), JobOf(d)'.strict,
         dispatch'[d].pc = "cool" \/ dispatch'[d].result \in {"dry_run", "duplicate"}
  PROVE  JobOf(d)' = JobOf(d) /\ IsText(d) /\ (Proven(KeyOf(d)) \/ Proven(KeyOf(d))')
  <1>t. /\ dispatch \in [Dispatch -> DispatchState] /\ record \in [Key -> RecordRow]
        /\ Stage(d) /\ Written(d) /\ NoDispatch \notin Dispatch /\ NoKey \notin Key
        /\ KeyOf(d) \in Key \cup {NoKey}
    BY OutboundAssumption DEF TypeOK, ReplyInv, WrittenInv, DispatchState, KeyOf, JobOf
  <1>d. Delta(d)
    BY DispatchDelta
  <1>1. CASE dispatch'[d].pc = dispatch[d].pc /\ dispatch'[d].result = dispatch[d].result
    <2>1. dispatch'[d].job = dispatch[d].job
      BY <1>1, <1>d DEF Delta
    <2> QED
      BY <1>1, <2>1 DEF ProvenInv, JobOf
  <1>2. CASE Call(d)
    <2>1. PICK j \in Job :
             \/ dispatch' = [dispatch EXCEPT ![d].pc = "begin", ![d].job = j]
             \/ dispatch' = [dispatch EXCEPT ![d].pc = "done", ![d].job = j, ![d].result = "refused"]
      BY <1>2 DEF Call
    <2>2. dispatch[d].pc = "idle" /\ dispatch[d].result = "none"
      BY <1>t, <1>2 DEF Call, At, Written
    <2>3. dispatch'[d].pc \in {"begin", "done"} /\ dispatch'[d].result \in {"none", "refused"}
      BY <1>t, <2>1, <2>2 DEF DispatchState
    <2> QED
      BY <2>3
  <1>3. CASE ~Call(d) /\ dispatch[d].pc \notin {"idle", "done", "dead"}
    <2>1. JobOf(d)' = JobOf(d) /\ KeyOf(d)' = KeyOf(d) /\ JobOf(d).strict /\ dispatch[d].result = "none"
      BY <1>t, <1>d, <1>3 DEF Delta, JobOf, KeyOf, Written
    <2>g. AfterGate(d) \in {"lookup", "write"} /\ AfterWrite(d) \notin {"cool", "done"}
      BY DEF AfterGate, AfterWrite
    <2>n. /\ ~ \E pc : pc # "cool" /\ MovesOn(d, pc)
          /\ ~ \E pc, p, a, o : pc # "cool" /\ Sets(d, pc, p, a, o, dispatch[d].result)
          /\ ~ \E result : result \notin {"dry_run", "duplicate"} /\ Ends(d, result)
      BY <2>1 DEF MovesOn, Sets, Ends
    <2>f. ~StrictFailure(d)
      BY <1>t, <2>n, StrictFailureSets
    <2> USE DEF At
    <2>2. CASE AcquireCooldown(d)
      BY <1>t, <2>2, <2>g, <2>n, GotoSets, ReturnSets DEF AcquireCooldown
    <2>3. CASE DispatcherGate(d)
      <3>1. \/ Goto(d, AfterGate(d))
            \/ \E s : dispatch' = [dispatch EXCEPT ![d].pc = "closing", ![d].stale = s, ![d].closeAs = SpentAs(s)]
            \/ \E s : dispatch' = [dispatch EXCEPT ![d].pc = AfterGate(d), ![d].plan = s]
        BY <2>3 DEF DispatcherGate
      <3>2. ~ Goto(d, AfterGate(d))
        BY <1>t, <2>g, <2>n, GotoSets
      <3>3. ASSUME NEW s, dispatch' = [dispatch EXCEPT ![d].pc = "closing", ![d].stale = s, ![d].closeAs = SpentAs(s)]
            PROVE  FALSE
        BY <1>t, <2>n, <3>3, StaleSets
      <3>4. ASSUME NEW s, dispatch' = [dispatch EXCEPT ![d].pc = AfterGate(d), ![d].plan = s]
            PROVE  FALSE
        BY <1>t, <2>g, <2>n, <3>4, PlanSets
      <3> QED
        BY <3>1, <3>2, <3>3, <3>4
    <2>4. CASE DispatcherCloses(d)
      BY <1>t, <2>4, <2>g, <2>n, GotoSets DEF DispatcherCloses
    <2>5. CASE LookUp(d)
      BY <1>t, <2>1, <2>5, <2>f, <2>n, GotoSets DEF LookUp
    <2>6. CASE StrictReplay(d)
      BY <1>t, <2>1, <2>6, <2>f DEF StrictReplay, Stage
    <2>7. CASE Reserve(d)
      <3>1. \/ Goto(d, "replay")
            \/ dispatch' = [dispatch EXCEPT ![d].pc = "write", ![d].owned = TRUE]
        BY <2>1, <2>7, <2>f DEF Reserve
      <3> QED
        BY <1>t, <2>n, <3>1, GotoSets, OwnedSets
    <2>8. CASE WriteMessage(d)
      <3>1. Proceed(d)
        BY <2>8, <2>f, Zenon DEF WriteMessage
      <3> QED
        BY <1>t, <2>g, <2>n, <3>1, OutcomeSets DEF Proceed, Answers
    <2>9. CASE DryMessage(d)
      BY <1>t, <2>9, <2>f, <2>n, GotoSets DEF DryMessage
    <2>10. CASE DryRecord(d)
      <3>1. /\ dispatch[d].pc = "dryRecord" /\ UNCHANGED message
            /\ record' = IF dispatch[d].owned
                         THEN [record EXCEPT ![KeyOf(d)] = [@ EXCEPT !.reason = "dry_run", !.sentId = d]]
                         ELSE record
        BY <2>1, <2>10, <2>f DEF DryRecord
      <3>2. /\ dispatch[d].owned /\ KeyOf(d) \in Key /\ IsText(d)
            /\ message[d] = [status |-> "dryRun", sentId |-> d, record |-> KeyOf(d)]
        BY <1>t, <2>1, <3>1 DEF Written, IsText
      <3>3. record'[KeyOf(d)].reason = "dry_run" /\ record'[KeyOf(d)].sentId = d
        BY <1>t, <3>1, <3>2 DEF RecordRow
      <3>4. Proven(KeyOf(d))'
        BY <1>t, <2>1, <3>1, <3>2, <3>3 DEF Proven
      <3> QED
        BY <2>1, <3>2, <3>4
    <2>11. CASE SenderGate(d) \/ SenderCloses(d) \/ SenderRefuses(d) \/ ProviderAccepts(d) \/ ProviderFails(d)
      <3>1. dispatch[d].pc \in Sending
        BY <2>11, Zenon DEF Sending, SenderGate, SenderCloses, SenderRefuses, ProviderAccepts, ProviderFails
      <3> QED
        BY <1>t, <2>1, <3>1 DEF Stage, Sending
    <2>12. CASE Settle(d)
      BY <1>t, <2>1, <2>12 DEF Settle, Written, Stage
    <2>13. CASE SetCooldown(d)
      BY <2>1, <2>13 DEF SetCooldown, ProvenInv
    <2>14. CASE Background(d)
      BY <1>1, <2>14, Zenon DEF Background, CountSent, CompleteSession, NoteMessage
    <2> QED
      BY <1>3, <2>2, <2>3, <2>4, <2>5, <2>6, <2>7, <2>8, <2>9, <2>10, <2>11, <2>12, <2>13, <2>14, Zenon
         DEF Advance
  <1>4. CASE ~Call(d) /\ dispatch[d].pc \in {"idle", "done", "dead"}
    <2>1. ~Advance(d)
      BY <1>4 DEF Advance, At, AcquireCooldown, DispatcherGate, DispatcherCloses, LookUp, StrictReplay,
           Reserve, WriteMessage, DryMessage, DryRecord, SenderGate, SenderCloses, SenderRefuses,
           ProviderAccepts, ProviderFails, Settle, SetCooldown
    <2>2. UNCHANGED dispatch
      BY <1>4, <2>1, Zenon DEF Background, CountSent, CompleteSession, NoteMessage
    <2> QED
      BY <1>1, <2>2
  <1> QED
    BY <1>2, <1>3, <1>4

LEMMA ProvenSame ==
  ASSUME NEW k, Proven(k), UNCHANGED <<record, message>>
  PROVE  Proven(k)'
  BY DEF Proven

\* The pair behind a success is there before the dispatch reports it.
THEOREM ProvenInvariant == Spec => []ProvenInv
  <1>1. Init => ProvenInv
    BY DEF Init, ProvenInv
  <1>2. TypeOK /\ ReplyInv /\ WrittenInv /\ ProvenInv /\ [Next]_vars => ProvenInv'
    <2> SUFFICES ASSUME TypeOK, ReplyInv, WrittenInv, ProvenInv, [Next]_vars,
                        NEW e \in Dispatch, JobOf(e)'.strict,
                        dispatch'[e].pc = "cool" \/ dispatch'[e].result \in {"dry_run", "duplicate"}
                 PROVE  IsText(e)' /\ Proven(KeyOf(e))'
      BY DEF ProvenInv
    <2>1. ASSUME NEW d \in Dispatch, Call(d) \/ Advance(d) \/ Background(d)
          PROVE  IsText(e)' /\ Proven(KeyOf(e))'
      <3>1. JobOf(e)' = JobOf(e) /\ IsText(e) /\ (Proven(KeyOf(e)) \/ Proven(KeyOf(e))')
        <4>1. CASE e = d
          BY <2>1, <4>1, SuccessIsProven
        <4>2. CASE e # d
          <5>1. dispatch'[e] = dispatch[e]
            BY <2>1, <4>2, DispatchDelta DEF Delta, Others
          <5> QED
            BY <5>1 DEF ProvenInv, JobOf
        <4> QED
          BY <4>1, <4>2
      <3>2. KeyOf(e)' = KeyOf(e)
        BY <3>1 DEF KeyOf
      <3>3. IsText(e)' /\ KeyOf(e) \in Key
        BY <3>1, <3>2, OutboundAssumption DEF IsText, TypeOK, DispatchState, JobOf, KeyOf
      <3> QED
        BY <2>1, <3>1, <3>2, <3>3, ProvenStays
    <2>2. CASE \/ AdminStep /\ UNCHANGED outboundVars
               \/ \E t \in Thread : CooldownExpires(t) \/ ClearCooldown(t)
               \/ Crash
               \/ UNCHANGED vars
      <3>1. AllHalt
        BY <2>2, OthersHalt, Zenon
      <3>2. Halts(e) /\ UNCHANGED <<record, message>>
        BY <3>1 DEF AllHalt
      <3>3. JobOf(e)' = JobOf(e) /\ KeyOf(e)' = KeyOf(e)
        BY <3>2 DEF Halts, JobOf, KeyOf
      <3>4. IsText(e) /\ Proven(KeyOf(e))
        BY <3>2, <3>3 DEF ProvenInv, Halts
      <3> QED
        BY <3>2, <3>3, <3>4, ProvenSame DEF IsText
    <2> QED
      BY <2>1, <2>2, Zenon DEF Next
  <1> QED
    BY <1>1, <1>2, TypeCorrect, ReplyInvariant, WrittenInvariant, PTL DEF Spec

\* Once a dry_run_only dispatch has reported success, the row and the assistant message
\* that a replay asks for are there for good, whatever else runs, fails or crashes.
THEOREM StrictSuccess == Spec => []StrictSuccessIsProven
  <1>1. ProvenInv => StrictSuccessIsProven
    BY DEF ProvenInv, StrictSuccessIsProven
  <1> QED
    BY <1>1, ProvenInvariant, PTL
=============================================================================
