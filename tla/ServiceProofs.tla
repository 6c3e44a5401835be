---------------------------- MODULE ServiceProofs ----------------------------
(***************************************************************************)
(* Proofs about six of the services, for any number of their actors: the   *)
(* one instance of the backend (Instances), the records of reactions and   *)
(* polls (ZaloActions), the calls of the tool gateway with the turn of the *)
(* bridge (ToolTurn), what Hermes is told (Dialogue), when a reminder is   *)
(* due (Reminders) and what a turn answers (Pipeline).                     *)
(***************************************************************************)
EXTENDS Instances, ZaloActions, ToolTurn, Dialogue, Reminders, Pipeline,
        FiniteSetTheorems, TLAPS

-----------------------------------------------------------------------------
(* Instances: one process beyond the lock *)

\* Has passed the check of the lock.
Beyond(p) == procs[p] \in Acquiring \cup Owning

\* What holds whether or not processes have overlapped: only an owner has a session, and
\* who listens is up.
SessionsAreOwned ==
    /\ \A p \in session : procs[p] \in Owning
    /\ port # NoPid => procs[port] = "up"

\* The strengthening of OneInstance: the acquiring processes count, too.
OneBeyond ==
    ~overlapped /\ ~AllowMultiple =>
        /\ \A p, q \in Pid : Beyond(p) /\ Beyond(q) => p = q
        /\ \A p \in Pid : procs[p] \in Owning => lock = p

InstanceInv == InstanceTypeOK /\ SessionsAreOwned /\ OneBeyond

\* Nobody has acquired anything when the backend starts for the first time.
LEMMA InstanceInitHolds == InstanceInit => InstanceInv
  <1> SUFFICES ASSUME InstanceInit PROVE InstanceInv
    OBVIOUS
  <1>1. InstanceTypeOK
    <2>1. procs \in [Pid -> {"off", "check", "refused"} \cup Acquiring \cup Owning]
      BY DEF InstanceInit
    <2>2. /\ lock \in Pid \cup {NoPid} /\ port \in Pid \cup {NoPid}
          /\ session \subseteq Pid /\ overlapped \in BOOLEAN
      BY DEF InstanceInit
    <2>3. starts \in 0 .. MaxStarts
      BY InstancesAssumption DEF InstanceInit
    <2> QED
      BY <2>1, <2>2, <2>3 DEF InstanceTypeOK
  <1>2. SessionsAreOwned /\ \A p \in Pid : ~Beyond(p) /\ procs[p] \notin Owning
    BY DEF InstanceInit, SessionsAreOwned, Beyond, Acquiring, Owning
  <1> QED
    BY <1>1, <1>2 DEF InstanceInv, OneBeyond

\* The type survives each step.
LEMMA InstanceTypeStep ==
  ASSUME InstanceTypeOK, InstanceNext
  PROVE  InstanceTypeOK'
  <1> USE InstancesAssumption DEF InstanceTypeOK, Acquiring, Owning
  <1>0. PICK p \in Pid :
           \/ Starts(p) \/ ChecksLock(p) \/ RemovesStale(p) \/ WritesLock(p)
           \/ RestoresSession(p) \/ Listens(p) \/ LogsIn(p) \/ Exits(p) \/ Killed(p)
    BY DEF InstanceNext
  <1>1. CASE Starts(p)
    BY <1>1 DEF Starts, Moves
  <1>2. CASE ChecksLock(p)
    BY <1>2 DEF ChecksLock, Moves
  <1>3. CASE RemovesStale(p)
    BY <1>3 DEF RemovesStale, Moves
  <1>4. CASE WritesLock(p)
    BY <1>4 DEF WritesLock, Moves
  <1>5. CASE RestoresSession(p)
    BY <1>5 DEF RestoresSession, Moves
  <1>6. CASE Listens(p)
    BY <1>6 DEF Listens, CleansUp, Gone, Moves
  <1>7. CASE LogsIn(p)
    BY <1>7 DEF LogsIn
  <1>8. CASE Exits(p)
    BY <1>8 DEF Exits, CleansUp, Gone, Moves
  <1>9. CASE Killed(p)
    BY <1>9 DEF Killed, Gone, Moves
  <1> QED
    BY <1>0, <1>1, <1>2, <1>3, <1>4, <1>5, <1>6, <1>7, <1>8, <1>9

\* A process that is gone has neither session nor port.
LEMMA GoneOwnsNothing ==
  ASSUME InstanceTypeOK, SessionsAreOwned, NEW p \in Pid, Gone(p)
  PROVE  SessionsAreOwned'
  BY InstancesAssumption DEF InstanceTypeOK, SessionsAreOwned, Gone, Moves

\* Sessions and the port belong to owners after each step.
LEMMA SessionsStep ==
  ASSUME InstanceTypeOK, SessionsAreOwned, InstanceNext
  PROVE  SessionsAreOwned'
  <1> USE InstancesAssumption DEF InstanceTypeOK, SessionsAreOwned, Owning
  <1>0. PICK p \in Pid :
           \/ Starts(p) \/ ChecksLock(p) \/ RemovesStale(p) \/ WritesLock(p)
           \/ RestoresSession(p) \/ Listens(p) \/ LogsIn(p) \/ Exits(p) \/ Killed(p)
    BY DEF InstanceNext
  <1>1. CASE Starts(p)
    BY <1>1 DEF Starts, Moves
  <1>2. CASE ChecksLock(p)
    BY <1>2 DEF ChecksLock, Moves
  <1>3. CASE RemovesStale(p)
    BY <1>3 DEF RemovesStale, Moves
  <1>4. CASE WritesLock(p)
    BY <1>4 DEF WritesLock, Moves
  <1>5. CASE RestoresSession(p)
    BY <1>5 DEF RestoresSession, Moves
  <1>6. CASE Listens(p)
    BY <1>6, GoneOwnsNothing DEF Listens, Moves
  <1>7. CASE LogsIn(p)
    BY <1>7 DEF LogsIn
  <1>8. CASE Exits(p)
    BY <1>8, GoneOwnsNothing DEF Exits
  <1>9. CASE Killed(p)
    BY <1>9, GoneOwnsNothing DEF Killed
  <1> QED
    BY <1>0, <1>1, <1>2, <1>3, <1>4, <1>5, <1>6, <1>7, <1>8, <1>9

\* Whoever finds no lock, or a lock whose process is off, finds nobody beyond it, unless
\* somebody is acquiring: then the two have overlapped.
LEMMA OneBeyondStep ==
  ASSUME InstanceInv, InstanceNext
  PROVE  OneBeyond'
  <1> USE InstancesAssumption DEF InstanceInv, InstanceTypeOK, OneBeyond, Beyond, Acquiring, Owning
  <1>0. PICK p \in Pid :
           \/ Starts(p) \/ ChecksLock(p) \/ RemovesStale(p) \/ WritesLock(p)
           \/ RestoresSession(p) \/ Listens(p) \/ LogsIn(p) \/ Exits(p) \/ Killed(p)
    BY DEF InstanceNext
  <1>1. CASE Starts(p)
    BY <1>1 DEF Starts, Moves
  <1>2. CASE ChecksLock(p)
    BY <1>2, ZenonT(60) DEF ChecksLock, Lives, Moves
  <1>3. CASE RemovesStale(p)
    BY <1>3 DEF RemovesStale, Moves
  <1>4. CASE WritesLock(p)
    BY <1>4 DEF WritesLock, Moves
  <1>5. CASE RestoresSession(p)
    BY <1>5 DEF RestoresSession, Moves
  <1>6. CASE Listens(p)
    BY <1>6 DEF Listens, CleansUp, Gone, Moves
  <1>7. CASE LogsIn(p)
    BY <1>7 DEF LogsIn
  <1>8. CASE Exits(p)
    BY <1>8 DEF Exits, CleansUp, Gone, Moves
  <1>9. CASE Killed(p)
    BY <1>9 DEF Killed, Gone, Moves
  <1> QED
    BY <1>0, <1>1, <1>2, <1>3, <1>4, <1>5, <1>6, <1>7, <1>8, <1>9

\* The inductive invariant of Instances.
THEOREM InstanceInvariant == InstanceSpec => []InstanceInv
  <1>1. InstanceInv /\ [InstanceNext]_instanceVars => InstanceInv'
    <2> SUFFICES ASSUME InstanceInv, [InstanceNext]_instanceVars PROVE InstanceInv'
      OBVIOUS
    <2>1. CASE InstanceNext
      BY <2>1, InstanceTypeStep, SessionsStep, OneBeyondStep DEF InstanceInv
    <2>2. CASE UNCHANGED instanceVars
      BY <2>2 DEF instanceVars, InstanceInv, InstanceTypeOK, SessionsAreOwned, OneBeyond, Beyond
    <2> QED
      BY <2>1, <2>2
  <1> QED
    BY <1>1, InstanceInitHolds, PTL DEF InstanceSpec

\* One process beyond the lock is the owner that OneInstance asks for.
LEMMA OneInstanceFollows == InstanceInv => OneInstance
  <1> SUFFICES ASSUME InstanceInv, ~overlapped, ~AllowMultiple PROVE OneInstance
    BY DEF OneInstance
  <1> USE InstancesAssumption DEF InstanceInv, InstanceTypeOK, SessionsAreOwned, OneBeyond, Beyond,
              Owning
  <1>1. PICK owner \in Pid : \A p \in Pid : procs[p] \in Owning => p = owner
    <2>1. CASE \E q \in Pid : procs[q] \in Owning
      BY <2>1
    <2>2. CASE ~ \E q \in Pid : procs[q] \in Owning
      BY <2>2
    <2> QED
      BY <2>1, <2>2
  <1>2. session \subseteq {owner} /\ port \in {owner, NoPid}
    BY <1>1
  <1> QED
    BY <1>1, <1>2 DEF OneInstance

\* However many processes are started, killed and refused, with whatever pids, at most one
\* has passed the lock and holds the session (index.ts, process-lock), unless two have
\* acquired it side by side or several are allowed.
THEOREM InstanceIsOne == InstanceSpec => []OneInstance
  BY InstanceInvariant, OneInstanceFollows, PTL

-----------------------------------------------------------------------------
(* Zalo actions: the records of what was sent *)

\* A handler at its record has a key and an outcome.
HandlersHaveKeys ==
    \A h \in Handler :
        /\ handler[h].pc # "idle" => handler[h].key \in ActionKey
        /\ handler[h].pc = "record" => handler[h].outcome # "none"

\* Has passed the cooldown and may still react.
MayReact(h) == handler[h].pc \in {"again", "decide", "perform"} /\ Reacts(h)

\* Has reacted and not yet set the cooldown.
HasReacted(h) ==
    Reacts(h) /\ (handler[h].pc = "touch"
                  \/ (handler[h].pc = "record" /\ handler[h].outcome = "live_sent"))

\* The handlers that can account for the reactions of a period: while nothing cools, each of
\* them is on its way to the touch; after that, nobody passes who has not passed.
Accountable ==
    IF cooling THEN {h \in Handler : ~MayReact(h)} ELSE {h \in Handler : HasReacted(h)}

\* The strengthening of ReactionOvershootBounded: those of the lives before, and one of
\* each accountable handler.
ReactionsAccounted == reactions <= Cardinality(Handler) * actionLog.crashes + Cardinality(Accountable)

ActionInv ==
    /\ ActionTypeOK
    /\ actionLog.crashes <= actionFaults
    /\ HandlersHaveKeys
    /\ ReactionsAccounted
    /\ LiveActionIsRecorded

HandlerPc == {"idle", "settings", "again", "decide", "perform", "record", "touch"}
HandlerOutcome == {"none", "dry_run", "blocked", "live_sent", "failed"}

\* Nothing is sent at the start.
LEMMA ActionInitHolds == ActionInit => ActionInv
  <1> SUFFICES ASSUME ActionInit PROVE ActionInv
    OBVIOUS
  <1> USE ActionAssumption DEF ActionInit, IdleHandler
  <1>1. ActionTypeOK
    <2>1. handler \in [Handler -> HandlerRecord]
      BY DEF HandlerRecord
    <2>2. /\ record \in [ActionKey -> {"none", "dry_run", "blocked", "live_sent", "failed"}]
          /\ actionLog \in [sent : SUBSET ActionKey, unwritten : SUBSET ActionKey,
                            crashes : 0 .. MaxActionFaults]
      OBVIOUS
    <2> QED
      BY <2>1, <2>2 DEF ActionTypeOK
  <1>2. HandlersHaveKeys /\ actionLog.crashes <= actionFaults /\ LiveActionIsRecorded
    BY DEF HandlersHaveKeys, LiveActionIsRecorded
  <1>3. Accountable = {} /\ Cardinality(Accountable) = 0
    BY FS_EmptySet DEF Accountable, HasReacted
  <1>4. ReactionsAccounted
    BY <1>3, FS_CardinalityType DEF ReactionsAccounted
  <1> QED
    BY <1>1, <1>2, <1>4 DEF ActionInv

\* The type, the count of the crashes and the handlers' keys survive each step.
LEMMA ActionTypeStep ==
  ASSUME ActionTypeOK, actionLog.crashes <= actionFaults, HandlersHaveKeys, ActionNext
  PROVE  ActionTypeOK' /\ actionLog'.crashes <= actionFaults' /\ HandlersHaveKeys'
  <1> USE ActionAssumption
      DEF ActionTypeOK, HandlerRecord, IdleHandler, HandlersHaveKeys, HandlerGoes, Drop
  <1>1. CASE CooldownLifts
    BY <1>1 DEF CooldownLifts
  <1>2. ASSUME NEW h \in Handler, NEW k \in ActionKey, Reaction(h, k)
        PROVE  ActionTypeOK' /\ actionLog'.crashes <= actionFaults' /\ HandlersHaveKeys'
    BY <1>2 DEF Reaction
  <1>3. ASSUME NEW h \in Handler, NEW k \in ActionKey, PollRequest(h, k)
        PROVE  ActionTypeOK' /\ actionLog'.crashes <= actionFaults' /\ HandlersHaveKeys'
    BY <1>3 DEF PollRequest
  <1>4. ASSUME NEW h \in Handler, GateRead(h)
        PROVE  ActionTypeOK' /\ actionLog'.crashes <= actionFaults' /\ HandlersHaveKeys'
    BY <1>4 DEF GateRead
  <1>5. ASSUME NEW h \in Handler, GateAgain(h)
        PROVE  ActionTypeOK' /\ actionLog'.crashes <= actionFaults' /\ HandlersHaveKeys'
    BY <1>5 DEF GateAgain
  <1>6. ASSUME NEW h \in Handler, DecideAction(h)
        PROVE  ActionTypeOK' /\ actionLog'.crashes <= actionFaults' /\ HandlersHaveKeys'
    BY <1>6 DEF DecideAction
  <1>7. ASSUME NEW h \in Handler, NEW ok \in BOOLEAN, Perform(h, ok)
        PROVE  ActionTypeOK' /\ actionLog'.crashes <= actionFaults' /\ HandlersHaveKeys'
    <2> DEFINE now == [handler[h] EXCEPT !.pc = "record",
                                         !.outcome = IF ok THEN "live_sent" ELSE "failed"]
    <2>0. handler' = [handler EXCEPT ![h] = now] /\ now \in HandlerRecord
      BY <1>7 DEF Perform
    <2>1. handler' \in [Handler -> HandlerRecord]
      BY <2>0 DEF Perform
    <2>2. handler[h].key \in ActionKey
      BY <1>7 DEF Perform
    <2>3. actionLog' = actionLog \/ actionLog' = [actionLog EXCEPT !.sent = @ \cup {handler[h].key}]
      BY <1>7 DEF Perform
    <2>4. /\ actionLog' \in [sent : SUBSET ActionKey, unwritten : SUBSET ActionKey,
                             crashes : 0 .. MaxActionFaults]
          /\ actionLog'.crashes = actionLog.crashes
      BY <2>2, <2>3
    <2>5. HandlersHaveKeys'
      BY <1>7 DEF Perform
    <2>6. reactions' \in Nat /\ UNCHANGED <<cooling, record, actionFaults>>
      BY <1>7 DEF Perform
    <2> QED
      BY <2>1, <2>4, <2>5, <2>6
  <1>8. ASSUME NEW h \in Handler, RecordAction(h)
        PROVE  ActionTypeOK' /\ actionLog'.crashes <= actionFaults' /\ HandlersHaveKeys'
    BY <1>8 DEF RecordAction
  <1>9. ASSUME NEW h \in Handler, Touch(h)
        PROVE  ActionTypeOK' /\ actionLog'.crashes <= actionFaults' /\ HandlersHaveKeys'
    BY <1>9 DEF Touch
  <1>10. CASE ActionCrash
    <2> DEFINE atRecord == {handler[h].key : h \in {g \in Handler : handler[g].pc = "record"}}
    <2>1. atRecord \subseteq ActionKey
      OBVIOUS
    <2>2. /\ actionLog'.crashes = actionLog.crashes + 1
          /\ actionLog'.sent = actionLog.sent
          /\ actionLog'.unwritten = actionLog.unwritten \cup atRecord
          /\ actionLog' = [sent |-> actionLog'.sent, unwritten |-> actionLog'.unwritten,
                           crashes |-> actionLog'.crashes]
      BY <1>10 DEF ActionCrash
    <2>3. actionFaults' = actionFaults + 1 /\ actionFaults < MaxActionFaults
      BY <1>10 DEF ActionCrash
    <2>4. /\ actionLog' \in [sent : SUBSET ActionKey, unwritten : SUBSET ActionKey,
                             crashes : 0 .. MaxActionFaults]
          /\ actionLog'.crashes <= actionFaults' /\ actionFaults' \in 0 .. MaxActionFaults
      BY <2>1, <2>2, <2>3
    <2>5. handler' \in [Handler -> HandlerRecord] /\ HandlersHaveKeys'
      BY <1>10 DEF ActionCrash
    <2>6. cooling' \in BOOLEAN /\ UNCHANGED <<reactions, record>>
      BY <1>10 DEF ActionCrash
    <2> QED
      BY <2>4, <2>5, <2>6
  <1> QED
    BY <1>1, <1>2, <1>3, <1>4, <1>5, <1>6, <1>7, <1>8, <1>9, <1>10 DEF ActionNext

\* Whatever was sent keeps its record, or the handler that is about to write it.
LEMMA RecordStep ==
  ASSUME ActionInv, ActionNext
  PROVE  LiveActionIsRecorded'
  <1> USE ActionAssumption
      DEF ActionInv, ActionTypeOK, HandlerRecord, IdleHandler, HandlersHaveKeys, HandlerGoes, Drop,
          LiveActionIsRecorded
  <1>1. CASE CooldownLifts
    BY <1>1 DEF CooldownLifts
  <1>2. ASSUME NEW h \in Handler, NEW k \in ActionKey, Reaction(h, k) PROVE LiveActionIsRecorded'
    BY <1>2 DEF Reaction
  <1>3. ASSUME NEW h \in Handler, NEW k \in ActionKey, PollRequest(h, k) PROVE LiveActionIsRecorded'
    BY <1>3 DEF PollRequest
  <1>4. ASSUME NEW h \in Handler, GateRead(h) PROVE LiveActionIsRecorded'
    BY <1>4 DEF GateRead
  <1>5. ASSUME NEW h \in Handler, GateAgain(h) PROVE LiveActionIsRecorded'
    BY <1>5 DEF GateAgain
  <1>6. ASSUME NEW h \in Handler, DecideAction(h) PROVE LiveActionIsRecorded'
    BY <1>6 DEF DecideAction
  <1>7. ASSUME NEW h \in Handler, NEW ok \in BOOLEAN, Perform(h, ok) PROVE LiveActionIsRecorded'
    BY <1>7 DEF Perform
  <1>8. ASSUME NEW h \in Handler, RecordAction(h) PROVE LiveActionIsRecorded'
    BY <1>8 DEF RecordAction
  <1>9. ASSUME NEW h \in Handler, Touch(h) PROVE LiveActionIsRecorded'
    BY <1>9 DEF Touch
  <1>10. CASE ActionCrash
    BY <1>10 DEF ActionCrash
  <1> QED
    BY <1>1, <1>2, <1>3, <1>4, <1>5, <1>6, <1>7, <1>8, <1>9, <1>10 DEF ActionNext

\* The accountable handlers are a finite set.
LEMMA AccountableIsFinite ==
  /\ IsFiniteSet(Accountable) /\ Cardinality(Accountable) \in Nat
  /\ Cardinality(Handler) \in Nat /\ Cardinality(Accountable) <= Cardinality(Handler)
  <1>1. Accountable \subseteq Handler
    BY DEF Accountable
  <1> QED
    BY <1>1, ActionAssumption, FS_Subset, FS_CardinalityType

\* A step that sends nothing, and loses no accountable handler, keeps the account.
LEMMA AccountKept ==
  ASSUME ActionTypeOK, ReactionsAccounted, reactions' = reactions,
         actionLog'.crashes = actionLog.crashes, Accountable \subseteq Accountable'
  PROVE  ReactionsAccounted'
  <1>1. Accountable' \subseteq Handler /\ IsFiniteSet(Accountable')
    <2>1. Accountable' \subseteq Handler
      BY DEF Accountable
    <2> QED
      BY <2>1, ActionAssumption, FS_Subset
  <1>2. Cardinality(Accountable) <= Cardinality(Accountable')
    BY <1>1, FS_Subset
  <1>3. Cardinality(Accountable') \in Nat
    BY <1>1, FS_CardinalityType
  <1> DEFINE n == Cardinality(Handler) * actionLog.crashes
  <1>4. n \in Nat
    BY AccountableIsFinite DEF ActionTypeOK
  <1> HIDE DEF n
  <1>5. reactions <= n + Cardinality(Accountable) /\ reactions \in Nat
    BY DEF ReactionsAccounted, n, ActionTypeOK
  <1>6. reactions' <= n + Cardinality(Accountable')
    BY <1>2, <1>3, <1>4, <1>5, AccountableIsFinite
  <1> QED
    BY <1>6 DEF ReactionsAccounted, n

\* A handler that reacts goes from those who may to those who have.
LEMMA AccountReaction ==
  ASSUME ActionInv, NEW h \in Handler, Perform(h, TRUE), Reacts(h)
  PROVE  ReactionsAccounted'
  <1> USE DEF ActionInv, ActionTypeOK, HandlerRecord, Perform
  <1>1. MayReact(h) /\ ~HasReacted(h) /\ h \notin Accountable
    BY DEF MayReact, HasReacted, Accountable
  <1>2. \A g \in Handler : /\ ~MayReact(g) => ~MayReact(g)'
                           /\ HasReacted(g) => HasReacted(g)'
    BY DEF MayReact, HasReacted, Reacts
  <1>3. ~MayReact(h)' /\ HasReacted(h)'
    BY DEF MayReact, HasReacted, Reacts
  <1>4. Accountable \cup {h} \subseteq Accountable' /\ Accountable' \subseteq Handler
    BY <1>2, <1>3 DEF Accountable
  <1>5. IsFiniteSet(Accountable') /\ Cardinality(Accountable') \in Nat
    BY <1>4, ActionAssumption, FS_Subset, FS_CardinalityType
  <1>6. Cardinality(Accountable \cup {h}) = Cardinality(Accountable) + 1
    BY <1>1, AccountableIsFinite, FS_AddElement
  <1>7. Cardinality(Accountable) + 1 <= Cardinality(Accountable')
    BY <1>4, <1>5, <1>6, FS_Subset
  <1> DEFINE n == Cardinality(Handler) * actionLog.crashes
  <1>8. n \in Nat
    BY AccountableIsFinite
  <1>9. /\ reactions <= n + Cardinality(Accountable)
        /\ n = (Cardinality(Handler) * actionLog.crashes)'
    BY DEF ReactionsAccounted
  <1> HIDE DEF n
  <1>10. reactions' <= n + Cardinality(Accountable')
    BY <1>5, <1>7, <1>8, <1>9, AccountableIsFinite
  <1> QED
    BY <1>9, <1>10 DEF ReactionsAccounted

\* A life that ends leaves at most one reaction of each handler.
LEMMA AccountCrash ==
  ASSUME ActionInv, ActionCrash
  PROVE  ReactionsAccounted'
  <1> DEFINE m == Cardinality(Handler)
             c == actionLog.crashes
  <1>1. /\ m \in Nat /\ c \in Nat /\ reactions \in Nat /\ Cardinality(Accountable) \in 0 .. m
        /\ reactions <= m * c + Cardinality(Accountable)
    BY AccountableIsFinite, ActionAssumption DEF ActionInv, ActionTypeOK, ReactionsAccounted
  <1>2. actionLog'.crashes = c + 1 /\ reactions' = reactions
    BY DEF ActionCrash, ActionInv, ActionTypeOK
  <1>3. Accountable' \subseteq Handler
    BY DEF Accountable
  <1>4. Cardinality(Accountable') \in Nat
    BY <1>3, ActionAssumption, FS_Subset, FS_CardinalityType
  <1> HIDE DEF m, c
  <1>5. m * (c + 1) = m * c + m /\ m * c \in Nat
    BY <1>1
  <1>6. reactions' <= m * (c + 1) + Cardinality(Accountable')
    BY <1>1, <1>2, <1>4, <1>5
  <1> QED
    BY <1>2, <1>6 DEF ReactionsAccounted, m

\* Each step keeps the account.
LEMMA AccountStep ==
  ASSUME ActionInv, ActionNext
  PROVE  ReactionsAccounted'
  <1> USE DEF ActionInv
  <1>0. SUFFICES ASSUME ~(\E h \in Handler : Perform(h, TRUE) /\ Reacts(h)), ~ActionCrash, ~CooldownLifts
                 PROVE  /\ reactions' = reactions /\ actionLog'.crashes = actionLog.crashes
                        /\ Accountable \subseteq Accountable'
    <2>1. CASE \E h \in Handler : Perform(h, TRUE) /\ Reacts(h)
      BY <2>1, AccountReaction
    <2>2. CASE ActionCrash
      BY <2>2, AccountCrash
    <2>3. CASE CooldownLifts
      <3>1. Accountable' \subseteq Handler
        BY DEF Accountable
      <3>2. Cardinality(Accountable') \in Nat
        BY <3>1, ActionAssumption, FS_Subset, FS_CardinalityType
      <3>3. reactions' = 0 /\ actionLog' = actionLog
        BY <2>3 DEF CooldownLifts
      <3>4. (Cardinality(Handler) * actionLog.crashes)' \in Nat
        BY <3>3, AccountableIsFinite DEF ActionTypeOK
      <3> QED
        BY <3>2, <3>3, <3>4 DEF ReactionsAccounted
    <2> QED
      BY <2>1, <2>2, <2>3, AccountKept
  <1> USE DEF ActionTypeOK, HandlerRecord, IdleHandler, HandlerGoes, Drop, Accountable, MayReact,
              HasReacted, Reacts
  <1>2. ASSUME NEW h \in Handler, NEW k \in ActionKey, Reaction(h, k)
        PROVE  /\ reactions' = reactions /\ actionLog'.crashes = actionLog.crashes
               /\ Accountable \subseteq Accountable'
    BY <1>2 DEF Reaction
  <1>3. ASSUME NEW h \in Handler, NEW k \in ActionKey, PollRequest(h, k)
        PROVE  /\ reactions' = reactions /\ actionLog'.crashes = actionLog.crashes
               /\ Accountable \subseteq Accountable'
    BY <1>3 DEF PollRequest
  <1>4. ASSUME NEW h \in Handler, GateRead(h)
        PROVE  /\ reactions' = reactions /\ actionLog'.crashes = actionLog.crashes
               /\ Accountable \subseteq Accountable'
    BY <1>4 DEF GateRead
  <1>5. ASSUME NEW h \in Handler, GateAgain(h)
        PROVE  /\ reactions' = reactions /\ actionLog'.crashes = actionLog.crashes
               /\ Accountable \subseteq Accountable'
    BY <1>5 DEF GateAgain
  <1>6. ASSUME NEW h \in Handler, DecideAction(h)
        PROVE  /\ reactions' = reactions /\ actionLog'.crashes = actionLog.crashes
               /\ Accountable \subseteq Accountable'
    BY <1>6 DEF DecideAction
  <1>7. ASSUME NEW h \in Handler, NEW ok \in BOOLEAN, Perform(h, ok)
        PROVE  /\ reactions' = reactions /\ actionLog'.crashes = actionLog.crashes
               /\ Accountable \subseteq Accountable'
    BY <1>0, <1>7 DEF Perform
  <1>8. ASSUME NEW h \in Handler, RecordAction(h)
        PROVE  /\ reactions' = reactions /\ actionLog'.crashes = actionLog.crashes
               /\ Accountable \subseteq Accountable'
    BY <1>8 DEF RecordAction
  <1>9. ASSUME NEW h \in Handler, Touch(h)
        PROVE  /\ reactions' = reactions /\ actionLog'.crashes = actionLog.crashes
               /\ Accountable \subseteq Accountable'
    BY <1>9 DEF Touch
  <1> QED
    BY <1>0, <1>2, <1>3, <1>4, <1>5, <1>6, <1>7, <1>8, <1>9 DEF ActionNext

\* The inductive invariant of ZaloActions.
THEOREM ActionInvariant == ActionSpec => []ActionInv
  <1>1. ActionInv /\ [ActionNext]_actionVars => ActionInv'
    <2> SUFFICES ASSUME ActionInv, [ActionNext]_actionVars PROVE ActionInv'
      OBVIOUS
    <2>1. CASE ActionNext
      BY <2>1, ActionTypeStep, AccountStep, RecordStep DEF ActionInv
    <2>2. CASE UNCHANGED actionVars
      BY <2>2 DEF actionVars, ActionInv, ActionTypeOK, HandlersHaveKeys, ReactionsAccounted,
         Accountable, MayReact, HasReacted, Reacts, LiveActionIsRecorded
    <2> QED
      BY <2>1, <2>2
  <1> QED
    BY <1>1, ActionInitHolds, PTL DEF ActionSpec

\* The account of all lives is the bound.
LEMMA ActionsFollow == ActionInv => ActionsAreAccountedFor
  <1> SUFFICES ASSUME ActionInv PROVE ReactionOvershootBounded
    BY DEF ActionInv, ActionsAreAccountedFor
  <1> DEFINE m == Cardinality(Handler)
             c == actionLog.crashes
  <1>1. /\ m \in Nat /\ c \in Nat /\ reactions \in Nat /\ Cardinality(Accountable) \in 0 .. m
        /\ reactions <= m * c + Cardinality(Accountable)
    BY AccountableIsFinite, ActionAssumption DEF ActionInv, ActionTypeOK, ReactionsAccounted
  <1> HIDE DEF m, c
  <1>2. m * (c + 1) = m * c + m /\ m * c \in Nat
    BY <1>1
  <1>3. reactions <= m * (c + 1)
    BY <1>1, <1>2
  <1> QED
    BY <1>3 DEF ReactionOvershootBounded, m, c

\* However many messages are reacted to and polls asked for at once, no more reactions are
\* sent in a cooldown and a life than there are coroutines, and what was sent has its record
\* or a reason to have none (zalo-reaction.service, governed-action).
THEOREM ActionsAccounted == ActionSpec => []ActionsAreAccountedFor
  BY ActionInvariant, ActionsFollow, PTL

-----------------------------------------------------------------------------
(* Tool calls: a write acts once *)

\* The tool of c has yet to take effect for key k, and may.
MayAct(c, k) == calls[c].key = k /\ (calls[c].pc = "decide" \/ calls[c].tool)

\* c has found the key unused and has not recorded that it used it.
Unrecorded(c, k) == calls[c].key = k /\ calls[c].pc \in {"decide", "run", "record"}

\* The strengthening of RepeatsAreSeen.  A key of which every call could see the one before
\* has one call under way, and one tool that may act, none after one has acted; and its row
\* is there, or the call that will write it, as soon as a tool may act.
KeysAreKept ==
    \A k \in ToolKey \ unseen :
        /\ \A c, d \in Call : Open(c) /\ Open(d) /\ calls[c].key = k /\ calls[d].key = k => c = d
        /\ \A c, d \in Call : MayAct(c, k) /\ MayAct(d, k) => c = d
        /\ \A c \in Call : MayAct(c, k) => acted[k] = 0
        /\ \A c \in Call : MayAct(c, k) => toolRow[k] # "none" \/ \E d \in Call : Unrecorded(d, k)
        /\ acted[k] > 0 => toolRow[k] # "none" \/ \E d \in Call : Unrecorded(d, k)
        /\ acted[k] <= 1

\* Tools run where they can; a success that is returned has its record; the turn has the
\* call it waits for, and no other, while it makes calls.
CallsAreSound ==
    \A c \in Call :
        /\ calls[c].tool => calls[c].pc \in {"run", "record", "returned"}
        /\ calls[c].pc = "returned" /\ calls[c].status = "success" => calls[c].recorded
        /\ calls[c].bridge <=> turn.call = c
        /\ calls[c].bridge => calls[c].pc # "idle" /\ turn.pc = "tools"

\* The strengthening of AnswerRestsOnEvidence: a turn that goes on has only successes behind
\* it, and a claim is checked before it is answered.
TurnIsSound ==
    /\ turn.results \subseteq {<<"success", TRUE>>}
    /\ turn.out = "answer" => turn.pc = "idle" /\ (turn.claims => turn.proven)
    /\ turn.claims => turn.pc \in {"claim", "idle"}
    /\ turn.pc = "tools" => turn.left > 0 /\ turn.rounds < MaxRounds

ToolInv == ToolTypeOK /\ CallsAreSound /\ TurnIsSound /\ KeysAreKept

\* What a call and a turn start from.
LEMMA IdleTypes == IdleCall \in CallRecord /\ IdleTurn \in Turn /\ Fallback \in Turn
  <1>1. IdleCall \in CallRecord
    BY DEF IdleCall, CallRecord, ToolStatus
  <1>2. IdleTurn \in Turn
    BY ToolTurnAssumption DEF IdleTurn, Turn
  <1>3. Fallback \in Turn
    BY <1>2 DEF Fallback, Turn
  <1> QED
    BY <1>1, <1>2, <1>3

\* No call is made at the start.
LEMMA ToolInitHolds == ToolInit => ToolInv
  <1> SUFFICES ASSUME ToolInit PROVE ToolInv
    OBVIOUS
  <1>1. ToolTypeOK
    BY IdleTypes DEF ToolInit, ToolTypeOK
  <1>2. \A c \in Call : calls[c] = IdleCall
    BY DEF ToolInit
  <1>3. CallsAreSound
    BY <1>2, ToolTurnAssumption DEF CallsAreSound, IdleCall, ToolInit, IdleTurn
  <1>4. TurnIsSound
    BY DEF ToolInit, TurnIsSound, IdleTurn
  <1>5. KeysAreKept
    <2>1. \A c \in Call, k \in ToolKey : ~MayAct(c, k) /\ ~Open(c)
      BY <1>2 DEF MayAct, Open, IdleCall
    <2>2. \A k \in ToolKey : acted[k] = 0
      BY DEF ToolInit
    <2> QED
      BY <2>1, <2>2 DEF KeysAreKept
  <1> QED
    BY <1>1, <1>3, <1>4, <1>5 DEF ToolInv

\* A call that changes into a record of its shape leaves the calls what they are.
LEMMA CallChanges ==
  ASSUME calls \in [Call -> CallRecord], NEW c \in Call, NEW x \in CallRecord,
         calls' = [calls EXCEPT ![c] = x]
  PROVE  calls' \in [Call -> CallRecord]
  OBVIOUS

\* The changes that a step makes to a call.
LEMMA CallRecordChanges ==
  ASSUME NEW x \in CallRecord, NEW status \in ToolStatus, NEW live \in BOOLEAN, NEW written \in BOOLEAN,
         NEW pc \in {"run", "record", "decide", "returned"}
  PROVE  /\ [x EXCEPT !.pc = pc] \in CallRecord
         /\ [x EXCEPT !.pc = pc, !.status = status] \in CallRecord
         /\ [x EXCEPT !.pc = pc, !.status = status, !.replay = TRUE] \in CallRecord
         /\ [x EXCEPT !.pc = pc, !.live = live, !.tool = TRUE] \in CallRecord
         /\ [x EXCEPT !.tool = FALSE, !.pc = pc, !.status = status] \in CallRecord
         /\ [x EXCEPT !.pc = pc, !.recorded = written, !.status = status] \in CallRecord
         /\ [x EXCEPT !.bridge = FALSE] \in CallRecord
  BY DEF CallRecord

\* Each call keeps its shape, and each turn its own.
LEMMA CallsTypeStep ==
  ASSUME ToolTypeOK, ToolNext
  PROVE  calls' \in [Call -> CallRecord]
  <1> USE IdleTypes DEF ToolTypeOK
  <1>1. ASSUME NEW c \in Call, NEW k \in ToolKey, NEW permitted \in BOOLEAN, CallDirect(c, k, permitted)
        PROVE  calls' \in [Call -> CallRecord]
    <2>1. [IdleCall EXCEPT !.pc = "check", !.granted = permitted, !.key = k] \in CallRecord
      BY DEF IdleCall, CallRecord, ToolStatus
    <2> QED
      BY <1>1, <2>1, CallChanges DEF CallDirect
  <1>2. ASSUME NEW c \in Call, Check(c) PROVE calls' \in [Call -> CallRecord]
    BY <1>2 DEF Check, CallRecord, ToolStatus
  <1>3. ASSUME NEW c \in Call, LookUpKey(c) PROVE calls' \in [Call -> CallRecord]
    <2> DEFINE x == calls[c]
    <2>1. /\ x \in CallRecord
          /\ [x EXCEPT !.pc = "record", !.status = "failed"] \in CallRecord
          /\ [x EXCEPT !.pc = "record", !.status = "success", !.replay = TRUE] \in CallRecord
          /\ [x EXCEPT !.pc = "decide"] \in CallRecord
      BY CallRecordChanges DEF ToolStatus
    <2>2. \/ calls' = [calls EXCEPT ![c] = [x EXCEPT !.pc = "record", !.status = "failed"]]
          \/ calls' = [calls EXCEPT ![c] =
                          [x EXCEPT !.pc = "record", !.status = "success", !.replay = TRUE]]
          \/ calls' = [calls EXCEPT ![c] = [x EXCEPT !.pc = "decide"]]
      BY <1>3 DEF LookUpKey
    <2> HIDE DEF x
    <2> QED
      BY <2>1, <2>2, CallChanges
  <1>4. ASSUME NEW c \in Call, NEW live \in BOOLEAN, DecideLive(c, live)
        PROVE  calls' \in [Call -> CallRecord]
    <2>1. [calls[c] EXCEPT !.pc = "run", !.live = live, !.tool = TRUE] \in CallRecord
      BY CallRecordChanges DEF ToolStatus
    <2>2. calls' = [calls EXCEPT ![c] = [calls[c] EXCEPT !.pc = "run", !.live = live, !.tool = TRUE]]
      BY <1>4 DEF DecideLive
    <2> QED
      BY <2>1, <2>2, CallChanges
  <1>5. ASSUME NEW c \in Call, NEW s \in {"success", "failed", "refused"}, NEW e \in BOOLEAN,
               ToolEnds(c, s, e)
        PROVE  calls' \in [Call -> CallRecord]
    <2> DEFINE x == calls[c]
    <2>1. /\ [x EXCEPT !.tool = FALSE, !.pc = "record", !.status = s] \in CallRecord
          /\ [x EXCEPT !.tool = FALSE] \in CallRecord
      BY DEF CallRecord, ToolStatus
    <2>2. \/ calls' = [calls EXCEPT ![c] = IdleCall]
          \/ calls' = [calls EXCEPT ![c] = [x EXCEPT !.tool = FALSE, !.pc = "record", !.status = s]]
          \/ calls' = [calls EXCEPT ![c] = [x EXCEPT !.tool = FALSE]]
      BY <1>5 DEF ToolEnds
    <2> HIDE DEF x
    <2> QED
      BY <2>1, <2>2, CallChanges
  <1>6. ASSUME NEW c \in Call, ToolTimeout(c) PROVE calls' \in [Call -> CallRecord]
    <2>1. [calls[c] EXCEPT !.pc = "record", !.status = "failed"] \in CallRecord
      BY CallRecordChanges DEF ToolStatus
    <2>2. calls' = [calls EXCEPT ![c] = [calls[c] EXCEPT !.pc = "record", !.status = "failed"]]
      BY <1>6 DEF ToolTimeout
    <2> QED
      BY <2>1, <2>2, CallChanges
  <1>7. ASSUME NEW c \in Call, RecordCall(c) PROVE calls' \in [Call -> CallRecord]
    <2>1. PICK written \in BOOLEAN :
            calls' = [calls EXCEPT ![c] =
                        [@ EXCEPT !.pc = "returned", !.recorded = written,
                                  !.status = IF written THEN calls[c].status ELSE "failed"]]
      BY <1>7 DEF RecordCall
    <2> DEFINE status == IF written THEN calls[c].status ELSE "failed"
    <2>2. status \in ToolStatus /\ calls[c] \in CallRecord
      BY DEF CallRecord, ToolStatus
    <2>3. calls' = [calls EXCEPT ![c] =
                      [calls[c] EXCEPT !.pc = "returned", !.recorded = written, !.status = status]]
      BY <2>1
    <2> HIDE DEF status
    <2>4. [calls[c] EXCEPT !.pc = "returned", !.recorded = written, !.status = status] \in CallRecord
      BY <2>2, CallRecordChanges
    <2> QED
      BY <2>3, <2>4, CallChanges
  <1>8. ASSUME NEW c \in Call, DirectReturns(c) PROVE calls' \in [Call -> CallRecord]
    BY <1>8 DEF DirectReturns
  <1>9. CASE BeginTurn
    BY <1>9 DEF BeginTurn
  <1>10. ASSUME NEW n \in 0 .. MaxCalls + 1, NEW claims \in BOOLEAN, AdapterAnswers(n, claims)
         PROVE  calls' \in [Call -> CallRecord]
    BY <1>10 DEF AdapterAnswers
  <1>11. CASE AdapterFails
    BY <1>11 DEF AdapterFails
  <1>12. ASSUME NEW c \in Call, NEW permitted \in BOOLEAN, BridgeCalls(c, permitted)
         PROVE  calls' \in [Call -> CallRecord]
    <2>1. [IdleCall EXCEPT !.pc = "check", !.bridge = TRUE, !.granted = permitted] \in CallRecord
      BY DEF IdleCall, CallRecord, ToolStatus
    <2> QED
      BY <1>12, <2>1, CallChanges DEF BridgeCalls
  <1>13. ASSUME NEW c \in Call, BridgeTakes(c) PROVE calls' \in [Call -> CallRecord]
    <2>1. [calls[c] EXCEPT !.bridge = FALSE] \in CallRecord
      BY DEF CallRecord
    <2>2. \/ calls' = [calls EXCEPT ![c] = [calls[c] EXCEPT !.bridge = FALSE]]
          \/ calls' = [calls EXCEPT ![c] = IdleCall]
      BY <1>13 DEF BridgeTakes
    <2> QED
      BY <2>1, <2>2, CallChanges
  <1>14. ASSUME NEW proof \in BOOLEAN, ClaimChecked(proof) PROVE calls' \in [Call -> CallRecord]
    BY <1>14 DEF ClaimChecked
  <1>15. CASE TurnTimeout
    <2>1. \A c \in Call : [calls[c] EXCEPT !.bridge = FALSE] \in CallRecord
      BY DEF CallRecord
    <2> QED
      BY <1>15, <2>1 DEF TurnTimeout
  <1>16. CASE ToolCrash
    BY <1>16 DEF ToolCrash
  <1> QED
    BY <1>1, <1>2, <1>3, <1>4, <1>5, <1>6, <1>7, <1>8,
       <1>9, <1>10, <1>11, <1>12, <1>13, <1>14, <1>15, <1>16 DEF ToolNext

\* What is taken of a call's answer.
LEMMA TurnTakes ==
  ASSUME ToolTypeOK, NEW c \in Call, BridgeTakes(c)
  PROVE  LET t == [turn EXCEPT !.results = @ \cup {<<calls[c].status, calls[c].recorded>>},
                               !.call = NoCall, !.left = @ - 1]
         IN \/ turn' = Fallback
            \/ /\ calls[c].status = "success"
               /\ turn' = IF turn.left - 1 = 0 THEN [t EXCEPT !.pc = "adapter", !.rounds = @ + 1] ELSE t
  <1> DEFINE t == [turn EXCEPT !.results = @ \cup {<<calls[c].status, calls[c].recorded>>},
                               !.call = NoCall, !.left = @ - 1]
  <1>1. turn' = IF calls[c].status # "success" THEN Fallback
                ELSE IF t.left = 0 THEN [t EXCEPT !.pc = "adapter", !.rounds = @ + 1]
                ELSE t
    BY DEF BridgeTakes
  <1>2. t.left = turn.left - 1
    BY DEF ToolTypeOK, Turn
  <1> HIDE DEF t
  <1> QED
    BY <1>1, <1>2 DEF t

\* The turn keeps its type: a round is begun with calls to make and a round to spare.
LEMMA TurnTypeStep ==
  ASSUME ToolTypeOK, CallsAreSound, TurnIsSound, ToolNext
  PROVE  turn' \in Turn
  <1> USE ToolTurnAssumption, IdleTypes DEF ToolTypeOK, Turn, TurnIsSound
  <1>1. ASSUME NEW c \in Call, NEW k \in ToolKey, NEW permitted \in BOOLEAN, CallDirect(c, k, permitted)
        PROVE  turn' \in Turn
    BY <1>1 DEF CallDirect
  <1>2. ASSUME NEW c \in Call, Check(c) PROVE turn' \in Turn
    BY <1>2 DEF Check
  <1>3. ASSUME NEW c \in Call, LookUpKey(c) PROVE turn' \in Turn
    BY <1>3 DEF LookUpKey
  <1>4. ASSUME NEW c \in Call, NEW live \in BOOLEAN, DecideLive(c, live) PROVE turn' \in Turn
    BY <1>4 DEF DecideLive
  <1>5. ASSUME NEW c \in Call, NEW s \in {"success", "failed", "refused"}, NEW e \in BOOLEAN,
               ToolEnds(c, s, e)
        PROVE  turn' \in Turn
    BY <1>5 DEF ToolEnds
  <1>6. ASSUME NEW c \in Call, ToolTimeout(c) PROVE turn' \in Turn
    BY <1>6 DEF ToolTimeout
  <1>7. ASSUME NEW c \in Call, RecordCall(c) PROVE turn' \in Turn
    BY <1>7 DEF RecordCall
  <1>8. ASSUME NEW c \in Call, DirectReturns(c) PROVE turn' \in Turn
    BY <1>8 DEF DirectReturns
  <1>9. CASE BeginTurn
    BY <1>9 DEF BeginTurn
  <1>10. ASSUME NEW n \in 0 .. MaxCalls + 1, NEW claims \in BOOLEAN, AdapterAnswers(n, claims)
         PROVE  turn' \in Turn
    <2>1. /\ [turn EXCEPT !.pc = "claim", !.claims = TRUE] \in Turn
          /\ TurnAnswers(turn) \in Turn
      BY DEF TurnAnswers
    <2>2. n <= MaxCalls => [turn EXCEPT !.pc = "tools", !.left = n] \in Turn
      <3> SUFFICES ASSUME n <= MaxCalls PROVE [turn EXCEPT !.pc = "tools", !.left = n] \in Turn
        OBVIOUS
      <3>1. n \in 0 .. MaxCalls
        OBVIOUS
      <3> QED
        BY <3>1
    <2> QED
      BY <1>10, <2>1, <2>2 DEF AdapterAnswers
  <1>11. CASE AdapterFails
    BY <1>11 DEF AdapterFails
  <1>12. ASSUME NEW c \in Call, NEW permitted \in BOOLEAN, BridgeCalls(c, permitted)
         PROVE  turn' \in Turn
    BY <1>12 DEF BridgeCalls
  <1>13. ASSUME NEW c \in Call, BridgeTakes(c) PROVE turn' \in Turn
    <2> DEFINE t == [turn EXCEPT !.results = @ \cup {<<calls[c].status, calls[c].recorded>>},
                                 !.call = NoCall, !.left = @ - 1]
    <2>1. turn.left > 0 /\ turn.rounds < MaxRounds
      BY <1>13 DEF CallsAreSound, BridgeTakes
    <2>2. <<calls[c].status, calls[c].recorded>> \in ToolStatus \X BOOLEAN
      BY DEF CallRecord
    <2>3. t \in Turn /\ t.rounds = turn.rounds
      <3>1. turn.left - 1 \in 0 .. MaxCalls
        BY <2>1
      <3>2. turn.results \cup {<<calls[c].status, calls[c].recorded>>} \in SUBSET (ToolStatus \X BOOLEAN)
        BY <2>2
      <3> QED
        BY <3>1, <3>2
    <2> HIDE DEF t
    <2>4. [t EXCEPT !.pc = "adapter", !.rounds = @ + 1] \in Turn
      <3>1. t.rounds + 1 \in 0 .. MaxRounds
        BY <2>1, <2>3
      <3> QED
        BY <2>3, <3>1
    <2>5. turn' = Fallback \/ turn' = t \/ turn' = [t EXCEPT !.pc = "adapter", !.rounds = @ + 1]
      BY <1>13, TurnTakes DEF t
    <2> QED
      BY <2>3, <2>4, <2>5
  <1>14. ASSUME NEW proof \in BOOLEAN, ClaimChecked(proof) PROVE turn' \in Turn
    <2>1. TurnAnswers([turn EXCEPT !.proven = TRUE]) \in Turn
      BY DEF TurnAnswers
    <2> QED
      BY <1>14, <2>1 DEF ClaimChecked
  <1>15. CASE TurnTimeout
    BY <1>15 DEF TurnTimeout
  <1>16. CASE ToolCrash
    BY <1>16 DEF ToolCrash
  <1> QED
    BY <1>1, <1>2, <1>3, <1>4, <1>5, <1>6, <1>7, <1>8,
       <1>9, <1>10, <1>11, <1>12, <1>13, <1>14, <1>15, <1>16 DEF ToolNext

\* The rows, the effects and the history keep their types.
LEMMA RowsTypeStep ==
  ASSUME ToolTypeOK, ToolNext
  PROVE  /\ toolRow' \in [ToolKey -> {"none"} \cup ToolStatus]
         /\ acted' \in [ToolKey -> 0 .. 2]
         /\ unseen' \subseteq ToolKey
  <1> DEFINE Goal == /\ toolRow' \in [ToolKey -> {"none"} \cup ToolStatus]
                     /\ acted' \in [ToolKey -> 0 .. 2]
                     /\ unseen' \subseteq ToolKey
  <1> SUFFICES Goal
    OBVIOUS
  <1> USE ToolTurnAssumption DEF ToolTypeOK, CallRecord, ToolStatus
  <1>1. ASSUME NEW c \in Call, NEW k \in ToolKey, NEW permitted \in BOOLEAN, CallDirect(c, k, permitted)
        PROVE  Goal
    BY <1>1 DEF CallDirect
  <1>2. ASSUME NEW c \in Call, Check(c) PROVE Goal
    BY <1>2 DEF Check
  <1>3. ASSUME NEW c \in Call, LookUpKey(c) PROVE Goal
    BY <1>3 DEF LookUpKey
  <1>4. ASSUME NEW c \in Call, NEW live \in BOOLEAN, DecideLive(c, live) PROVE Goal
    BY <1>4 DEF DecideLive
  <1>5. ASSUME NEW c \in Call, NEW s \in {"success", "failed", "refused"}, NEW e \in BOOLEAN,
               ToolEnds(c, s, e)
        PROVE  Goal
    <2>1. \A k \in ToolKey : acted'[k] \in 0 .. 2
      BY <1>5 DEF ToolEnds
    <2> QED
      BY <1>5, <2>1 DEF ToolEnds
  <1>6. ASSUME NEW c \in Call, ToolTimeout(c) PROVE Goal
    BY <1>6 DEF ToolTimeout
  <1>7. ASSUME NEW c \in Call, RecordCall(c) PROVE Goal
    BY <1>7 DEF RecordCall
  <1>8. ASSUME NEW c \in Call, DirectReturns(c) PROVE Goal
    BY <1>8 DEF DirectReturns
  <1>9. CASE BeginTurn
    BY <1>9 DEF BeginTurn
  <1>10. ASSUME NEW n \in 0 .. MaxCalls + 1, NEW claims \in BOOLEAN, AdapterAnswers(n, claims)
         PROVE  Goal
    BY <1>10 DEF AdapterAnswers
  <1>11. CASE AdapterFails
    BY <1>11 DEF AdapterFails
  <1>12. ASSUME NEW c \in Call, NEW permitted \in BOOLEAN, BridgeCalls(c, permitted) PROVE Goal
    BY <1>12 DEF BridgeCalls
  <1>13. ASSUME NEW c \in Call, BridgeTakes(c) PROVE Goal
    BY <1>13 DEF BridgeTakes
  <1>14. ASSUME NEW proof \in BOOLEAN, ClaimChecked(proof) PROVE Goal
    BY <1>14 DEF ClaimChecked
  <1>15. CASE TurnTimeout
    BY <1>15 DEF TurnTimeout
  <1>16. CASE ToolCrash
    BY <1>16 DEF ToolCrash
  <1> QED
    BY <1>1, <1>2, <1>3, <1>4, <1>5, <1>6, <1>7, <1>8,
       <1>9, <1>10, <1>11, <1>12, <1>13, <1>14, <1>15, <1>16 DEF ToolNext

\* What the end of a tool leaves of a call.
LEMMA ToolEndsCall ==
  ASSUME ToolTypeOK, NEW c \in Call, NEW s, NEW e \in BOOLEAN, ToolEnds(c, s, e)
  PROVE  /\ \/ calls[c].pc = "returned" /\ ~calls[c].bridge /\ calls'[c] = IdleCall
            \/ /\ ~calls'[c].tool
               /\ calls'[c].pc = IF calls[c].pc = "run" THEN "record" ELSE calls[c].pc
               /\ calls'[c].key = calls[c].key /\ calls'[c].bridge = calls[c].bridge
               /\ calls'[c].recorded = calls[c].recorded
               /\ calls[c].pc # "run" => calls'[c].status = calls[c].status
         /\ \A d \in Call \ {c} : calls'[d] = calls[d]
         /\ calls[c].tool
  BY DEF ToolEnds, ToolTypeOK, CallRecord

\* The calls stay sound.
LEMMA CallsStep ==
  ASSUME ToolTypeOK, CallsAreSound, ToolNext
  PROVE  CallsAreSound'
  <1> USE ToolTurnAssumption, IdleTypes
      DEF ToolTypeOK, CallRecord, Turn, CallsAreSound, IdleCall, IdleTurn, Fallback, TurnAnswers, Free
  <1>1. ASSUME NEW c \in Call, NEW k \in ToolKey, NEW permitted \in BOOLEAN, CallDirect(c, k, permitted)
        PROVE  CallsAreSound'
    BY <1>1 DEF CallDirect
  <1>2. ASSUME NEW c \in Call, Check(c) PROVE CallsAreSound'
    BY <1>2, SMTT(40) DEF Check
  <1>3. ASSUME NEW c \in Call, LookUpKey(c) PROVE CallsAreSound'
    BY <1>3 DEF LookUpKey
  <1>4. ASSUME NEW c \in Call, NEW live \in BOOLEAN, DecideLive(c, live) PROVE CallsAreSound'
    BY <1>4 DEF DecideLive
  <1>5. ASSUME NEW c \in Call, NEW s \in {"success", "failed", "refused"}, NEW e \in BOOLEAN,
               ToolEnds(c, s, e)
        PROVE  CallsAreSound'
    <2>1. turn' = turn
      BY <1>5 DEF ToolEnds
    <2> QED
      BY <1>5, <2>1, ToolEndsCall
  <1>6. ASSUME NEW c \in Call, ToolTimeout(c) PROVE CallsAreSound'
    BY <1>6 DEF ToolTimeout
  <1>7. ASSUME NEW c \in Call, RecordCall(c) PROVE CallsAreSound'
    BY <1>7 DEF RecordCall
  <1>8. ASSUME NEW c \in Call, DirectReturns(c) PROVE CallsAreSound'
    BY <1>8 DEF DirectReturns
  <1>9. CASE BeginTurn
    BY <1>9 DEF BeginTurn
  <1>10. ASSUME NEW n \in 0 .. MaxCalls + 1, NEW claims \in BOOLEAN, AdapterAnswers(n, claims)
         PROVE  CallsAreSound'
    BY <1>10 DEF AdapterAnswers
  <1>11. CASE AdapterFails
    BY <1>11 DEF AdapterFails
  <1>12. ASSUME NEW c \in Call, NEW permitted \in BOOLEAN, BridgeCalls(c, permitted)
         PROVE  CallsAreSound'
    BY <1>12 DEF BridgeCalls
  <1>13. ASSUME NEW c \in Call, BridgeTakes(c) PROVE CallsAreSound'
    BY <1>13 DEF BridgeTakes
  <1>14. ASSUME NEW proof \in BOOLEAN, ClaimChecked(proof) PROVE CallsAreSound'
    BY <1>14 DEF ClaimChecked
  <1>15. CASE TurnTimeout
    BY <1>15 DEF TurnTimeout
  <1>16. CASE ToolCrash
    BY <1>16 DEF ToolCrash
  <1> HIDE DEF ToolTypeOK, CallRecord, Turn, IdleCall, IdleTurn, Fallback, TurnAnswers, Free
  <1> QED
    BY <1>1, <1>2, <1>3, <1>4, <1>5, <1>6, <1>7, <1>8,
       <1>9, <1>10, <1>11, <1>12, <1>13, <1>14, <1>15, <1>16 DEF ToolNext

\* The turn stays sound.
LEMMA TurnStep ==
  ASSUME ToolTypeOK, CallsAreSound, TurnIsSound, ToolNext
  PROVE  TurnIsSound'
  <1> USE ToolTurnAssumption, IdleTypes
      DEF ToolTypeOK, CallRecord, Turn, CallsAreSound, TurnIsSound, IdleTurn, Fallback, TurnAnswers
  <1>1. ASSUME NEW c \in Call, NEW k \in ToolKey, NEW permitted \in BOOLEAN, CallDirect(c, k, permitted)
        PROVE  TurnIsSound'
    BY <1>1 DEF CallDirect
  <1>2. ASSUME NEW c \in Call, Check(c) PROVE TurnIsSound'
    BY <1>2 DEF Check
  <1>3. ASSUME NEW c \in Call, LookUpKey(c) PROVE TurnIsSound'
    BY <1>3 DEF LookUpKey
  <1>4. ASSUME NEW c \in Call, NEW live \in BOOLEAN, DecideLive(c, live) PROVE TurnIsSound'
    BY <1>4 DEF DecideLive
  <1>5. ASSUME NEW c \in Call, NEW s \in {"success", "failed", "refused"}, NEW e \in BOOLEAN,
               ToolEnds(c, s, e)
        PROVE  TurnIsSound'
    BY <1>5 DEF ToolEnds
  <1>6. ASSUME NEW c \in Call, ToolTimeout(c) PROVE TurnIsSound'
    BY <1>6 DEF ToolTimeout
  <1>7. ASSUME NEW c \in Call, RecordCall(c) PROVE TurnIsSound'
    BY <1>7 DEF RecordCall
  <1>8. ASSUME NEW c \in Call, DirectReturns(c) PROVE TurnIsSound'
    BY <1>8 DEF DirectReturns
  <1>9. CASE BeginTurn
    BY <1>9 DEF BeginTurn
  <1>10. ASSUME NEW n \in 0 .. MaxCalls + 1, NEW claims \in BOOLEAN, AdapterAnswers(n, claims)
         PROVE  TurnIsSound'
    <2>1. \/ turn' = Fallback
          \/ (turn' = TurnAnswers(turn) /\ ~turn.claims)
          \/ (turn' = [turn EXCEPT !.pc = "claim", !.claims = TRUE] /\ turn.out # "answer")
          \/ /\ n \in Nat /\ n > 0 /\ turn.rounds < MaxRounds
             /\ turn' = [turn EXCEPT !.pc = "tools", !.left = n]
      BY <1>10 DEF AdapterAnswers
    <2>2. turn.pc = "adapter" /\ ~turn.claims /\ turn.out # "answer"
      BY <1>10 DEF AdapterAnswers
    <2>3. CASE turn' = Fallback
      BY <2>3
    <2>4. CASE turn' = TurnAnswers(turn)
      <3>1. turn'.pc = "idle" /\ turn'.results = turn.results /\ turn'.claims = turn.claims
        BY <2>4
      <3> QED
        BY <2>2, <3>1
    <2>5. CASE turn' = [turn EXCEPT !.pc = "claim", !.claims = TRUE]
      <3>1. turn'.pc = "claim" /\ turn'.results = turn.results /\ turn'.out = turn.out
        BY <2>5
      <3> QED
        BY <2>2, <3>1
    <2>6. CASE /\ n \in Nat /\ n > 0 /\ turn.rounds < MaxRounds
               /\ turn' = [turn EXCEPT !.pc = "tools", !.left = n]
      <3>1. /\ turn'.pc = "tools" /\ turn'.results = turn.results /\ turn'.out = turn.out
            /\ turn'.left = n /\ turn'.rounds = turn.rounds /\ turn'.claims = turn.claims
        BY <2>6
      <3> QED
        BY <2>2, <2>6, <3>1
    <2> QED
      BY <2>1, <2>3, <2>4, <2>5, <2>6
  <1>11. CASE AdapterFails
    BY <1>11 DEF AdapterFails
  <1>12. ASSUME NEW c \in Call, NEW permitted \in BOOLEAN, BridgeCalls(c, permitted)
         PROVE  TurnIsSound'
    BY <1>12 DEF BridgeCalls
  <1>13. ASSUME NEW c \in Call, BridgeTakes(c) PROVE TurnIsSound'
    <2> DEFINE t == [turn EXCEPT !.results = @ \cup {<<calls[c].status, calls[c].recorded>>},
                                 !.call = NoCall, !.left = @ - 1]
    <2>1. calls[c].pc = "returned" /\ turn.pc = "tools"
      BY <1>13 DEF BridgeTakes
    <2>2. CASE turn' = Fallback
      BY <2>2
    <2>3. CASE /\ calls[c].status = "success"
               /\ turn' = IF turn.left - 1 = 0 THEN [t EXCEPT !.pc = "adapter", !.rounds = @ + 1] ELSE t
      <3>1. <<calls[c].status, calls[c].recorded>> = <<"success", TRUE>>
        BY <2>1, <2>3
      <3>2. t.results \subseteq {<<"success", TRUE>>} /\ t.pc = "tools" /\ t.left = turn.left - 1
            /\ t.rounds = turn.rounds /\ t.out = turn.out /\ t.claims = turn.claims
        BY <2>1, <3>1
      <3>3. t \in [pc : {"idle", "adapter", "tools", "claim"}, rounds : 0 .. MaxRounds,
                   left : Int, call : Call \cup {NoCall}, results : SUBSET (ToolStatus \X BOOLEAN),
                   claims : BOOLEAN, proven : BOOLEAN, out : {"none", "answer", "fallback"}]
        <4>1. <<calls[c].status, calls[c].recorded>> \in ToolStatus \X BOOLEAN
          OBVIOUS
        <4>2. turn.results \cup {<<calls[c].status, calls[c].recorded>>}
                \in SUBSET (ToolStatus \X BOOLEAN)
          BY <4>1
        <4>3. turn.left - 1 \in Int
          OBVIOUS
        <4> QED
          BY <4>2, <4>3
      <3> HIDE DEF t
      <3>4. CASE turn' = t /\ turn.left - 1 # 0
        <4>1. turn.left - 1 > 0
          BY <2>1, <3>4
        <4>2. /\ turn'.results \subseteq {<<"success", TRUE>>}
              /\ turn'.pc = "tools" /\ turn'.left > 0 /\ turn'.rounds < MaxRounds
              /\ turn'.out # "answer" /\ ~turn'.claims
          BY <2>1, <3>2, <3>4, <4>1
        <4> QED
          BY <4>2
      <3>5. CASE turn' = [t EXCEPT !.pc = "adapter", !.rounds = @ + 1]
        BY <2>1, <3>2, <3>3, <3>5
      <3> QED
        BY <2>3, <3>4, <3>5
    <2> QED
      BY <1>13, <2>2, <2>3, TurnTakes
  <1>14. ASSUME NEW proof \in BOOLEAN, ClaimChecked(proof) PROVE TurnIsSound'
    BY <1>14 DEF ClaimChecked
  <1>15. CASE TurnTimeout
    BY <1>15 DEF TurnTimeout
  <1>16. CASE ToolCrash
    BY <1>16 DEF ToolCrash
  <1> HIDE DEF ToolTypeOK, CallRecord, Turn, TurnIsSound, IdleTurn, Fallback, TurnAnswers
  <1> QED
    BY <1>1, <1>2, <1>3, <1>4, <1>5, <1>6, <1>7, <1>8,
       <1>9, <1>10, <1>11, <1>12, <1>13, <1>14, <1>15, <1>16 DEF ToolNext

\* A step that starts no call and no tool, and turns what is unrecorded into a row, keeps the
\* keys.
LEMMA KeysFollow ==
  ASSUME KeysAreKept, UNCHANGED acted, unseen \subseteq unseen',
         \A k \in ToolKey : toolRow[k] # "none" => toolRow'[k] # "none",
         \A d \in Call, k \in ToolKey \ unseen' :
            /\ MayAct(d, k)' => MayAct(d, k)
            /\ Unrecorded(d, k) => Unrecorded(d, k)' \/ toolRow'[k] # "none"
            /\ Open(d)' => Open(d)
            /\ calls'[d].key = calls[d].key
  PROVE  KeysAreKept'
  <1> SUFFICES ASSUME NEW k \in ToolKey \ unseen'
               PROVE  /\ \A c, d \in Call :
                            Open(c)' /\ Open(d)' /\ calls'[c].key = k /\ calls'[d].key = k => c = d
                      /\ \A c, d \in Call : MayAct(c, k)' /\ MayAct(d, k)' => c = d
                      /\ \A c \in Call : MayAct(c, k)' => acted'[k] = 0
                      /\ \A c \in Call : MayAct(c, k)' =>
                            toolRow'[k] # "none" \/ \E d \in Call : Unrecorded(d, k)'
                      /\ acted'[k] > 0 => toolRow'[k] # "none" \/ \E d \in Call : Unrecorded(d, k)'
                      /\ acted'[k] <= 1
    BY DEF KeysAreKept
  <1>1. k \in ToolKey \ unseen
    OBVIOUS
  <1> QED
    BY <1>1 DEF KeysAreKept

\* The keys stay kept.
LEMMA KeysStep ==
  ASSUME ToolInv, ToolNext
  PROVE  KeysAreKept'
  <1> USE ToolTurnAssumption, IdleTypes
      DEF ToolInv, ToolTypeOK, CallRecord, CallsAreSound, KeysAreKept, MayAct, Unrecorded, Open, Free,
          IdleCall
  <1>1. ASSUME NEW c \in Call, NEW k \in ToolKey, NEW permitted \in BOOLEAN, CallDirect(c, k, permitted)
        PROVE  KeysAreKept'
    BY <1>1 DEF CallDirect
  <1>2. ASSUME NEW c \in Call, Check(c) PROVE KeysAreKept'
    BY <1>2, SMTT(40) DEF Check
  <1>3. ASSUME NEW c \in Call, LookUpKey(c) PROVE KeysAreKept'
    BY <1>3 DEF LookUpKey
  <1>4. ASSUME NEW c \in Call, NEW live \in BOOLEAN, DecideLive(c, live) PROVE KeysAreKept'
    BY <1>4 DEF DecideLive
  <1>5. ASSUME NEW c \in Call, NEW s \in {"success", "failed", "refused"}, NEW e \in BOOLEAN,
               ToolEnds(c, s, e)
        PROVE  KeysAreKept'
    BY <1>5 DEF ToolEnds
  <1>6. ASSUME NEW c \in Call, ToolTimeout(c) PROVE KeysAreKept'
    <2>1. /\ calls'[c].key = calls[c].key /\ calls'[c].tool = calls[c].tool
          /\ calls[c].pc = "run" /\ calls'[c].pc = "record"
          /\ \A d \in Call \ {c} : calls'[d] = calls[d]
      BY <1>6 DEF ToolTimeout
    <2>2. UNCHANGED <<toolRow, acted, unseen>>
      BY <1>6 DEF ToolTimeout
    <2>3. \A d \in Call, k \in ToolKey :
             /\ MayAct(d, k)' => MayAct(d, k)
             /\ Unrecorded(d, k) => Unrecorded(d, k)'
             /\ Open(d)' => Open(d)
             /\ calls'[d].key = calls[d].key
      BY <2>1
    <2> QED
      BY <2>2, <2>3, KeysFollow
  <1>7. ASSUME NEW c \in Call, RecordCall(c) PROVE KeysAreKept'
    <2>1. /\ calls'[c].key = calls[c].key /\ calls'[c].tool = calls[c].tool
          /\ calls[c].pc = "record" /\ calls'[c].pc = "returned"
          /\ \A d \in Call \ {c} : calls'[d] = calls[d]
      BY <1>7 DEF RecordCall
    <2>2. /\ UNCHANGED acted
          /\ unseen \subseteq unseen'
          /\ \A k \in ToolKey : toolRow[k] # "none" => toolRow'[k] # "none"
          /\ \A k \in ToolKey \ unseen' : calls[c].key = k => toolRow'[k] # "none"
      <3> DEFINE x == calls[c].key
                 taken == x # NoKey /\ toolRow[x] # "none"
      <3>1. calls[c].status # "none"
        BY DEF ToolStatus
      <3>2. PICK ok \in BOOLEAN :
              /\ toolRow' = IF (ok /\ ~taken) /\ x # NoKey
                            THEN [toolRow EXCEPT ![x] = calls[c].status] ELSE toolRow
              /\ unseen' = IF ~ok /\ x # NoKey /\ ~taken THEN unseen \cup {x} ELSE unseen
              /\ UNCHANGED acted
        BY <1>7 DEF RecordCall
      <3>3. toolRow \in [ToolKey -> {"none"} \cup ToolStatus]
        OBVIOUS
      <3>4. \A k \in ToolKey : toolRow[k] # "none" => toolRow'[k] # "none"
        BY <3>1, <3>2, <3>3
      <3>5. ASSUME NEW k \in ToolKey \ unseen', x = k PROVE toolRow'[k] # "none"
        <4>1. x # NoKey
          BY <3>5
        <4>2. CASE taken
          BY <3>4, <3>5, <4>2
        <4>3. CASE ~taken /\ ok
          BY <3>1, <3>2, <3>3, <3>5, <4>1, <4>3
        <4>4. CASE ~taken /\ ~ok
          BY <3>2, <3>5, <4>1, <4>4
        <4> QED
          BY <4>2, <4>3, <4>4
      <3> QED
        BY <3>2, <3>4, <3>5
    <2>3. \A d \in Call, k \in ToolKey \ unseen' :
             /\ MayAct(d, k)' => MayAct(d, k)
             /\ Unrecorded(d, k) => Unrecorded(d, k)' \/ toolRow'[k] # "none"
             /\ Open(d)' => Open(d)
             /\ calls'[d].key = calls[d].key
      BY <2>1, <2>2
    <2> QED
      BY <2>2, <2>3, KeysFollow
  <1>8. ASSUME NEW c \in Call, DirectReturns(c) PROVE KeysAreKept'
    BY <1>8 DEF DirectReturns
  <1>9. CASE BeginTurn
    BY <1>9 DEF BeginTurn
  <1>10. ASSUME NEW n \in 0 .. MaxCalls + 1, NEW claims \in BOOLEAN, AdapterAnswers(n, claims)
         PROVE  KeysAreKept'
    BY <1>10 DEF AdapterAnswers
  <1>11. CASE AdapterFails
    BY <1>11 DEF AdapterFails
  <1>12. ASSUME NEW c \in Call, NEW permitted \in BOOLEAN, BridgeCalls(c, permitted)
         PROVE  KeysAreKept'
    BY <1>12 DEF BridgeCalls
  <1>13. ASSUME NEW c \in Call, BridgeTakes(c) PROVE KeysAreKept'
    BY <1>13 DEF BridgeTakes
  <1>14. ASSUME NEW proof \in BOOLEAN, ClaimChecked(proof) PROVE KeysAreKept'
    BY <1>14 DEF ClaimChecked
  <1>15. CASE TurnTimeout
    BY <1>15 DEF TurnTimeout
  <1>16. CASE ToolCrash
    BY <1>16 DEF ToolCrash
  <1> HIDE DEF ToolTypeOK, CallRecord, KeysAreKept, MayAct, Unrecorded, Open, Free, IdleCall
  <1> QED
    BY <1>1, <1>2, <1>3, <1>4, <1>5, <1>6, <1>7, <1>8,
       <1>9, <1>10, <1>11, <1>12, <1>13, <1>14, <1>15, <1>16 DEF ToolNext

\* The inductive invariant of ToolTurn.
THEOREM ToolInvariant == ToolSpec => []ToolInv
  <1>1. ToolInv /\ [ToolNext]_toolVars => ToolInv'
    <2> SUFFICES ASSUME ToolInv, [ToolNext]_toolVars PROVE ToolInv'
      OBVIOUS
    <2>1. CASE ToolNext
      <3>1. ToolTypeOK'
        BY <2>1, CallsTypeStep, TurnTypeStep, RowsTypeStep DEF ToolInv, ToolTypeOK
      <3> QED
        BY <2>1, <3>1, CallsStep, TurnStep, KeysStep DEF ToolInv
    <2>2. CASE UNCHANGED toolVars
      <3>1. ToolTypeOK' /\ CallsAreSound' /\ TurnIsSound'
        BY <2>2 DEF toolVars, ToolInv, ToolTypeOK, CallsAreSound, TurnIsSound
      <3>2. KeysAreKept'
        BY <2>2 DEF toolVars, ToolInv, KeysAreKept, MayAct, Unrecorded, Open
      <3> QED
        BY <3>1, <3>2 DEF ToolInv
    <2> QED
      BY <2>1, <2>2
  <1> QED
    BY <1>1, ToolInitHolds, PTL DEF ToolSpec

\* The invariant is what the gateway and the bridge promise.
LEMMA ToolsFollow == ToolInv => ToolsKeepTheirWord
  <1> SUFFICES ASSUME ToolInv PROVE RepeatsAreSeen /\ AnswerRestsOnEvidence
    BY DEF ToolsKeepTheirWord
  <1>1. RepeatsAreSeen
    BY DEF ToolInv, ToolTypeOK, KeysAreKept, RepeatsAreSeen
  <1>2. AnswerRestsOnEvidence
    BY DEF ToolInv, TurnIsSound, CallsAreSound, AnswerRestsOnEvidence, tryAgentBridgeReply
  <1> QED
    BY <1>1, <1>2

\* For any number of calls, keys and rounds: a write acts again only if a later call could
\* not see the earlier one, and the bridge answers with the model's text only on recorded
\* successes and proven claims (ToolGateway.execute, AgentBridge.run).
THEOREM ToolsKeep == ToolSpec => []ToolsKeepTheirWord
  BY ToolInvariant, ToolsFollow, PTL

-----------------------------------------------------------------------------
(* Dialogue: the pending question, and what "none" means *)

\* A question is being written only after its turn, and given only during one.
QuestionsInTurn ==
    \A t \in Asking :
        /\ setting[t] # "none" => dialog[t].pc = "ended"
        /\ dialog[t].given # NoAsking => dialog[t].pc \notin {"idle", "load", "ended"}

\* The strengthening of LastQuestionStands: one turn at a time, whose question is the last.
OneTurn ==
    ~slipped =>
        /\ \A t, u \in Asking : Underway(t) /\ Underway(u) => t = u
        /\ \A t \in Asking : setting[t] # "none" => lastPosed = t
        /\ pending # NoQuestion /\ (\A t \in Asking : setting[t] = "none") => pending.by = lastPosed
        /\ \A t \in Asking : dialog[t].given # NoAsking => dialog[t].given = lastPosed

\* The strengthening of NoneMeansNone: a schedule that stood all the while stands, and is
\* seen by the third read at the latest.
StoodIsSeen ==
    \A t \in Asking :
        /\ dialog[t].stood => schedule.status = "scheduled"
        /\ dialog[t].pc = "summary" /\ dialog[t].seen = {} => ~dialog[t].stood
        /\ dialog[t].pc \notin {"reply", "ended"} => dialog[t].told = "unasked"
        /\ dialog[t].told = "none" => ~dialog[t].stood

\* The strengthening of OwnMessageIsTold: what was loaded reaches to the turn's own message,
\* or to the limit, and no further while no other turn is underway.
LoadReaches ==
    \A t \in Asking :
        /\ dialog[t].pc \in {"load", "clear", "context"} =>
              dialog[t].own \in 1 .. history /\ (slipped \/ history = dialog[t].own)
        /\ dialog[t].pc \in {"readSent", "readFailed", "readPlanned", "summary", "reply"} =>
              /\ dialog[t].own \in Nat \ {0}
              /\ dialog[t].own <= ContextLimit =>
                    dialog[t].own <= dialog[t].loaded /\ (slipped \/ dialog[t].loaded = dialog[t].own)

DialogInv == DialogTypeOK /\ QuestionsInTurn /\ OneTurn /\ StoodIsSeen /\ LoadReaches

\* A quiet thread.
LEMMA DialogInitHolds == DialogInit => DialogInv
  <1> SUFFICES ASSUME DialogInit PROVE DialogInv
    OBVIOUS
  <1>1. \A t \in Asking : dialog[t] = QuietTurn /\ setting[t] = "none"
    BY DEF DialogInit
  <1>2. DialogTypeOK
    <2>1. QuietTurn \in TurnState
      BY DialogueAssumption DEF QuietTurn, TurnState
    <2>2. dialog \in [Asking -> TurnState] /\ setting \in [Asking -> Question]
      BY <2>1 DEF DialogInit, Question
    <2>3. NoQuestion \in [by : Asking \cup {NoAsking}, until : Nat]
      BY DEF NoQuestion
    <2>4. /\ clock \in 0 .. MaxTime /\ history \in Nat
          /\ schedule \in [status : {"absent", "scheduled", "cancelled"}, run : {"none", "success", "failed"}]
      BY DialogueAssumption DEF DialogInit
    <2>5. provider \in Provider /\ pending = NoQuestion /\ lastPosed = NoAsking /\ slipped = FALSE
      BY DEF DialogInit
    <2> QED
      BY <2>2, <2>3, <2>4, <2>5 DEF DialogTypeOK
  <1>3. QuestionsInTurn /\ StoodIsSeen
    BY <1>1 DEF QuestionsInTurn, StoodIsSeen, QuietTurn
  <1>4. OneTurn
    BY <1>1 DEF DialogInit, OneTurn, Underway, QuietTurn
  <1>5. LoadReaches
    BY <1>1 DEF LoadReaches, QuietTurn
  <1> QED
    BY <1>2, <1>3, <1>4, <1>5 DEF DialogInv

\* A turn with a field changed is a turn.
LEMMA TurnChanged ==
  ASSUME NEW r \in TurnState
  PROVE  /\ \A n \in Nat : [r EXCEPT !.pc = "load", !.own = n] \in TurnState
         /\ [r EXCEPT !.pc = "ended"] \in TurnState
         /\ \A pc \in {"clear", "context"}, q \in Asking \cup {NoAsking} :
               [r EXCEPT !.pc = pc, !.given = q] \in TurnState
         /\ \A pc \in {"readSent", "reply"}, n \in 0 .. ContextLimit, b \in BOOLEAN :
               [r EXCEPT !.pc = pc, !.loaded = n, !.stood = b] \in TurnState
  BY DEF TurnState

LEMMA TurnReplaced ==
  ASSUME DialogTypeOK, NEW t \in Asking, NEW r \in TurnState, dialog' = [dialog EXCEPT ![t] = r]
  PROVE  dialog' \in [Asking -> TurnState]
  BY DEF DialogTypeOK

\* Every step keeps the type, the turn that moves first of all.
LEMMA DialogTyped ==
  ASSUME DialogTypeOK, DialogNext
  PROVE  DialogTypeOK'
  <1> USE DialogueAssumption DEF DialogTypeOK
  <1>0. \A n \in Nat : n + 1 \in Nat
    OBVIOUS
  <1>1. ASSUME NEW t \in Asking, Hear(t) PROVE DialogTypeOK'
    <2>1. /\ dialog' = [dialog EXCEPT ![t].pc = "load", ![t].own = history + 1]
          /\ history' = history + 1 /\ slipped' \in BOOLEAN
          /\ UNCHANGED <<provider, clock, pending, schedule, setting, lastPosed>>
      BY <1>1, Zenon DEF Hear
    <2>2. dialog' = [dialog EXCEPT ![t] = [dialog[t] EXCEPT !.pc = "load", !.own = history + 1]]
      BY <2>1
    <2>3. [dialog[t] EXCEPT !.pc = "load", !.own = history + 1] \in TurnState
      BY <1>0, TurnChanged
    <2>4. dialog' \in [Asking -> TurnState]
      BY <2>2, <2>3, TurnReplaced
    <2> QED
      BY <1>0, <2>1, <2>4
  <1>2. ASSUME NEW t \in Asking, getConversationState(t) PROVE DialogTypeOK'
    <2>1. PICK pc \in {"clear", "context"}, q \in Asking \cup {NoAsking} :
            dialog' = [dialog EXCEPT ![t].pc = pc, ![t].given = q]
      BY <1>2, Zenon DEF getConversationState
    <2>2. dialog' = [dialog EXCEPT ![t] = [dialog[t] EXCEPT !.pc = pc, !.given = q]]
      BY <2>1
    <2>3. [dialog[t] EXCEPT !.pc = pc, !.given = q] \in TurnState
      BY TurnChanged
    <2>4. dialog' \in [Asking -> TurnState]
      BY <2>2, <2>3, TurnReplaced
    <2> QED
      BY <1>2, <2>4 DEF getConversationState
  <1>3. ASSUME NEW t \in Asking, clearConversationState(t) PROVE DialogTypeOK'
    <2>1. dialog' \in [Asking -> TurnState]
      BY <1>3 DEF clearConversationState, Step, TurnState
    <2> QED
      BY <1>3, <2>1 DEF clearConversationState, NoQuestion
  <1>4. ASSUME NEW t \in Asking, buildConversationContext(t) PROVE DialogTypeOK'
    <2>1. Recent \in 0 .. ContextLimit
      BY DEF Recent
    <2>2. PICK pc \in {"readSent", "reply"}, b \in BOOLEAN :
            dialog' = [dialog EXCEPT ![t].pc = pc, ![t].loaded = Recent, ![t].stood = b]
      BY <1>4 DEF buildConversationContext
    <2> HIDE DEF Recent
    <2>3. dialog' = [dialog EXCEPT ![t] = [dialog[t] EXCEPT !.pc = pc, !.loaded = Recent, !.stood = b]]
      BY <2>2
    <2>4. [dialog[t] EXCEPT !.pc = pc, !.loaded = Recent, !.stood = b] \in TurnState
      BY <2>1, TurnChanged
    <2>5. dialog' \in [Asking -> TurnState]
      BY <2>3, <2>4, TurnReplaced
    <2> QED
      BY <1>4, <2>5 DEF buildConversationContext
  <1>5. ASSUME NEW t \in Asking, fetchScheduleContext(t) PROVE DialogTypeOK'
    <2>1. dialog' \in [Asking -> TurnState]
      BY <1>5 DEF fetchScheduleContext, See, TurnState
    <2> QED
      BY <1>5, <2>1 DEF fetchScheduleContext, See
  <1>6. ASSUME NEW t \in Asking, Reply(t) PROVE DialogTypeOK'
    <2>0. [QuietTurn EXCEPT !.pc = "ended"] \in TurnState
      <3>1. QuietTurn \in TurnState
        BY DEF QuietTurn, TurnState
      <3> QED
        BY <3>1, TurnChanged
    <2>1. dialog' \in [Asking -> TurnState]
      BY <1>6, <2>0, TurnReplaced DEF Reply
    <2>2. /\ history' \in {history, history + 1} /\ lastPosed' \in {lastPosed, t}
          /\ UNCHANGED <<provider, clock, pending, schedule, slipped>>
      BY <1>6 DEF Reply
    <2>3. setting' \in [Asking -> Question]
      BY <1>6 DEF Reply, Question
    <2> QED
      BY <1>0, <2>1, <2>2, <2>3
  <1>7. ASSUME NEW t \in Asking, detectAndSetConversationState(t) PROVE DialogTypeOK'
    <2>1. setting' \in [Asking -> Question]
      BY <1>7 DEF detectAndSetConversationState, Question
    <2>2. Upsert(t) \in [by : Asking \cup {NoAsking}, until : Nat]
      BY DEF Upsert, Ttl
    <2>3. /\ pending' \in {pending, Upsert(t)} /\ slipped' \in BOOLEAN
          /\ UNCHANGED <<provider, clock, history, schedule, dialog, lastPosed>>
      BY <1>7 DEF detectAndSetConversationState
    <2> QED
      BY <2>1, <2>2, <2>3
  <1>8. CASE Forget
    BY <1>8 DEF Forget, NoQuestion
  <1>9. CASE ScheduleMoves
    <2>1. schedule' \in [status : {"absent", "scheduled", "cancelled"}, run : {"none", "success", "failed"}]
      BY <1>9 DEF ScheduleMoves
    <2>2. \A t \in Asking : \A b \in BOOLEAN : [dialog[t] EXCEPT !.stood = b] \in TurnState
      BY DEF TurnState
    <2>3. \A t \in Asking : dialog[t].stood \in BOOLEAN
      BY DEF TurnState
    <2>4. dialog' \in [Asking -> TurnState]
      BY <1>9, <2>2, <2>3 DEF ScheduleMoves
    <2> QED
      BY <1>9, <2>1, <2>4 DEF ScheduleMoves
  <1>10. CASE DialogTick
    BY <1>10 DEF DialogTick
  <1> HIDE DEF DialogTypeOK
  <1> QED
    BY <1>1, <1>2, <1>3, <1>4, <1>5, <1>6, <1>7, <1>8, <1>9, <1>10 DEF DialogNext

\* Questions stay where they belong.
LEMMA QuestionsStep ==
  ASSUME DialogTypeOK, QuestionsInTurn, DialogNext
  PROVE  QuestionsInTurn'
  <1> USE DialogueAssumption DEF DialogTypeOK, TurnState, QuestionsInTurn
  <1>1. ASSUME NEW t \in Asking, Hear(t) PROVE QuestionsInTurn'
    BY <1>1 DEF Hear
  <1>2. ASSUME NEW t \in Asking, getConversationState(t) PROVE QuestionsInTurn'
    BY <1>2 DEF getConversationState
  <1>3. ASSUME NEW t \in Asking, clearConversationState(t) PROVE QuestionsInTurn'
    BY <1>3 DEF clearConversationState, Step
  <1>4. ASSUME NEW t \in Asking, buildConversationContext(t) PROVE QuestionsInTurn'
    BY <1>4 DEF buildConversationContext
  <1>5. ASSUME NEW t \in Asking, fetchScheduleContext(t) PROVE QuestionsInTurn'
    BY <1>5 DEF fetchScheduleContext, See, ListsSchedule
  <1>6. ASSUME NEW t \in Asking, Reply(t) PROVE QuestionsInTurn'
    BY <1>6 DEF Reply, QuietTurn
  <1>7. ASSUME NEW t \in Asking, detectAndSetConversationState(t) PROVE QuestionsInTurn'
    BY <1>7 DEF detectAndSetConversationState, Upsert
  <1>8. CASE Forget
    BY <1>8 DEF Forget
  <1>9. CASE ScheduleMoves
    BY <1>9 DEF ScheduleMoves
  <1>10. CASE DialogTick
    BY <1>10 DEF DialogTick
  <1> HIDE DEF DialogTypeOK, TurnState, QuestionsInTurn
  <1> QED
    BY <1>1, <1>2, <1>3, <1>4, <1>5, <1>6, <1>7, <1>8, <1>9, <1>10 DEF DialogNext

\* A turn that begins beside another has slipped; else its question is the last.
LEMMA OneTurnStep ==
  ASSUME DialogTypeOK, QuestionsInTurn, OneTurn, DialogNext
  PROVE  OneTurn'
  <1> USE DialogueAssumption DEF DialogTypeOK, TurnState, QuestionsInTurn, OneTurn, Underway
  <1>1. ASSUME NEW t \in Asking, Hear(t) PROVE OneTurn'
    <2>1. /\ dialog'[t].pc = "load" /\ dialog'[t].given = dialog[t].given
          /\ \A u \in Asking \ {t} : dialog'[u] = dialog[u]
          /\ UNCHANGED <<pending, setting, lastPosed>>
      BY <1>1 DEF Hear
    <2>2. \A u \in Asking \ {t} : Underway(u)' = Underway(u)
      BY <2>1
    <2>3. ~slipped' => ~slipped /\ \A u \in Asking : ~Underway(u)
      BY <1>1 DEF Hear
    <2> HIDE DEF Underway
    <2> QED
      BY <2>1, <2>2, <2>3
  <1>2. ASSUME NEW t \in Asking, getConversationState(t) PROVE OneTurn'
    BY <1>2 DEF getConversationState
  <1>3. ASSUME NEW t \in Asking, clearConversationState(t) PROVE OneTurn'
    BY <1>3 DEF clearConversationState, Step
  <1>4. ASSUME NEW t \in Asking, buildConversationContext(t) PROVE OneTurn'
    BY <1>4 DEF buildConversationContext
  <1>5. ASSUME NEW t \in Asking, fetchScheduleContext(t) PROVE OneTurn'
    BY <1>5 DEF fetchScheduleContext, See, ListsSchedule
  <1>6. ASSUME NEW t \in Asking, Reply(t) PROVE OneTurn'
    BY <1>6 DEF Reply, QuietTurn
  <1>7. ASSUME NEW t \in Asking, detectAndSetConversationState(t) PROVE OneTurn'
    BY <1>7 DEF detectAndSetConversationState, Upsert
  <1>8. CASE Forget
    BY <1>8 DEF Forget
  <1>9. CASE ScheduleMoves
    BY <1>9 DEF ScheduleMoves
  <1>10. CASE DialogTick
    BY <1>10 DEF DialogTick
  <1> HIDE DEF DialogTypeOK, TurnState, QuestionsInTurn, OneTurn, Underway
  <1> QED
    BY <1>1, <1>2, <1>3, <1>4, <1>5, <1>6, <1>7, <1>8, <1>9, <1>10 DEF DialogNext

\* What stands is seen.
LEMMA StoodStep ==
  ASSUME DialogTypeOK, StoodIsSeen, DialogNext
  PROVE  StoodIsSeen'
  <1> USE DialogueAssumption DEF DialogTypeOK, TurnState, StoodIsSeen
  <1>1. ASSUME NEW t \in Asking, Hear(t) PROVE StoodIsSeen'
    BY <1>1 DEF Hear
  <1>2. ASSUME NEW t \in Asking, getConversationState(t) PROVE StoodIsSeen'
    BY <1>2 DEF getConversationState
  <1>3. ASSUME NEW t \in Asking, clearConversationState(t) PROVE StoodIsSeen'
    BY <1>3 DEF clearConversationState, Step
  <1>4. ASSUME NEW t \in Asking, buildConversationContext(t) PROVE StoodIsSeen'
    BY <1>4 DEF buildConversationContext
  <1>5. ASSUME NEW t \in Asking, fetchScheduleContext(t) PROVE StoodIsSeen'
    <2>1. CASE \/ See(t, "readSent", schedule.run = "success", "sent", "readFailed")
               \/ See(t, "readFailed", schedule.run = "failed", "failed", "readPlanned")
      BY <2>1 DEF See
    <2>2. CASE See(t, "readPlanned", ListsSchedule, "planned", "summary")
      <3>1. ListsSchedule => "planned" \in dialog'[t].seen
        BY <2>2 DEF See
      <3>2. /\ dialog'[t].stood = dialog[t].stood /\ dialog'[t].told = dialog[t].told
            /\ dialog[t].pc = "readPlanned"
            /\ \A u \in Asking \ {t} : dialog'[u] = dialog[u]
            /\ UNCHANGED schedule
        BY <2>2 DEF See
      <3> QED
        BY <3>1, <3>2 DEF ListsSchedule
    <2>3. CASE /\ dialog[t].pc = "summary"
               /\ dialog' = [dialog EXCEPT ![t].pc = "reply", ![t].seen = {},
                                           ![t].told = IF dialog[t].seen = {} THEN "none" ELSE "data"]
               /\ UNCHANGED <<provider, clock, history, pending, schedule, setting, lastPosed, slipped>>
      BY <2>3
    <2>4. CASE /\ dialog[t].pc \in {"readSent", "readFailed", "readPlanned"}
               /\ dialog' = [dialog EXCEPT ![t].pc = "reply", ![t].seen = {}, ![t].told = "unknown"]
               /\ UNCHANGED <<provider, clock, history, pending, schedule, setting, lastPosed, slipped>>
      BY <2>4
    <2> QED
      BY <1>5, <2>1, <2>2, <2>3, <2>4 DEF fetchScheduleContext
  <1>6. ASSUME NEW t \in Asking, Reply(t) PROVE StoodIsSeen'
    BY <1>6 DEF Reply, QuietTurn
  <1>7. ASSUME NEW t \in Asking, detectAndSetConversationState(t) PROVE StoodIsSeen'
    BY <1>7 DEF detectAndSetConversationState, Upsert
  <1>8. CASE Forget
    BY <1>8 DEF Forget
  <1>9. CASE ScheduleMoves
    <2>1. \A t \in Asking :
             /\ dialog'[t].pc = dialog[t].pc /\ dialog'[t].seen = dialog[t].seen
             /\ dialog'[t].told = dialog[t].told
             /\ dialog'[t].stood = (dialog[t].stood /\ schedule'.status = "scheduled")
      BY <1>9 DEF ScheduleMoves
    <2> QED
      BY <2>1, ZenonT(60)
  <1>10. CASE DialogTick
    BY <1>10 DEF DialogTick
  <1> HIDE DEF DialogTypeOK, TurnState, StoodIsSeen
  <1> QED
    BY <1>1, <1>2, <1>3, <1>4, <1>5, <1>6, <1>7, <1>8, <1>9, <1>10 DEF DialogNext

\* What was loaded reaches as far as it did, and nobody else adds messages before that.
LEMMA LoadStep ==
  ASSUME DialogTypeOK, OneTurn, LoadReaches, DialogNext
  PROVE  LoadReaches'
  <1> DEFINE Before == {"load", "clear", "context"}
             After == {"readSent", "readFailed", "readPlanned", "summary", "reply"}
  <1> USE DialogueAssumption
  <1>0. /\ history \in Nat /\ slipped \in BOOLEAN
        /\ \A t \in Asking : dialog[t].own \in Nat /\ dialog[t].loaded \in Nat
    BY DEF DialogTypeOK, TurnState
  \* A step that appends nothing and leaves every turn on its side of the load.
  <1>a. ASSUME history' = history, slipped => slipped',
               \A u \in Asking : /\ dialog'[u].own = dialog[u].own /\ dialog'[u].loaded = dialog[u].loaded
                                 /\ dialog'[u].pc \in Before => dialog[u].pc \in Before
                                 /\ dialog'[u].pc \in After => dialog[u].pc \in After
        PROVE  LoadReaches'
    BY <1>a DEF LoadReaches
  <1>1. ASSUME NEW t \in Asking, Hear(t) PROVE LoadReaches'
    <2>1. /\ dialog'[t].pc = "load" /\ dialog'[t].own = history + 1
          /\ \A u \in Asking \ {t} : dialog'[u] = dialog[u]
          /\ history' = history + 1
          /\ slipped' = (slipped \/ \E u \in Asking : Underway(u))
      BY <1>1 DEF Hear, DialogTypeOK, TurnState
    <2>2. \A u \in Asking : dialog[u].pc \in Before => Underway(u)
      BY DEF Underway
    <2>3. slipped => slipped'
      BY <2>1
    <2>4. ASSUME NEW u \in Asking \ {t}, dialog'[u].pc \in Before
          PROVE  dialog'[u].own \in 1 .. history' /\ slipped'
      <3>1. dialog[u].own \in 1 .. history
        BY <2>1, <2>4 DEF LoadReaches
      <3>2. slipped'
        BY <2>1, <2>2, <2>4
      <3> QED
        BY <1>0, <2>1, <3>1, <3>2
    <2>5. ASSUME NEW u \in Asking \ {t}, dialog'[u].pc \in After
          PROVE  /\ dialog'[u].own \in Nat \ {0}
                 /\ dialog'[u].own <= ContextLimit =>
                       /\ dialog'[u].own <= dialog'[u].loaded
                       /\ slipped' \/ dialog'[u].loaded = dialog'[u].own
      BY <2>1, <2>3, <2>5 DEF LoadReaches
    <2>6. dialog'[t].own \in 1 .. history' /\ history' = dialog'[t].own
      BY <1>0, <2>1
    <2> QED
      BY <2>1, <2>4, <2>5, <2>6 DEF LoadReaches
  <1>2. ASSUME NEW t \in Asking, getConversationState(t) PROVE LoadReaches'
    BY <1>2, <1>a DEF getConversationState, DialogTypeOK, TurnState
  <1>3. ASSUME NEW t \in Asking, clearConversationState(t) PROVE LoadReaches'
    BY <1>3, <1>a DEF clearConversationState, Step, DialogTypeOK, TurnState
  <1>4. ASSUME NEW t \in Asking, buildConversationContext(t) PROVE LoadReaches'
    <2>1. /\ dialog[t].pc = "context" /\ dialog'[t].pc \in {"readSent", "reply"}
          /\ dialog'[t].own = dialog[t].own /\ dialog'[t].loaded = Recent
          /\ \A u \in Asking \ {t} : dialog'[u] = dialog[u]
          /\ UNCHANGED <<history, slipped>>
      BY <1>4 DEF buildConversationContext, DialogTypeOK, TurnState
    <2>2. dialog[t].own \in 1 .. history /\ (slipped \/ history = dialog[t].own)
      BY <2>1 DEF LoadReaches
    <2>3. /\ dialog'[t].own \in Nat \ {0}
          /\ dialog'[t].own <= ContextLimit =>
                /\ dialog'[t].own <= dialog'[t].loaded
                /\ slipped' \/ dialog'[t].loaded = dialog'[t].own
      BY <1>0, <2>1, <2>2 DEF Recent
    <2> QED
      BY <2>1, <2>3 DEF LoadReaches
  <1>5. ASSUME NEW t \in Asking, fetchScheduleContext(t) PROVE LoadReaches'
    <2>1. /\ dialog[t].pc \in After /\ dialog'[t].pc \in After
          /\ dialog'[t].own = dialog[t].own /\ dialog'[t].loaded = dialog[t].loaded
          /\ \A u \in Asking \ {t} : dialog'[u] = dialog[u]
          /\ UNCHANGED <<history, slipped>>
      BY <1>5 DEF fetchScheduleContext, See, DialogTypeOK, TurnState
    <2> QED
      BY <2>1, <1>a
  <1>6. ASSUME NEW t \in Asking, Reply(t) PROVE LoadReaches'
    <2>1. /\ dialog[t].pc = "reply" /\ dialog'[t].pc = "ended"
          /\ \A u \in Asking \ {t} : dialog'[u] = dialog[u]
          /\ history' \in {history, history + 1} /\ slipped' = slipped
      BY <1>6 DEF Reply, QuietTurn, DialogTypeOK, TurnState
    <2>2. ASSUME NEW u \in Asking, dialog'[u].pc \in Before
          PROVE  dialog'[u].own \in 1 .. history' /\ slipped'
      <3>1. u # t /\ dialog[u].pc \in Before /\ dialog'[u].own = dialog[u].own
        BY <2>1, <2>2
      <3>2. Underway(u) /\ Underway(t)
        BY <2>1, <3>1 DEF Underway
      <3>3. slipped
        BY <3>1, <3>2 DEF OneTurn
      <3>4. dialog[u].own \in 1 .. history
        BY <3>1 DEF LoadReaches
      <3> QED
        BY <1>0, <2>1, <3>1, <3>3, <3>4
    <2>3. \A u \in Asking : dialog'[u].pc \in After => dialog'[u] = dialog[u]
      BY <2>1
    <2> QED
      BY <2>1, <2>2, <2>3 DEF LoadReaches
  <1>7. ASSUME NEW t \in Asking, detectAndSetConversationState(t) PROVE LoadReaches'
    BY <1>0, <1>7, <1>a DEF detectAndSetConversationState
  <1>8. CASE Forget
    BY <1>8, <1>a DEF Forget
  <1>9. CASE ScheduleMoves
    <2>1. \A t \in Asking :
             /\ dialog'[t].pc = dialog[t].pc /\ dialog'[t].own = dialog[t].own
             /\ dialog'[t].loaded = dialog[t].loaded
      BY <1>9 DEF ScheduleMoves, DialogTypeOK, TurnState
    <2> QED
      BY <1>9, <2>1, <1>a DEF ScheduleMoves
  <1>10. CASE DialogTick
    BY <1>10, <1>a DEF DialogTick
  <1> QED
    BY <1>1, <1>2, <1>3, <1>4, <1>5, <1>6, <1>7, <1>8, <1>9, <1>10 DEF DialogNext

\* The inductive invariant of Dialogue.
THEOREM DialogInvariant == DialogSpec => []DialogInv
  <1>1. DialogInv /\ [DialogNext]_dialogVars => DialogInv'
    <2> SUFFICES ASSUME DialogInv, [DialogNext]_dialogVars PROVE DialogInv'
      OBVIOUS
    <2>1. CASE DialogNext
      BY <2>1, DialogTyped, QuestionsStep, OneTurnStep, StoodStep, LoadStep DEF DialogInv
    <2>2. CASE UNCHANGED dialogVars
      BY <2>2 DEF dialogVars, DialogInv, DialogTypeOK, QuestionsInTurn, OneTurn, StoodIsSeen, LoadReaches,
         Underway
    <2> QED
      BY <2>1, <2>2
  <1> QED
    BY <1>1, DialogInitHolds, PTL DEF DialogSpec

\* However many messages the thread gets: the question a turn is given is the last one a
\* reply posed, unless turns overlapped or a write failed; Hermes is told "no reminder" only
\* when none stood all the while; and it is handed the message it answers exactly as long as
\* the thread was within the limit (getConversationState, fetchScheduleContext,
\* buildConversationContext, generateReply).
THEOREM HermesHearsTheTruth == DialogSpec => []HermesIsToldTheTruth
  <1>1. ASSUME DialogInv PROVE HermesIsToldTheTruth
    <2>1. LastQuestionStands
      BY <1>1 DEF DialogInv, OneTurn, LastQuestionStands
    <2>2. NoneMeansNone
      BY <1>1 DEF DialogInv, StoodIsSeen, NoneMeansNone, RemindersTold
    <2>3. ASSUME NEW t \in Asking, dialog[t].pc = "reply", provider # "mock", provider = "cli" => ~slipped
          PROVE  dialog[t].own \in MessagesTold(t) <=> dialog[t].own <= ContextLimit
      <3>1. /\ dialog[t].own \in Nat \ {0} /\ dialog[t].loaded \in 0 .. ContextLimit
            /\ ContextLimit \in Nat /\ PromptLimit \in Nat \ {0}
            /\ dialog[t].own <= ContextLimit =>
                  dialog[t].own <= dialog[t].loaded /\ (slipped \/ dialog[t].loaded = dialog[t].own)
        BY <1>1, <2>3, DialogueAssumption DEF DialogInv, DialogTypeOK, TurnState, LoadReaches
      <3>2. CASE provider = "cli"
        BY <2>3, <3>1, <3>2 DEF MessagesTold
      <3>3. CASE provider # "cli"
        BY <2>3, <3>1, <3>3 DEF MessagesTold
      <3> QED
        BY <3>2, <3>3
    <2> QED
      BY <2>1, <2>2, <2>3 DEF HermesIsToldTheTruth, OwnMessageIsTold
  <1> QED
    BY <1>1, DialogInvariant, PTL

-----------------------------------------------------------------------------
(* Reminders: due when they were asked for *)

\* A phrase that was asked, and what was made of it.
Answered(p, now, open, recalled) ==
    /\ asked = [flow |-> "asked", phrase |-> p, now |-> now, open |-> open]
    /\ plan = Planned(p, now, open, recalled)

\* The plan is that of the phrase asked, or none.
RemindInv ==
    \/ asked = None /\ plan = None
    \/ \E p \in Phrase, now \in Now, open \in BOOLEAN, recalled \in BOOLEAN :
          Answered(p, now, open, recalled)

\* The inductive invariant of Reminders.
LEMMA RemindInvariant == RemindSpec => []RemindInv
  <1>1. RemindInit => RemindInv
    BY DEF RemindInit, RemindInv
  <1>2. RemindInv /\ [RemindNext]_remindVars => RemindInv'
    <2> SUFFICES ASSUME RemindInv, [RemindNext]_remindVars PROVE RemindInv'
      OBVIOUS
    <2>1. CASE RemindNext
      BY <2>1 DEF RemindNext, Ask, RemindInv, Answered
    <2>2. CASE UNCHANGED remindVars
      BY <2>2 DEF remindVars, RemindInv, Answered
    <2> QED
      BY <2>1, <2>2
  <1> QED
    BY <1>1, <1>2, PTL DEF RemindSpec

\* A phrase names a time of the clock, or a number of units.
LEMMA PhraseTypes ==
  ASSUME NEW p \in Phrase
  PROVE  \/ /\ p.kind = "at" /\ p \in AtPhrase
            /\ p.clock[1] \in Nat /\ p.clock[2] \in Nat /\ p.clock[1] < 100 /\ p.clock[2] < 60
         \/ /\ p.kind = "in" /\ p \in InPhrase
            /\ p.number \in Nat /\ p.unit \in DOMAIN Unit
            /\ p.number * Unit[p.unit] \in Nat
  <1>1. CASE p \in AtPhrase
    <2>1. p.kind = "at" /\ p.clock \in Nat \X Nat /\ p.clock[1] < 100 /\ p.clock[2] < 60
      BY <1>1, RemindersAssumption DEF AtPhrase
    <2> QED
      BY <1>1, <2>1
  <1>2. CASE p \in InPhrase
    <2>1. p.kind = "in" /\ p.number \in Nat /\ p.unit \in DOMAIN Unit
      BY <1>2, RemindersAssumption DEF InPhrase
    <2>2. Unit[p.unit] \in Nat
      BY <2>1 DEF Unit, Day
    <2>3. \A m, n \in Nat : m * n \in Nat
      OBVIOUS
    <2> QED
      BY <1>2, <2>1, <2>2, <2>3
  <1> QED
    BY <1>1, <1>2 DEF Phrase

\* The hour of a parser: of the clock, the one said or twelve later, and the plain one where
\* it is plain.
HourOf(h, p) ==
    /\ h \in Nat /\ (p.clock[1] < 24 => h < 24)
    /\ h = p.clock[1] \/ (p.clock[1] < 12 /\ h = p.clock[1] + 12)
    /\ Plain(p) => h = Meant(p) /\ h < 24

LEMMA HourMeant ==
  ASSUME NEW p, p.clock[1] \in Nat
  PROVE  HourOf(Hour(p), p) /\ HourOf(ContextHour(p), p)
  BY DEF HourOf, Hour, ContextHour, Plain, Meant, PeriodRead

\* From a time of the day, the way to a later one or to that of tomorrow.
Way(due, now) == IF due < now THEN due - now + Day ELSE due - now

\* The delays of the first parser: of a time of the day, the way to it.
LEMMA LucTime ==
  ASSUME NEW p, NEW now \in Nat, now < Day, p.clock[1] \in Nat, p.clock[2] \in Nat, p.clock[2] < 60
  PROVE  LET due == 3600 * Hour(p) + 60 * Minute(p)
         IN /\ HourOf(Hour(p), p)
            /\ due \in Nat /\ (Hour(p) < 24 => due < Day)
            /\ parseLucTime(p, now) = Way(due, now)
            /\ parseLucTime(p, now) \in Nat
            /\ Hour(p) < 24 => parseLucTime(p, now) < Day
  <1> DEFINE h == Hour(p)
             m == Minute(p)
  <1>1. HourOf(h, p) /\ h \in Nat
    BY HourMeant DEF HourOf
  <1>2. m \in Nat /\ m < 60
    BY DEF Minute
  <1>3. parseLucTime(p, now) = Way(3600 * h + 60 * m, now)
    <2>1. parseLucTime(p, now) = LET off == 3600 * h + 60 * m - now IN IF off < 0 THEN off + Day ELSE off
      BY DEF parseLucTime
    <2> HIDE DEF h, m
    <2> QED
      BY <1>1, <1>2, <2>1 DEF Way
  <1> HIDE DEF h, m
  <1>4. 3600 * h + 60 * m \in Nat /\ (h < 24 => 3600 * h + 60 * m < Day)
    BY <1>1, <1>2 DEF Day
  <1>5. Way(3600 * h + 60 * m, now) \in Nat /\ (h < 24 => Way(3600 * h + 60 * m, now) < Day)
    BY <1>4 DEF Way, Day
  <1> QED
    BY <1>1, <1>3, <1>4, <1>5 DEF h, m

\* The delays of the second, where it reads the phrase: to the full hour, the whole day when
\* it is now, and at least a minute.
LEMMA ContextTime ==
  ASSUME NEW p, p.kind = "at", NEW now \in Nat, now < Day, p.clock[1] \in Nat, ContextReads(p)
  PROVE  LET due == 3600 * ContextHour(p)
         IN /\ HourOf(ContextHour(p), p)
            /\ due \in Nat /\ (ContextHour(p) < 24 => due < Day)
            /\ parseContextReminderTime(p, now) = IF due = now THEN Day ELSE AtLeast(60, Way(due, now))
            /\ parseContextReminderTime(p, now) \in Nat
            /\ parseContextReminderTime(p, now) >= 60
            /\ ContextHour(p) < 24 => parseContextReminderTime(p, now) <= Day
  <1> DEFINE h == ContextHour(p)
             second == parseContextReminderTime(p, now)
  <1>1. HourOf(h, p) /\ h \in Nat
    BY HourMeant DEF HourOf
  <1>2. second = LET off == 3600 * h - now IN AtLeast(60, IF off <= 0 THEN off + Day ELSE off)
    BY DEF parseContextReminderTime
  <1> HIDE DEF h, second
  <1>3. second = IF 3600 * h = now THEN Day ELSE AtLeast(60, Way(3600 * h, now))
    BY <1>1, <1>2 DEF Way, AtLeast, Day
  <1>4. 3600 * h \in Nat /\ (h < 24 => 3600 * h < Day)
    BY <1>1 DEF Day
  <1>5. /\ AtLeast(60, Way(3600 * h, now)) \in Nat
        /\ AtLeast(60, Way(3600 * h, now)) >= 60
        /\ h < 24 => AtLeast(60, Way(3600 * h, now)) <= Day
    BY <1>4 DEF Way, AtLeast, Day
  <1>6. Day \in Nat /\ Day >= 60 /\ Day <= Day
    BY DEF Day
  <1>7. second \in Nat /\ second >= 60 /\ (h < 24 => second <= Day)
    BY <1>3, <1>5, <1>6
  <1> QED
    BY <1>1, <1>3, <1>4, <1>7 DEF h, second

\* On the clock: after the way to a time it is that time.
LEMMA WayToDue ==
  ASSUME NEW now \in Nat, now < Day, NEW due \in Nat, due < Day
  PROVE  /\ Way(due, now) \in Nat /\ Way(due, now) < Day
         /\ (now + Way(due, now)) % Day = due
         /\ (due - now) % Day = Way(due, now)
         /\ (due + Day) % Day = due
  BY SMT DEF Way, Day

\* What a phrase is made into.
LEMMA PlannedFlows ==
  ASSUME NEW p, NEW now, NEW open \in BOOLEAN, NEW recalled \in BOOLEAN
  PROVE  LET made == Planned(p, now, open, recalled)
         IN \/ /\ made.flow = "create" /\ ~open /\ Offset(p, now) # 0
               /\ made.delay = AtLeast(10, Offset(p, now))
            \/ /\ made.flow = "context" /\ ~open /\ parseContextReminderTime(p, now) # 0
               /\ made.delay = parseContextReminderTime(p, now)
            \/ made.flow = "clarify" /\ ~open
            \/ made.flow = "hermes"
  BY DEF Planned, parseReminderFromMessage, FromContext, None

\* The delays of a number of units.
LEMMA InDelays ==
  ASSUME NEW p, p.kind = "in", NEW now
  PROVE  /\ Offset(p, now) # 0 => Offset(p, now) = p.number * Unit[p.unit]
         /\ parseContextReminderTime(p, now) # 0 =>
               parseContextReminderTime(p, now) = AtLeast(10, p.number * Unit[p.unit])
  BY DEF Offset, parseContextReminderTime

\* The delay of a time of day is the way to it, where the first parser understands it.
LEMMA AtDelays ==
  ASSUME NEW p, p.kind = "at", NEW now
  PROVE  /\ Offset(p, now) # 0 => Offset(p, now) = parseLucTime(p, now)
         /\ parseContextReminderTime(p, now) # 0 => ContextReads(p)
  <1>1. Offset(p, now) =
           IF p.luc /\ p.verb = "nhac" /\ p.order # "time verb" THEN parseLucTime(p, now) ELSE 0
    BY Zenon DEF Offset
  <1>2. ~ContextReads(p) => parseContextReminderTime(p, now) = 0
    BY DEF parseContextReminderTime
  <1> QED
    BY <1>1, <1>2

\* On the clock: a reminder that is due at an hour, minutes after it, or at the minimum.
DueAt(delay, now, hour, minute, least) ==
    LET due == 3600 * hour + 60 * minute
    IN (now + delay) % Day = due \/ (delay = least /\ (due - now) % Day < least)

\* A reminder for a time of the clock, by the first parser.
LEMMA CreatedAtIsDue ==
  ASSUME NEW p, NEW now \in Nat, now < Day, p.clock[1] \in Nat, p.clock[2] \in Nat, p.clock[2] < 60,
         NEW delay, delay = AtLeast(10, parseLucTime(p, now))
  PROVE  /\ delay >= 10
         /\ HourOf(Hour(p), p)
         /\ Hour(p) < 24 => delay <= Day /\ DueAt(delay, now, Hour(p), Minute(p), 10)
  <1> DEFINE first == parseLucTime(p, now)
             due == 3600 * Hour(p) + 60 * Minute(p)
             h == Hour(p)
  <1>1. /\ first \in Nat /\ (h < 24 => first < Day)
        /\ due \in Nat /\ (h < 24 => due < Day) /\ first = Way(due, now)
        /\ HourOf(h, p)
    BY LucTime
  <1>2. delay = IF first < 10 THEN 10 ELSE first
    BY DEF AtLeast
  <1> HIDE DEF first, due, h
  <1>3. delay >= 10 /\ (h < 24 => delay <= Day)
    BY <1>1, <1>2 DEF Day
  <1>4. ASSUME h < 24 PROVE (now + delay) % Day = due \/ (delay = 10 /\ (due - now) % Day < 10)
    <2>1. (now + first) % Day = due /\ (due - now) % Day = first
      BY <1>1, <1>4, WayToDue
    <2>2. CASE first < 10
      BY <1>2, <2>1, <2>2
    <2>3. CASE ~(first < 10)
      BY <1>2, <2>1, <2>3
    <2> QED
      BY <2>2, <2>3
  <1>5. h < 24 => DueAt(delay, now, Hour(p), Minute(p), 10)
    BY <1>4 DEF DueAt, due
  <1> QED
    BY <1>1, <1>3, <1>5 DEF h

\* The same by the second.
LEMMA RecalledAtIsDue ==
  ASSUME NEW p, p.kind = "at", NEW now \in Nat, now < Day, p.clock[1] \in Nat, ContextReads(p),
         NEW delay, delay = parseContextReminderTime(p, now)
  PROVE  /\ delay >= 10
         /\ HourOf(ContextHour(p), p)
         /\ ContextHour(p) < 24 => delay <= Day /\ DueAt(delay, now, ContextHour(p), 0, 60)
  <1> DEFINE due == 3600 * ContextHour(p)
             h == ContextHour(p)
  <1>1. /\ delay \in Nat /\ delay >= 60 /\ (h < 24 => delay <= Day)
        /\ due \in Nat /\ (h < 24 => due < Day)
        /\ delay = IF due = now THEN Day ELSE AtLeast(60, Way(due, now))
        /\ HourOf(h, p)
    BY ContextTime
  <1>2. due = 3600 * ContextHour(p) + 60 * 0
    BY <1>1
  <1> HIDE DEF due, h
  <1>3. delay >= 10
    BY <1>1
  <1>4. ASSUME h < 24 PROVE (now + delay) % Day = due \/ (delay = 60 /\ (due - now) % Day < 60)
    <2>1. /\ Way(due, now) \in Nat /\ (now + Way(due, now)) % Day = due
          /\ (due - now) % Day = Way(due, now) /\ (due + Day) % Day = due
      BY <1>1, <1>4, WayToDue
    <2>2. CASE due = now
      BY <1>1, <2>1, <2>2
    <2>3. CASE due # now /\ Way(due, now) < 60
      <3>1. delay = 60
        BY <1>1, <2>3 DEF AtLeast
      <3> QED
        BY <2>1, <2>3, <3>1
    <2>4. CASE due # now /\ ~(Way(due, now) < 60)
      <3>1. delay = Way(due, now)
        BY <1>1, <2>4 DEF AtLeast
      <3> QED
        BY <2>1, <3>1
    <2> QED
      BY <2>2, <2>3, <2>4
  <1>5. h < 24 => DueAt(delay, now, ContextHour(p), 0, 60)
    BY <1>2, <1>4 DEF DueAt
  <1> QED
    BY <1>1, <1>3, <1>5 DEF h

\* On a plain full hour the two parsers differ by the minimum of the second, or not at all.
LEMMA PlainHoursAgree ==
  ASSUME NEW p, p.kind = "at", NEW now \in Nat, now < Day, p.clock[1] \in Nat,
         p.clock[2] \in Nat, p.clock[2] < 60, p.luc, Plain(p), Minute(p) = 0
  PROVE  \/ parseLucTime(p, now) = parseContextReminderTime(p, now)
         \/ parseLucTime(p, now) \in 0 .. 59
  <1> DEFINE due == 3600 * Hour(p)
             first == parseLucTime(p, now)
             second == parseContextReminderTime(p, now)
  <1>1. /\ first = Way(3600 * Hour(p) + 60 * Minute(p), now)
        /\ 3600 * Hour(p) + 60 * Minute(p) \in Nat
        /\ Hour(p) < 24 => 3600 * Hour(p) + 60 * Minute(p) < Day
        /\ HourOf(Hour(p), p)
    BY LucTime
  <1>2. ContextReads(p)
    BY DEF ContextReads
  <1>3. /\ second = IF 3600 * ContextHour(p) = now THEN Day
                    ELSE AtLeast(60, Way(3600 * ContextHour(p), now))
        /\ HourOf(ContextHour(p), p)
    BY <1>2, ContextTime
  <1>4. Hour(p) = ContextHour(p) /\ Hour(p) \in Nat /\ Hour(p) < 24
    BY <1>1, <1>3 DEF HourOf
  <1>5. 3600 * Hour(p) + 60 * Minute(p) = due
    BY <1>4
  <1>6. /\ first = Way(due, now) /\ due \in Nat /\ due < Day
        /\ second = IF due = now THEN Day ELSE AtLeast(60, Way(due, now))
    BY <1>1, <1>3, <1>4, <1>5
  <1> HIDE DEF due, first, second
  <1>7. Way(due, now) \in Nat /\ (due = now => Way(due, now) = 0)
    BY <1>6, WayToDue DEF Way
  <1>8. first = second \/ first \in 0 .. 59
    BY <1>6, <1>7 DEF AtLeast
  <1> QED
    BY <1>8 DEF first, second

\* Each part of RemindersAreDue, of a phrase that was asked.
LEMMA AnsweredIsDue ==
  ASSUME NEW p \in Phrase, NEW now \in Now, NEW open \in BOOLEAN, NEW recalled \in BOOLEAN,
         Answered(p, now, open, recalled)
  PROVE  RemindersAreDue
  <1>0. /\ asked.phrase = p /\ asked.now = now /\ asked.open = open
        /\ now \in Nat /\ now < Day
    BY RemindersAssumption DEF Answered
  <1>1. \/ /\ plan.flow = "create" /\ ~open /\ Offset(p, now) # 0
           /\ plan.delay = AtLeast(10, Offset(p, now))
        \/ /\ plan.flow = "context" /\ ~open /\ parseContextReminderTime(p, now) # 0
           /\ plan.delay = parseContextReminderTime(p, now)
        \/ plan.flow = "clarify" /\ ~open
        \/ plan.flow = "hermes"
    BY PlannedFlows DEF Answered
  <1>2. CASE p.kind = "at"
    <2>1. p.clock[1] \in Nat /\ p.clock[2] \in Nat /\ p.clock[2] < 60
      BY <1>2, PhraseTypes
    <2> DEFINE hour == IF plan.flow = "create" THEN Hour(p) ELSE ContextHour(p)
               minute == IF plan.flow = "create" THEN Minute(p) ELSE 0
               least == IF plan.flow = "create" THEN 10 ELSE 60
    <2>2. ASSUME Plans
          PROVE  /\ plan.delay >= 10
                 /\ HourOf(hour, p)
                 /\ hour < 24 => plan.delay <= Day /\ DueAt(plan.delay, now, hour, minute, least)
      <3>1. CASE plan.flow = "create"
        <4>1. plan.delay = AtLeast(10, parseLucTime(p, now))
          BY <1>1, <1>2, <3>1, AtDelays
        <4> QED
          BY <1>0, <2>1, <3>1, <4>1, CreatedAtIsDue
      <3>2. CASE plan.flow = "context"
        <4>1. plan.delay = parseContextReminderTime(p, now) /\ ContextReads(p)
          BY <1>1, <1>2, <3>2, AtDelays
        <4> QED
          BY <1>0, <1>2, <2>1, <3>2, <4>1, RecalledAtIsDue
      <3> QED
        BY <2>2, <3>1, <3>2 DEF Plans
    <2>3. ASSUME Plans, NEW h \in Nat, DueAt(plan.delay, now, h, minute, least) PROVE GoesOffAt(h)
      <3>1. CASE plan.flow = "create"
        BY <1>0, <2>3, <3>1 DEF DueAt, GoesOffAt
      <3>2. CASE plan.flow = "context"
        <4>1. 3600 * h + 60 * 0 = 3600 * h + 0
          OBVIOUS
        <4> QED
          BY <1>0, <2>3, <3>2, <4>1 DEF DueAt, GoesOffAt
      <3> QED
        BY <2>3, <3>1, <3>2 DEF Plans
    <2> HIDE DEF hour, minute, least
    <2>4. Plans => hour \in Nat /\ (hour < 24 => GoesOffAt(hour))
      BY <2>2, <2>3 DEF HourOf
    <2>5. DueIsAhead
      BY <1>0, <2>1, <2>2 DEF DueIsAhead, HourOf
    <2>6. HourIsKept /\ HourOrTwelveLater
      BY <1>0, <2>1, <2>2, <2>4 DEF HourIsKept, HourOrTwelveLater, HourOf
    <2>7. ParsersAgree
      BY <1>0, <1>2, <2>1, PlainHoursAgree DEF ParsersAgree
    <2>8. DelayIsKept /\ PendingTakesTheTurn
      BY <1>0, <1>1, <1>2 DEF DelayIsKept, PendingTakesTheTurn
    <2> QED
      BY <2>5, <2>6, <2>7, <2>8 DEF RemindersAreDue
  <1>3. CASE p.kind = "in"
    <2> DEFINE n == p.number * Unit[p.unit]
    <2>1. n \in Nat
      BY <1>3, PhraseTypes
    <2>2. Plans => plan.delay = AtLeast(10, n)
      BY <1>1, <1>3, InDelays DEF Plans
    <2> HIDE DEF n
    <2>3. AtLeast(10, n) >= 10
      BY <2>1 DEF AtLeast
    <2>4. DueIsAhead /\ HourIsKept /\ HourOrTwelveLater /\ ParsersAgree
      BY <1>0, <1>3, <2>2, <2>3 DEF DueIsAhead, HourIsKept, HourOrTwelveLater, ParsersAgree
    <2>5. DelayIsKept
      BY <1>0, <2>2 DEF DelayIsKept, n
    <2>6. PendingTakesTheTurn
      BY <1>0, <1>1 DEF PendingTakesTheTurn
    <2> QED
      BY <2>4, <2>5, <2>6 DEF RemindersAreDue
  <1> QED
    BY <1>2, <1>3, PhraseTypes

\* For every time of the day and every number of units: a reminder is ahead, a plain time is
\* kept, any other is off by twelve hours at most, a delay is kept to the second, up to the
\* minimum, and the two parsers agree on a plain full hour (the patterns and parsers of the
\* dispatcher).
THEOREM RemindersComeDue == RemindSpec => []RemindersAreDue
  <1>1. RemindInv => RemindersAreDue
    <2>1. ASSUME asked = None, plan = None PROVE RemindersAreDue
      BY <2>1 DEF RemindersAreDue, DueIsAhead, HourIsKept, HourOrTwelveLater, DelayIsKept, ParsersAgree,
         PendingTakesTheTurn, Plans, None
    <2> QED
      BY <2>1, AnsweredIsDue DEF RemindInv
  <1> QED
    BY <1>1, RemindInvariant, PTL


-----------------------------------------------------------------------------
(* The pipeline: one answer for a message, and what its task says *)

Said == WholeReplies \cup {"part"}
TaskStatus == {"none", "pending", "completed", "failed"}
Place == {"idle", "dead"} \cup Running \cup Over

\* Where a call may yet send without a further failure.
MaySend ==
    {"retrieval", "found", "safety", "gate", "create", "batch", "route", "unsupported",
     "image", "imageLost", "imageSend", "file", "fileSend", "fileFailed",
     "intent", "schedule", "job", "confirm", "deny", "clarify", "rules", "fixed",
     "hermes", "answer"}
Owes(t) == turns[t].pc \in MaySend \/ t \in floating
Owing(m) == {t \in TurnId : turns[t].msg = m /\ Owes(t)}
Token(b) == IF b THEN 1 ELSE 0

\* The strengthening of OnePathAnswers: sends made, and those that calls, a batch or the
\* listener may still make without a failure, are one and the failures so far.
AnswersAreDue ==
    \A m \in Msg :
        /\ IsFiniteSet(Owing(m))
        /\ attempts[m] + Cardinality(Owing(m)) + Token(m \notin handled) + Token(m \in batched)
             <= 1 + pipeFaults

IsSilent(t) ==
    /\ \A what \in WholeReplies : <<t, what>> \notin said
    /\ <<t, "part">> \in said => ~structured
Early == {"idle", "retrieval", "found", "safety", "gate", "create"}

\* Where a call of which nothing failed has said nothing in full.
Unheard == MaySend \cup
    {"idle", "batchMark", "refused", "ignoreExec", "ignoreMark", "withheld", "failed",
     "unanswered", "caught", "caughtMark"}

\* Where a call may have confirmed a reminder.
Confirmed == {"confirmMark", "deny", "denyMark", "ended", "rejected", "dead"}

\* What a call has done, and what it has not, is told by its place.
InPlace(t) ==
    /\ turns[t].pc = "idle" => turns[t].msg = NoMsg
    /\ turns[t].pc # "idle" => turns[t].msg \in Msg
    /\ t \in floating => turns[t].pc = "ended" /\ task[t] = "completed"
    /\ turns[t].pc \in Early => task[t] = "none"
    /\ turns[t].pc = "fixedExec" => task[t] = "completed"
    /\ task[t] = "failed" => turns[t].pc = "ended"
    /\ turns[t].pc = "ended" /\ task[t] = "pending" => t \in slips.mark
    /\ turns[t].pc = "confirm" => reminder[t] = "queued"
    /\ <<t, "confirm">> \in said =>
          /\ reminder[t] = "queued"
          /\ turns[t].pc \in Confirmed
    /\ t \notin slips.any /\ (turns[t].pc \in Unheard \/ task[t] = "failed") => IsSilent(t)

PipeInv == PipeTypeOK /\ AnswersAreDue /\ \A t \in TurnId : InPlace(t)

-----------------------------------------------------------------------------
\* A step of t's coroutine touches only what is t's, and its message's.
StepOf(t) ==
    /\ PipeTypeOK'
    /\ structured' = structured /\ handled' = handled /\ turns'[t].msg = turns[t].msg
    /\ \A u \in TurnId \ {t} :
          /\ turns'[u] = turns[u] /\ task'[u] = task[u] /\ reminder'[u] = reminder[u]
          /\ u \in floating' <=> u \in floating
          /\ u \in slips'.any <=> u \in slips.any
          /\ u \in slips'.mark <=> u \in slips.mark
          /\ \A what \in Said : <<u, what>> \in said' <=> <<u, what>> \in said
    /\ \A m \in Msg \ {turns[t].msg} :
          attempts'[m] = attempts[m] /\ (m \in batched' <=> m \in batched)
    /\ pipeFaults' \in {pipeFaults, pipeFaults + 1}

\* What it may send now, and may still send, it could send before, or a failure paid for it.
Pays(t) ==
    attempts'[turns[t].msg] + Token(Owes(t)') + Token(turns[t].msg \in batched') + pipeFaults
      <= attempts[turns[t].msg] + Token(Owes(t)) + Token(turns[t].msg \in batched) + pipeFaults'

CallSteps(t) == StepOf(t) /\ Pays(t) /\ InPlace(t)'

\* What the actions of a call are made of.
LEMMA Awaits ==
  ASSUME PipeTypeOK, NEW t \in TurnId, InPlace(t), turns[t].pc # "idle",
         NEW next, NEW orElse, {next, orElse} \subseteq Place, Await(t, next, orElse)
  PROVE  StepOf(t)
  <1> USE PipelineAssumption DEF Await, Fine, Fault, Goto
  <1>0. turns \in [TurnId -> [pc : Place, msg : Msg \cup {NoMsg}, synthetic : BOOLEAN]]
    BY DEF PipeTypeOK, Place
  <1>1. turns' \in [TurnId -> [pc : Place, msg : Msg \cup {NoMsg}, synthetic : BOOLEAN]]
    BY <1>0
  <1>2. slips' \in [any : SUBSET TurnId, mark : SUBSET TurnId]
    BY DEF PipeTypeOK
  <1>3. pipeFaults' \in {pipeFaults, pipeFaults + 1} /\ pipeFaults' \in 0 .. MaxPipeFaults
    BY DEF PipeTypeOK
  <1>4. PipeTypeOK'
    BY <1>1, <1>2, <1>3 DEF PipeTypeOK, Place
  <1> QED
    BY <1>0, <1>3, <1>4 DEF PipeTypeOK, StepOf

LEMMA Decides ==
  ASSUME PipeTypeOK, NEW t \in TurnId, NEW pcs \in SUBSET Place, Decide(t, pcs)
  PROVE  StepOf(t)
  <1> USE DEF Decide, Choose, Fine, Goto
  <1>0. turns \in [TurnId -> [pc : Place, msg : Msg \cup {NoMsg}, synthetic : BOOLEAN]]
    BY DEF PipeTypeOK, Place
  <1>1. turns' \in [TurnId -> [pc : Place, msg : Msg \cup {NoMsg}, synthetic : BOOLEAN]]
    BY <1>0
  <1>2. PipeTypeOK'
    BY <1>1 DEF PipeTypeOK, Place
  <1> QED
    BY <1>0, <1>2 DEF PipeTypeOK, StepOf

LEMMA Marks ==
  ASSUME PipeTypeOK, NEW t \in TurnId, NEW status \in TaskStatus,
         NEW next \in Place, NEW orElse \in Place, Mark(t, status, next, orElse)
  PROVE  StepOf(t)
  <1> USE PipelineAssumption DEF Mark, Fine, MarkFault, Goto
  <1>0. /\ turns \in [TurnId -> [pc : Place, msg : Msg \cup {NoMsg}, synthetic : BOOLEAN]]
        /\ task \in [TurnId -> TaskStatus]
    BY DEF PipeTypeOK, Place, TaskStatus
  <1>1. /\ turns' \in [TurnId -> [pc : Place, msg : Msg \cup {NoMsg}, synthetic : BOOLEAN]]
        /\ task' \in [TurnId -> TaskStatus]
    BY <1>0
  <1>2. slips' \in [any : SUBSET TurnId, mark : SUBSET TurnId]
    BY DEF PipeTypeOK
  <1>3. pipeFaults' \in {pipeFaults, pipeFaults + 1} /\ pipeFaults' \in 0 .. MaxPipeFaults
    BY DEF PipeTypeOK
  <1>4. PipeTypeOK'
    BY <1>1, <1>2, <1>3 DEF PipeTypeOK, Place, TaskStatus
  <1> QED
    BY <1>0, <1>3, <1>4 DEF PipeTypeOK, StepOf

LEMMA MarksAndFloats ==
  ASSUME PipeTypeOK, NEW t \in TurnId, NEW orElse \in Place, MarkAndFloat(t, orElse)
  PROVE  StepOf(t)
  <1> USE PipelineAssumption DEF MarkAndFloat, Fine, MarkFault, Goto
  <1>0. /\ turns \in [TurnId -> [pc : Place, msg : Msg \cup {NoMsg}, synthetic : BOOLEAN]]
        /\ task \in [TurnId -> TaskStatus]
        /\ "ended" \in Place /\ "completed" \in TaskStatus
    BY DEF PipeTypeOK, Place, TaskStatus, Over
  <1>1. /\ turns' \in [TurnId -> [pc : Place, msg : Msg \cup {NoMsg}, synthetic : BOOLEAN]]
        /\ task' \in [TurnId -> TaskStatus]
    BY <1>0
  <1>2. slips' \in [any : SUBSET TurnId, mark : SUBSET TurnId]
    BY DEF PipeTypeOK
  <1>3. pipeFaults' \in {pipeFaults, pipeFaults + 1} /\ pipeFaults' \in 0 .. MaxPipeFaults
    BY DEF PipeTypeOK
  <1>4. PipeTypeOK'
    BY <1>1, <1>2, <1>3 DEF PipeTypeOK, Place, TaskStatus
  <1> QED
    BY <1>0, <1>3, <1>4 DEF PipeTypeOK, StepOf

\* What sendOutbound does to the ledger and to what is said.
LEMMA Sendings ==
  ASSUME PipeTypeOK, NEW t \in TurnId, turns[t].msg \in Msg, NEW what \in Said,
         \/ Sent(t, what) \/ SentInPart(t) \/ NotSent(t)
         \/ Fault(t) /\ UNCHANGED <<attempts, row, said>>
  PROVE  /\ slips' \in [any : SUBSET TurnId, mark : SUBSET TurnId]
         /\ pipeFaults' \in {pipeFaults, pipeFaults + 1} /\ pipeFaults' \in 0 .. MaxPipeFaults
         /\ attempts' \in [Msg -> Nat] /\ row' \subseteq Msg /\ said' \subseteq TurnId \X Said
         /\ \A m \in Msg \ {turns[t].msg} : attempts'[m] = attempts[m]
         /\ \A u \in TurnId \ {t} :
               /\ u \in slips'.any <=> u \in slips.any
               /\ u \in slips'.mark <=> u \in slips.mark
               /\ \A w \in Said : <<u, w>> \in said' <=> <<u, w>> \in said
  <1> USE PipelineAssumption DEF Sent, SentInPart, NotSent, MsgOf, Fine, Fault
  <1>0. attempts \in [Msg -> Nat] /\ row \subseteq Msg /\ said \subseteq TurnId \X Said /\ "part" \in Said
    BY DEF PipeTypeOK, Said
  <1>1. slips' \in [any : SUBSET TurnId, mark : SUBSET TurnId]
    BY DEF PipeTypeOK
  <1>2. pipeFaults' \in {pipeFaults, pipeFaults + 1} /\ pipeFaults' \in 0 .. MaxPipeFaults
    BY DEF PipeTypeOK
  <1>3. attempts' \in [Msg -> Nat] /\ \A m \in Msg \ {turns[t].msg} : attempts'[m] = attempts[m]
    BY <1>0
  <1>4. row' \subseteq Msg
    BY <1>0
  <1>5. said' \in {said, said \cup {<<t, what>>}, said \cup {<<t, "part">>}}
    OBVIOUS
  <1>6. said' \subseteq TurnId \X Said
    BY <1>0, <1>5
  <1>7. \A u \in TurnId \ {t} : \A w \in Said : <<u, w>> \in said' <=> <<u, w>> \in said
    BY <1>5
  <1> QED
    BY <1>1, <1>2, <1>3, <1>4, <1>6, <1>7 DEF PipeTypeOK

LEMMA Sends ==
  ASSUME PipeTypeOK, NEW t \in TurnId, turns[t].msg \in Msg,
         NEW next \in Place, NEW orElse \in Place, NEW what \in Said, Send(t, what, next, orElse)
  PROVE  StepOf(t)
  <1>0. turns \in [TurnId -> [pc : Place, msg : Msg \cup {NoMsg}, synthetic : BOOLEAN]]
    BY DEF PipeTypeOK, Place
  <1>1. turns' \in [TurnId -> [pc : Place, msg : Msg \cup {NoMsg}, synthetic : BOOLEAN]]
    BY <1>0 DEF Send, Goto
  <1>2. \/ Sent(t, what) \/ SentInPart(t) \/ NotSent(t)
        \/ Fault(t) /\ UNCHANGED <<attempts, row, said>>
    BY DEF Send
  <1>3. /\ slips' \in [any : SUBSET TurnId, mark : SUBSET TurnId]
        /\ pipeFaults' \in {pipeFaults, pipeFaults + 1} /\ pipeFaults' \in 0 .. MaxPipeFaults
        /\ attempts' \in [Msg -> Nat] /\ row' \subseteq Msg /\ said' \subseteq TurnId \X Said
        /\ \A m \in Msg \ {turns[t].msg} : attempts'[m] = attempts[m]
        /\ \A u \in TurnId \ {t} :
              /\ u \in slips'.any <=> u \in slips.any
              /\ u \in slips'.mark <=> u \in slips.mark
              /\ \A w \in Said : <<u, w>> \in said' <=> <<u, w>> \in said
    BY <1>2, Sendings
  <1>4. UNCHANGED <<structured, task, handled, batched, reminder, floating>>
    BY DEF Send
  <1>5. PipeTypeOK'
    BY <1>1, <1>3, <1>4 DEF PipeTypeOK, Place, Said, WholeReplies
  <1>6. turns'[t].msg = turns[t].msg /\ \A u \in TurnId \ {t} : turns'[u] = turns[u]
    BY <1>0 DEF Send, Goto
  <1> QED
    BY <1>3, <1>4, <1>5, <1>6 DEF StepOf

-----------------------------------------------------------------------------
\* What each of them comes to for the call itself.
Goes(t, pc) == turns'[t].pc = pc /\ turns'[t].msg = turns[t].msg
Fails(t) == pipeFaults' = pipeFaults + 1 /\ t \in slips'.any /\ (t \in slips.mark => t \in slips'.mark)
Succeeds == UNCHANGED <<pipeFaults, slips>>
Aside == UNCHANGED <<structured, task, batched, reminder, floating, attempts, said>>

LEMMA AwaitComes ==
  ASSUME PipeTypeOK, NEW t \in TurnId, NEW next, NEW orElse, Await(t, next, orElse)
  PROVE  Aside /\ ((Succeeds /\ Goes(t, next)) \/ (Fails(t) /\ Goes(t, orElse)))
  BY DEF PipeTypeOK, Await, Fine, Fault, Goto, Aside, Succeeds, Goes, Fails

LEMMA DecideComes ==
  ASSUME PipeTypeOK, NEW t \in TurnId, NEW pcs, Decide(t, pcs)
  PROVE  Aside /\ Succeeds /\ turns'[t].pc \in pcs /\ turns'[t].msg = turns[t].msg
  BY DEF PipeTypeOK, Decide, Choose, Fine, Goto, Aside, Succeeds

LEMMA MarkComes ==
  ASSUME PipeTypeOK, NEW t \in TurnId, NEW status, NEW next, NEW orElse, Mark(t, status, next, orElse)
  PROVE  /\ UNCHANGED <<structured, batched, reminder, floating, attempts, said>>
         /\ \/ Succeeds /\ Goes(t, next) /\ task'[t] = status
            \/ Fails(t) /\ Goes(t, orElse) /\ task'[t] = task[t] /\ t \in slips'.mark
  BY DEF PipeTypeOK, Mark, Fine, MarkFault, Goto, Succeeds, Goes, Fails

LEMMA MarkAndFloatComes ==
  ASSUME PipeTypeOK, NEW t \in TurnId, NEW orElse, MarkAndFloat(t, orElse)
  PROVE  /\ UNCHANGED <<batched, reminder, attempts, said>>
         /\ \/ Succeeds /\ Goes(t, "ended") /\ task'[t] = "completed" /\ floating' = floating \cup {t}
            \/ /\ Fails(t) /\ Goes(t, orElse) /\ task'[t] = task[t] /\ floating' = floating
               /\ t \in slips'.mark
  BY DEF PipeTypeOK, MarkAndFloat, Fine, MarkFault, Goto, Succeeds, Goes, Fails

LEMMA SentComes ==
  ASSUME PipeTypeOK, NEW t \in TurnId, turns[t].msg \in Msg, NEW what,
         Sent(t, what) \/ SentInPart(t) \/ NotSent(t)
  PROVE  /\ attempts'[turns[t].msg] = attempts[turns[t].msg] + 1
         /\ Succeeds \/ Fails(t)
         /\ said' \in {said, said \cup {<<t, what>>}, said \cup {<<t, "part">>}}
  BY DEF PipeTypeOK, Sent, SentInPart, NotSent, MsgOf, Fine, Fault, Succeeds, Fails

LEMMA SendComes ==
  ASSUME PipeTypeOK, NEW t \in TurnId, turns[t].msg \in Msg, NEW what, NEW next, NEW orElse,
         Send(t, what, next, orElse)
  PROVE  /\ UNCHANGED <<task, batched, reminder, floating>>
         /\ \/ /\ Goes(t, next) /\ attempts'[turns[t].msg] = attempts[turns[t].msg] + 1
               /\ Succeeds \/ Fails(t)
               /\ said' \in {said, said \cup {<<t, what>>}, said \cup {<<t, "part">>}}
            \/ Fails(t) /\ Goes(t, orElse) /\ attempts' = attempts /\ said' = said
  <1>1. \A pc : Goto(t, pc) => Goes(t, pc)
    BY DEF PipeTypeOK, Goto, Goes
  <1>2. CASE (Sent(t, what) \/ SentInPart(t) \/ NotSent(t)) /\ Goto(t, next)
    BY <1>1, <1>2, SentComes DEF Send
  <1>3. CASE Fault(t) /\ Goto(t, orElse) /\ UNCHANGED <<attempts, row, said>>
    BY <1>1, <1>3 DEF Send, Fault, Fails, PipeTypeOK
  <1> QED
    BY <1>2, <1>3 DEF Send

-----------------------------------------------------------------------------
\* The steps of a call, place by place.
\* A call under way has a message.
LEMMA UnderwayHasMessage ==
  ASSUME PipeTypeOK, NEW t \in TurnId, InPlace(t), turns[t].pc # "idle"
  PROVE  /\ turns[t].msg \in Msg /\ attempts[turns[t].msg] \in Nat /\ pipeFaults \in Nat
         /\ turns[t].msg # NoMsg
  BY PipelineAssumption DEF PipeTypeOK, InPlace

-----------------------------------------------------------------------------
\* Which place may follow which: after a decision, ...
Follows(from, to) ==
    /\ from \in Running \ Confirmed /\ to \in Place \ {"idle", "fixedExec", "confirm"}
    /\ to \in MaySend => from \in MaySend
    /\ to \in Early => from \in Early
    /\ to \in Unheard => from \in Unheard
    /\ to = "ended" => from \in Early \cup {"fixedExec"}

\* ... after a failure, ...
Catches(from, to) ==
    /\ from \in Running /\ to \in Place \ (Early \cup {"fixedExec", "confirm"})
    /\ from \in Confirmed => to \in Confirmed

\* ... after a mark, ...
Closes(from, status, to) ==
    /\ from \in Running /\ status \in {"completed", "failed"}
    /\ to \in Place \ (MaySend \cup Early \cup {"confirm"})
    /\ from \in Confirmed => to \in Confirmed
    /\ to \in Unheard => from \in Unheard
    /\ to = "fixedExec" => status = "completed"
    /\ status = "failed" => to = "ended" /\ from \in Unheard

\* ... and after a send.
Answers(from, what, to) ==
    /\ from \in Running \cap MaySend /\ what \in Said
    /\ to \in Place \ (Unheard \cup {"fixedExec"})
    /\ from \in Confirmed \/ what = "confirm" => to \in Confirmed
    /\ what = "confirm" => from = "confirm"
    /\ to = "ended" => from \in Early

LEMMA DecideSteps ==
  ASSUME PipeTypeOK, NEW t \in TurnId, InPlace(t), turns[t].pc # "idle",
         NEW pcs \in SUBSET Place, \A pc \in pcs : Follows(turns[t].pc, pc), Decide(t, pcs)
  PROVE  CallSteps(t)
  <1> DEFINE m == turns[t].msg
  <1>0. m \in Msg /\ attempts[m] \in Nat /\ pipeFaults \in Nat /\ m # NoMsg
    BY UnderwayHasMessage
  <1>1. StepOf(t)
    BY Decides
  <1>2. Aside /\ Succeeds /\ turns'[t].pc \in pcs /\ turns'[t].msg = m
    BY DecideComes
  <1>3. Follows(turns[t].pc, turns'[t].pc)
    BY <1>2
  <1>4. Pays(t)
    BY <1>0, <1>2, <1>3 DEF Aside, Succeeds, Pays, Owes, Token, Follows
  <1>5. InPlace(t)'
    <2>1. IsSilent(t) => IsSilent(t)'
      BY <1>2 DEF Aside, IsSilent
    <2> QED
      BY <1>0, <1>2, <1>3, <2>1 DEF Aside, Succeeds, InPlace, Follows, Confirmed, Running
  <1> QED
    BY <1>1, <1>4, <1>5 DEF CallSteps

LEMMA AwaitSteps ==
  ASSUME PipeTypeOK, NEW t \in TurnId, InPlace(t), turns[t].pc # "idle", NEW next, NEW orElse,
         Follows(turns[t].pc, next), Catches(turns[t].pc, orElse), orElse # "ended",
         Await(t, next, orElse)
  PROVE  CallSteps(t)
  <1> DEFINE m == turns[t].msg
  <1>0. m \in Msg /\ attempts[m] \in Nat /\ pipeFaults \in Nat /\ m # NoMsg
    BY UnderwayHasMessage
  <1>1. StepOf(t)
    BY Awaits DEF Follows, Catches
  <1>2. Aside /\ ((Succeeds /\ Goes(t, next)) \/ (Fails(t) /\ Goes(t, orElse)))
    BY AwaitComes
  <1>3. Pays(t)
    BY <1>0, <1>2 DEF Aside, Succeeds, Fails, Goes, Pays, Owes, Token, Follows
  <1>4. InPlace(t)'
    <2>0. IsSilent(t) => IsSilent(t)'
      BY <1>2 DEF Aside, IsSilent
    <2>1. CASE Succeeds /\ Goes(t, next)
      BY <1>0, <1>2, <2>0, <2>1 DEF Aside, Succeeds, Goes, InPlace, Follows, Confirmed, Running
    <2>2. CASE Fails(t) /\ Goes(t, orElse)
      BY <1>0, <1>2, <2>2 DEF Aside, Fails, Goes, InPlace, Catches, Confirmed, Running, Early
    <2> QED
      BY <1>2, <2>1, <2>2
  <1> QED
    BY <1>1, <1>3, <1>4 DEF CallSteps

LEMMA MarkSteps ==
  ASSUME PipeTypeOK, NEW t \in TurnId, InPlace(t), turns[t].pc # "idle",
         NEW status, NEW next, NEW orElse,
         Closes(turns[t].pc, status, next), Catches(turns[t].pc, orElse),
         Mark(t, status, next, orElse)
  PROVE  CallSteps(t)
  <1> DEFINE m == turns[t].msg
  <1>0. m \in Msg /\ attempts[m] \in Nat /\ pipeFaults \in Nat /\ m # NoMsg
    BY UnderwayHasMessage
  <1>1. StepOf(t)
    BY Marks DEF Closes, Catches, TaskStatus
  <1>2. /\ UNCHANGED <<structured, batched, reminder, floating, attempts, said>>
        /\ \/ Succeeds /\ Goes(t, next) /\ task'[t] = status
           \/ Fails(t) /\ Goes(t, orElse) /\ task'[t] = task[t] /\ t \in slips'.mark
    BY MarkComes
  <1>3. Pays(t)
    BY <1>0, <1>2 DEF Succeeds, Fails, Goes, Pays, Owes, Token, Closes
  <1>4. InPlace(t)'
    <2>0. IsSilent(t) => IsSilent(t)'
      BY <1>2 DEF IsSilent
    <2>1. CASE Succeeds /\ Goes(t, next) /\ task'[t] = status
      BY <1>0, <1>2, <2>0, <2>1 DEF Succeeds, Goes, InPlace, Closes, Confirmed, Running, Early
    <2>2. CASE Fails(t) /\ Goes(t, orElse) /\ task'[t] = task[t] /\ t \in slips'.mark
      BY <1>0, <1>2, <2>2 DEF Fails, Goes, InPlace, Catches, Confirmed, Running, Early
    <2> QED
      BY <1>2, <2>1, <2>2
  <1> QED
    BY <1>1, <1>3, <1>4 DEF CallSteps

LEMMA MarkAndFloatSteps ==
  ASSUME PipeTypeOK, NEW t \in TurnId, InPlace(t), turns[t].pc \in MaySend \cap Unheard, NEW orElse,
         turns[t].pc \in Running \ Confirmed, Catches(turns[t].pc, orElse), MarkAndFloat(t, orElse)
  PROVE  CallSteps(t)
  <1> DEFINE m == turns[t].msg
  <1>0. m \in Msg /\ attempts[m] \in Nat /\ pipeFaults \in Nat /\ m # NoMsg
    BY UnderwayHasMessage DEF Running
  <1>1. StepOf(t)
    BY MarksAndFloats DEF Catches
  <1>2. /\ UNCHANGED <<batched, reminder, attempts, said>>
        /\ \/ Succeeds /\ Goes(t, "ended") /\ task'[t] = "completed" /\ floating' = floating \cup {t}
           \/ /\ Fails(t) /\ Goes(t, orElse) /\ task'[t] = task[t] /\ floating' = floating
              /\ t \in slips'.mark
    BY MarkAndFloatComes
  <1>3. Pays(t)
    BY <1>0, <1>2 DEF Succeeds, Fails, Goes, Pays, Owes, Token, MaySend
  <1>4. InPlace(t)'
    <2>1. CASE Succeeds /\ Goes(t, "ended") /\ task'[t] = "completed"
      BY <1>0, <1>2, <2>1 DEF Succeeds, Goes, InPlace, Confirmed, Running, Early, Unheard, MaySend
    <2>2. CASE Fails(t) /\ Goes(t, orElse) /\ task'[t] = task[t] /\ floating' = floating
               /\ t \in slips'.mark
      BY <1>0, <1>2, <2>2 DEF Fails, Goes, InPlace, Catches, Confirmed, Running, Early
    <2> QED
      BY <1>2, <2>1, <2>2
  <1> QED
    BY <1>1, <1>3, <1>4 DEF CallSteps

LEMMA SendSteps ==
  ASSUME PipeTypeOK, NEW t \in TurnId, InPlace(t), turns[t].pc # "idle",
         NEW what, NEW next, NEW orElse,
         Answers(turns[t].pc, what, next), Catches(turns[t].pc, orElse), orElse # "ended",
         Send(t, what, next, orElse)
  PROVE  CallSteps(t)
  <1> DEFINE m == turns[t].msg
  <1>0. m \in Msg /\ attempts[m] \in Nat /\ pipeFaults \in Nat /\ m # NoMsg
    BY UnderwayHasMessage
  <1>1. StepOf(t)
    BY <1>0, Sends DEF Answers, Catches
  <1>2. /\ UNCHANGED <<task, batched, reminder, floating>>
        /\ \/ /\ Goes(t, next) /\ attempts'[m] = attempts[m] + 1
              /\ Succeeds \/ Fails(t)
              /\ said' \in {said, said \cup {<<t, what>>}, said \cup {<<t, "part">>}}
           \/ Fails(t) /\ Goes(t, orElse) /\ attempts' = attempts /\ said' = said
    BY <1>0, SendComes
  <1>3. Pays(t)
    BY <1>0, <1>2 DEF Succeeds, Fails, Goes, Pays, Owes, Token, Answers, Unheard, InPlace, Running
  <1>4. InPlace(t)'
    <2>1. CASE /\ Goes(t, next) /\ (Succeeds \/ Fails(t))
               /\ said' \in {said, said \cup {<<t, what>>}, said \cup {<<t, "part">>}}
      BY <1>0, <1>2, <2>1
         DEF Succeeds, Fails, Goes, InPlace, Answers, Confirmed, Running, Early, Unheard, MaySend
    <2>2. CASE Fails(t) /\ Goes(t, orElse) /\ said' = said
      BY <1>0, <1>2, <2>2 DEF Fails, Goes, InPlace, Catches, Confirmed, Running, Early
    <2> QED
      BY <1>2, <2>1, <2>2
  <1> QED
    BY <1>1, <1>3, <1>4 DEF CallSteps

-----------------------------------------------------------------------------
\* The steps of a call, action by action.
LEMMA GatesStep ==
  ASSUME PipeTypeOK, NEW t \in TurnId, InPlace(t), turns[t].pc # "idle",
         Retrieve(t) \/ AnswerRetrieval(t) \/ Safety(t) \/ Gate(t) \/ Route(t) \/ Intent(t)
  PROVE  CallSteps(t)
  <1> USE DEF At, Follows, Catches, Answers, Place, Running, Over, Confirmed, MaySend, Unheard, Early
  <1>1. CASE Retrieve(t)
    BY <1>1, DecideSteps DEF Retrieve
  <1>2. CASE AnswerRetrieval(t)
    BY <1>2, SendSteps DEF AnswerRetrieval, Said, WholeReplies
  <1>3. CASE Safety(t)
    <2>1. turns[t].pc = "safety" /\ (Decide(t, {"ended"}) \/ Decide(t, {"ended", "gate"}))
      BY <1>3 DEF Safety
    <2> QED
      BY <2>1, DecideSteps
  <1>4. CASE Gate(t)
    BY <1>4, AwaitSteps, DecideSteps DEF Gate
  <1>5. CASE Route(t)
    BY <1>5, DecideSteps DEF Route
  <1>6. CASE Intent(t)
    BY <1>6, DecideSteps DEF Intent
  <1> QED
    BY <1>1, <1>2, <1>3, <1>4, <1>5, <1>6

LEMMA FilesStep ==
  ASSUME PipeTypeOK, NEW t \in TurnId, InPlace(t), turns[t].pc # "idle",
         Refuse(t) \/ Apologise(t) \/ Image(t) \/ File(t) \/ Clarify(t)
  PROVE  CallSteps(t)
  <1> USE DEF At, Follows, Catches, Closes, Answers, Place, Running, Over, Confirmed, MaySend,
              Unheard, Early
  <1>1. CASE Refuse(t)
    BY <1>1, MarkSteps DEF Refuse
  <1>2. CASE Apologise(t)
    BY <1>2, MarkAndFloatSteps DEF Apologise
  <1>3. CASE Image(t)
    BY <1>3, DecideSteps, SendSteps, MarkSteps DEF Image, Said, WholeReplies
  <1>4. CASE File(t)
    BY <1>4, DecideSteps, SendSteps, MarkSteps, MarkAndFloatSteps DEF File, Said, WholeReplies
  <1>5. CASE Clarify(t)
    BY <1>5, MarkAndFloatSteps DEF Clarify
  <1> QED
    BY <1>1, <1>2, <1>3, <1>4, <1>5

LEMMA RulesStep ==
  ASSUME PipeTypeOK, NEW t \in TurnId, InPlace(t), turns[t].pc # "idle",
         Rules(t) \/ Hermes(t) \/ Caught(t)
  PROVE  CallSteps(t)
  <1> USE DEF At, Follows, Catches, Closes, Answers, Place, Running, Over, Confirmed, MaySend,
              Unheard, Early
  <1>1. CASE Rules(t)
    BY <1>1, DecideSteps, AwaitSteps, SendSteps, MarkSteps DEF Rules, Said, WholeReplies
  <1>2. CASE Hermes(t)
    BY <1>2, DecideSteps, MarkSteps DEF Hermes
  <1>3. CASE Caught(t)
    BY <1>3, DecideSteps, MarkSteps DEF Caught
  <1> QED
    BY <1>1, <1>2, <1>3

\* The row of the task, the batch, the rows of a reminder, and the answer have effects of their
\* own.
LEMMA CreateStep ==
  ASSUME PipeTypeOK, NEW t \in TurnId, InPlace(t), turns[t].pc # "idle", CreateTask(t)
  PROVE  CallSteps(t)
  <1> DEFINE m == turns[t].msg
  <1>0. m \in Msg /\ attempts[m] \in Nat /\ pipeFaults \in Nat /\ m # NoMsg
    BY UnderwayHasMessage
  <1>1. /\ turns \in [TurnId -> [pc : Place, msg : Msg \cup {NoMsg}, synthetic : BOOLEAN]]
        /\ task \in [TurnId -> TaskStatus]
        /\ {"route", "batch", "rejected"} \subseteq Place /\ "pending" \in TaskStatus
    BY DEF PipeTypeOK, Place, TaskStatus, Running, Over
  <1>2. /\ turns' \in [TurnId -> [pc : Place, msg : Msg \cup {NoMsg}, synthetic : BOOLEAN]]
        /\ turns'[t].msg = m /\ \A u \in TurnId \ {t} : turns'[u] = turns[u]
        /\ task' \in [TurnId -> TaskStatus] /\ \A u \in TurnId \ {t} : task'[u] = task[u]
    BY <1>1 DEF CreateTask, Choose, Goto
  <1>3. /\ slips' \in [any : SUBSET TurnId, mark : SUBSET TurnId]
        /\ pipeFaults' \in {pipeFaults, pipeFaults + 1} /\ pipeFaults' \in 0 .. MaxPipeFaults
        /\ \A u \in TurnId \ {t} : /\ u \in slips'.any <=> u \in slips.any
                                   /\ u \in slips'.mark <=> u \in slips.mark
    BY PipelineAssumption DEF PipeTypeOK, CreateTask, Fine, Fault
  <1>4. UNCHANGED <<structured, handled, batched, row, reminder, floating, attempts, said>>
    BY DEF CreateTask
  <1>5. PipeTypeOK'
    BY <1>2, <1>3, <1>4 DEF PipeTypeOK, Place, TaskStatus
  <1>6. StepOf(t)
    BY <1>2, <1>3, <1>4, <1>5 DEF StepOf
  <1>7. /\ turns[t].pc = "create"
        /\ \/ Succeeds /\ turns'[t].pc \in {"route", "batch"} /\ task'[t] = "pending"
           \/ Fails(t) /\ turns'[t].pc = "rejected" /\ task'[t] = task[t]
    BY DEF CreateTask, At, PipeTypeOK, Fine, Fault, Choose, Goto, Succeeds, Fails
  <1>8. Pays(t)
    BY <1>0, <1>4, <1>7 DEF Fails, Succeeds, Pays, Owes, Token, MaySend
  <1>9. InPlace(t)'
    BY <1>0, <1>2, <1>4, <1>7 DEF Fails, Succeeds, InPlace, IsSilent, Unheard, MaySend, Early, Confirmed
  <1> QED
    BY <1>6, <1>8, <1>9 DEF CallSteps

LEMMA BatchStep ==
  ASSUME PipeTypeOK, NEW t \in TurnId, InPlace(t), turns[t].pc # "idle", Batch(t)
  PROVE  CallSteps(t)
  <1> DEFINE m == turns[t].msg
  <1>0. m \in Msg /\ attempts[m] \in Nat /\ pipeFaults \in Nat /\ m # NoMsg
    BY UnderwayHasMessage
  <1>1. CASE At(t, "batchMark")
    BY <1>1, MarkSteps
       DEF Batch, At, Closes, Catches, Place, Running, Over, Confirmed, MaySend, Unheard, Early
  <1>2. CASE At(t, "batch")
    <2>1. /\ turns \in [TurnId -> [pc : Place, msg : Msg \cup {NoMsg}, synthetic : BOOLEAN]]
          /\ {"route", "batchMark"} \subseteq Place /\ batched \subseteq Msg
      BY DEF PipeTypeOK, Place, Running, Over
    <2>2. /\ turns' \in [TurnId -> [pc : Place, msg : Msg \cup {NoMsg}, synthetic : BOOLEAN]]
          /\ turns'[t].msg = m /\ \A u \in TurnId \ {t} : turns'[u] = turns[u]
      BY <1>2, <2>1 DEF Batch, At, Goto
    <2>3. batched' \in {batched, batched \cup {m}}
      BY <1>2 DEF Batch, At, MsgOf
    <2>4. /\ slips' \in [any : SUBSET TurnId, mark : SUBSET TurnId]
          /\ pipeFaults' \in {pipeFaults, pipeFaults + 1} /\ pipeFaults' \in 0 .. MaxPipeFaults
          /\ \A u \in TurnId \ {t} : /\ u \in slips'.any <=> u \in slips.any
                                     /\ u \in slips'.mark <=> u \in slips.mark
      BY <1>2, PipelineAssumption DEF PipeTypeOK, Batch, At, Fine, Fault
    <2>5. UNCHANGED <<structured, task, handled, row, reminder, floating, attempts, said>>
      BY <1>2 DEF Batch, At
    <2>6. PipeTypeOK'
      BY <1>0, <2>1, <2>2, <2>3, <2>4, <2>5 DEF PipeTypeOK, Place
    <2>7. StepOf(t)
      BY <2>2, <2>3, <2>4, <2>5, <2>6 DEF StepOf
    <2>8. \/ Succeeds /\ turns'[t].pc = "batchMark"
          \/ Fails(t) /\ turns'[t].pc = "route"
      BY <1>2 DEF Batch, At, PipeTypeOK, Fine, Fault, Goto, Succeeds, Fails
    <2>9. Pays(t)
      BY <1>0, <1>2, <2>3, <2>5, <2>8 DEF At, Fails, Succeeds, Pays, Owes, Token, MaySend, InPlace
    <2>10. InPlace(t)'
      BY <1>0, <1>2, <2>2, <2>5, <2>8
         DEF At, Fails, Succeeds, InPlace, IsSilent, Unheard, MaySend, Early, Confirmed
    <2> QED
      BY <2>7, <2>9, <2>10 DEF CallSteps
  <1> QED
    BY <1>1, <1>2 DEF Batch

LEMMA ReminderStep ==
  ASSUME PipeTypeOK, NEW t \in TurnId, InPlace(t), turns[t].pc # "idle", Reminder(t)
  PROVE  CallSteps(t)
  <1> DEFINE m == turns[t].msg
  <1>0. m \in Msg /\ attempts[m] \in Nat /\ pipeFaults \in Nat /\ m # NoMsg
    BY UnderwayHasMessage
  <1>1. CASE turns[t].pc \notin {"schedule", "job"}
    BY <1>1, SendSteps, MarkSteps
       DEF Reminder, At, Answers, Closes, Catches, Place, Running, Over, Confirmed, MaySend, Unheard,
           Early, Said, WholeReplies
  <1>2. CASE turns[t].pc \in {"schedule", "job"}
    <2>1. /\ turns \in [TurnId -> [pc : Place, msg : Msg \cup {NoMsg}, synthetic : BOOLEAN]]
          /\ {"job", "confirm", "deny"} \subseteq Place
          /\ reminder \in [TurnId -> {"none", "row", "queued"}]
      BY DEF PipeTypeOK, Place, Running, Over
    <2>2. /\ turns' \in [TurnId -> [pc : Place, msg : Msg \cup {NoMsg}, synthetic : BOOLEAN]]
          /\ turns'[t].msg = m /\ \A u \in TurnId \ {t} : turns'[u] = turns[u]
          /\ reminder' \in [TurnId -> {"none", "row", "queued"}]
          /\ \A u \in TurnId \ {t} : reminder'[u] = reminder[u]
      BY <1>2, <2>1 DEF Reminder, At, Goto
    <2>3. /\ slips' \in [any : SUBSET TurnId, mark : SUBSET TurnId]
          /\ pipeFaults' \in {pipeFaults, pipeFaults + 1} /\ pipeFaults' \in 0 .. MaxPipeFaults
          /\ \A u \in TurnId \ {t} : /\ u \in slips'.any <=> u \in slips.any
                                     /\ u \in slips'.mark <=> u \in slips.mark
      BY <1>2, PipelineAssumption DEF PipeTypeOK, Reminder, At, Fine, Fault
    <2>4. UNCHANGED <<structured, task, handled, batched, row, floating, attempts, said>>
      BY <1>2 DEF Reminder, At
    <2>5. PipeTypeOK'
      BY <2>2, <2>3, <2>4 DEF PipeTypeOK, Place
    <2>6. StepOf(t)
      BY <2>2, <2>3, <2>4, <2>5 DEF StepOf
    <2>7. \/ Succeeds /\ turns[t].pc = "schedule" /\ turns'[t].pc = "job"
          \/ Succeeds /\ turns'[t].pc = "confirm" /\ reminder'[t] = "queued"
          \/ Fails(t) /\ turns'[t].pc = "deny"
      BY <1>2 DEF Reminder, At, PipeTypeOK, Fine, Fault, Goto, Succeeds, Fails
    <2>8. Pays(t)
      BY <1>0, <1>2, <2>4, <2>7 DEF Fails, Succeeds, Pays, Owes, Token, MaySend, InPlace
    <2>9. InPlace(t)'
      BY <1>0, <1>2, <2>2, <2>4, <2>7
         DEF Fails, Succeeds, InPlace, IsSilent, Unheard, MaySend, Early, Confirmed
    <2> QED
      BY <2>6, <2>8, <2>9 DEF CallSteps
  <1> QED
    BY <1>1, <1>2

LEMMA AnswerStep ==
  ASSUME PipeTypeOK, NEW t \in TurnId, InPlace(t), turns[t].pc # "idle", Answer(t)
  PROVE  CallSteps(t)
  <1> DEFINE m == turns[t].msg
  <1>0. m \in Msg /\ attempts[m] \in Nat /\ pipeFaults \in Nat /\ m # NoMsg
    BY UnderwayHasMessage
  <1>1. CASE turns[t].pc # "answer"
    BY <1>1, MarkSteps
       DEF Answer, At, Closes, Catches, Place, Running, Over, Confirmed, MaySend, Unheard, Early
  <1>2. CASE turns[t].pc = "answer"
    <2>1. /\ turns \in [TurnId -> [pc : Place, msg : Msg \cup {NoMsg}, synthetic : BOOLEAN]]
          /\ {"answered", "unanswered", "caught"} \subseteq Place /\ "answer" \in Said
      BY DEF PipeTypeOK, Place, Running, Over, Said, WholeReplies
    <2>2. /\ turns' \in [TurnId -> [pc : Place, msg : Msg \cup {NoMsg}, synthetic : BOOLEAN]]
          /\ turns'[t].msg = m /\ \A u \in TurnId \ {t} : turns'[u] = turns[u]
      BY <1>2, <2>1 DEF Answer, At, Choose, Goto
    <2>3. \/ Sent(t, "answer") \/ SentInPart(t) \/ NotSent(t)
          \/ Fault(t) /\ UNCHANGED <<attempts, row, said>>
      BY <1>2 DEF Answer, At
    <2>4. /\ slips' \in [any : SUBSET TurnId, mark : SUBSET TurnId]
          /\ pipeFaults' \in {pipeFaults, pipeFaults + 1} /\ pipeFaults' \in 0 .. MaxPipeFaults
          /\ attempts' \in [Msg -> Nat] /\ row' \subseteq Msg /\ said' \subseteq TurnId \X Said
          /\ \A n \in Msg \ {m} : attempts'[n] = attempts[n]
          /\ \A u \in TurnId \ {t} :
                /\ u \in slips'.any <=> u \in slips.any
                /\ u \in slips'.mark <=> u \in slips.mark
                /\ \A w \in Said : <<u, w>> \in said' <=> <<u, w>> \in said
      BY <1>0, <2>1, <2>3, Sendings
    <2>5. UNCHANGED <<structured, task, handled, batched, reminder, floating>>
      BY <1>2 DEF Answer, At
    <2>6. PipeTypeOK'
      BY <2>2, <2>4, <2>5 DEF PipeTypeOK, Place, Said, WholeReplies
    <2>7. StepOf(t)
      BY <2>2, <2>4, <2>5, <2>6 DEF StepOf
    <2>8. \/ /\ Goes(t, "answered") /\ attempts'[m] = attempts[m] + 1
             /\ Succeeds \/ Fails(t)
             /\ said' \in {said, said \cup {<<t, "answer">>}}
          \/ /\ Goes(t, "unanswered") /\ attempts'[m] = attempts[m] + 1
             /\ Succeeds \/ Fails(t)
             /\ said' \in {said, said \cup {<<t, "part">>}} /\ ~structured
          \/ /\ turns'[t].pc \in {"answered", "unanswered"} /\ attempts'[m] = attempts[m] + 1
             /\ Succeeds /\ said' = said
          \/ Fails(t) /\ Goes(t, "caught") /\ attempts' = attempts /\ said' = said
      <3>1. CASE Sent(t, "answer") /\ Goto(t, "answered")
        BY <1>0, <3>1 DEF PipeTypeOK, Goto, Goes, Sent, MsgOf, Fine, Fault, Succeeds, Fails
      <3>4. CASE ~structured /\ SentInPart(t) /\ Goto(t, "unanswered")
        BY <1>0, <3>4
           DEF PipeTypeOK, Goto, Goes, SentInPart, Sent, MsgOf, Fine, Fault, Succeeds, Fails
      <3>2. CASE NotSent(t) /\ Choose(t, {"unanswered"} \cup IF structured THEN {} ELSE {"answered"})
        BY <1>0, <3>2 DEF PipeTypeOK, NotSent, Fine, Succeeds, MsgOf, Choose, Goto
      <3>3. CASE Fault(t) /\ Goto(t, "caught") /\ UNCHANGED <<attempts, row, said>>
        BY <3>3 DEF PipeTypeOK, Fault, Fails, Goto, Goes
      <3> QED
        BY <1>2, <3>1, <3>2, <3>3, <3>4 DEF Answer, At
    <2>9. Pays(t)
      BY <1>0, <1>2, <2>2, <2>5, <2>8 DEF Goes, Fails, Succeeds, Pays, Owes, Token, MaySend, InPlace
    <2>10. t \notin slips'.any /\ turns'[t].pc \in Unheard => IsSilent(t)'
      <3>1. turns'[t].pc \in {"unanswered", "caught"} \/ turns'[t].pc \notin Unheard
        BY <2>8 DEF Goes, Unheard, MaySend
      <3>2. t \notin slips'.any /\ turns'[t].pc = "unanswered" =>
              said' \in {said, said \cup {<<t, "part">>}} /\ (said' = said \/ ~structured)
        BY <2>8 DEF Goes
      <3>3. t \notin slips'.any => turns'[t].pc # "caught" /\ t \notin slips.any
        BY <2>8 DEF Goes, Fails, Succeeds
      <3>4. t \notin slips.any => IsSilent(t)
        BY <1>2 DEF InPlace, Unheard, MaySend
      <3>5. "part" \notin WholeReplies
        BY DEF WholeReplies
      <3> QED
        BY <2>5, <3>1, <3>2, <3>3, <3>4, <3>5 DEF IsSilent
    <2>11. InPlace(t)'
      <3>1. turns'[t].pc \in {"answered", "unanswered", "caught"} /\ turns'[t].msg = m
        BY <2>2, <2>8 DEF Goes
      <3>2. <<t, "confirm">> \notin said /\ <<t, "confirm">> \notin said'
        BY <1>2, <2>8 DEF InPlace, Confirmed
      <3>3. t \notin floating /\ task[t] # "failed"
        BY <1>2 DEF InPlace
      <3> QED
        BY <1>0, <2>5, <2>10, <3>1, <3>2, <3>3 DEF InPlace, Early
    <2> QED
      BY <2>7, <2>9, <2>11 DEF CallSteps
  <1> QED
    BY <1>1, <1>2

\* A send nobody awaits.
LEMMA FloatStep ==
  ASSUME PipeTypeOK, NEW t \in TurnId, InPlace(t), Float(t)
  PROVE  CallSteps(t)
  <1> DEFINE m == turns[t].msg
  <1>1. t \in floating /\ turns[t].pc = "ended" /\ task[t] = "completed"
    BY DEF Float, InPlace
  <1>2. m \in Msg /\ attempts[m] \in Nat /\ pipeFaults \in Nat /\ m # NoMsg
    BY <1>1, UnderwayHasMessage
  <1>3. UNCHANGED <<structured, turns, task, handled, batched, reminder>> /\ floating' = floating \ {t}
    BY DEF Float
  <1>4. Sent(t, "notice") \/ SentInPart(t) \/ NotSent(t)
    BY DEF Float
  <1>5. /\ slips' \in [any : SUBSET TurnId, mark : SUBSET TurnId]
        /\ pipeFaults' \in {pipeFaults, pipeFaults + 1} /\ pipeFaults' \in 0 .. MaxPipeFaults
        /\ attempts' \in [Msg -> Nat] /\ row' \subseteq Msg /\ said' \subseteq TurnId \X Said
        /\ \A n \in Msg \ {m} : attempts'[n] = attempts[n]
        /\ \A u \in TurnId \ {t} :
              /\ u \in slips'.any <=> u \in slips.any
              /\ u \in slips'.mark <=> u \in slips.mark
              /\ \A w \in Said : <<u, w>> \in said' <=> <<u, w>> \in said
    BY <1>2, <1>4, Sendings DEF Said, WholeReplies
  <1>6. PipeTypeOK'
    BY <1>3, <1>5 DEF PipeTypeOK, Said, WholeReplies
  <1>7. StepOf(t)
    BY <1>3, <1>5, <1>6 DEF StepOf
  <1>8. /\ attempts'[m] = attempts[m] + 1 /\ (Succeeds \/ Fails(t))
        /\ said' \in {said, said \cup {<<t, "notice">>}, said \cup {<<t, "part">>}}
    BY <1>2, <1>4, SentComes
  <1>9. Pays(t)
    BY <1>1, <1>2, <1>3, <1>8 DEF Fails, Succeeds, Pays, Owes, Token, MaySend
  <1>10. InPlace(t)'
    BY <1>1, <1>2, <1>3, <1>8 DEF Fails, Succeeds, InPlace, IsSilent, Unheard, MaySend, Early, Confirmed
  <1> QED
    BY <1>7, <1>9, <1>10 DEF CallSteps

\* Every step of a call is one of these, and a call that has not begun makes none.
LEMMA CallStep ==
  ASSUME PipeTypeOK, NEW t \in TurnId, InPlace(t), Advance(t) \/ Float(t)
  PROVE  CallSteps(t)
  <1>1. CASE Float(t)
    BY <1>1, FloatStep
  <1>2. CASE Advance(t)
    <2>1. turns[t].pc # "idle"
      BY <1>2
         DEF Advance, At, Retrieve, AnswerRetrieval, Safety, Gate, CreateTask, Batch, Route, Refuse,
             Apologise, Image, File, Intent, Clarify, Reminder, Rules, Hermes, Answer, Caught
    <2> QED
      BY <1>2, <2>1, GatesStep, FilesStep, RulesStep, CreateStep, BatchStep, ReminderStep, AnswerStep
         DEF Advance
  <1> QED
    BY <1>1, <1>2

-----------------------------------------------------------------------------
\* What the calls that rest do not notice.
LEMMA Bystanders ==
  ASSUME NEW t \in TurnId, StepOf(t), NEW u \in TurnId, u # t, InPlace(u)
  PROVE  InPlace(u)'
  BY DEF StepOf, InPlace, IsSilent, Said, WholeReplies

\* The account of one message.
Account(m) == attempts[m] + Token(m \notin handled) + Token(m \in batched)

\* An account that balances for the call that moves balances for all.
LEMMA Balance ==
  ASSUME NEW m \in Msg, NEW t, AnswersAreDue, PipeTypeOK, PipeTypeOK',
         Owing(m)' \ {t} = Owing(m) \ {t},
         Account(m)' + Token(t \in Owing(m)') + pipeFaults
           <= Account(m) + Token(t \in Owing(m)) + pipeFaults'
  PROVE  /\ IsFiniteSet(Owing(m)')
         /\ attempts'[m] + Cardinality(Owing(m)') + Token(m \notin handled') + Token(m \in batched')
              <= 1 + pipeFaults'
  <1> DEFINE S == Owing(m)
             T == Owing(m)'
             R == S \ {t}
  <1>1. IsFiniteSet(S) /\ Cardinality(S) \in Nat
    BY FS_CardinalityType DEF AnswersAreDue
  <1>2. IsFiniteSet(R) /\ Cardinality(R) \in Nat /\ Cardinality(S) = Cardinality(R) + Token(t \in S)
    <2>1. IsFiniteSet(R) /\ Cardinality(R) = IF t \in S THEN Cardinality(S) - 1 ELSE Cardinality(S)
      BY <1>1, FS_RemoveElement
    <2>2. Cardinality(R) \in Nat
      BY <2>1, FS_CardinalityType
    <2> QED
      BY <1>1, <2>1, <2>2 DEF Token
  <1>3. IsFiniteSet(T)
    <2>1. T \subseteq R \cup {t}
      OBVIOUS
    <2> QED
      BY <1>2, <2>1, FS_AddElement, FS_Subset
  <1>4. Cardinality(T) \in Nat /\ Cardinality(T) = Cardinality(R) + Token(t \in T)
    <2>1. T \ {t} = R
      OBVIOUS
    <2>2. Cardinality(R) = IF t \in T THEN Cardinality(T) - 1 ELSE Cardinality(T)
      BY <1>3, <2>1, FS_RemoveElement
    <2>3. Cardinality(T) \in Nat
      BY <1>3, FS_CardinalityType
    <2> QED
      BY <2>2, <2>3 DEF Token
  <1>5. /\ attempts[m] \in Nat /\ attempts'[m] \in Nat /\ pipeFaults \in Nat /\ pipeFaults' \in Nat
    BY PipelineAssumption DEF PipeTypeOK
  <1>6. attempts[m] + Cardinality(S) + Token(m \notin handled) + Token(m \in batched) <= 1 + pipeFaults
    BY DEF AnswersAreDue
  <1> HIDE DEF S, T, R
  <1>7. attempts'[m] + Cardinality(T) + Token(m \notin handled') + Token(m \in batched')
          <= 1 + pipeFaults'
    BY <1>2, <1>4, <1>5, <1>6 DEF S, T, Account, Token
  <1> QED
    BY <1>3, <1>7 DEF T

\* The account after the step of a call.
LEMMA StepsBalance ==
  ASSUME PipeInv, NEW t \in TurnId, CallSteps(t)
  PROVE  AnswersAreDue'
  <1> SUFFICES ASSUME NEW m \in Msg
               PROVE  /\ IsFiniteSet(Owing(m)')
                      /\ attempts'[m] + Cardinality(Owing(m)') + Token(m \notin handled')
                           + Token(m \in batched') <= 1 + pipeFaults'
    BY DEF AnswersAreDue
  <1>1. Owing(m)' \ {t} = Owing(m) \ {t}
    BY DEF CallSteps, StepOf, Owing, Owes
  <1>2. /\ attempts[m] \in Nat /\ attempts'[m] \in Nat /\ pipeFaults \in Nat
        /\ pipeFaults' \in {pipeFaults, pipeFaults + 1}
    BY PipelineAssumption DEF PipeTypeOK, PipeInv, CallSteps, StepOf
  <1>3. Account(m)' + Token(t \in Owing(m)') + pipeFaults
          <= Account(m) + Token(t \in Owing(m)) + pipeFaults'
    <2>1. CASE turns[t].msg = m
      BY <1>2, <2>1 DEF CallSteps, StepOf, Pays, Account, Token, Owing
    <2>2. CASE turns[t].msg # m
      BY <1>2, <2>2 DEF CallSteps, StepOf, Account, Token, Owing
    <2> QED
      BY <2>1, <2>2
  <1> QED
    BY <1>1, <1>3, Balance DEF PipeInv, CallSteps, StepOf

\* A call begins, for a message of the listener or of a batch.
Begins(t, m) ==
    /\ turns[t].pc = "idle" /\ turns'[t].pc \in {"retrieval", "safety"} /\ turns'[t].msg = m
    /\ \A u \in TurnId \ {t} : turns'[u] = turns[u]
    /\ UNCHANGED <<structured, task, row, reminder, floating, attempts, said, slips, pipeFaults>>
    /\ \/ m \notin handled /\ handled' = handled \cup {m} /\ batched' = batched
       \/ m \in batched /\ batched' = batched \ {m} /\ handled' = handled

LEMMA BeginStep ==
  ASSUME PipeInv, NEW t \in TurnId, NEW m \in Msg, Handle(t, m) \/ HandleBatch(t, m)
  PROVE  PipeInv'
  <1>1. /\ turns \in [TurnId -> [pc : Place, msg : Msg \cup {NoMsg}, synthetic : BOOLEAN]]
        /\ attempts \in [Msg -> Nat] /\ pipeFaults \in Nat /\ m # NoMsg
        /\ {"retrieval", "safety"} \subseteq Place
    BY PipelineAssumption DEF PipeInv, PipeTypeOK, Place, Running, Over
  <1>2. /\ turns' \in [TurnId -> [pc : Place, msg : Msg \cup {NoMsg}, synthetic : BOOLEAN]]
        /\ Begins(t, m)
    <2>1. PICK pc \in {"retrieval", "safety"}, batch \in BOOLEAN :
             turns' = [turns EXCEPT ![t] = [pc |-> pc, msg |-> m, synthetic |-> batch]]
      BY DEF Handle, HandleBatch
    <2>2. turns' \in [TurnId -> [pc : Place, msg : Msg \cup {NoMsg}, synthetic : BOOLEAN]]
      BY <1>1, <2>1
    <2>3. /\ turns'[t].pc \in {"retrieval", "safety"} /\ turns'[t].msg = m
          /\ \A u \in TurnId \ {t} : turns'[u] = turns[u]
      BY <1>1, <2>1
    <2> QED
      BY <2>2, <2>3 DEF Handle, HandleBatch, At, Begins
  <1>3. PipeTypeOK'
    BY <1>2 DEF PipeInv, PipeTypeOK, Begins, Place
  <1>4. \A u \in TurnId : InPlace(u)'
    <2>1. ASSUME NEW u \in TurnId, u # t PROVE InPlace(u)'
      BY <1>2, <2>1 DEF Begins, PipeInv, InPlace, IsSilent, Said, WholeReplies
    <2>2. InPlace(t)'
      <3>1. InPlace(t)
        BY DEF PipeInv
      <3> QED
        BY <1>1, <1>2, <3>1 DEF Begins, InPlace, IsSilent, Unheard, MaySend, Early, Confirmed
    <2> QED
      BY <2>1, <2>2
  <1>5. AnswersAreDue'
    <2> SUFFICES ASSUME NEW n \in Msg
                 PROVE  /\ IsFiniteSet(Owing(n)')
                        /\ attempts'[n] + Cardinality(Owing(n)') + Token(n \notin handled')
                             + Token(n \in batched') <= 1 + pipeFaults'
      BY DEF AnswersAreDue
    <2>1. Owing(n)' \ {t} = Owing(n) \ {t}
      BY <1>2 DEF Begins, Owing, Owes
    <2>2. /\ t \notin Owing(n) /\ (t \in Owing(n)' => n = m)
          /\ pipeFaults' = pipeFaults /\ attempts'[n] = attempts[n]
      <3>1. InPlace(t)
        BY DEF PipeInv
      <3> QED
        BY <1>2, <3>1, PipelineAssumption DEF Begins, Owing, InPlace
    <2>3. Account(n)' + Token(t \in Owing(n)') + pipeFaults
            <= Account(n) + Token(t \in Owing(n)) + pipeFaults'
      <3>1. /\ n = m => Token(n \notin handled') + Token(n \in batched') + 1
                          <= Token(n \notin handled) + Token(n \in batched)
            /\ n # m => (n \in handled' <=> n \in handled) /\ (n \in batched' <=> n \in batched)
        BY <1>2 DEF Begins, Token
      <3>2. attempts[n] \in Nat /\ pipeFaults \in Nat
        BY <1>1
      <3> QED
        BY <2>2, <3>1, <3>2 DEF Account, Token
    <2> QED
      BY <1>3, <2>1, <2>3, Balance DEF PipeInv
  <1> QED
    BY <1>3, <1>4, <1>5 DEF PipeInv

\* The process dies: nobody owes anything any more.
LEMMA CrashStep ==
  ASSUME PipeInv, PipeCrash
  PROVE  PipeInv'
  <1>1. /\ turns \in [TurnId -> [pc : Place, msg : Msg \cup {NoMsg}, synthetic : BOOLEAN]]
        /\ "dead" \in Place /\ pipeFaults \in 0 .. MaxPipeFaults
    BY DEF PipeInv, PipeTypeOK, Place
  <1>2. /\ turns' \in [TurnId -> [pc : Place, msg : Msg \cup {NoMsg}, synthetic : BOOLEAN]]
        /\ pipeFaults' = pipeFaults + 1 /\ pipeFaults' \in 0 .. MaxPipeFaults /\ floating' = {}
        /\ UNCHANGED <<structured, task, handled, batched, row, reminder, attempts, said, slips>>
    BY <1>1, PipelineAssumption DEF PipeCrash
  <1>3. \A t \in TurnId : /\ turns'[t].msg = turns[t].msg
                          /\ IF turns[t].pc \in Running THEN turns'[t].pc = "dead"
                             ELSE turns'[t].pc = turns[t].pc
    BY <1>1 DEF PipeCrash
  <1>4. PipeTypeOK'
    BY <1>2 DEF PipeInv, PipeTypeOK, Place
  <1>5. ASSUME NEW t \in TurnId PROVE InPlace(t)'
    <2>1. InPlace(t)
      BY DEF PipeInv
    <2>2. CASE turns[t].pc \in Running
      BY <1>2, <1>3, <2>1, <2>2
         DEF InPlace, IsSilent, Unheard, MaySend, Early, Confirmed, Running
    <2>3. CASE turns[t].pc \notin Running
      BY <1>2, <1>3, <2>1, <2>3 DEF InPlace, IsSilent
    <2> QED
      BY <2>2, <2>3
  <1>6. AnswersAreDue'
    <2> SUFFICES ASSUME NEW m \in Msg
                 PROVE  /\ IsFiniteSet(Owing(m)')
                        /\ attempts'[m] + Cardinality(Owing(m)') + Token(m \notin handled')
                             + Token(m \in batched') <= 1 + pipeFaults'
      BY DEF AnswersAreDue
    <2>1. Owing(m)' = {}
      <3>1. MaySend \subseteq Running /\ "dead" \notin MaySend
        BY DEF MaySend, Running
      <3> QED
        BY <1>2, <1>3, <3>1 DEF Owing, Owes
    <2>2. IsFiniteSet(Owing(m)') /\ Cardinality(Owing(m)') = 0
      BY <2>1, FS_EmptySet
    <2>3. Cardinality(Owing(m)) \in Nat
      BY FS_CardinalityType DEF PipeInv, AnswersAreDue
    <2>4. attempts[m] \in Nat
      BY DEF PipeInv, PipeTypeOK
    <2>5. attempts[m] + Cardinality(Owing(m)) + Token(m \notin handled) + Token(m \in batched)
            <= 1 + pipeFaults
      BY DEF PipeInv, AnswersAreDue
    <2> QED
      BY <1>1, <1>2, <2>2, <2>3, <2>4, <2>5 DEF Token
  <1> QED
    BY <1>4, <1>5, <1>6 DEF PipeInv

\* Every message is still to come.
LEMMA PipeInitHolds == PipeInit => PipeInv
  <1> SUFFICES ASSUME PipeInit PROVE PipeInv
    OBVIOUS
  <1>1. PipeTypeOK
    BY PipelineAssumption DEF PipeInit, PipeTypeOK
  <1>2. \A t \in TurnId : InPlace(t)
    BY DEF PipeInit, InPlace, IsSilent, Early, Unheard, Confirmed
  <1>3. AnswersAreDue
    <2> SUFFICES ASSUME NEW m \in Msg
                 PROVE  /\ IsFiniteSet(Owing(m))
                        /\ attempts[m] + Cardinality(Owing(m)) + Token(m \notin handled)
                             + Token(m \in batched) <= 1 + pipeFaults
      BY DEF AnswersAreDue
    <2>1. Owing(m) = {}
      BY DEF PipeInit, Owing, Owes, MaySend
    <2>2. IsFiniteSet(Owing(m)) /\ Cardinality(Owing(m)) = 0
      BY <2>1, FS_EmptySet
    <2> QED
      BY <2>2 DEF PipeInit, Token
  <1> QED
    BY <1>1, <1>2, <1>3 DEF PipeInv

\* The inductive invariant of Pipeline.
THEOREM PipeInvariant == PipeSpec => []PipeInv
  <1>1. PipeInv /\ [PipeNext]_pipeVars => PipeInv'
    <2> SUFFICES ASSUME PipeInv, [PipeNext]_pipeVars PROVE PipeInv'
      OBVIOUS
    <2>1. CASE UNCHANGED pipeVars
      BY <2>1 DEF pipeVars, PipeInv, PipeTypeOK, AnswersAreDue, Owing, Owes, InPlace, IsSilent
    <2>2. ASSUME NEW t \in TurnId, NEW m \in Msg, Handle(t, m) \/ HandleBatch(t, m)
          PROVE  PipeInv'
      BY <2>2, BeginStep
    <2>3. ASSUME NEW t \in TurnId, Advance(t) \/ Float(t)
          PROVE  PipeInv'
      <3>1. CallSteps(t)
        BY <2>3, CallStep DEF PipeInv
      <3>2. \A u \in TurnId : InPlace(u)'
        BY <3>1, Bystanders DEF PipeInv, CallSteps
      <3> QED
        BY <3>1, <3>2, StepsBalance DEF PipeInv, CallSteps, StepOf
    <2>4. CASE PipeCrash
      BY <2>4, CrashStep
    <2> QED
      BY <2>1, <2>2, <2>3, <2>4 DEF PipeNext
  <1> QED
    BY <1>1, PipeInitHolds, PTL DEF PipeSpec

\* What the invariant says of answers and tasks.
LEMMA TurnsFollow == PipeInv => TurnsAreTrue
  <1> SUFFICES ASSUME PipeInv PROVE TurnsAreTrue
    OBVIOUS
  <1>1. OnePathAnswers
    <2> SUFFICES ASSUME NEW m \in Msg PROVE attempts[m] <= 1 + pipeFaults
      BY DEF OnePathAnswers
    <2>1. Cardinality(Owing(m)) \in Nat
      BY FS_CardinalityType DEF PipeInv, AnswersAreDue
    <2>2. attempts[m] \in Nat /\ pipeFaults \in Nat
      BY PipelineAssumption DEF PipeInv, PipeTypeOK
    <2>3. attempts[m] + Cardinality(Owing(m)) + Token(m \notin handled) + Token(m \in batched)
            <= 1 + pipeFaults
      BY DEF PipeInv, AnswersAreDue
    <2> QED
      BY <2>1, <2>2, <2>3 DEF Token
  <1>2. ConfirmedReminderIsQueued
    BY DEF PipeInv, InPlace, ConfirmedReminderIsQueued
  <1>3. ReturnedMeansSettled
    BY DEF PipeInv, InPlace, ReturnedMeansSettled
  <1>4. FailedTaskToldNoWhole
    BY DEF PipeInv, InPlace, FailedTaskToldNoWhole, IsSilent
  <1> QED
    BY <1>1, <1>2, <1>3, <1>4 DEF TurnsAreTrue, RepliesAreTrue, TaskTellsOutcome

\* For any number of messages, calls and failures: a message is sent one answer and one more
\* for each failure at most, a confirmed reminder has its schedule and its job, and a task
\* that is closed says what became of its call (handleIncomingMessage).
THEOREM TurnsTrue == PipeSpec => []TurnsAreTrue
  BY PipeInvariant, TurnsFollow, PTL
=============================================================================
