------------------------------- MODULE Dialogue -------------------------------
(***************************************************************************)
(* What a turn of the chat knows when Hermes answers it: the question the  *)
(* bot has pending (services/thread-conversation-state.service.ts), the    *)
(* history (conversation-context.service.ts), the reminders of the thread  *)
(* (fetchScheduleContext of incoming-dispatcher.service.ts), and what of   *)
(* these the provider is handed (hermes-chat-adapter.ts, agent-bridge.ts); *)
(* and the question its reply leaves behind.                               *)
(*                                                                         *)
(* One thread.  A turn is a message that reaches Hermes.  Messages are     *)
(* their place in the history, a question the turn that posed it; the      *)
(* thread has one schedule, of which the worker tells one run.  The        *)
(* dispatcher also makes a text of the question and of the messages        *)
(* without prompt markers (fullContext): nobody reads it, and it is left   *)
(* out.                                                                    *)
(***************************************************************************)
EXTENDS Naturals, FiniteSets

CONSTANTS
    Asking,           \* messages that reach Hermes
    NoAsking,
    ContextLimit,   \* DEFAULT_CONTEXT_MESSAGES
    PromptLimit,    \* the messages of these that fit the prompt of the command line
    StateTtl,       \* STATE_TTL_MS
    ClarifyTtl,     \* ttlMs of a question for clarification
    MaxTime         \* bound on the clock

ASSUME DialogueAssumption ==
    /\ NoAsking \notin Asking
    /\ ContextLimit \in Nat \ {0} /\ PromptLimit \in Nat \ {0}
    /\ StateTtl \in Nat /\ ClarifyTtl \in Nat /\ MaxTime \in Nat

VARIABLES
    provider,     \* who generates replies: config.hermesAgentBridge, config.hermesChat
    clock,
    history,      \* how many messages the thread has
    pending,      \* the row of ThreadConversationState
    schedule,     \* the thread's schedule, and how its run ended
    dialog,       \* the turns
    setting,      \* questions whose row is still to be written, which nobody awaits
    lastPosed,    \* the turn whose reply was the last question: history
    slipped       \* turns overlapped, or a write failed: history

dialogVars == <<provider, clock, history, pending, schedule, dialog, setting, lastPosed, slipped>>

Provider == {"bridge", "http", "cli", "mock"}

NoQuestion == [by |-> NoAsking, until |-> 0]
QuietTurn == [pc |-> "idle", own |-> 0, given |-> NoAsking, loaded |-> 0, seen |-> {},
              told |-> "unasked", stood |-> FALSE]

DialogInit ==
    /\ provider \in Provider
    /\ clock = 0
    /\ history = 0
    /\ pending = NoQuestion
    /\ schedule = [status |-> "absent", run |-> "none"]
    /\ dialog = [t \in Asking |-> QuietTurn]
    /\ setting = [t \in Asking |-> "none"]
    /\ lastPosed = NoAsking
    /\ slipped = FALSE

Underway(t) == dialog[t].pc \notin {"idle", "ended"} \/ setting[t] # "none"
Step(t, pc) == dialog' = [dialog EXCEPT ![t].pc = pc]

-----------------------------------------------------------------------------
\* The question that is pending.

\* The listener has stored the message before the turn begins.
Hear(t) ==
    /\ dialog[t].pc = "idle"
    /\ history' = history + 1
    /\ dialog' = [dialog EXCEPT ![t].pc = "load", ![t].own = history + 1]
    /\ slipped' = (slipped \/ \E u \in Asking : Underway(u))
    /\ UNCHANGED <<provider, clock, pending, schedule, setting, lastPosed>>

\* getConversationState: no row, one that is still good, or one to delete first.
getConversationState(t) ==
    /\ dialog[t].pc = "load"
    /\ dialog' = [dialog EXCEPT
           ![t].pc = IF pending # NoQuestion /\ pending.until < clock THEN "clear" ELSE "context",
           ![t].given = IF pending # NoQuestion /\ pending.until >= clock THEN pending.by ELSE NoAsking]
    /\ UNCHANGED <<provider, clock, history, pending, schedule, setting, lastPosed, slipped>>

\* clearConversationState deletes the row of the thread, whichever it is by now.
clearConversationState(t) ==
    /\ dialog[t].pc = "clear"
    /\ pending' = NoQuestion
    /\ Step(t, "context")
    /\ UNCHANGED <<provider, clock, history, schedule, setting, lastPosed, slipped>>

\* The operator deletes the row.
Forget ==
    /\ pending # NoQuestion
    /\ pending' = NoQuestion
    /\ UNCHANGED <<provider, clock, history, schedule, dialog, setting, lastPosed, slipped>>

-----------------------------------------------------------------------------
\* The history, and the reminders.

\* buildConversationContext takes the first messages of the thread, this many of them.
Recent == IF history < ContextLimit THEN history ELSE ContextLimit

\* fetchScheduleContext is asked when the message is about reminders.
buildConversationContext(t) ==
    /\ dialog[t].pc = "context"
    /\ \E pc \in {"readSent", "reply"} :
           dialog' = [dialog EXCEPT ![t].pc = pc, ![t].loaded = Recent,
                                    ![t].stood = pc = "readSent" /\ schedule.status = "scheduled"]
    /\ UNCHANGED <<provider, clock, history, pending, schedule, setting, lastPosed, slipped>>

See(t, pc, hit, what, next) ==
    /\ dialog[t].pc = pc
    /\ dialog' = [dialog EXCEPT ![t].pc = next, ![t].seen = IF hit THEN @ \cup {what} ELSE @]
    /\ UNCHANGED <<provider, clock, history, pending, schedule, setting, lastPosed, slipped>>

\* A schedule is listed by its status, which a run leaves as it is.
ListsSchedule == schedule.status = "scheduled"

\* The three reads, one after the other, and what Hermes may be told of them; an error
\* of any of them says that the reminders cannot be looked up.
fetchScheduleContext(t) ==
    \/ See(t, "readSent", schedule.run = "success", "sent", "readFailed")
    \/ See(t, "readFailed", schedule.run = "failed", "failed", "readPlanned")
    \/ See(t, "readPlanned", ListsSchedule, "planned", "summary")
    \/ /\ dialog[t].pc = "summary"
       /\ dialog' = [dialog EXCEPT ![t].pc = "reply", ![t].seen = {},
                                   ![t].told = IF dialog[t].seen = {} THEN "none" ELSE "data"]
       /\ UNCHANGED <<provider, clock, history, pending, schedule, setting, lastPosed, slipped>>
    \/ /\ dialog[t].pc \in {"readSent", "readFailed", "readPlanned"}
       /\ dialog' = [dialog EXCEPT ![t].pc = "reply", ![t].seen = {}, ![t].told = "unknown"]
       /\ UNCHANGED <<provider, clock, history, pending, schedule, setting, lastPosed, slipped>>

-----------------------------------------------------------------------------
\* The reply.

\* What generateReply hands over of the messages: all that were loaded, the last of them
\* where they go into a prompt, nothing for the mock.
MessagesTold(t) ==
    CASE provider = "mock" -> {}
      [] provider = "cli" -> {i \in 1 .. dialog[t].loaded : dialog[t].loaded < i + PromptLimit}
      [] OTHER -> 1 .. dialog[t].loaded

\* And of the reminders: the bridge hands them over; the request over HTTP has no place for
\* them, and the prompt only when there are no messages, since their heading hides the
\* place where the reminders would go.
RemindersTold(t) ==
    IF provider = "bridge" \/ (provider = "cli" /\ MessagesTold(t) = {})
    THEN dialog[t].told ELSE "unasked"

\* There is no reply; or there is one and sendOutbound is asked to send it.  It stores the
\* reply before it sends it, unless it refuses to or the row fails.  A reply that could not
\* be sent ends the turn of the bridge; in text mode detectAndSetConversationState, which
\* nobody awaits, looks for a question in it all the same.
Reply(t) ==
    /\ dialog[t].pc = "reply"
    /\ dialog' = [dialog EXCEPT ![t] = [QuietTurn EXCEPT !.pc = "ended"]]
    /\ \/ UNCHANGED <<history, setting, lastPosed>>
       \/ \E question \in {"none", "weather_location", "awaiting_clarification"},
             stored, success \in BOOLEAN :
              /\ history' = IF stored THEN history + 1 ELSE history
              /\ IF provider = "bridge" /\ ~success
                 THEN UNCHANGED <<setting, lastPosed>>
                 ELSE /\ setting' = [setting EXCEPT ![t] = question]
                      /\ lastPosed' = IF question = "none" THEN lastPosed ELSE t
    /\ UNCHANGED <<provider, clock, pending, schedule, slipped>>

Ttl(question) == IF question = "weather_location" THEN StateTtl ELSE ClarifyTtl

\* A plausible defect: the row of a thread is only ever created.
UpsertOnce(t) ==
    IF pending = NoQuestion THEN [by |-> t, until |-> clock + Ttl(setting[t])] ELSE pending

\* setConversationState: one row a thread, that of the question written last.
Upsert(t) == [by |-> t, until |-> clock + Ttl(setting[t])]

\* The write lands, or its error is swallowed.
detectAndSetConversationState(t) ==
    /\ setting[t] # "none"
    /\ setting' = [setting EXCEPT ![t] = "none"]
    /\ \/ pending' = Upsert(t) /\ UNCHANGED slipped
       \/ slipped' = TRUE /\ pending' = pending
    /\ UNCHANGED <<provider, clock, history, schedule, dialog, lastPosed>>

-----------------------------------------------------------------------------
\* The scheduler and the clock.

\* The thread gets its schedule, and a run of it succeeds or fails, which leaves the
\* schedule as it is; or it is cancelled.
ScheduleMoves ==
    /\ \/ schedule.status = "absent" /\ schedule' = [schedule EXCEPT !.status = "scheduled"]
       \/ /\ schedule.status = "scheduled" /\ schedule.run = "none"
          /\ \E run \in {"success", "failed"} : schedule' = [schedule EXCEPT !.run = run]
       \/ schedule.status = "scheduled" /\ schedule' = [schedule EXCEPT !.status = "cancelled"]
    /\ dialog' = [t \in Asking |-> [dialog[t] EXCEPT !.stood = @ /\ schedule'.status = "scheduled"]]
    /\ UNCHANGED <<provider, clock, history, pending, setting, lastPosed, slipped>>

DialogTick ==
    /\ clock < MaxTime
    /\ clock' = clock + 1
    /\ UNCHANGED <<provider, history, pending, schedule, dialog, setting, lastPosed, slipped>>

DialogNext ==
    \/ \E t \in Asking :
           \/ Hear(t) \/ getConversationState(t) \/ clearConversationState(t)
           \/ buildConversationContext(t) \/ fetchScheduleContext(t)
           \/ Reply(t) \/ detectAndSetConversationState(t)
    \/ Forget \/ ScheduleMoves \/ DialogTick

DialogSpec == DialogInit /\ [][DialogNext]_dialogVars

-----------------------------------------------------------------------------
\* Properties.

TurnState ==
    [pc : {"idle", "load", "clear", "context", "readSent", "readFailed", "readPlanned",
           "summary", "reply", "ended"},
     own : Nat, given : Asking \cup {NoAsking}, loaded : 0 .. ContextLimit,
     seen : SUBSET {"sent", "failed", "planned"},
     told : {"unasked", "none", "data", "unknown"}, stood : BOOLEAN]
Question == {"none", "weather_location", "awaiting_clarification"}

\* The state has its type.
DialogTypeOK ==
    /\ provider \in Provider
    /\ clock \in 0 .. MaxTime
    /\ history \in Nat
    /\ pending \in [by : Asking \cup {NoAsking}, until : Nat]
    /\ schedule \in [status : {"absent", "scheduled", "cancelled"}, run : {"none", "success", "failed"}]
    /\ dialog \in [Asking -> TurnState]
    /\ setting \in [Asking -> Question]
    /\ lastPosed \in Asking \cup {NoAsking}
    /\ slipped \in BOOLEAN

\* As long as turns do not overlap and no write fails, the pending question, and the one
\* that keeps a turn from the reminder parsers, is the last one a reply posed, one that
\* could not be sent in text mode included (getConversationState, setConversationState, a
\* write nobody awaits).
LastQuestionStands ==
    ~slipped =>
        /\ pending # NoQuestion /\ (\A t \in Asking : setting[t] = "none") => pending.by = lastPosed
        /\ \A t \in Asking : dialog[t].given # NoAsking => dialog[t].given = lastPosed

\* Hermes is told that there is no reminder only when none stood all the while
\* (fetchScheduleContext, three reads that are no snapshot, and the adapters).
NoneMeansNone == \A t \in Asking : RemindersTold(t) = "none" => ~dialog[t].stood

\* The message a turn answers is among those Hermes is handed as long as the thread was no
\* longer than the limit, and not from then on; for the prompt of the command line, unless
\* turns overlapped (buildConversationContext, generateReply).
OwnMessageIsTold ==
    \A t \in Asking :
        dialog[t].pc = "reply" /\ provider # "mock" /\ (provider = "cli" => ~slipped) =>
            (dialog[t].own \in MessagesTold(t) <=> dialog[t].own <= ContextLimit)

\* What a turn and Hermes are told of the chat is so (the dispatcher's state, context and
\* reminders).
HermesIsToldTheTruth == LastQuestionStands /\ NoneMeansNone /\ OwnMessageIsTold

\* The history a turn loads is the recent one: with no other turn underway the last message
\* is part of it ("Load recent conversation messages for a thread",
\* buildConversationContext).
ContextIsRecent ==
    \A t \in Asking : dialog[t].pc = "reply" /\ history > 0 /\ (\A u \in Asking \ {t} : ~Underway(u)) =>
        history \in 1 .. dialog[t].loaded
=============================================================================
