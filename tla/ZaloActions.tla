------------------------------ MODULE ZaloActions ------------------------------
(***************************************************************************)
(* Reactions and polls: the listener's auto-react                          *)
(* (services/zalo-reaction.service.ts), POST /zalo/poll                    *)
(* (services/zalo-poll.service.ts) and the one path both take to Zalo      *)
(* (services/zalo-provider/governed-action.ts).                            *)
(*                                                                         *)
(* Each inbound reaction is a coroutine: it reads the settings of its      *)
(* thread, the reply window and the cooldown, reads the settings again,    *)
(* and asks whether the thread is live only when all of that has passed.   *)
(* The cooldown is set after the reaction was sent and recorded.  All of it*)
(* is about one thread, whose settings, window, session and connection are *)
(* written by others and read as anything; the records are told apart by   *)
(* their key, made of the action, the thread, the message and the payload, *)
(* and it is unique.                                                       *)
(***************************************************************************)
EXTENDS Naturals, FiniteSets

CONSTANTS
    Handler,         \* coroutines of reactions and polls, reused
    ActionKey,       \* idempotency keys
    Poll,            \* those that are of polls
    MaxActionFaults  \* bound on the failed record writes and the crashes

ASSUME ActionAssumption ==
    IsFiniteSet(Handler) /\ Poll \subseteq ActionKey /\ MaxActionFaults \in Nat

VARIABLES
    handler,   \* the coroutines
    cooling,   \* isReactionCooldown
    reactions, \* reactions sent since the cooldown was last lifted
    record,    \* ZaloActionRecord by key
    actionLog, \* what happened to the keys: history
    actionFaults

actionVars == <<handler, cooling, reactions, record, actionLog, actionFaults>>

HandlerRecord ==
    [pc : {"idle", "settings", "again", "decide", "perform", "record", "touch"},
     key : ActionKey \cup {"none"}, outcome : {"none", "dry_run", "blocked", "live_sent", "failed"}]
IdleHandler == [pc |-> "idle", key |-> "none", outcome |-> "none"]

ActionInit ==
    /\ handler = [h \in Handler |-> IdleHandler]
    /\ cooling = FALSE
    /\ reactions = 0
    /\ record = [k \in ActionKey |-> "none"]
    /\ actionLog = [sent |-> {}, unwritten |-> {}, crashes |-> 0]
    /\ actionFaults = 0

Reacts(h) == handler[h].key \notin Poll
HandlerGoes(h, pc) == handler' = [handler EXCEPT ![h].pc = pc]
Drop(h) == handler' = [handler EXCEPT ![h] = IdleHandler]

-----------------------------------------------------------------------------
\* cooldownSeconds pass after the touch.
CooldownLifts ==
    /\ cooling
    /\ cooling' = FALSE /\ reactions' = 0
    /\ UNCHANGED <<handler, record, actionLog, actionFaults>>

\* handleIncomingReaction for a reaction that is not the bot's own, in an allowed thread.
Reaction(h, k) ==
    /\ handler[h].pc = "idle" /\ k \notin Poll
    /\ handler' = [handler EXCEPT ![h] = [IdleHandler EXCEPT !.pc = "settings", !.key = k]]
    /\ UNCHANGED <<cooling, reactions, record, actionLog, actionFaults>>

\* createPollInGroup: no gates, straight to the governed path.
PollRequest(h, k) ==
    /\ handler[h].pc = "idle" /\ k \in Poll
    /\ handler' = [handler EXCEPT ![h] = [IdleHandler EXCEPT !.pc = "decide", !.key = k]]
    /\ UNCHANGED <<cooling, reactions, record, actionLog, actionFaults>>

\* The group's settings arrive; its window and the cooldown are read in the same step,
\* and any of them ends it.
GateRead(h) ==
    /\ handler[h].pc = "settings"
    /\ (~cooling /\ HandlerGoes(h, "again")) \/ Drop(h)
    /\ UNCHANGED <<cooling, reactions, record, actionLog, actionFaults>>

\* The settings arrive once more, or an error that does not matter; the cooldown is not
\* read again.
GateAgain(h) ==
    /\ handler[h].pc = "again"
    /\ \/ HandlerGoes(h, "decide")
       \/ Drop(h)
    /\ UNCHANGED <<cooling, reactions, record, actionLog, actionFaults>>

\* performGovernedZaloAction: dry run unless the thread's session is live, blocked unless
\* the provider is connected.
DecideAction(h) ==
    /\ handler[h].pc = "decide"
    /\ \/ \E out \in {"dry_run", "blocked"} :
             handler' = [handler EXCEPT ![h].pc = "record", ![h].outcome = out]
       \/ HandlerGoes(h, "perform")
    /\ UNCHANGED <<cooling, reactions, record, actionLog, actionFaults>>

\* addReaction or createPoll: Zalo takes it, or it fails.
Perform(h, ok) ==
    /\ handler[h].pc = "perform"
    /\ handler' = [handler EXCEPT ![h].pc = "record", ![h].outcome = IF ok THEN "live_sent" ELSE "failed"]
    /\ reactions' = IF ok /\ Reacts(h) THEN reactions + 1 ELSE reactions
    /\ actionLog' = IF ok THEN [actionLog EXCEPT !.sent = @ \cup {handler[h].key}] ELSE actionLog
    /\ UNCHANGED <<cooling, record, actionFaults>>

\* A plausible defect: a reaction that was sent is recorded only when the send is the first.
RecordActionFailed(h) ==
    /\ handler[h].pc = "record"
    /\ LET k == handler[h].key
       IN record' = IF record[k] = "none" /\ handler[h].outcome # "live_sent"
                    THEN [record EXCEPT ![k] = handler[h].outcome] ELSE record
    /\ IF handler[h].outcome = "live_sent" /\ Reacts(h) THEN HandlerGoes(h, "touch") ELSE Drop(h)
    /\ UNCHANGED <<cooling, reactions, actionLog, actionFaults>>

\* writeZaloAction: an error, a second row of the key too, is swallowed.
RecordAction(h) ==
    /\ handler[h].pc = "record"
    /\ LET k == handler[h].key
       IN \/ /\ record' = IF record[k] = "none" THEN [record EXCEPT ![k] = handler[h].outcome] ELSE record
             /\ UNCHANGED <<actionLog, actionFaults>>
          \/ /\ actionFaults < MaxActionFaults
             /\ actionFaults' = actionFaults + 1
             /\ actionLog' = [actionLog EXCEPT !.unwritten = @ \cup {k}]
             /\ UNCHANGED record
    /\ IF handler[h].outcome = "live_sent" /\ Reacts(h) THEN HandlerGoes(h, "touch") ELSE Drop(h)
    /\ UNCHANGED <<cooling, reactions>>

\* touchReactionCooldown, only for what was sent.
Touch(h) ==
    /\ handler[h].pc = "touch"
    /\ cooling' = TRUE
    /\ Drop(h)
    /\ UNCHANGED <<reactions, record, actionLog, actionFaults>>

\* The process dies with its coroutines and its cooldown.
ActionCrash ==
    /\ actionFaults < MaxActionFaults
    /\ actionFaults' = actionFaults + 1
    /\ actionLog' = [actionLog EXCEPT !.crashes = @ + 1,
                        !.unwritten = @ \cup {handler[h].key : h \in {g \in Handler : handler[g].pc = "record"}}]
    /\ handler' = [h \in Handler |-> IdleHandler]
    /\ cooling' = FALSE
    /\ UNCHANGED <<reactions, record>>

ActionNext ==
    \/ CooldownLifts
    \/ \E h \in Handler, k \in ActionKey : Reaction(h, k)
    \/ \E h \in Handler, k \in ActionKey : PollRequest(h, k)
    \/ \E h \in Handler : GateRead(h)
    \/ \E h \in Handler : GateAgain(h)
    \/ \E h \in Handler : DecideAction(h)
    \/ \E h \in Handler, ok \in BOOLEAN : Perform(h, ok)
    \/ \E h \in Handler : RecordAction(h)
    \/ \E h \in Handler : Touch(h)
    \/ ActionCrash

ActionSpec == ActionInit /\ [][ActionNext]_actionVars

-----------------------------------------------------------------------------
\* Properties.

\* The state has its type.
ActionTypeOK ==
    /\ handler \in [Handler -> HandlerRecord]
    /\ cooling \in BOOLEAN /\ reactions \in Nat
    /\ record \in [ActionKey -> {"none", "dry_run", "blocked", "live_sent", "failed"}]
    /\ actionLog \in [sent : SUBSET ActionKey, unwritten : SUBSET ActionKey, crashes : 0 .. MaxActionFaults]
    /\ actionFaults \in 0 .. MaxActionFaults

\* The cooldown is read before three awaits and set after two more, so more than one
\* reaction can be sent in a period: never more than there were coroutines at once, in
\* each life of the process (handleIncomingReaction).
ReactionOvershootBounded == reactions <= Cardinality(Handler) * (actionLog.crashes + 1)

\* What was sent live has its record, and the record says so, unless the write failed or
\* the process died before it, or an earlier action of the key has the record: then the
\* record speaks of that one (performGovernedZaloAction, writeZaloAction).
LiveActionIsRecorded ==
    \A k \in actionLog.sent \ actionLog.unwritten :
        record[k] # "none" \/ \E h \in Handler : handler[h].pc = "record" /\ handler[h].key = k

\* Every reaction and poll is limited and recorded as far as the code can.
ActionsAreAccountedFor == ReactionOvershootBounded /\ LiveActionIsRecorded
=============================================================================
