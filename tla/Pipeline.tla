------------------------------- MODULE Pipeline -------------------------------
(***************************************************************************)
(* handleIncomingMessage (services/incoming-dispatcher.service.ts): what   *)
(* becomes of a message that was received and stored, from the gates to    *)
(* the task's last word, on every path: retrieval, batch, image, file,     *)
(* reminder, rule, Hermes.                                                 *)
(*                                                                         *)
(* A turn is one call.  A message has the turn of its own and, when it is  *)
(* the last of a batch, the turn of the batch's synthetic message, which   *)
(* carries its id and so the same reply key.  The paths are chains of      *)
(* awaits that can fail, and what matters is where a failure lands: in a   *)
(* catch that gives up, in one that apologises, in one that falls through  *)
(* to the next path, or nowhere, in which case the call rejects.  Texts,   *)
(* settings and the wording of the parsers are data: whatever they decide  *)
(* is a choice.  sendOutbound is taken by what Outbound shows of it.       *)
(***************************************************************************)
EXTENDS Naturals, FiniteSets

CONSTANTS
    Msg,            \* stored inbound messages of one thread
    NoMsg,
    TurnId,         \* calls of handleIncomingMessage
    MaxPipeFaults   \* bound on the statements that fail and the crashes

ASSUME PipelineAssumption == NoMsg \notin Msg /\ MaxPipeFaults \in Nat

VARIABLES
    structured,  \* config.hermesAgentBridge.enabled
    turns,       \* the calls
    task,        \* the AgentTask of each call
    handled,     \* messages whose own call was made
    batched,     \* messages in a batch whose synthetic call was not made yet
    row,         \* messages whose reply key has an OutboundRecord
    reminder,    \* the schedule a call made, and its job
    floating,    \* sends nobody awaits
    attempts,    \* calls of sendOutbound for a message: history
    said,        \* what went out, by call: history
    slips,       \* calls of which a statement, or a mark of the task, failed: history
    pipeFaults

pipeVars == <<structured, turns, task, handled, batched, row, reminder, floating,
              attempts, said, slips, pipeFaults>>

Running ==
    {"retrieval", "found", "safety", "gate", "create", "batch", "batchMark", "route",
     "refused", "unsupported", "image", "imageLost", "imageSend", "imageMark", "imageFailed",
     "file", "fileSend", "fileMark", "fileFailed",
     "intent", "schedule", "job", "confirm", "confirmMark", "deny", "denyMark", "clarify",
     "rules", "ignoreExec", "ignoreMark", "fixed", "fixedMark", "fixedExec",
     "hermes", "withheld", "failed", "answer", "answered", "unanswered", "caught", "caughtMark"}
Over == {"ended", "rejected"}

PipeInit ==
    /\ structured \in BOOLEAN
    /\ turns = [t \in TurnId |-> [pc |-> "idle", msg |-> NoMsg, synthetic |-> FALSE]]
    /\ task = [t \in TurnId |-> "none"]
    /\ handled = {}
    /\ batched = {}
    /\ row = {}
    /\ reminder = [t \in TurnId |-> "none"]
    /\ floating = {}
    /\ attempts = [m \in Msg |-> 0]
    /\ said = {}
    /\ slips = [any |-> {}, mark |-> {}]
    /\ pipeFaults = 0

At(t, pc) == turns[t].pc = pc
MsgOf(t) == turns[t].msg
Goto(t, pc) == turns' = [turns EXCEPT ![t].pc = pc]
Choose(t, pcs) == \E pc \in pcs : Goto(t, pc)

Fine == UNCHANGED <<pipeFaults, slips>>
Fault(t) ==
    /\ pipeFaults < MaxPipeFaults
    /\ pipeFaults' = pipeFaults + 1
    /\ slips' = [slips EXCEPT !.any = @ \cup {t}]
MarkFault(t) ==
    /\ pipeFaults < MaxPipeFaults
    /\ pipeFaults' = pipeFaults + 1
    /\ slips' = [any |-> slips.any \cup {t}, mark |-> slips.mark \cup {t}]

\* A statement whose effect is left out: it passes, or throws into the catch around it.
Await(t, next, orElse) ==
    /\ (Fine /\ Goto(t, next)) \/ (Fault(t) /\ Goto(t, orElse))
    /\ UNCHANGED <<structured, task, handled, batched, row, reminder, floating, attempts, said>>

\* Nothing but a decision on what is data here.
Decide(t, pcs) ==
    /\ Fine /\ Choose(t, pcs)
    /\ UNCHANGED <<structured, task, handled, batched, row, reminder, floating, attempts, said>>

\* markAgentTaskCompleted, markAgentTaskFailed.
Mark(t, status, next, orElse) ==
    /\ \/ Fine /\ task' = [task EXCEPT ![t] = status] /\ Goto(t, next)
       \/ MarkFault(t) /\ task' = task /\ Goto(t, orElse)
    /\ UNCHANGED <<structured, handled, batched, row, reminder, floating, attempts, said>>

\* The mark, and then a send nobody awaits.
MarkAndFloat(t, orElse) ==
    /\ \/ /\ Fine /\ task' = [task EXCEPT ![t] = "completed"] /\ Goto(t, "ended")
          /\ floating' = floating \cup {t}
       \/ MarkFault(t) /\ task' = task /\ Goto(t, orElse) /\ floating' = floating
    /\ UNCHANGED <<structured, handled, batched, row, reminder, attempts, said>>

\* sendOutbound: the reply goes out and takes the key, or nothing does (the cooldown, a
\* duplicate, a failed send, which takes the key too), or the reply goes out although its
\* reservation failed.  A text is sent in parts, and when one of them fails the send has
\* failed, with the parts before it accepted.
Sent(t, what) ==
    /\ attempts' = [attempts EXCEPT ![MsgOf(t)] = @ + 1]
    /\ \/ /\ MsgOf(t) \notin row /\ Fine
          /\ row' = row \cup {MsgOf(t)}
          /\ said' = said \cup {<<t, what>>}
       \/ Fault(t) /\ row' = row /\ said' = said \cup {<<t, what>>}
NotSent(t) ==
    /\ attempts' = [attempts EXCEPT ![MsgOf(t)] = @ + 1]
    /\ Fine /\ said' = said /\ row' \in {row, row \cup {MsgOf(t)}}
SentInPart(t) == Sent(t, "part")

\* The call waits for sendOutbound and does not look at its success; only acquireCooldown
\* throws.
Send(t, what, next, orElse) ==
    /\ \/ (Sent(t, what) \/ SentInPart(t) \/ NotSent(t)) /\ Goto(t, next)
       \/ Fault(t) /\ Goto(t, orElse) /\ UNCHANGED <<attempts, row, said>>
    /\ UNCHANGED <<structured, task, handled, batched, reminder, floating>>

-----------------------------------------------------------------------------
\* The gates.

\* The listener hands over a message it saved; a batch worker its last one.  Retrieval
\* comes before all gates, and not at all with the structured bridge.
Handle(t, m) ==
    /\ At(t, "idle") /\ m \notin handled
    /\ handled' = handled \cup {m}
    /\ turns' = [turns EXCEPT ![t] = [pc |-> IF structured THEN "safety" ELSE "retrieval",
                                     msg |-> m, synthetic |-> FALSE]]
    /\ UNCHANGED <<structured, task, batched, row, reminder, floating, attempts, said, slips, pipeFaults>>

HandleBatch(t, m) ==
    /\ At(t, "idle") /\ m \in batched
    /\ batched' = batched \ {m}
    /\ turns' = [turns EXCEPT ![t] = [pc |-> IF structured THEN "safety" ELSE "retrieval",
                                     msg |-> m, synthetic |-> TRUE]]
    /\ UNCHANGED <<structured, task, handled, row, reminder, floating, attempts, said, slips, pipeFaults>>

\* tryRetrievalDispatch: not a request for retrieval; one it declines, all its errors too;
\* or one it answers, and that send is outside any catch.
Retrieve(t) == At(t, "retrieval") /\ Decide(t, {"safety", "ended", "found"})
AnswerRetrieval(t) == At(t, "found") /\ Send(t, "found", "ended", "rejected")

\* safetyCheck; then, with the structured bridge, the row of the reply, whose lookup
\* error ends the call like a row does.
Safety(t) ==
    /\ At(t, "safety")
    /\ IF structured /\ MsgOf(t) \in row THEN Decide(t, {"ended"}) ELSE Decide(t, {"ended", "gate"})

\* groupGateCheck, whose read of the settings can throw, and resolvePrincipal, which
\* makes do with a default.
Gate(t) == At(t, "gate") /\ (Await(t, "create", "rejected") \/ Decide(t, {"ended"}))

CreateTask(t) ==
    /\ At(t, "create")
    /\ \/ Fine /\ task' = [task EXCEPT ![t] = "pending"] /\ Choose(t, {"route", "batch"} \
              (IF turns[t].synthetic THEN {"batch"} ELSE {}))
       \/ Fault(t) /\ task' = task /\ Goto(t, "rejected")
    /\ UNCHANGED <<structured, handled, batched, row, reminder, floating, attempts, said>>

\* addToBatch, and the mark; an error of either falls through to the normal pipeline.
\* The message may be in a batch by then.
Batch(t) ==
    \/ /\ At(t, "batch")
       /\ \/ Fine /\ batched' = batched \cup {MsgOf(t)} /\ Goto(t, "batchMark")
          \/ Fault(t) /\ batched' \in {batched, batched \cup {MsgOf(t)}} /\ Goto(t, "route")
       /\ UNCHANGED <<structured, task, handled, row, reminder, floating, attempts, said>>
    \/ At(t, "batchMark") /\ Mark(t, "completed", "ended", "route")

Route(t) == At(t, "route") /\ Decide(t, {"refused", "unsupported", "image", "file", "intent"})

-----------------------------------------------------------------------------
\* Images and files.

\* image_understanding_disabled, vision_disabled, and the same for documents.
Refuse(t) == At(t, "refused") /\ Mark(t, "completed", "ended", "rejected")

\* image_download_failed inside the try of the image, unsupported_extension outside one.
Apologise(t) ==
    \/ At(t, "imageLost") /\ MarkAndFloat(t, "imageFailed")
    \/ At(t, "unsupported") /\ MarkAndFloat(t, "rejected")

\* Download, analysis and the extraction index, whose errors are swallowed; then the reply.
Image(t) ==
    \/ At(t, "image") /\ Decide(t, {"imageSend", "imageLost", "imageFailed"})
    \/ At(t, "imageSend") /\ Send(t, "image", "imageMark", "imageFailed")
    \/ At(t, "imageMark") /\ Mark(t, "completed", "ended", "imageFailed")
    \/ At(t, "imageFailed") /\ Mark(t, "completed", "ended", "rejected")

\* Download, ingestDocument, confirmation, mark: any error of these apologises.
File(t) ==
    \/ At(t, "file") /\ Decide(t, {"fileSend", "fileFailed"})
    \/ At(t, "fileSend") /\ Send(t, "file", "fileMark", "fileFailed")
    \/ At(t, "fileMark") /\ Mark(t, "completed", "ended", "fileFailed")
    \/ At(t, "fileFailed") /\ MarkAndFloat(t, "rejected")

-----------------------------------------------------------------------------
\* Reminders.

\* The conversation state, whose load error is swallowed, and the two parsers: neither
\* intent, or a pronoun with nothing to refer to, asked for outside any catch.
Intent(t) == At(t, "intent") /\ Decide(t, {"schedule", "clarify", "rules"})
Clarify(t) == At(t, "clarify") /\ MarkAndFloat(t, "rejected")

\* The schedule, its job, the confirmation, the mark: an error of any of them tells the
\* user that there is no reminder, and undoes nothing.
Reminder(t) ==
    \/ /\ At(t, "schedule")
       /\ \/ Fine /\ reminder' = [reminder EXCEPT ![t] = "row"] /\ Goto(t, "job")
          \/ Fault(t) /\ reminder' = reminder /\ Goto(t, "deny")
       /\ UNCHANGED <<structured, task, handled, batched, row, floating, attempts, said>>
    \/ /\ At(t, "job")
       /\ \/ Fine /\ reminder' = [reminder EXCEPT ![t] = "queued"] /\ Goto(t, "confirm")
          \/ Fault(t) /\ reminder' = reminder /\ Goto(t, "deny")
       /\ UNCHANGED <<structured, task, handled, batched, row, floating, attempts, said>>
    \/ At(t, "confirm") /\ Send(t, "confirm", "confirmMark", "deny")
    \/ At(t, "confirmMark") /\ Mark(t, "completed", "ended", "deny")
    \/ At(t, "deny") /\ Send(t, "deny", "denyMark", "rejected")
    \/ At(t, "denyMark") /\ Mark(t, "completed", "ended", "rejected")

-----------------------------------------------------------------------------
\* Rules, then Hermes.

\* No rule, one that routes to Hermes, an error: Hermes.  What fails after a fixed reply
\* went out ends up there as well.
Rules(t) ==
    \/ At(t, "rules") /\ Decide(t, {"ignoreExec", "fixed", "hermes"})
    \/ At(t, "ignoreExec") /\ Await(t, "ignoreMark", "hermes")
    \/ At(t, "ignoreMark") /\ Mark(t, "completed", "ended", "hermes")
    \/ At(t, "fixed") /\ Send(t, "fixed", "fixedMark", "hermes")
    \/ At(t, "fixedMark") /\ Mark(t, "completed", "fixedExec", "hermes")
    \/ At(t, "fixedExec") /\ Await(t, "ended", "hermes")

\* Context, state and the adapter or the bridge: an error of the first three or of the
\* text adapter is caught; the reply is withheld (a claim without evidence, and, in
\* text mode, low confidence), refused (empty, a bridge that failed), or sent.
Hermes(t) ==
    \/ At(t, "hermes") /\ Decide(t, {"caught", "withheld", "failed", "answer"})
    \/ At(t, "withheld") /\ Mark(t, "completed", "ended", "caught")
    \/ At(t, "failed") /\ Mark(t, "failed", "ended", "caught")

\* A plausible defect: the mark follows the dry-run flag and not the send.
AnswerMisjudged(t) ==
    \/ /\ At(t, "answer")
       /\ \/ Sent(t, "answer") /\ Choose(t, {"answered", "unanswered"})
          \/ ~structured /\ SentInPart(t) /\ Goto(t, "unanswered")
          \/ NotSent(t) /\ Choose(t, {"unanswered"} \cup IF structured THEN {} ELSE {"answered"})
          \/ Fault(t) /\ Goto(t, "caught") /\ UNCHANGED <<attempts, row, said>>
       /\ UNCHANGED <<structured, task, handled, batched, reminder, floating>>
    \/ At(t, "answered") /\ Mark(t, "completed", "ended", "caught")
    \/ At(t, "unanswered") /\ Mark(t, "failed", "ended", "caught")

\* In text mode a dry run that a gate refused counts as answered, too, and one that was
\* sent in part does not; the structured answer is only ever a dry run.
Answer(t) ==
    \/ /\ At(t, "answer")
       /\ \/ Sent(t, "answer") /\ Goto(t, "answered")
          \/ ~structured /\ SentInPart(t) /\ Goto(t, "unanswered")
          \/ NotSent(t) /\ Choose(t, {"unanswered"} \cup IF structured THEN {} ELSE {"answered"})
          \/ Fault(t) /\ Goto(t, "caught") /\ UNCHANGED <<attempts, row, said>>
       /\ UNCHANGED <<structured, task, handled, batched, reminder, floating>>
    \/ At(t, "answered") /\ Mark(t, "completed", "ended", "caught")
    \/ At(t, "unanswered") /\ Mark(t, "failed", "ended", "caught")

\* The catch of it all: text mode marks the task completed and then failed, the second
\* time without minding an error, the structured one only the second time.
Caught(t) ==
    \/ /\ At(t, "caught")
       /\ IF structured THEN Decide(t, {"caughtMark"})
                        ELSE Mark(t, "completed", "caughtMark", "rejected")
    \/ At(t, "caughtMark") /\ Mark(t, "failed", "ended", "ended")

\* A send nobody awaits.
Float(t) ==
    /\ t \in floating
    /\ floating' = floating \ {t}
    /\ Sent(t, "notice") \/ SentInPart(t) \/ NotSent(t)
    /\ UNCHANGED <<structured, turns, task, handled, batched, reminder>>

\* The process dies, and its calls and its floating sends with it.
PipeCrash ==
    /\ pipeFaults < MaxPipeFaults
    /\ pipeFaults' = pipeFaults + 1
    /\ turns' = [t \in TurnId |-> IF turns[t].pc \in Running THEN [turns[t] EXCEPT !.pc = "dead"] ELSE turns[t]]
    /\ floating' = {}
    /\ UNCHANGED <<structured, task, handled, batched, row, reminder, attempts, said, slips>>

Advance(t) ==
    \/ Retrieve(t) \/ AnswerRetrieval(t) \/ Safety(t) \/ Gate(t) \/ CreateTask(t) \/ Batch(t)
    \/ Route(t) \/ Refuse(t) \/ Apologise(t) \/ Image(t) \/ File(t)
    \/ Intent(t) \/ Clarify(t) \/ Reminder(t) \/ Rules(t) \/ Hermes(t) \/ Answer(t) \/ Caught(t)

PipeNext ==
    \/ \E t \in TurnId, m \in Msg : Handle(t, m) \/ HandleBatch(t, m)
    \/ \E t \in TurnId : Advance(t) \/ Float(t)
    \/ PipeCrash

PipeSpec == PipeInit /\ [][PipeNext]_pipeVars

-----------------------------------------------------------------------------
\* Properties.

\* What a reply can be that goes out in full.
WholeReplies == {"found", "image", "file", "confirm", "deny", "fixed", "answer", "notice"}

\* The state has its type.
PipeTypeOK ==
    /\ structured \in BOOLEAN
    /\ turns \in [TurnId -> [pc : {"idle", "dead"} \cup Running \cup Over,
                             msg : Msg \cup {NoMsg}, synthetic : BOOLEAN]]
    /\ task \in [TurnId -> {"none", "pending", "completed", "failed"}]
    /\ handled \subseteq Msg /\ batched \subseteq Msg /\ row \subseteq Msg
    /\ reminder \in [TurnId -> {"none", "row", "queued"}]
    /\ floating \subseteq TurnId
    /\ attempts \in [Msg -> Nat]
    /\ said \subseteq TurnId \X (WholeReplies \cup {"part"})
    /\ slips \in [any : SUBSET TurnId, mark : SUBSET TurnId]
    /\ pipeFaults \in 0 .. MaxPipeFaults

\* One path answers a message: a second send for it, by the same call or by the one of
\* its batch, needs a statement that failed, and each such failure buys one
\* (handleIncomingMessage, its early returns and its catches that fall through).
OnePathAnswers == \A m \in Msg : attempts[m] <= 1 + pipeFaults

\* The user hears of a reminder only when its schedule and its job are there
\* (the create-reminder flows).
ConfirmedReminderIsQueued ==
    \A t \in TurnId : <<t, "confirm">> \in said => reminder[t] = "queued"

\* On every path a call that returns has settled its task, unless the mark itself failed;
\* one that rejects may leave it pending (markAgentTaskCompleted, markAgentTaskFailed).
ReturnedMeansSettled ==
    \A t \in TurnId : turns[t].pc = "ended" /\ task[t] = "pending" => t \in slips.mark

\* A call whose task ends as failed has told the user nothing in full, unless a statement of
\* it failed: at most the first parts of an answer, and those in text mode only (the
\* verdict after sendOutbound, and the catch).
FailedTaskToldNoWhole ==
    \A t \in TurnId :
        turns[t].pc \in Over /\ task[t] = "failed" /\ t \notin slips.any =>
            /\ \A what \in WholeReplies : <<t, what>> \notin said
            /\ <<t, "part">> \in said => ~structured

\* What the user hears is one answer, and true (the dispatcher's paths together).
RepliesAreTrue == OnePathAnswers /\ ConfirmedReminderIsQueued

\* What the task says in the end is what became of the call.
TaskTellsOutcome == ReturnedMeansSettled /\ FailedTaskToldNoWhole

\* A turn's replies are true, and its task says how it ended.
TurnsAreTrue == RepliesAreTrue /\ TaskTellsOutcome
=============================================================================
