------------------------------ MODULE Outbound ------------------------------
(***************************************************************************)
(* The outbound path: sendOutbound (services/outbound-dispatcher.service)  *)
(* with the cooldown, the idempotency reservation and the evidence it      *)
(* writes, and ZaloMessageSender.sendMessage, which it calls for a live    *)
(* send.  A dispatch is one call of sendOutbound; it advances from await   *)
(* to await, and the dispatches, the admin requests of LiveTest, the       *)
(* fire-and-forget writes and the clock interleave.  A crash kills what    *)
(* runs and keeps the database and what Zalo has accepted.                 *)
(*                                                                         *)
(* getCurrentEffectiveDryRun() is the constant true, so a dispatch is live *)
(* only under a live-test session.  Message texts are left out; parts are  *)
(* the pieces splitLongMessage cuts a text into.                           *)
(***************************************************************************)
EXTENDS LiveTest

CONSTANTS
    Dispatch,   \* calls of sendOutbound, each made once
    Key,        \* idempotency keys: one per inbound message or per content
    NoKey,      \* media and voice have none
    Job,        \* the intents callers may pass
    NoSession,
    NoDispatch,
    Parts       \* parts of a split text

ASSUME OutboundAssumption ==
    /\ NoKey \notin Key
    /\ NoSession \notin Session
    /\ NoDispatch \notin Dispatch
    /\ Parts \in Nat \ {0}
    /\ Job \subseteq [thread : Thread, key : Key \cup {NoKey},
                      strict : BOOLEAN, inbound : BOOLEAN]
    /\ Job # {}

VARIABLES
    dispatch,   \* the local state of each call
    cooldown,   \* ThreadCooldown rows: is it unexpired, how often it ended with a dispatch in flight
    record,     \* OutboundRecord rows by idempotency key (durable)
    message,    \* assistant Message row that each dispatch created (durable)
    noting,     \* dispatches whose updateMessageStatus was not awaited
    accounting, \* recordLiveTestSent tasks, not awaited either
    accepted    \* parts of each dispatch that Zalo has accepted

outboundVars == <<dispatch, cooldown, record, message, noting, accounting, accepted>>
vars == <<liveTestVars, outboundVars>>

SomeJob == CHOOSE j \in Job : TRUE

\* plan: the session under which the dispatcher went live; auth: the one under
\* which the sender did; owned: reservedRecordId # null; stale, closeAs: the row a
\* live check is about to close and how; outcome: the SendResult; result: what was returned.
Pc == {"idle", "begin", "gate", "closing", "lookup", "reserve", "replay", "write",
       "dryMessage", "dryRecord", "sender", "senderClosing", "send", "settle",
       "cool", "done", "dead"}
Outcome == {"none", "dry", "failed", "ok"}
Result == {"none", "refused", "cooldown", "duplicate", "unproven", "thrown",
           "dry_run", "live_test", "send_failed"}
DispatchState ==
    [pc : Pc, job : Job, plan : Session \cup {NoSession}, auth : Session \cup {NoSession},
     owned : BOOLEAN, stale : Session \cup {NoSession}, closeAs : {"expired", "completed"},
     outcome : Outcome, result : Result]

Reason == {"absent", "reserved", "dry_run", "live_test", "send_failed"}
RecordRow == [reason : Reason, sentId : Dispatch \cup {NoDispatch}, dryRun : BOOLEAN,
              owner : Dispatch \cup {NoDispatch}]
MessageRow == [status : {"absent", "draft", "dryRun", "sending", "sent", "failed"},
               sentId : Dispatch \cup {NoDispatch}, record : Key \cup {NoKey}]

CooldownRow == [held : BOOLEAN, outlived : Nat]

\* owner is the id of the row, which is unique: the dispatch that created it.
TypeOK ==
    /\ LiveTestTypeOK
    /\ dispatch \in [Dispatch -> DispatchState]
    /\ cooldown \in [Thread -> CooldownRow]
    /\ record \in [Key -> RecordRow]
    /\ message \in [Dispatch -> MessageRow]
    /\ noting \in SUBSET Dispatch
    /\ accounting \in [Dispatch -> {"none", "count", "complete"}]
    /\ accepted \in [Dispatch -> 0 .. Parts]

Init ==
    /\ LiveTestInit
    /\ dispatch = [d \in Dispatch |->
          [pc |-> "idle", job |-> SomeJob, plan |-> NoSession, auth |-> NoSession,
           owned |-> FALSE, stale |-> NoSession, closeAs |-> "expired", outcome |-> "none", result |-> "none"]]
    /\ cooldown = [t \in Thread |-> [held |-> FALSE, outlived |-> 0]]
    /\ record = [k \in Key |-> [reason |-> "absent", sentId |-> NoDispatch,
                                dryRun |-> TRUE, owner |-> NoDispatch]]
    /\ message = [d \in Dispatch |-> [status |-> "absent", sentId |-> NoDispatch,
                                      record |-> NoKey]]
    /\ noting = {}
    /\ accounting = [d \in Dispatch |-> "none"]
    /\ accepted = [d \in Dispatch |-> 0]

-----------------------------------------------------------------------------
\* Abbreviations for one dispatch.

At(d, pc) == dispatch[d].pc = pc
JobOf(d) == dispatch[d].job
KeyOf(d) == JobOf(d).key
IsText(d) == KeyOf(d) # NoKey
Live(d) == dispatch[d].plan # NoSession

Goto(d, pc) == dispatch' = [dispatch EXCEPT ![d].pc = pc]
Return(d, result) ==
    dispatch' = [dispatch EXCEPT ![d].pc = "done", ![d].result = result]

\* Where a dispatch goes when the live check of the dispatcher is behind it: only
\* a text has an idempotency key to look up.
AfterGate(d) == IF IsText(d) THEN "lookup" ELSE "write"

\* strictOutboundFailure, the only way a dry_run_only dispatch reports an error.
StrictFailure(d) == JobOf(d).strict /\ Return(d, "unproven")

-----------------------------------------------------------------------------
\* sendOutbound up to the live check.

\* validateIntent, the thread's autoReplyEnabled and the prompt-echo guard either
\* refuse the intent before anything is touched or let it through.
Call(d) ==
    /\ At(d, "idle")
    /\ \E j \in Job :
          \/ dispatch' = [dispatch EXCEPT ![d].pc = "begin", ![d].job = j]
          \/ dispatch' = [dispatch EXCEPT ![d].pc = "done", ![d].job = j,
                                          ![d].result = "refused"]
    /\ UNCHANGED <<liveTestVars, cooldown, record, message, noting, accounting, accepted>>

\* A slip in AcquireCooldown: dry_run_only intents pass the live check too.
AcquireCooldownGatesAll(d) ==
    /\ At(d, "begin")
    /\ DbOk
    /\ ~cooldown[JobOf(d).thread].held
    /\ cooldown' = [cooldown EXCEPT ![JobOf(d).thread].held = TRUE]
    /\ Goto(d, "gate")
    /\ UNCHANGED <<session, starter, startQueue, stopper, crashes,
                   record, message, noting, accounting, accepted>>

\* acquireCooldown is one transaction; its rejection is not caught.
AcquireCooldown(d) ==
    /\ At(d, "begin")
    /\ LET t == JobOf(d).thread
       IN  \/ /\ DbOk
              /\ cooldown[t].held
              /\ Return(d, "cooldown")
              /\ UNCHANGED cooldown
           \/ /\ DbOk
              /\ ~cooldown[t].held
              /\ cooldown' = [cooldown EXCEPT ![t].held = TRUE]
              /\ Goto(d, IF JobOf(d).strict THEN AfterGate(d) ELSE "gate")
           \/ /\ DbError
              /\ Return(d, "thrown")
              /\ UNCHANGED cooldown
    /\ UNCHANGED <<session, starter, startQueue, stopper, crashes,
                   record, message, noting, accounting, accepted>>

\* The first shouldSendLiveForThread.  A spent row is closed by a write of its own;
\* an error of either statement means "not live".
DispatcherGate(d) ==
    /\ At(d, "gate")
    /\ \/ /\ DbOk
          /\ ActiveFor(JobOf(d).thread) = {}
          /\ Goto(d, AfterGate(d))
       \/ /\ DbOk
          /\ \E s \in ActiveFor(JobOf(d).thread) :
                IF Spent(s)
                THEN dispatch' = [dispatch EXCEPT ![d].pc = "closing", ![d].stale = s,
                                                  ![d].closeAs = SpentAs(s)]
                ELSE dispatch' = [dispatch EXCEPT ![d].pc = AfterGate(d), ![d].plan = s]
       \/ /\ DbError
          /\ Goto(d, AfterGate(d))
    /\ UNCHANGED <<session, starter, startQueue, stopper, crashes,
                   cooldown, record, message, noting, accounting, accepted>>

DispatcherCloses(d) ==
    /\ At(d, "closing")
    /\ \/ DbOk /\ session' = Closed(dispatch[d].stale, dispatch[d].closeAs)
       \/ DbError /\ UNCHANGED session
    /\ Goto(d, AfterGate(d))
    /\ UNCHANGED <<starter, startQueue, stopper, crashes,
                   cooldown, record, message, noting, accounting, accepted>>

-----------------------------------------------------------------------------
\* The idempotency gate: look the key up, reserve it, or find it taken.

Reserved(k) == record[k].reason # "absent"

\* A slip in LookUp: a dry_run_only dispatch trusts any row it finds.
LookUpTrustsRow(d) ==
    /\ At(d, "lookup")
    /\ DbOk
    /\ IF Reserved(KeyOf(d)) THEN Return(d, "duplicate") ELSE Goto(d, "reserve")
    /\ UNCHANGED <<session, starter, startQueue, stopper, crashes,
                   cooldown, record, message, noting, accounting, accepted>>

\* A slip in LookUp: a reservation that a crash left behind is taken over by the retry.
LookUpResumes(d) ==
    /\ At(d, "lookup")
    /\ DbOk
    /\ CASE record[KeyOf(d)].reason = "absent" -> Goto(d, "reserve")
         [] record[KeyOf(d)].reason = "reserved" ->
              dispatch' = [dispatch EXCEPT ![d].pc = "write", ![d].owned = TRUE]
         [] OTHER -> Return(d, "duplicate")
    /\ UNCHANGED <<session, starter, startQueue, stopper, crashes,
                   cooldown, record, message, noting, accounting, accepted>>

\* findOutboundByIdempotencyKey: for the runtime policy an error reads as "no row".
LookUp(d) ==
    /\ At(d, "lookup")
    /\ \/ /\ DbOk
          /\ Reserved(KeyOf(d))
          /\ IF JobOf(d).strict THEN Goto(d, "replay") ELSE Return(d, "duplicate")
       \/ /\ DbOk
          /\ ~Reserved(KeyOf(d))
          /\ Goto(d, "reserve")
       \/ /\ DbError
          /\ IF JobOf(d).strict THEN StrictFailure(d) ELSE Goto(d, "reserve")
    /\ UNCHANGED <<session, starter, startQueue, stopper, crashes,
                   cooldown, record, message, noting, accounting, accepted>>

\* resolveStrictOutboundReplayEvidence: the row is final and an assistant message
\* names this row and the same sent id.
Proven(k) ==
    /\ record[k].reason \notin {"absent", "reserved"}
    /\ record[k].sentId # NoDispatch
    /\ \E d \in Dispatch : /\ message[d].record = k
                           /\ message[d].sentId = record[k].sentId
                           /\ message[d].status \in {"dryRun", "sent"}

StrictReplay(d) ==
    /\ At(d, "replay")
    /\ \/ /\ DbOk
          /\ IF JobOf(d).inbound /\ Proven(KeyOf(d))
             THEN Return(d, "duplicate")
             ELSE StrictFailure(d)
       \/ DbError /\ StrictFailure(d)
    /\ UNCHANGED <<session, starter, startQueue, stopper, crashes,
                   cooldown, record, message, noting, accounting, accepted>>

\* A slip in Reserve: an upsert in place of the create that the unique index guards.
ReserveUpserts(d) ==
    /\ At(d, "reserve")
    /\ DbOk
    /\ record' = [record EXCEPT ![KeyOf(d)] = [reason |-> "reserved", sentId |-> NoDispatch,
                                              dryRun |-> ~Live(d), owner |-> d]]
    /\ dispatch' = [dispatch EXCEPT ![d].pc = "write", ![d].owned = TRUE]
    /\ UNCHANGED <<session, starter, startQueue, stopper, crashes,
                   cooldown, message, noting, accounting, accepted>>

\* reserveOutboundRecord: the unique index decides between two reservations.  Any
\* other error lets a runtime dispatch go on without a reservation.
Reserve(d) ==
    /\ At(d, "reserve")
    /\ LET k == KeyOf(d)
       IN  \/ /\ DbOk
              /\ Reserved(k)
              /\ IF JobOf(d).strict THEN Goto(d, "replay") ELSE Return(d, "duplicate")
              /\ UNCHANGED record
           \/ /\ DbOk
              /\ ~Reserved(k)
              /\ record' = [record EXCEPT ![k] =
                    [reason |-> "reserved", sentId |-> NoDispatch,
                     dryRun |-> ~Live(d), owner |-> d]]
              /\ dispatch' = [dispatch EXCEPT ![d].pc = "write", ![d].owned = TRUE]
           \/ /\ DbError
              /\ IF JobOf(d).strict THEN StrictFailure(d) ELSE Goto(d, "write")
              /\ UNCHANGED record
    /\ UNCHANGED <<session, starter, startQueue, stopper, crashes,
                   cooldown, message, noting, accounting, accepted>>

-----------------------------------------------------------------------------
\* The assistant message, then the dry-run path or the live path.

\* A live media or voice intent needs no step of the sender: sendImage, sendFile
\* and sendVoice look at the global dry-run alone and answer with a dry-run id.
AfterWrite(d) ==
    IF Live(d) THEN IF IsText(d) THEN "sender" ELSE "settle"
    ELSE IF JobOf(d).strict THEN "dryMessage" ELSE "dryRecord"

Proceed(d) == dispatch' = [dispatch EXCEPT
    ![d].pc = AfterWrite(d),
    ![d].outcome = IF Live(d) /\ IsText(d) THEN "none" ELSE "dry"]

WriteMessage(d) ==
    /\ At(d, "write")
    /\ \/ /\ JobOf(d).strict /\ ~dispatch[d].owned
          /\ DbOk
          /\ StrictFailure(d)
          /\ UNCHANGED message
       \/ /\ ~IsText(d) /\ ~JobOf(d).strict
          /\ DbOk
          /\ Proceed(d)
          /\ UNCHANGED message
       \/ /\ IsText(d) /\ (JobOf(d).strict => dispatch[d].owned)
          /\ DbOk
          /\ message' = [message EXCEPT ![d] =
                [status |-> IF JobOf(d).strict THEN "draft"
                            ELSE IF Live(d) THEN "sending" ELSE "dryRun",
                 sentId |-> NoDispatch,
                 record |-> IF dispatch[d].owned THEN KeyOf(d) ELSE NoKey]]
          /\ Proceed(d)
       \/ /\ IsText(d) /\ (JobOf(d).strict => dispatch[d].owned)
          /\ DbError
          /\ IF JobOf(d).strict THEN StrictFailure(d) ELSE Proceed(d)
          /\ UNCHANGED message
    /\ UNCHANGED <<session, starter, startQueue, stopper, crashes,
                   cooldown, record, noting, accounting, accepted>>

HasMessage(d) == message[d].status # "absent"

\* Strict: the message first, awaited, then the row.
DryMessage(d) ==
    /\ At(d, "dryMessage")
    /\ \/ /\ DbOk
          /\ message' = [message EXCEPT ![d] =
                           [@ EXCEPT !.status = "dryRun", !.sentId = d]]
          /\ Goto(d, "dryRecord")
       \/ /\ DbError
          /\ StrictFailure(d)
          /\ UNCHANGED message
    /\ UNCHANGED <<session, starter, startQueue, stopper, crashes,
                   cooldown, record, noting, accounting, accepted>>

\* The runtime policy swallows a failed update and does not await the message.
DryRecord(d) ==
    /\ At(d, "dryRecord")
    /\ \/ /\ DbOk
          /\ record' = IF dispatch[d].owned
                       THEN [record EXCEPT ![KeyOf(d)] =
                                [@ EXCEPT !.reason = "dry_run", !.sentId = d]]
                       ELSE record
          /\ Goto(d, "cool")
       \/ /\ DbError
          /\ IF JobOf(d).strict THEN StrictFailure(d) ELSE Goto(d, "cool")
          /\ UNCHANGED record
    /\ noting' = IF ~JobOf(d).strict /\ HasMessage(d) THEN noting \cup {d} ELSE noting
    /\ UNCHANGED <<session, starter, startQueue, stopper, crashes,
                   cooldown, message, accounting, accepted>>

-----------------------------------------------------------------------------
\* ZaloMessageSender.sendMessage.

\* The second shouldSendLiveForThread.  Not live any more: a dry-run id is
\* returned as a success.
SenderGate(d) ==
    /\ At(d, "sender")
    /\ \/ /\ DbOk
          /\ ActiveFor(JobOf(d).thread) = {}
          /\ dispatch' = [dispatch EXCEPT ![d].pc = "settle", ![d].outcome = "dry"]
       \/ /\ DbOk
          /\ \E s \in ActiveFor(JobOf(d).thread) :
                IF Spent(s)
                THEN dispatch' = [dispatch EXCEPT ![d].pc = "senderClosing",
                                        ![d].stale = s, ![d].closeAs = SpentAs(s)]
                ELSE dispatch' = [dispatch EXCEPT ![d].pc = "send", ![d].auth = s]
       \/ /\ DbError
          /\ dispatch' = [dispatch EXCEPT ![d].pc = "settle", ![d].outcome = "dry"]
    /\ UNCHANGED <<session, starter, startQueue, stopper, crashes,
                   cooldown, record, message, noting, accounting, accepted>>

SenderCloses(d) ==
    /\ At(d, "senderClosing")
    /\ \/ DbOk /\ session' = Closed(dispatch[d].stale, dispatch[d].closeAs)
       \/ DbError /\ UNCHANGED session
    /\ dispatch' = [dispatch EXCEPT ![d].pc = "settle", ![d].outcome = "dry"]
    /\ UNCHANGED <<starter, startQueue, stopper, crashes,
                   cooldown, record, message, noting, accounting, accepted>>

\* Group window, content dedup, connection, rate limit or a missing api object.
SenderRefuses(d) ==
    /\ At(d, "send")
    /\ accepted[d] = 0
    /\ dispatch' = [dispatch EXCEPT ![d].pc = "settle", ![d].outcome = "failed"]
    /\ UNCHANGED <<liveTestVars, cooldown, record, message, noting, accounting, accepted>>

\* A slip in ProviderAccepts: the send of a session is not counted.
ProviderAcceptsUncounted(d) ==
    /\ At(d, "send")
    /\ accepted' = [accepted EXCEPT ![d] = Parts]
    /\ dispatch' = [dispatch EXCEPT ![d].pc = "settle", ![d].outcome = "ok"]
    /\ UNCHANGED <<liveTestVars, cooldown, record, message, noting, accounting>>

\* A slip in ProviderAccepts: the loop over the parts runs once too often.
ProviderAcceptsOneMore(d) ==
    /\ At(d, "send")
    /\ accepted' = [accepted EXCEPT ![d] = @ + 1]
    /\ IF accepted[d] = Parts
       THEN dispatch' = [dispatch EXCEPT ![d].pc = "settle", ![d].outcome = "ok"]
       ELSE UNCHANGED dispatch
    /\ UNCHANGED <<liveTestVars, cooldown, record, message, noting, accounting>>

\* One part accepted; after the last one the count is started, not awaited.
ProviderAccepts(d) ==
    /\ At(d, "send")
    /\ accepted[d] < Parts
    /\ accepted' = [accepted EXCEPT ![d] = @ + 1]
    /\ IF accepted[d] + 1 = Parts
       THEN /\ dispatch' = [dispatch EXCEPT ![d].pc = "settle", ![d].outcome = "ok"]
            /\ accounting' = [accounting EXCEPT ![d] = "count"]
       ELSE UNCHANGED <<dispatch, accounting>>
    /\ UNCHANGED <<liveTestVars, cooldown, record, message, noting>>

\* The call throws, with or without the part having reached Zalo.
ProviderFails(d) ==
    /\ At(d, "send")
    /\ \E n \in {accepted[d], accepted[d] + 1} :
          /\ n <= Parts
          /\ accepted' = [accepted EXCEPT ![d] = n]
    /\ dispatch' = [dispatch EXCEPT ![d].pc = "settle", ![d].outcome = "failed"]
    /\ UNCHANGED <<liveTestVars, cooldown, record, message, noting, accounting>>

\* recordLiveTestSent, statement by statement; an error ends it silently.
CountSent(d) ==
    /\ accounting[d] = "count"
    /\ LET s == dispatch[d].auth
       IN  \/ /\ DbOk
              /\ session' = Counted(s)
              /\ accounting' = [accounting EXCEPT ![d] =
                    IF CountReachesQuota(s) THEN "complete" ELSE "none"]
           \/ /\ DbError
              /\ accounting' = [accounting EXCEPT ![d] = "none"]
              /\ UNCHANGED session
    /\ UNCHANGED <<starter, startQueue, stopper, crashes,
                   dispatch, cooldown, record, message, noting, accepted>>

CompleteSession(d) ==
    /\ accounting[d] = "complete"
    /\ \/ DbOk /\ session' = Closed(dispatch[d].auth, "completed")
       \/ DbError /\ UNCHANGED session
    /\ accounting' = [accounting EXCEPT ![d] = "none"]
    /\ UNCHANGED <<starter, startQueue, stopper, crashes,
                   dispatch, cooldown, record, message, noting, accepted>>

-----------------------------------------------------------------------------
\* Back in sendOutbound: the reservation gets the outcome, the cooldown restarts.

SentId(d) == IF dispatch[d].outcome = "failed" THEN NoDispatch ELSE d

Settle(d) ==
    /\ At(d, "settle")
    /\ \/ /\ DbOk
          /\ record' = IF dispatch[d].owned
                       THEN [record EXCEPT ![KeyOf(d)] = [@ EXCEPT
                               !.reason = IF dispatch[d].outcome = "failed"
                                          THEN "send_failed" ELSE "live_test",
                               !.sentId = SentId(d)]]
                       ELSE record
       \/ DbError /\ UNCHANGED record
    /\ noting' = IF HasMessage(d) THEN noting \cup {d} ELSE noting
    /\ Goto(d, "cool")
    /\ UNCHANGED <<session, starter, startQueue, stopper, crashes,
                   cooldown, message, accounting, accepted>>

\* updateMessageStatus of the runtime policy, whenever it gets to run.
NoteMessage(d) ==
    /\ d \in noting
    /\ noting' = noting \ {d}
    /\ \/ /\ DbOk
          /\ message' = [message EXCEPT ![d] = [@ EXCEPT
                !.status = IF ~Live(d) THEN "dryRun"
                           ELSE IF dispatch[d].outcome = "failed" THEN "failed" ELSE "sent",
                !.sentId = SentId(d)]]
       \/ DbError /\ UNCHANGED message
    /\ UNCHANGED <<session, starter, startQueue, stopper, crashes,
                   dispatch, cooldown, record, accounting, accepted>>

SetCooldown(d) ==
    /\ At(d, "cool")
    /\ \/ DbOk /\ cooldown' = [cooldown EXCEPT ![JobOf(d).thread].held = TRUE]
       \/ DbError /\ UNCHANGED cooldown
    /\ Return(d, IF ~Live(d) THEN "dry_run"
                 ELSE IF dispatch[d].outcome = "failed" THEN "send_failed" ELSE "live_test")
    /\ UNCHANGED <<session, starter, startQueue, stopper, crashes,
                   record, message, noting, accounting, accepted>>

-----------------------------------------------------------------------------
\* The environment.

\* Past the cooldown check and not yet returned, or still being accounted for.
InFlight(d) ==
    \/ dispatch[d].pc \notin {"idle", "begin", "done", "dead"}
    \/ accounting[d] # "none"

Outlives(t) == \E d \in Dispatch : JobOf(d).thread = t /\ InFlight(d)

CooldownEnds(t) ==
    cooldown' = [cooldown EXCEPT ![t] =
        [held |-> FALSE, outlived |-> @.outlived + (IF Outlives(t) THEN 1 ELSE 0)]]

CooldownExpires(t) ==
    /\ cooldown[t].held
    /\ CooldownEnds(t)
    /\ UNCHANGED <<liveTestVars, dispatch, record, message, noting, accounting, accepted>>

\* clearCooldown of processBatchNow, which is not awaited and drops its error: it
\* removes the row whoever holds it, at any time.
ClearCooldown(t) ==
    /\ cooldown[t].held
    /\ \/ DbOk /\ CooldownEnds(t)
       \/ DbError /\ UNCHANGED cooldown
    /\ UNCHANGED <<session, starter, startQueue, stopper, crashes,
                   dispatch, record, message, noting, accounting, accepted>>

Crash ==
    /\ LiveTestCrash
    /\ dispatch' = [d \in Dispatch |->
          IF dispatch[d].pc \in {"idle", "done", "dead"} THEN dispatch[d]
          ELSE [dispatch[d] EXCEPT !.pc = "dead"]]
    /\ noting' = {}
    /\ accounting' = [d \in Dispatch |-> "none"]
    /\ UNCHANGED <<cooldown, record, message, accepted>>

\* What the event loop does for a dispatch that has been called.
Advance(d) ==
    \/ AcquireCooldown(d) \/ DispatcherGate(d) \/ DispatcherCloses(d)
    \/ LookUp(d) \/ StrictReplay(d) \/ Reserve(d) \/ WriteMessage(d)
    \/ DryMessage(d) \/ DryRecord(d)
    \/ SenderGate(d) \/ SenderCloses(d) \/ SenderRefuses(d)
    \/ ProviderAccepts(d) \/ ProviderFails(d) \/ Settle(d) \/ SetCooldown(d)

Background(d) == CountSent(d) \/ CompleteSession(d) \/ NoteMessage(d)

Next ==
    \/ AdminStep /\ UNCHANGED outboundVars
    \/ \E d \in Dispatch : Call(d) \/ Advance(d) \/ Background(d)
    \/ \E t \in Thread : CooldownExpires(t) \/ ClearCooldown(t)
    \/ Crash

Spec == Init /\ [][Next]_vars

\* The event loop runs the continuation of the start that holds the lock.
FairSpec ==
    /\ Spec
    /\ \A a \in Starter : WF_vars(LockedStart(a) /\ UNCHANGED outboundVars)

-----------------------------------------------------------------------------
\* The inductive strengthening: what a dispatch holds at each stage.

BeforeReservation == {"idle", "begin", "gate", "closing", "lookup", "reserve", "replay"}
Unsettled == {"write", "dryMessage", "dryRecord", "sender", "senderClosing", "send", "settle"}

\* A reservation belongs to the dispatch that made it, and nobody else's.
OwnershipInv ==
    /\ \A d \in Dispatch : dispatch[d].owned =>
          /\ IsText(d)
          /\ Reserved(KeyOf(d))
          /\ record[KeyOf(d)].owner = d
          /\ dispatch[d].pc \in Unsettled => record[KeyOf(d)].reason = "reserved"
    /\ \A k \in Key : Reserved(k) =>
          /\ record[k].owner \in Dispatch
          /\ dispatch[record[k].owner].owned
          /\ KeyOf(record[k].owner) = k
          /\ record[k].dryRun = ~Live(record[k].owner)

\* What happens before and after the reservation, and who may reach Zalo.
Stage(d) ==
    /\ dispatch[d].pc \in BeforeReservation => accepted[d] = 0 /\ ~dispatch[d].owned
    /\ dispatch[d].pc \in {"idle", "begin"} => ~Live(d)
    /\ dispatch[d].pc \in {"lookup", "reserve", "replay"} => IsText(d)
    /\ faults = 0 /\ IsText(d) /\ (dispatch[d].pc \in Unsettled \/ accepted[d] > 0)
          => dispatch[d].owned
    /\ JobOf(d).strict => ~Live(d) /\ ~(dispatch[d].pc \in {"gate", "closing"})
    /\ dispatch[d].pc \in {"sender", "senderClosing", "send"} => Live(d) /\ IsText(d)
    /\ accepted[d] > 0 => Live(d)

ReplyInv == OwnershipInv /\ \A d \in Dispatch : Stage(d)

\* Without a database error at the wrong moment, an idempotency key is delivered
\* by at most one dispatch, whatever crashes, retries and expiries happen
\* (the comment on the idempotency gate, outbound-dispatcher.service.ts).
OneReplyPerKey ==
    faults = 0 =>
        \A d, e \in Dispatch :
            IsText(d) /\ KeyOf(d) = KeyOf(e) /\ accepted[d] > 0 /\ accepted[e] > 0 => d = e

\* A dry_run_only dispatch delivers nothing, and a row that says dryRun is never
\* the row of a delivered message.
DryRunDeliversNothing ==
    /\ \A d \in Dispatch : JobOf(d).strict => accepted[d] = 0
    /\ \A k \in Key : Reserved(k) /\ record[k].dryRun => accepted[record[k].owner] = 0

\* A dry_run_only dispatch that reports success leaves, and keeps, the linked pair
\* of row and assistant message that a replay asks for.
StrictSuccessIsProven ==
    \A d \in Dispatch :
        JobOf(d).strict /\ dispatch[d].result \in {"dry_run", "duplicate"} => Proven(KeyOf(d))

\* Whatever reaches Zalo was let through twice, by live-test sessions of its own
\* thread, so a session never opens another thread.
DeliveredUnderSession ==
    \A d \in Dispatch : accepted[d] > 0 =>
        \A s \in {dispatch[d].plan, dispatch[d].auth} :
            s \in Session /\ session[s].status # "absent" /\ session[s].thread = JobOf(d).thread

\* A session confirms at most maxMessages sends, plus one for every crash or database error
\* that lost a count and one for every time the cooldown of its thread ended, by its time
\* or by a clear, under a dispatch in flight: each lets one more send past the count.
QuotaOvershootBounded ==
    \A s \in Session :
        Cardinality({d \in Dispatch : dispatch[d].auth = s /\ dispatch[d].outcome = "ok"})
            <= session[s].maxMessages + crashes + faults + cooldown[session[s].thread].outlived

\* Every reservation and every delivery under it is a step of the write-ahead ledger.
LedgerEntry == [k \in Key |->
    IF record[k].reason = "absent" THEN "free"
    ELSE IF record[k].reason = "reserved" THEN "reserved" ELSE "settled"]

LedgerSenders == [k \in Key |->
    {d \in Dispatch : dispatch[d].owned /\ KeyOf(d) = k /\ accepted[d] > 0}]

Ledger == INSTANCE ReplyLedger
    WITH Sender <- Dispatch, entry <- LedgerEntry, senders <- LedgerSenders

ImplementsLedger == Ledger!Spec
=============================================================================
