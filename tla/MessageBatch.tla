---------------------------- MODULE MessageBatch ----------------------------
(***************************************************************************)
(* Message batching: what handleIncomingMessage does with a saved text     *)
(* message (message-batch.service.ts, processBatchNow), the batch worker   *)
(* (message-batch-worker.ts) and the internal request by which it hands a  *)
(* batch to the backend (routes/internal.ts).                              *)
(*                                                                         *)
(* One thread: a look-up goes by thread, every write by the id of a batch. *)
(* A handler of the backend and a poll of the worker advance from await to *)
(* await.  What the pipeline makes of a message once it is handed over is  *)
(* left out, and so is the cooldown that processBatchNow clears unawaited; *)
(* texts are not empty.                                                    *)
(***************************************************************************)
EXTENDS Receive, Sequences, FiniteSets

CONSTANTS
    Worker,      \* runs of pollBatches: of several processes, or of one that overlap
    MaxMessages  \* messageBatching.maxMessages

ASSUME BatchAssumption == MaxMessages \in Nat \ {0}

\* Batches in the order of their creation; a message creates at most one.
Batch == 1 .. Cardinality(Delivery)

VARIABLES
    batch,    \* MessageBatch rows
    handler,  \* handleIncomingMessage for each delivery, and processBatchNow
    worker,   \* the polls
    request,  \* handle-batch requests the backend is at work on
    handed,   \* how often a message was handed to the pipeline
    stale     \* batches that somebody changed, or took, by an outdated read

batchVars == <<batch, handler, worker, request, handed, stale>>
vars == <<receiveVars, batchVars>>

Content == Seq(Inbound)
Snapshot == [id : Batch \cup {0}, content : Content]
HandlerPc == {"idle", "refused", "find", "append", "create", "note", "claim", "load",
              "resolve", "pipeline", "complete", "recover", "done", "alone", "lost"}
WorkerPc == {"idle", "overdue", "claim", "ask", "wait", "complete", "recover"}

\* A row holds a message from the start.
TypeOK ==
    /\ ReceiveTypeOK
    /\ batch \in [Batch -> [status : {"absent", "collecting", "ready", "processing", "completed"},
                            content : Content, due : BOOLEAN]]
    /\ \A b \in Batch : batch[b].status = "absent" <=> batch[b].content = << >>
    /\ handler \in [Delivery -> [pc : HandlerPc, at : Snapshot, ready : BOOLEAN]]
    /\ worker \in [Worker -> [pc : WorkerPc, todo : SUBSET Snapshot, hand : Snapshot]]
    /\ request \subseteq [from : Worker, at : Snapshot, pc : {"resolve", "pipeline"},
                          heard : BOOLEAN]
    /\ handed \in [Inbound -> Nat]
    /\ stale \subseteq Batch

NoBatch == [id |-> 0, content |-> << >>]
IdleWorker == [pc |-> "idle", todo |-> {}, hand |-> NoBatch]

Init ==
    /\ ReceiveInit
    /\ batch = [b \in Batch |-> [status |-> "absent", content |-> << >>, due |-> FALSE]]
    /\ handler = [d \in Delivery |-> [pc |-> "idle", at |-> NoBatch, ready |-> FALSE]]
    /\ worker = [w \in Worker |-> IdleWorker]
    /\ request = {}
    /\ handed = [m \in Inbound |-> 0]
    /\ stale = {}

-----------------------------------------------------------------------------
(* Pieces of the handlers *)

\* What an action on rows leaves alone of Receive.
receiving == <<delivery, stored, recent, pending, crashes>>

Collecting == {b \in Batch : batch[b].status = "collecting"}
Claimable(b) == batch[b].status \in {"collecting", "ready"}
Row(b) == [id |-> b, content |-> batch[b].content]
With(b, status) == [batch EXCEPT ![b].status = status]

\* resolveLastBatchMessageIdentity: as many ids as messages, and the last one is stored.
Identified(content) ==
    /\ content # << >>
    /\ \A i \in DOMAIN content : content[i] \notin Anonymous
    /\ content[Len(content)] \in stored

HandOver(content) ==
    handed' = [m \in Inbound |->
        handed[m] + Cardinality({i \in DOMAIN content : content[i] = m})]

Handles(d, pc) == handler[d].pc = pc
Goes(d, pc) == handler' = [handler EXCEPT ![d].pc = pc]
MessageOf(d) == delivery[d].inbound

-----------------------------------------------------------------------------
(* handleIncomingMessage, up to the batch and around it *)

\* The listener may have been replaced, a gate may refuse, the task row may fail.
Dispatch(d) ==
    /\ Saving(d, "saved")
    /\ Handles(d, "idle")
    /\ \/ DbOk /\ Goes(d, "find")
       \/ DbOk /\ Goes(d, "refused")
       \/ DbError /\ Goes(d, "refused")
    /\ UNCHANGED <<receiving, batch, worker, request, handed, stale>>

\* The catch around addToBatch and the task update: "falling through to normal pipeline".
FallsThrough(d) ==
    /\ DbError
    /\ Goes(d, "alone")
    /\ HandOver(<<MessageOf(d)>>)
    /\ UNCHANGED <<batch, stale>>

FindCollecting(d) ==
    /\ Handles(d, "find")
    /\ \/ /\ DbOk /\ Collecting = {}
          /\ Goes(d, "create")
          /\ UNCHANGED <<batch, handed, stale>>
       \/ \E latest \in Collecting :
          /\ DbOk
          /\ \A c \in Collecting : c <= latest
          /\ handler' = [handler EXCEPT ![d].pc = "append", ![d].at = Row(latest)]
          /\ UNCHANGED <<batch, handed, stale>>
       \/ FallsThrough(d)
    /\ UNCHANGED <<receiving, worker, request>>

\* A bug: the row gets the text of the new message alone.
AppendOver(d) ==
    /\ Handles(d, "append")
    /\ \E full \in BOOLEAN :
          /\ DbOk
          /\ batch' = [batch EXCEPT ![handler[d].at.id] =
                [status |-> IF full THEN "ready" ELSE "collecting",
                 content |-> <<MessageOf(d)>>, due |-> full]]
          /\ handler' = [handler EXCEPT ![d].pc = "note", ![d].ready = full]
          /\ UNCHANGED <<handed, stale>>
    /\ UNCHANGED <<receiving, worker, request>>

\* The update goes by id and writes what the look-up has seen and one message more,
\* whatever has become of the row; more than maxChars characters fill a batch, too.
AppendTo(d) ==
    /\ Handles(d, "append")
    /\ \/ \E long \in BOOLEAN :
          LET seen == handler[d].at
              new  == Append(seen.content, MessageOf(d))
              full == long \/ Len(new) >= MaxMessages
          IN
          /\ DbOk
          /\ batch' = [batch EXCEPT ![seen.id] =
                [status |-> IF full THEN "ready" ELSE "collecting",
                 content |-> new, due |-> full]]
          /\ handler' = [handler EXCEPT ![d].pc = "note", ![d].ready = full]
          /\ stale' = IF Row(seen.id) = seen /\ seen.id \in Collecting
                      THEN stale ELSE stale \cup {seen.id}
          /\ UNCHANGED handed
       \/ FallsThrough(d)
    /\ UNCHANGED <<receiving, worker, request>>

\* A bug: the row is created and the message is to follow.
CreateEmpty(d) ==
    /\ Handles(d, "create")
    /\ \E b \in Batch :
          /\ DbOk
          /\ batch[b].status = "absent"
          /\ \A c \in Batch : c < b => batch[c].status # "absent"
          /\ batch' = With(b, "collecting")
          /\ handler' = [handler EXCEPT ![d].pc = "append", ![d].at.id = b]
          /\ UNCHANGED <<handed, stale>>
    /\ UNCHANGED <<receiving, worker, request>>

\* The index of the last batch is read on the way; nothing looks at it.
Create(d) ==
    /\ Handles(d, "create")
    /\ \/ \E b \in Batch :
          /\ DbOk
          /\ batch[b].status = "absent"
          /\ \A c \in Batch : c < b => batch[c].status # "absent"
          /\ batch' = [batch EXCEPT ![b] =
                [status |-> "collecting", content |-> <<MessageOf(d)>>, due |-> FALSE]]
          /\ handler' = [handler EXCEPT ![d].pc = "note", ![d].at.id = b]
          /\ UNCHANGED <<handed, stale>>
       \/ FallsThrough(d)
    /\ UNCHANGED <<receiving, worker, request>>

\* markAgentTaskCompleted; an error here is caught as one of the batch.
NoteBatched(d) ==
    /\ Handles(d, "note")
    /\ \/ DbOk /\ Goes(d, IF handler[d].ready THEN "claim" ELSE "done")
          /\ UNCHANGED <<batch, handed, stale>>
       \/ FallsThrough(d)
    /\ UNCHANGED <<receiving, worker, request>>

-----------------------------------------------------------------------------
(* processBatchNow, for a batch that the message has filled *)

\* A bug: the outcome of the claim is not looked at.
ClaimNowAnyway(d) ==
    /\ Handles(d, "claim")
    /\ DbOk
    /\ batch' = With(handler[d].at.id, "processing")
    /\ Goes(d, "load")
    /\ UNCHANGED <<receiving, worker, request, handed, stale>>

ClaimNow(d) ==
    /\ Handles(d, "claim")
    /\ LET b == handler[d].at.id IN
       \/ DbOk /\ Claimable(b) /\ batch' = With(b, "processing") /\ Goes(d, "load")
       \/ DbOk /\ ~Claimable(b) /\ UNCHANGED batch /\ Goes(d, "done")
       \/ DbError /\ UNCHANGED batch /\ Goes(d, "done")
    /\ UNCHANGED <<receiving, worker, request, handed, stale>>

\* An error leaves the batch in processing.
Load(d) ==
    /\ Handles(d, "load")
    /\ \/ /\ DbOk
          /\ handler' = [handler EXCEPT ![d].pc = "resolve", ![d].at = Row(handler[d].at.id)]
       \/ DbError /\ Goes(d, "done")
    /\ UNCHANGED <<receiving, batch, worker, request, handed, stale>>

\* A bug: a look-up that fails falls through to a dispatch.
ResolveThrough(d) ==
    /\ Handles(d, "resolve")
    /\ \/ DbOk /\ Identified(handler[d].at.content)
       \/ DbError
    /\ Goes(d, "pipeline")
    /\ HandOver(handler[d].at.content)
    /\ UNCHANGED <<receiving, batch, worker, request, stale>>

Resolve(d) ==
    /\ Handles(d, "resolve")
    /\ \/ /\ DbOk /\ Identified(handler[d].at.content)
          /\ Goes(d, "pipeline")
          /\ HandOver(handler[d].at.content)
       \/ /\ (DbOk /\ ~Identified(handler[d].at.content)) \/ DbError
          /\ Goes(d, "recover")
          /\ UNCHANGED handed
    /\ UNCHANGED <<receiving, batch, worker, request, stale>>

\* The pipeline returns, or throws.
PipelineEnds(d) ==
    /\ Handles(d, "pipeline")
    /\ Goes(d, "complete") \/ Goes(d, "recover")
    /\ UNCHANGED <<receiveVars, batch, worker, request, handed, stale>>

\* completeBatch overwrites whatever the status is; its error is caught once.
CompleteNow(d) ==
    /\ \/ Handles(d, "complete")
       \/ Handles(d, "recover")
    /\ \/ /\ DbOk
          /\ batch' = With(handler[d].at.id, "completed")
          /\ Goes(d, "done")
       \/ /\ DbError
          /\ Goes(d, IF Handles(d, "complete") THEN "recover" ELSE "done")
          /\ UNCHANGED batch
    /\ UNCHANGED <<receiving, worker, request, handed, stale>>

HandlerStep(d) ==
    \/ Dispatch(d) \/ FindCollecting(d) \/ AppendTo(d) \/ Create(d) \/ NoteBatched(d)
    \/ ClaimNow(d) \/ Load(d) \/ Resolve(d) \/ PipelineEnds(d) \/ CompleteNow(d)

-----------------------------------------------------------------------------
(* pollBatches, and the requests it makes *)

handling == <<receiving, handler, handed>>

Polls(w, pc) == worker[w].pc = pc
Goto(w, pc) == worker' = [worker EXCEPT ![w].pc = pc]

\* An error ends the poll; the interval begins another.
PollFails(w) == DbError /\ worker' = [worker EXCEPT ![w] = IdleWorker]

Proceeds(w, todo) ==
    worker' = [worker EXCEPT ![w] =
        [pc |-> IF todo = {} THEN "idle" ELSE "claim", todo |-> todo, hand |-> NoBatch]]

\* A bug: only what is overdue is looked for.
PollOverdueOnly(w) ==
    /\ Polls(w, "idle")
    /\ DbOk
    /\ Goto(w, "overdue")
    /\ UNCHANGED <<handling, batch, request, stale>>

\* findReadyBatches: two queries, whose rows are kept.
PollReady(w) ==
    /\ Polls(w, "idle")
    /\ \/ /\ DbOk
          /\ worker' = [worker EXCEPT ![w].pc = "overdue",
                ![w].todo = {Row(b) : b \in {c \in Batch : batch[c].status = "ready"}}]
       \/ PollFails(w)
    /\ UNCHANGED <<handling, batch, request, stale>>

PollOverdue(w) ==
    /\ Polls(w, "overdue")
    /\ \/ /\ DbOk
          /\ Proceeds(w, worker[w].todo
                         \cup {Row(b) : b \in {c \in Collecting : batch[c].due}})
       \/ PollFails(w)
    /\ UNCHANGED <<handling, batch, request, stale>>

\* claimBatch guards the row; the content stays that of the poll.
Claim(w) ==
    /\ Polls(w, "claim")
    /\ \E r \in worker[w].todo :
       \/ /\ DbOk /\ Claimable(r.id)
          /\ batch' = With(r.id, "processing")
          /\ worker' = [worker EXCEPT ![w] =
                [pc |-> "ask", todo |-> @.todo \ {r}, hand |-> r]]
          /\ stale' = IF Row(r.id) = r THEN stale ELSE stale \cup {r.id}
       \/ /\ DbOk /\ ~Claimable(r.id)
          /\ Proceeds(w, worker[w].todo \ {r})
          /\ UNCHANGED <<batch, stale>>
       \/ PollFails(w) /\ UNCHANGED <<batch, stale>>
    /\ UNCHANGED <<handling, request>>

\* The request reaches the backend, or fetch throws.
Ask(w) ==
    /\ Polls(w, "ask")
    /\ \/ /\ DbOk
          /\ Goto(w, "wait")
          /\ request' = request \cup {[from |-> w, at |-> worker[w].hand,
                                       pc |-> "resolve", heard |-> TRUE]}
       \/ DbError /\ Goto(w, "complete") /\ UNCHANGED request
    /\ UNCHANGED <<handling, batch, stale>>

\* AbortSignal.timeout: the worker gives up, the backend does not.
Timeout(w) ==
    /\ Polls(w, "wait")
    /\ Goto(w, "complete")
    /\ request' = {IF r.from = w THEN [r EXCEPT !.heard = FALSE] ELSE r : r \in request}
    /\ UNCHANGED <<receiveVars, handler, handed, batch, stale>>

Complete(w) ==
    /\ \/ Polls(w, "complete")
       \/ Polls(w, "recover")
    /\ \/ /\ DbOk
          /\ batch' = With(worker[w].hand.id, "completed")
          /\ Proceeds(w, worker[w].todo)
       \/ DbError /\ Polls(w, "complete") /\ Goto(w, "recover") /\ UNCHANGED batch
       \/ Polls(w, "recover") /\ PollFails(w) /\ UNCHANGED batch
    /\ UNCHANGED <<handling, request, stale>>

WorkerStep(w) ==
    PollReady(w) \/ PollOverdue(w) \/ Claim(w) \/ Ask(w) \/ Timeout(w) \/ Complete(w)

\* The answer, whatever it says, makes the worker complete the batch.
Answer(r) ==
    /\ request' = request \ {r}
    /\ IF r.heard THEN Goto(r.from, "complete") ELSE UNCHANGED worker

\* handle-batch checks that ids and count agree and that the last id is a stored message.
RequestResolves(r) ==
    /\ r.pc = "resolve"
    /\ \/ /\ DbOk /\ Identified(r.at.content)
          /\ request' = (request \ {r}) \cup {[r EXCEPT !.pc = "pipeline"]}
          /\ HandOver(r.at.content)
          /\ UNCHANGED worker
       \/ /\ (DbOk /\ ~Identified(r.at.content)) \/ DbError
          /\ Answer(r)
          /\ UNCHANGED handed
    /\ UNCHANGED <<receiving, handler, batch, stale>>

RequestEnds(r) ==
    /\ r.pc = "pipeline"
    /\ Answer(r)
    /\ UNCHANGED <<receiveVars, handler, handed, batch, stale>>

RequestStep == \E r \in request : RequestResolves(r) \/ RequestEnds(r)

-----------------------------------------------------------------------------
(* Time, crashes, and all of it together *)

WindowPasses(b) ==
    /\ batch[b].status = "collecting" /\ ~batch[b].due
    /\ batch' = [batch EXCEPT ![b].due = TRUE]
    /\ UNCHANGED <<receiveVars, handler, worker, request, handed, stale>>

\* The backend dies; a worker that waits for an answer sees the connection close.
BackendCrash ==
    /\ ReceiveCrash
    /\ handler' = [d \in Delivery |->
          IF Saving(d, "saved") /\ handler[d].pc \notin {"refused", "done", "alone"}
          THEN [handler[d] EXCEPT !.pc = "lost"] ELSE handler[d]]
    /\ request' = {}
    /\ worker' = [w \in Worker |->
          IF worker[w].pc = "wait" THEN [worker[w] EXCEPT !.pc = "complete"] ELSE worker[w]]
    /\ UNCHANGED <<batch, handed, stale>>

WorkerCrash(w) ==
    /\ ~Polls(w, "idle")
    /\ crashes < MaxCrashes
    /\ crashes' = crashes + 1
    /\ worker' = [worker EXCEPT ![w] = IdleWorker]
    /\ request' = {IF r.from = w THEN [r EXCEPT !.heard = FALSE] ELSE r : r \in request}
    /\ UNCHANGED <<delivery, stored, recent, pending, faults, handler, handed, batch, stale>>

Next ==
    \/ ReceiveStep /\ UNCHANGED batchVars
    \/ \E d \in Delivery : HandlerStep(d)
    \/ \E w \in Worker : WorkerStep(w) \/ WorkerCrash(w)
    \/ RequestStep
    \/ \E b \in Batch : WindowPasses(b)
    \/ BackendCrash

Spec == Init /\ [][Next]_vars

\* Event loops go on, intervals begin another poll, and time passes.
FairSpec ==
    /\ Spec
    /\ WF_vars(\E d \in Delivery : HandlerStep(d))
    /\ \A w \in Worker : WF_vars(WorkerStep(w))
    /\ WF_vars(RequestStep)
    /\ WF_vars(\E b \in Batch : WindowPasses(b))

-----------------------------------------------------------------------------
(* Properties *)

\* Its message is in a batch, or was, and it was not handed over on its own.
Batched(d) == handler[d].pc \in {"note", "claim", "load", "resolve", "pipeline",
                                 "complete", "recover", "done"}

In(m, content) == \E i \in DOMAIN content : content[i] = m

\* Handed over, or still on the way: in a batch that is not completed, or in the request
\* of a worker that has given up.
Cared(d) ==
    LET m == MessageOf(d) IN
    \/ handed[m] > 0
    \/ \E b \in Batch : batch[b].status # "completed" /\ In(m, batch[b].content)
    \/ \E r \in request : In(m, r.at.content)

\* What a batch hands to the pipeline has a stored message to be answered by; a look-up that
\* fails never falls through to a dispatch (the fail-closed identity gate).
DispatchIsIdentified ==
    /\ \A d \in Delivery : Handles(d, "pipeline") => Identified(handler[d].at.content)
    /\ \A r \in request : r.pc = "pipeline" => Identified(r.at.content)

\* A message is handed over once, by whichever of two processes claims its batch, whatever
\* fails, times out or dies; the exceptions are a batch that an append has written to after
\* it was claimed, and an error that makes the message fall through.
HandedOnce ==
    \A m \in Inbound \ Anonymous :
        handed[m] > 1 =>
            \E d \in Delivery : /\ MessageOf(d) = m
                                /\ Handles(d, "alone") \/ handler[d].at.id \in stale

\* No message gets lost in a batch, if no read of the batch was outdated when it was used,
\* nothing failed or died, and each of its messages has an id.
NothingLost ==
    faults = 0 /\ crashes = 0 =>
        \A d \in Delivery :
            /\ Batched(d)
            /\ handler[d].at.id \notin stale
            /\ \A i \in DOMAIN batch[handler[d].at.id].content :
                   batch[handler[d].at.id].content[i] \notin Anonymous
            => Cared(d)

\* Batched messages are answered together, none is dropped: what the demo script promises
\* of two rapid messages.
RapidMessagesAreAnswered ==
    faults = 0 /\ crashes = 0 /\ Anonymous = {} =>
        \A d \in Delivery : Batched(d) => Cared(d)

\* A collecting or ready batch is claimed in the end, also when the handler that filled it
\* has failed or died (the worker's poll).
BatchesAreTaken == \A b \in Batch : Claimable(b) ~> ~Claimable(b)

\* A claimed batch does not stay in processing, unless a process has died or a statement
\* has failed after the claim.
ClaimedBatchesEnd ==
    \A b \in Batch : batch[b].status = "processing" ~>
                         (batch[b].status # "processing" \/ faults > 0 \/ crashes > 0)

\* No batch waits for ever, and none stays claimed for ever.
BatchesAreServed == BatchesAreTaken /\ ClaimedBatchesEnd
=============================================================================
