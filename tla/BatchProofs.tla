---------------------------- MODULE BatchProofs ----------------------------
(***************************************************************************)
(* Proofs about MessageBatch (and Receive), for every set of messages,     *)
(* deliveries and workers, with and without ids, any size of a batch and   *)
(* any number of crashes and errors; and, for those without errors and     *)
(* crashes, that no message of a batch gets lost as long as nobody has     *)
(* used an outdated read of it.                                            *)
(***************************************************************************)
EXTENDS MessageBatch, FiniteSetTheorems, TLAPS

-----------------------------------------------------------------------------
(* The invariants *)

\* A save owns its key until it ends; an id that passed the look-up has no row before the
\* insert, and an accepted id none that is still on its way through the insert.
SaveInv ==
    /\ \A d \in Delivery : ~Saving(d, "idle") => MessageOf(d) \in Inbound
    /\ \A d \in Delivery : delivery[d].pc \in {"find", "insert", "thread"} =>
           pending[MessageOf(d)] = d
    /\ \A d \in Delivery : Saving(d, "insert") /\ MessageOf(d) \notin Anonymous =>
           MessageOf(d) \notin stored
    /\ \A d \in Delivery : delivery[d].pc \in {"thread", "saved"} => MessageOf(d) \in stored
    /\ \A d, e \in Delivery :
           Saving(d, "thread") /\ Saving(e, "saved") /\ MessageOf(d) = MessageOf(e) =>
               MessageOf(d) \in Anonymous

Holding == {"append", "note", "claim", "load", "resolve", "pipeline", "complete", "recover"}
HoldingPoll == {"ask", "wait", "complete", "recover"}
Held(id) == id \in Batch /\ batch[id].status # "absent"

\* Whoever is about to write a row by its id has the id of a row; a worker is answered by
\* the one request it waits for.
RowInv ==
    /\ \A d \in Delivery : ~Handles(d, "idle") => Saving(d, "saved")
    /\ \A d \in Delivery : handler[d].pc \in Holding => Held(handler[d].at.id)
    /\ \A w \in Worker : \A r \in worker[w].todo : Held(r.id)
    /\ \A w \in Worker : worker[w].pc \in HoldingPoll => Held(worker[w].hand.id)
    /\ \A r \in request : r.heard => Polls(r.from, "wait")
    /\ \A r, q \in request : r.heard /\ q.heard /\ r.from = q.from => r = q

BatchInv == TypeOK /\ SaveInv /\ RowInv /\ DispatchIsIdentified

BatchRow == [status : {"absent", "collecting", "ready", "processing", "completed"},
             content : Content, due : BOOLEAN]
HandlerState == [pc : HandlerPc, at : Snapshot, ready : BOOLEAN]
WorkerState == [pc : WorkerPc, todo : SUBSET Snapshot, hand : Snapshot]
RequestState == [from : Worker, at : Snapshot, pc : {"resolve", "pipeline"}, heard : BOOLEAN]
SaveState == [pc : {"idle", "find", "insert", "thread", "saved", "dropped"},
              inbound : Inbound \cup {NoInbound}]

-----------------------------------------------------------------------------
(* saveIncomingMessage *)

LEMMA InitHolds == Init => BatchInv
  <1> SUFFICES ASSUME Init PROVE BatchInv
    OBVIOUS
  <1> USE ReceiveAssumption, BatchAssumption DEF Init, ReceiveInit
  <1>1. << >> \in Content /\ NoBatch \in Snapshot
    BY DEF Content, Snapshot, NoBatch
  <1>2. ReceiveTypeOK
    BY DEF ReceiveTypeOK
  <1>3. TypeOK
    BY <1>1, <1>2 DEF TypeOK, HandlerPc, WorkerPc, IdleWorker
  <1>4. SaveInv
    BY DEF SaveInv, Saving
  <1>5. RowInv /\ DispatchIsIdentified
    BY DEF RowInv, DispatchIsIdentified, Handles, Holding, HoldingPoll, IdleWorker
  <1> QED
    BY <1>3, <1>4, <1>5 DEF BatchInv

LEMMA ReceiveTyped == ReceiveTypeOK /\ SaveInv /\ ReceiveStep => ReceiveTypeOK'
  <1> SUFFICES ASSUME ReceiveTypeOK, SaveInv, ReceiveStep PROVE ReceiveTypeOK'
    OBVIOUS
  <1> USE ReceiveAssumption DEF ReceiveTypeOK, Saving, DbOk, DbError
  <1>1. ASSUME NEW d \in Delivery, NEW m \in Inbound, Arrive(d, m) PROVE ReceiveTypeOK'
    BY <1>1 DEF Arrive
  <1>2. ASSUME NEW d \in Delivery, NEW pc \in {"saved", "dropped"}, Ended(d, pc)
        PROVE  /\ delivery' \in [Delivery -> SaveState]
               /\ pending' \in [Inbound -> Delivery \cup {NoDelivery}]
    BY <1>2 DEF Ended, Moved, SaveState
  <1>3. ASSUME NEW d \in Delivery, NEW pc \in {"insert", "thread"}, delivery' = Moved(d, pc)
        PROVE  delivery' \in [Delivery -> SaveState]
    BY <1>3 DEF Moved, SaveState
  <1>4. ASSUME NEW d \in Delivery, FindStored(d) PROVE ReceiveTypeOK'
    BY <1>2, <1>3, <1>4 DEF FindStored, SaveState
  <1>5. ASSUME NEW d \in Delivery, Insert(d) PROVE ReceiveTypeOK'
    <2>1. delivery[d].inbound \in Inbound
      BY <1>5 DEF Insert, SaveInv, MessageOf
    <2> QED
      BY <2>1, <1>2, <1>3, <1>5 DEF Insert, SaveState
  <1>6. ASSUME NEW d \in Delivery, UpsertThread(d) PROVE ReceiveTypeOK'
    BY <1>2, <1>6 DEF UpsertThread, SaveState
  <1>7. ASSUME NEW m \in Anonymous, Forget(m) PROVE ReceiveTypeOK'
    BY <1>7 DEF Forget
  <1> QED
    BY <1>1, <1>4, <1>5, <1>6, <1>7 DEF ReceiveStep, SaveStep

\* Rows are not deleted, an accepted delivery stays accepted, and one at a time is accepted.
LEMMA SaveKept ==
  ASSUME ReceiveTypeOK, SaveInv, ReceiveStep
  PROVE  /\ SaveInv'
         /\ stored \subseteq stored'
         /\ \A d \in Delivery : Saving(d, "saved") => delivery'[d] = delivery[d]
         /\ \A d \in Delivery : Saving(d, "saved")' /\ ~Saving(d, "saved") =>
               Saving(d, "thread") /\ MessageOf(d)' = MessageOf(d)
         /\ \A d, e \in Delivery : d # e =>
               delivery'[d] = delivery[d] \/ delivery'[e] = delivery[e]
  <1> USE ReceiveAssumption DEF ReceiveTypeOK, SaveInv, Saving, MessageOf, DbOk, DbError
  <1> DEFINE Goal == /\ SaveInv'
                     /\ stored \subseteq stored'
                     /\ \A d \in Delivery : Saving(d, "saved") => delivery'[d] = delivery[d]
                     /\ \A d \in Delivery : Saving(d, "saved")' /\ ~Saving(d, "saved") =>
                           Saving(d, "thread") /\ MessageOf(d)' = MessageOf(d)
                     /\ \A d, e \in Delivery : d # e =>
                           delivery'[d] = delivery[d] \/ delivery'[e] = delivery[e]
  <1>1. ASSUME NEW d \in Delivery, NEW m \in Inbound, Arrive(d, m) PROVE Goal
    <2>1. CASE pending[m] # NoDelivery
      BY <1>1, <2>1 DEF Arrive
    <2>2. CASE pending[m] = NoDelivery
      <3>1. PICK pc \in {"find", "insert"} :
               /\ delivery' = [delivery EXCEPT ![d] = [pc |-> pc, inbound |-> m]]
               /\ pending' = [pending EXCEPT ![m] = d]
               /\ pc = "insert" => m \in Anonymous
               /\ Saving(d, "idle")
               /\ UNCHANGED stored
        BY <1>1, <2>2 DEF Arrive
      <3>2. \A e \in Delivery : e # d => delivery'[e] = delivery[e]
        BY <3>1
      <3>3. delivery'[d] = [pc |-> pc, inbound |-> m]
        BY <3>1
      <3>4. \A e \in Delivery : delivery[e].pc \in {"find", "insert", "thread"} =>
               /\ e # d
               /\ MessageOf(e) # m
        BY <2>2, <3>1
      <3> QED
        BY <3>1, <3>2, <3>3, <3>4
    <2> QED
      BY <2>1, <2>2
  <1>2. ASSUME NEW d \in Delivery, FindStored(d) PROVE Goal
    <2>1. PICK pc \in {"insert", "dropped"} :
             /\ delivery' = [delivery EXCEPT ![d].pc = pc]
             /\ pc = "insert" => MessageOf(d) \notin stored
             /\ \/ pc = "insert" /\ UNCHANGED pending
                \/ pc = "dropped" /\ pending' = [pending EXCEPT ![MessageOf(d)] = NoDelivery]
      BY <1>2 DEF FindStored, Ended, Moved
    <2>2. /\ \A e \in Delivery : e # d => delivery'[e] = delivery[e]
          /\ delivery'[d].pc = pc /\ MessageOf(d)' = MessageOf(d)
          /\ \A m \in Inbound : m # MessageOf(d) => pending'[m] = pending[m]
          /\ pc = "insert" => pending' = pending
      BY <2>1
    <2>3. \A e \in Delivery : e # d /\ delivery[e].pc \in {"find", "insert", "thread"} =>
             MessageOf(e) # MessageOf(d)
      BY <1>2 DEF FindStored
    <2> QED
      BY <1>2, <2>1, <2>2, <2>3 DEF FindStored
  <1>3. ASSUME NEW d \in Delivery, Insert(d) PROVE Goal
    <2>1. PICK pc \in {"thread", "dropped"} :
             /\ delivery' = [delivery EXCEPT ![d].pc = pc]
             /\ \/ pc = "thread" /\ UNCHANGED pending /\ stored' = stored \cup {MessageOf(d)}
                \/ /\ pc = "dropped" /\ UNCHANGED stored
                   /\ pending' = [pending EXCEPT ![MessageOf(d)] = NoDelivery]
      BY <1>3 DEF Insert, Ended, Moved
    <2>2. /\ \A e \in Delivery : e # d => delivery'[e] = delivery[e]
          /\ delivery'[d].pc = pc /\ MessageOf(d)' = MessageOf(d)
          /\ \A m \in Inbound : m # MessageOf(d) => pending'[m] = pending[m]
          /\ pc = "thread" => pending' = pending
      BY <2>1
    <2>3. \A e \in Delivery : e # d /\ delivery[e].pc \in {"find", "insert", "thread"} =>
             MessageOf(e) # MessageOf(d)
      BY <1>3 DEF Insert
    <2> QED
      BY <1>3, <2>1, <2>2, <2>3 DEF Insert
  <1>4. ASSUME NEW d \in Delivery, UpsertThread(d) PROVE Goal
    <2>1. PICK pc \in {"saved", "dropped"} : Ended(d, pc)
      BY <1>4 DEF UpsertThread
    <2>2. /\ \A e \in Delivery : e # d => delivery'[e] = delivery[e]
          /\ delivery'[d].pc = pc /\ MessageOf(d)' = MessageOf(d)
          /\ \A m \in Inbound : m # MessageOf(d) => pending'[m] = pending[m]
      BY <2>1 DEF Ended, Moved
    <2>3. \A e \in Delivery : e # d /\ delivery[e].pc \in {"find", "insert", "thread"} =>
             MessageOf(e) # MessageOf(d)
      BY <1>4 DEF UpsertThread
    <2> QED
      BY <1>4, <2>2, <2>3 DEF UpsertThread
  <1>5. ASSUME NEW m \in Anonymous, Forget(m) PROVE Goal
    BY <1>5 DEF Forget
  <1> QED
    BY <1>1, <1>2, <1>3, <1>4, <1>5 DEF ReceiveStep, SaveStep

-----------------------------------------------------------------------------
(* The moves of handlers, polls and requests *)

\* Held in the next state, by an id of this one.
HeldNext(id) == id \in Batch /\ batch'[id].status # "absent"

\* Rows are written one at a time, and never back to "absent".
Writes ==
    \/ UNCHANGED batch
    \/ \E b \in Batch, row \in BatchRow :
          /\ row.status # "absent" /\ row.content # << >>
          /\ batch' = [batch EXCEPT ![b] = row]

HandlerGoesOn(d) ==
    \E h \in HandlerState :
        /\ handler' = [handler EXCEPT ![d] = h]
        /\ h.pc # "idle"
        /\ h.pc \in Holding => HeldNext(h.at.id)
        /\ h.pc = "pipeline" => Identified(h.at.content)

HandlerMoves(d) ==
    /\ Saving(d, "saved")
    /\ HandlerGoesOn(d)
    /\ Writes
    /\ handed' \in [Inbound -> Nat]
    /\ stale' \subseteq Batch
    /\ faults' \in 0 .. MaxFaults
    /\ UNCHANGED <<receiving, worker, request>>

\* A poll that begins to wait has just made its request, one that ceases to wait has none
\* that it would hear.
PollMoves(w) ==
    /\ \E h \in WorkerState :
          /\ worker' = [worker EXCEPT ![w] = h]
          /\ \A r \in h.todo : HeldNext(r.id)
          /\ h.pc \in HoldingPoll => HeldNext(h.hand.id)
          /\ \/ /\ ~Polls(w, "wait") /\ h.pc # "wait"
                /\ UNCHANGED request
             \/ /\ ~Polls(w, "wait") /\ h.pc = "wait"
                /\ request' = request \cup {[from |-> w, at |-> h.hand, pc |-> "resolve",
                                             heard |-> TRUE]}
             \/ /\ Polls(w, "wait") /\ h.pc # "wait"
                /\ request' = {IF r.from = w THEN [r EXCEPT !.heard = FALSE] ELSE r :
                                  r \in request}
    /\ Writes
    /\ stale' \subseteq Batch
    /\ faults' \in 0 .. MaxFaults
    /\ UNCHANGED <<receiving, handler, handed>>

LEMMA RowsTyped ==
  ASSUME TypeOK, Writes
  PROVE  /\ batch' \in [Batch -> BatchRow]
         /\ \A b \in Batch : batch'[b].status = "absent" <=> batch'[b].content = << >>
         /\ \A id : Held(id) => HeldNext(id)
  <1>1. batch \in [Batch -> BatchRow]
    BY DEF TypeOK, BatchRow
  <1>2. CASE UNCHANGED batch
    BY <1>1, <1>2 DEF TypeOK, Held, HeldNext
  <1>3. CASE ~UNCHANGED batch
    <2>1. PICK b \in Batch, row \in BatchRow :
             /\ row.status # "absent" /\ row.content # << >>
             /\ batch' = [batch EXCEPT ![b] = row]
      BY <1>3 DEF Writes
    <2>2. batch' \in [Batch -> BatchRow]
      BY <1>1, <2>1
    <2>3. \A c \in Batch : batch'[c] = IF c = b THEN row ELSE batch[c]
      BY <1>1, <2>1
    <2> QED
      BY <2>1, <2>2, <2>3 DEF TypeOK, Held, HeldNext
  <1> QED
    BY <1>2, <1>3

\* How often a message occurs in a text is a number.
LEMMA HandOverTyped ==
  ASSUME NEW content \in Content, handed \in [Inbound -> Nat], HandOver(content)
  PROVE  handed' \in [Inbound -> Nat]
  <1>1. ASSUME NEW m \in Inbound
        PROVE  Cardinality({i \in DOMAIN content : content[i] = m}) \in Nat
    <2>1. DOMAIN content = 1 .. Len(content) /\ Len(content) \in Nat
      BY DEF Content
    <2>2. IsFiniteSet(DOMAIN content)
      BY <2>1, FS_Interval
    <2>3. IsFiniteSet({i \in DOMAIN content : content[i] = m})
      BY <2>2, FS_Subset
    <2> QED
      BY <2>3, FS_CardinalityType
  <1> QED
    BY <1>1 DEF HandOver

\* A change of a status keeps a row a row.
LEMMA WithWrites ==
  ASSUME TypeOK, NEW id, Held(id), NEW status \in {"processing", "completed"},
         batch' = With(id, status)
  PROVE  Writes
  <1>1. batch[id] \in BatchRow /\ batch[id].content # << >>
    BY DEF TypeOK, Held, BatchRow
  <1>2. [batch[id] EXCEPT !.status = status] \in BatchRow
    BY <1>1 DEF BatchRow
  <1>3. batch' = [batch EXCEPT ![id] = [batch[id] EXCEPT !.status = status]]
    BY DEF With
  <1> DEFINE row == [batch[id] EXCEPT !.status = status]
  <1>4. row.status # "absent" /\ row.content # << >>
    BY <1>1 DEF BatchRow
  <1> QED
    BY <1>2, <1>3, <1>4 DEF Writes, Held

LEMMA RowTyped ==
  ASSUME TypeOK, NEW b \in Batch
  PROVE  Row(b) \in Snapshot
  BY DEF TypeOK, Row, Snapshot

LEMMA HandlersMove ==
  ASSUME BatchInv, NEW d \in Delivery, HandlerStep(d)
  PROVE  HandlerMoves(d)
  <1> USE DEF BatchInv
  <1> DEFINE h == handler[d]
  <1>1. /\ h \in HandlerState /\ h.at \in Snapshot /\ h.at.content \in Content
        /\ h.pc \in HandlerPc /\ h.ready \in BOOLEAN
        /\ handler \in [Delivery -> HandlerState]
        /\ handed \in [Inbound -> Nat] /\ stale \subseteq Batch /\ faults \in 0 .. MaxFaults
    BY DEF TypeOK, ReceiveTypeOK, HandlerState, Snapshot
  <1>2. faults < MaxFaults /\ faults' = faults + 1 => faults' \in 0 .. MaxFaults
    BY <1>1, ReceiveAssumption
  <1>3. /\ ~Handles(d, "idle") => Saving(d, "saved")
        /\ h.pc \in Holding => Held(h.at.id)
        /\ Saving(d, "saved") => MessageOf(d) \in Inbound
    BY DEF RowInv, SaveInv, Saving
  <1>4. ASSUME NEW pc \in HandlerPc \ (Holding \cup {"idle"}), Goes(d, pc)
        PROVE  HandlerGoesOn(d)
    <2>1. /\ [h EXCEPT !.pc = pc] \in HandlerState
          /\ handler' = [handler EXCEPT ![d] = [h EXCEPT !.pc = pc]]
          /\ [h EXCEPT !.pc = pc].pc = pc
      BY <1>1, <1>4 DEF Goes, HandlerState
    <2> QED
      BY <2>1 DEF HandlerGoesOn, Holding
  <1>5. ASSUME NEW pc \in Holding, Goes(d, pc), HeldNext(h.at.id),
               pc = "pipeline" => Identified(h.at.content)
        PROVE  HandlerGoesOn(d)
    <2>1. /\ [h EXCEPT !.pc = pc] \in HandlerState
          /\ handler' = [handler EXCEPT ![d] = [h EXCEPT !.pc = pc]]
          /\ [h EXCEPT !.pc = pc].pc = pc /\ [h EXCEPT !.pc = pc].at = h.at
          /\ pc # "idle"
      BY <1>1, <1>5 DEF Goes, HandlerState, HandlerPc, Holding
    <2> QED
      BY <1>5, <2>1 DEF HandlerGoesOn, Holding
  <1>6. ASSUME TypeOK, Writes, Held(h.at.id) PROVE HeldNext(h.at.id)
    BY <1>6, RowsTyped
  <1>7. ASSUME FallsThrough(d), Saving(d, "saved"), UNCHANGED <<receiving, worker, request>>
        PROVE  HandlerMoves(d)
    <2>1. <<MessageOf(d)>> \in Content
      BY <1>3, <1>7 DEF Content
    <2>2. handed' \in [Inbound -> Nat]
      BY <1>1, <1>7, <2>1, HandOverTyped DEF FallsThrough
    <2>3. HandlerGoesOn(d)
      BY <1>4, <1>7 DEF FallsThrough, HandlerPc, Holding
    <2> QED
      BY <1>1, <1>2, <1>7, <2>2, <2>3 DEF FallsThrough, DbError, HandlerMoves, Writes, Holding
  <1>8. CASE Dispatch(d)
    <2>1. HandlerGoesOn(d)
      BY <1>4, <1>8 DEF Dispatch, HandlerPc, Holding
    <2> QED
      BY <1>1, <1>2, <1>8, <2>1 DEF Dispatch, DbOk, DbError, HandlerMoves, Writes, Holding
  <1>9. CASE FindCollecting(d)
    <2>1. Saving(d, "saved")
      BY <1>3, <1>9 DEF FindCollecting, Handles
    <2>2. CASE Collecting = {} /\ Goes(d, "create") /\ DbOk /\ UNCHANGED <<batch, handed, stale>>
      <3>1. HandlerGoesOn(d)
        BY <1>4, <2>2 DEF HandlerPc, Holding
      <3> QED
        BY <1>1, <1>9, <2>1, <2>2, <3>1 DEF FindCollecting, DbOk, HandlerMoves, Writes, Holding
    <2>3. ASSUME NEW latest \in Collecting, DbOk, UNCHANGED <<batch, handed, stale>>,
                 handler' = [handler EXCEPT ![d].pc = "append", ![d].at = Row(latest)]
          PROVE  HandlerMoves(d)
      <3>1. latest \in Batch /\ batch[latest].status # "absent" /\ Row(latest) \in Snapshot
        BY RowTyped DEF Collecting
      <3> DEFINE k == [h EXCEPT !.pc = "append", !.at = Row(latest)]
      <3>2. k \in HandlerState
        BY <1>1, <3>1 DEF HandlerState, HandlerPc
      <3>3. handler' = [handler EXCEPT ![d] = k]
        BY <1>1, <2>3 DEF HandlerState
      <3>4. HeldNext(k.at.id)
        BY <2>3, <3>1 DEF HeldNext, Row
      <3> HIDE DEF k
      <3>5. k.pc = "append"
        BY DEF k
      <3> QED
        BY <1>1, <1>9, <2>1, <2>3, <3>2, <3>3, <3>4, <3>5
        DEF FindCollecting, DbOk, HandlerMoves, Writes, Holding, HandlerGoesOn
    <2> QED
      BY <1>7, <1>9, <2>1, <2>2, <2>3 DEF FindCollecting
  <1>10. CASE AppendTo(d)
    <2>1. Saving(d, "saved") /\ Held(h.at.id)
      BY <1>3, <1>10 DEF AppendTo, Handles, Holding
    <2>2. ASSUME NEW full \in BOOLEAN, NEW new \in Content, new # << >>, DbOk,
                 batch' = [batch EXCEPT ![h.at.id] =
                    [status |-> IF full THEN "ready" ELSE "collecting",
                     content |-> new, due |-> full]],
                 handler' = [handler EXCEPT ![d].pc = "note", ![d].ready = full],
                 stale' \subseteq Batch, UNCHANGED handed
          PROVE  HandlerMoves(d)
      <3> DEFINE row == [status |-> IF full THEN "ready" ELSE "collecting",
                         content |-> new, due |-> full]
                 k == [h EXCEPT !.pc = "note", !.ready = full]
      <3>1. row \in BatchRow /\ row.status # "absent" /\ row.content # << >>
        BY <2>2 DEF BatchRow
      <3>2. Writes
        BY <2>1, <2>2, <3>1 DEF Writes, Held
      <3>3. k \in HandlerState /\ handler' = [handler EXCEPT ![d] = k]
        BY <1>1, <2>2 DEF HandlerState, HandlerPc
      <3>4. HeldNext(k.at.id) /\ k.pc = "note"
        BY <1>6, <2>1, <3>2
      <3> HIDE DEF k
      <3> QED
        BY <1>1, <1>10, <2>1, <2>2, <3>2, <3>3, <3>4
        DEF AppendTo, DbOk, HandlerMoves, Holding, HandlerGoesOn
    <2>3. CASE FallsThrough(d)
      BY <1>7, <1>10, <2>1, <2>3 DEF AppendTo
    <2>4. CASE ~FallsThrough(d)
      <3>1. Append(h.at.content, MessageOf(d)) \in Content
            /\ Append(h.at.content, MessageOf(d)) # << >>
        <4>1. h.at.content \in Seq(Inbound) /\ MessageOf(d) \in Inbound
          BY <1>1, <1>3, <2>1 DEF Content
        <4>2. /\ Append(h.at.content, MessageOf(d)) \in Seq(Inbound)
              /\ Len(Append(h.at.content, MessageOf(d))) = Len(h.at.content) + 1
              /\ Len(h.at.content) \in Nat /\ Len(<< >>) = 0
          BY <4>1
        <4> QED
          BY <4>2 DEF Content
      <3>2. PICK long \in BOOLEAN :
               LET new  == Append(h.at.content, MessageOf(d))
                   full == long \/ Len(new) >= MaxMessages
               IN  /\ DbOk
                   /\ batch' = [batch EXCEPT ![h.at.id] =
                         [status |-> IF full THEN "ready" ELSE "collecting",
                          content |-> new, due |-> full]]
                   /\ handler' = [handler EXCEPT ![d].pc = "note", ![d].ready = full]
                   /\ stale' \in {stale, stale \cup {h.at.id}}
                   /\ UNCHANGED handed
        BY <1>10, <2>4 DEF AppendTo
      <3> DEFINE new  == Append(h.at.content, MessageOf(d))
                 full == long \/ Len(new) >= MaxMessages
      <3>3. stale' \subseteq Batch /\ full \in BOOLEAN
        BY <1>1, <2>1, <3>2 DEF Held
      <3>4. /\ DbOk
            /\ batch' = [batch EXCEPT ![h.at.id] =
                  [status |-> IF full THEN "ready" ELSE "collecting",
                   content |-> new, due |-> full]]
            /\ handler' = [handler EXCEPT ![d].pc = "note", ![d].ready = full]
            /\ UNCHANGED handed
        BY <3>2
      <3> HIDE DEF full
      <3> QED
        BY <2>2, <3>1, <3>3, <3>4
    <2> QED
      BY <2>3, <2>4
  <1>11. CASE Create(d)
    <2>1. Saving(d, "saved")
      BY <1>3, <1>11 DEF Create, Handles
    <2>2. CASE FallsThrough(d)
      BY <1>7, <1>11, <2>1, <2>2 DEF Create
    <2>3. CASE ~FallsThrough(d)
      <3> DEFINE row == [status |-> "collecting", content |-> <<MessageOf(d)>>, due |-> FALSE]
      <3>1. PICK b \in Batch :
               /\ DbOk
               /\ batch' = [batch EXCEPT ![b] = row]
               /\ handler' = [handler EXCEPT ![d].pc = "note", ![d].at.id = b]
               /\ UNCHANGED <<handed, stale>>
        BY <1>11, <2>3 DEF Create
      <3>2. row \in BatchRow /\ row.status # "absent" /\ row.content # << >>
        BY <1>3, <2>1 DEF BatchRow, Content
      <3>3. Writes /\ HeldNext(b)
        BY <3>1, <3>2 DEF Writes, HeldNext, TypeOK
      <3> DEFINE k == [h EXCEPT !.pc = "note", !.at.id = b]
      <3>4. k \in HandlerState /\ k.at.id = b /\ k.pc = "note"
        BY <1>1 DEF HandlerState, HandlerPc, Snapshot
      <3>5. handler' = [handler EXCEPT ![d] = k]
        BY <1>1, <3>1 DEF HandlerState, Snapshot
      <3> HIDE DEF k, row
      <3> QED
        BY <1>1, <1>11, <2>1, <3>1, <3>3, <3>4, <3>5
        DEF Create, DbOk, HandlerMoves, Holding, HandlerGoesOn
    <2> QED
      BY <2>2, <2>3
  <1>12. CASE NoteBatched(d)
    <2>1. Saving(d, "saved") /\ Held(h.at.id)
      BY <1>3, <1>12 DEF NoteBatched, Handles, Holding
    <2>2. CASE FallsThrough(d)
      BY <1>7, <1>12, <2>1, <2>2 DEF NoteBatched
    <2>3. CASE ~FallsThrough(d)
      <3>1. DbOk /\ UNCHANGED <<batch, handed, stale>> /\ (Goes(d, "claim") \/ Goes(d, "done"))
        BY <1>12, <2>3 DEF NoteBatched
      <3>2. HeldNext(h.at.id)
        BY <2>1, <3>1 DEF Held, HeldNext
      <3>3. HandlerGoesOn(d)
        BY <1>4, <1>5, <3>1, <3>2 DEF HandlerPc, Holding, HandlerGoesOn
      <3> QED
        BY <1>1, <1>12, <2>1, <3>1, <3>3 DEF NoteBatched, DbOk, HandlerMoves, Writes
    <2> QED
      BY <2>2, <2>3
  <1>13. CASE ClaimNow(d)
    <2>1. Saving(d, "saved") /\ Held(h.at.id)
      BY <1>3, <1>13 DEF ClaimNow, Handles, Holding
    <2>2. batch' = With(h.at.id, "processing") \/ UNCHANGED batch
      BY <1>13 DEF ClaimNow
    <2>3. Writes
      BY <2>1, <2>2, WithWrites DEF Writes
    <2>4. HeldNext(h.at.id)
      BY <1>6, <2>1, <2>3
    <2>5. Goes(d, "load") \/ Goes(d, "done")
      BY <1>13 DEF ClaimNow
    <2>6. HandlerGoesOn(d)
      BY <1>4, <1>5, <2>4, <2>5 DEF HandlerPc, Holding, HandlerGoesOn
    <2> QED
      BY <1>1, <1>2, <1>13, <2>1, <2>3, <2>6
      DEF ClaimNow, DbOk, DbError, HandlerMoves, handling, receiving, HandlerGoesOn
  <1>14. CASE Load(d)
    <2>1. Saving(d, "saved") /\ Held(h.at.id)
      BY <1>3, <1>14 DEF Load, Handles, Holding
    <2>2. HeldNext(h.at.id)
      BY <1>14, <2>1 DEF Load, Held, HeldNext
    <2>3. CASE Goes(d, "done")
      <3>1. HandlerGoesOn(d)
        BY <1>4, <2>3 DEF HandlerPc, Holding, HandlerGoesOn
      <3> QED
        BY <1>1, <1>2, <1>14, <2>1, <3>1 DEF Load, DbOk, DbError, HandlerMoves, Writes, HandlerGoesOn
    <2>4. CASE ~Goes(d, "done")
      <3> DEFINE k == [h EXCEPT !.pc = "resolve", !.at = Row(h.at.id)]
      <3>1. DbOk /\ handler' = [handler EXCEPT ![d].pc = "resolve", ![d].at = Row(h.at.id)]
        BY <1>14, <2>4 DEF Load
      <3>2. Row(h.at.id) \in Snapshot /\ Row(h.at.id).id = h.at.id
        BY <2>1, RowTyped DEF Held, Row
      <3>3. k \in HandlerState /\ k.pc = "resolve" /\ k.at.id = h.at.id
        BY <1>1, <3>2 DEF HandlerState, HandlerPc
      <3>4. handler' = [handler EXCEPT ![d] = k]
        BY <1>1, <3>1 DEF HandlerState
      <3> HIDE DEF k
      <3> QED
        BY <1>1, <1>14, <2>1, <2>2, <3>1, <3>3, <3>4
        DEF Load, DbOk, HandlerMoves, Writes, HandlerGoesOn
    <2> QED
      BY <2>3, <2>4
  <1>15. CASE Resolve(d)
    <2>1. Saving(d, "saved") /\ Held(h.at.id)
      BY <1>3, <1>15 DEF Resolve, Handles, Holding
    <2>2. HeldNext(h.at.id)
      BY <1>15, <2>1 DEF Resolve, Held, HeldNext
    <2>3. /\ handed' \in [Inbound -> Nat]
          /\ faults' \in 0 .. MaxFaults
      BY <1>1, <1>2, <1>15, HandOverTyped DEF Resolve, DbOk, DbError
    <2>4. \/ Goes(d, "pipeline") /\ Identified(h.at.content)
          \/ Goes(d, "recover")
      BY <1>15 DEF Resolve
    <2>5. HandlerGoesOn(d)
      BY <1>5, <2>2, <2>4 DEF Holding, HandlerGoesOn
    <2> QED
      BY <1>1, <1>15, <2>1, <2>3, <2>5 DEF Resolve, HandlerMoves, Writes, HandlerGoesOn
  <1>16. CASE PipelineEnds(d)
    <2>1. Saving(d, "saved") /\ Held(h.at.id)
      BY <1>3, <1>16 DEF PipelineEnds, Handles, Holding
    <2>2. HeldNext(h.at.id)
      BY <1>16, <2>1 DEF PipelineEnds, Held, HeldNext
    <2>3. HandlerGoesOn(d)
      BY <1>5, <1>16, <2>2 DEF PipelineEnds, Holding, HandlerGoesOn
    <2> QED
      BY <1>1, <1>16, <2>1, <2>3
      DEF PipelineEnds, HandlerMoves, Writes, receiveVars, receiving, HandlerGoesOn
  <1>17. CASE CompleteNow(d)
    <2>1. Saving(d, "saved") /\ Held(h.at.id)
      BY <1>3, <1>17 DEF CompleteNow, Handles, Holding
    <2>2. Writes
      BY <1>17, <2>1, WithWrites DEF CompleteNow, Writes
    <2>3. HeldNext(h.at.id)
      BY <1>6, <2>1, <2>2
    <2>4. Goes(d, "done") \/ Goes(d, "recover")
      BY <1>17 DEF CompleteNow
    <2>5. HandlerGoesOn(d)
      BY <1>4, <1>5, <2>3, <2>4 DEF HandlerPc, Holding, HandlerGoesOn
    <2> QED
      BY <1>1, <1>2, <1>17, <2>1, <2>2, <2>5 DEF CompleteNow, DbOk, DbError, HandlerMoves, HandlerGoesOn
  <1> QED
    BY <1>8, <1>9, <1>10, <1>11, <1>12, <1>13, <1>14, <1>15, <1>16, <1>17 DEF HandlerStep

LEMMA PollsMove ==
  ASSUME BatchInv, NEW w \in Worker, WorkerStep(w)
  PROVE  PollMoves(w)
  <1> USE DEF BatchInv
  <1> DEFINE h == worker[w]
  <1>1. /\ h \in WorkerState /\ h.todo \subseteq Snapshot /\ h.hand \in Snapshot
        /\ worker \in [Worker -> WorkerState]
        /\ stale \subseteq Batch /\ faults \in 0 .. MaxFaults
    BY DEF TypeOK, ReceiveTypeOK, WorkerState
  <1>2. faults < MaxFaults /\ faults' = faults + 1 => faults' \in 0 .. MaxFaults
    BY <1>1, ReceiveAssumption
  <1>3. /\ \A r \in h.todo : Held(r.id)
        /\ h.pc \in HoldingPoll => Held(h.hand.id)
    BY DEF RowInv
  <1>4. ASSUME TypeOK, Writes, NEW id, Held(id) PROVE HeldNext(id)
    BY <1>4, RowsTyped
  <1>5. NoBatch \in Snapshot /\ IdleWorker \in WorkerState
    BY DEF NoBatch, IdleWorker, Snapshot, WorkerState, WorkerPc, Content
  <1>6. ASSUME NEW k \in WorkerState, worker' = [worker EXCEPT ![w] = k],
               \A r \in k.todo : HeldNext(r.id),
               k.pc \in HoldingPoll => HeldNext(k.hand.id),
               ~Polls(w, "wait"), k.pc # "wait", UNCHANGED request,
               Writes, stale' \subseteq Batch, faults' \in 0 .. MaxFaults,
               UNCHANGED <<receiving, handler, handed>>
        PROVE  PollMoves(w)
    BY <1>6 DEF PollMoves
  <1>7. ASSUME PollFails(w), ~Polls(w, "wait"), UNCHANGED request, Writes,
               stale' \subseteq Batch, UNCHANGED <<receiving, handler, handed>>
        PROVE  PollMoves(w)
    <2>1. IdleWorker.todo = {} /\ IdleWorker.pc = "idle"
      BY DEF IdleWorker
    <2> QED
      BY <1>2, <1>5, <1>6, <1>7, <2>1 DEF PollFails, DbError, HoldingPoll
  <1>8. ASSUME NEW todo \in SUBSET Snapshot, Proceeds(w, todo), \A r \in todo : HeldNext(r.id),
               ~Polls(w, "wait"), UNCHANGED request, Writes, DbOk,
               UNCHANGED stale, UNCHANGED <<receiving, handler, handed>>
        PROVE  PollMoves(w)
    <2> DEFINE k == [pc |-> IF todo = {} THEN "idle" ELSE "claim", todo |-> todo,
                     hand |-> NoBatch]
    <2>1. k \in WorkerState /\ k.todo = todo /\ k.pc \in {"idle", "claim"}
      BY <1>5 DEF WorkerState, WorkerPc
    <2>2. worker' = [worker EXCEPT ![w] = k]
      BY <1>8 DEF Proceeds
    <2> HIDE DEF k
    <2> QED
      BY <1>1, <1>6, <1>8, <2>1, <2>2 DEF DbOk, HoldingPoll
  <1>9. CASE PollReady(w)
    <2>1. CASE PollFails(w)
      BY <1>1, <1>7, <1>9, <2>1 DEF PollReady, Polls, Writes, handling
    <2>2. CASE ~PollFails(w)
      <3> DEFINE found == {Row(b) : b \in {c \in Batch : batch[c].status = "ready"}}
                 k == [h EXCEPT !.pc = "overdue", !.todo = found]
      <3>1. DbOk /\ worker' = [worker EXCEPT ![w].pc = "overdue", ![w].todo = found]
        BY <1>9, <2>2 DEF PollReady
      <3>2. found \subseteq Snapshot /\ \A r \in found : HeldNext(r.id)
        BY <1>9, RowTyped DEF PollReady, HeldNext, Row
      <3>3. k \in WorkerState /\ k.todo = found /\ k.pc = "overdue"
        BY <1>1, <3>2 DEF WorkerState, WorkerPc
      <3>4. worker' = [worker EXCEPT ![w] = k]
        BY <1>1, <3>1 DEF WorkerState
      <3> HIDE DEF k
      <3> QED
        BY <1>1, <1>6, <1>9, <3>1, <3>2, <3>3, <3>4
        DEF PollReady, Polls, DbOk, Writes, handling, HoldingPoll
    <2> QED
      BY <2>1, <2>2
  <1>10. CASE PollOverdue(w)
    <2>1. CASE PollFails(w)
      BY <1>1, <1>7, <1>10, <2>1 DEF PollOverdue, Polls, Writes, handling
    <2>2. CASE ~PollFails(w)
      <3> DEFINE found == {Row(b) : b \in {c \in Collecting : batch[c].due}}
      <3>1. DbOk /\ Proceeds(w, h.todo \cup found)
        BY <1>10, <2>2 DEF PollOverdue
      <3>2. found \subseteq Snapshot /\ \A r \in found : HeldNext(r.id)
        BY <1>10, RowTyped DEF PollOverdue, HeldNext, Row, Collecting
      <3>3. \A r \in h.todo : HeldNext(r.id)
        BY <1>3, <1>10 DEF PollOverdue, Held, HeldNext
      <3> HIDE DEF found
      <3> QED
        BY <1>1, <1>8, <1>10, <3>1, <3>2, <3>3 DEF PollOverdue, Polls, Writes, handling
    <2> QED
      BY <2>1, <2>2
  <1>11. CASE Claim(w)
    <2>1. PICK r \in h.todo :
             \/ /\ DbOk /\ Claimable(r.id)
                /\ batch' = With(r.id, "processing")
                /\ worker' = [worker EXCEPT ![w] =
                      [pc |-> "ask", todo |-> h.todo \ {r}, hand |-> r]]
                /\ stale' \in {stale, stale \cup {r.id}}
             \/ /\ DbOk
                /\ Proceeds(w, h.todo \ {r})
                /\ UNCHANGED <<batch, stale>>
             \/ PollFails(w) /\ UNCHANGED <<batch, stale>>
      BY <1>1, <1>11 DEF Claim
    <2>2. ~Polls(w, "wait") /\ UNCHANGED request /\ UNCHANGED <<receiving, handler, handed>>
      BY <1>11 DEF Claim, Polls, handling
    <2>3. r \in Snapshot /\ Held(r.id) /\ r.id \in Batch
      BY <1>1, <1>3 DEF Held
    <2>4. CASE /\ DbOk /\ Claimable(r.id)
               /\ batch' = With(r.id, "processing")
               /\ worker' = [worker EXCEPT ![w] =
                      [pc |-> "ask", todo |-> h.todo \ {r}, hand |-> r]]
               /\ stale' \in {stale, stale \cup {r.id}}
      <3> DEFINE k == [pc |-> "ask", todo |-> h.todo \ {r}, hand |-> r]
      <3>1. Writes
        BY <2>3, <2>4, WithWrites
      <3>2. \A q \in h.todo : HeldNext(q.id)
        BY <1>3, <1>4, <3>1
      <3>3. k \in WorkerState /\ k.todo \subseteq h.todo /\ k.hand = r /\ k.pc = "ask"
        BY <1>1, <2>3 DEF WorkerState, WorkerPc
      <3>4. stale' \subseteq Batch /\ faults' \in 0 .. MaxFaults
        BY <1>1, <2>3, <2>4 DEF DbOk
      <3> HIDE DEF k
      <3> QED
        BY <1>6, <2>2, <2>4, <3>1, <3>2, <3>3, <3>4 DEF k
    <2>5. CASE DbOk /\ Proceeds(w, h.todo \ {r}) /\ UNCHANGED <<batch, stale>>
      <3>1. \A q \in h.todo \ {r} : HeldNext(q.id)
        BY <1>3, <2>5 DEF Held, HeldNext
      <3> QED
        BY <1>1, <1>8, <2>2, <2>5, <3>1 DEF Writes
    <2>6. CASE PollFails(w) /\ UNCHANGED <<batch, stale>>
      BY <1>1, <1>7, <2>2, <2>6 DEF Writes
    <2> QED
      BY <2>1, <2>4, <2>5, <2>6
  <1>12. ASSUME UNCHANGED batch
         PROVE  /\ \A r \in h.todo : HeldNext(r.id)
                /\ h.pc \in HoldingPoll => HeldNext(h.hand.id)
    BY <1>3, <1>12 DEF Held, HeldNext
  <1>13. ASSUME NEW pc \in WorkerPc, Goto(w, pc)
         PROVE  \E k \in WorkerState : /\ worker' = [worker EXCEPT ![w] = k]
                                       /\ k.pc = pc /\ k.todo = h.todo /\ k.hand = h.hand
    <2>1. /\ [h EXCEPT !.pc = pc] \in WorkerState
          /\ worker' = [worker EXCEPT ![w] = [h EXCEPT !.pc = pc]]
          /\ [h EXCEPT !.pc = pc].pc = pc /\ [h EXCEPT !.pc = pc].todo = h.todo
          /\ [h EXCEPT !.pc = pc].hand = h.hand
      BY <1>1, <1>13 DEF Goto, WorkerState
    <2> QED
      BY <2>1
  <1>14. CASE Ask(w)
    <2>1. PICK k \in WorkerState : /\ worker' = [worker EXCEPT ![w] = k]
                                   /\ k.pc \in {"wait", "complete"}
                                   /\ k.todo = h.todo /\ k.hand = h.hand
                                   /\ k.pc = "wait" => Goto(w, "wait")
                                   /\ k.pc = "complete" => Goto(w, "complete")
      BY <1>13, <1>14 DEF Ask, WorkerPc
    <2>2. \/ /\ k.pc = "wait" /\ DbOk
             /\ request' = request \cup {[from |-> w, at |-> h.hand, pc |-> "resolve",
                                          heard |-> TRUE]}
          \/ k.pc = "complete" /\ DbError /\ UNCHANGED request
      BY <1>1, <1>14, <2>1 DEF Ask, Goto, WorkerState
    <2>3. /\ \A r \in k.todo : HeldNext(r.id)
          /\ HeldNext(k.hand.id)
      BY <1>12, <1>14, <2>1 DEF Ask, Polls, HoldingPoll
    <2>4. ~Polls(w, "wait") /\ Writes /\ stale' \subseteq Batch /\ faults' \in 0 .. MaxFaults
      BY <1>1, <1>2, <1>14 DEF Ask, Polls, Writes, DbOk, DbError
    <2> QED
      BY <1>14, <2>1, <2>2, <2>3, <2>4 DEF Ask, PollMoves, handling
  <1>15. CASE Timeout(w)
    <2>1. PICK k \in WorkerState : /\ worker' = [worker EXCEPT ![w] = k]
                                   /\ k.pc = "complete"
                                   /\ k.todo = h.todo /\ k.hand = h.hand
      BY <1>13, <1>15 DEF Timeout, WorkerPc
    <2>2. /\ \A r \in k.todo : HeldNext(r.id)
          /\ HeldNext(k.hand.id)
      BY <1>12, <1>15, <2>1 DEF Timeout, Polls, HoldingPoll
    <2> QED
      BY <1>1, <1>15, <2>1, <2>2 DEF Timeout, PollMoves, Writes, receiveVars, receiving
  <1>16. CASE Complete(w)
    <2>1. ~Polls(w, "wait") /\ Held(h.hand.id)
      BY <1>3, <1>16 DEF Complete, Polls, HoldingPoll
    <2>2. Writes
      BY <1>16, <2>1, WithWrites DEF Complete, Writes
    <2>3. /\ \A r \in h.todo : HeldNext(r.id)
          /\ HeldNext(h.hand.id)
      BY <1>3, <1>4, <2>1, <2>2
    <2>4. CASE DbOk /\ Proceeds(w, h.todo)
      BY <1>1, <1>8, <1>16, <2>1, <2>2, <2>3, <2>4 DEF Complete, handling
    <2>5. CASE DbError /\ Goto(w, "recover")
      <3>1. PICK k \in WorkerState : /\ worker' = [worker EXCEPT ![w] = k]
                                     /\ k.pc = "recover"
                                     /\ k.todo = h.todo /\ k.hand = h.hand
        BY <1>13, <2>5 DEF WorkerPc
      <3> QED
        BY <1>1, <1>2, <1>6, <1>16, <2>1, <2>2, <2>3, <2>5, <3>1 DEF Complete, DbError, handling
    <2>6. CASE PollFails(w)
      BY <1>1, <1>7, <1>16, <2>1, <2>2, <2>6 DEF Complete, handling
    <2> QED
      BY <1>16, <2>4, <2>5, <2>6 DEF Complete
  <1> QED
    BY <1>9, <1>10, <1>11, <1>14, <1>15, <1>16 DEF WorkerStep

-----------------------------------------------------------------------------
(* The invariant is kept *)

\* Other parts do not touch what saveIncomingMessage reads.
LEMMA ReceiveRests ==
  ASSUME BatchInv, UNCHANGED receiving, faults' \in 0 .. MaxFaults
  PROVE  ReceiveTypeOK' /\ SaveInv' /\ stored' = stored
  BY DEF BatchInv, TypeOK, ReceiveTypeOK, SaveInv, Saving, MessageOf, receiving

\* A text that had its identity keeps it, as no row of Message goes away.
LEMMA IdentityKept ==
  ASSUME stored \subseteq stored', NEW content, Identified(content)
  PROVE  /\ content # << >>
         /\ \A i \in DOMAIN content : content[i] \notin Anonymous
         /\ content[Len(content)] \in stored'
  BY DEF Identified

LEMMA HandlerKeepsInv ==
  ASSUME BatchInv, NEW d \in Delivery, HandlerStep(d)
  PROVE  BatchInv'
  <1> USE DEF BatchInv
  <1>1. HandlerMoves(d)
    BY HandlersMove
  <1>2. PICK h \in HandlerState :
           /\ handler' = [handler EXCEPT ![d] = h]
           /\ h.pc # "idle"
           /\ h.pc \in Holding => HeldNext(h.at.id)
           /\ h.pc = "pipeline" => Identified(h.at.content)
    BY <1>1 DEF HandlerMoves, HandlerGoesOn
  <1>3. handler \in [Delivery -> HandlerState]
    BY DEF TypeOK, HandlerState
  <1>4. /\ handler' \in [Delivery -> HandlerState]
        /\ \A e \in Delivery : handler'[e] = IF e = d THEN h ELSE handler[e]
    BY <1>2, <1>3
  <1>5. /\ batch' \in [Batch -> BatchRow]
        /\ \A b \in Batch : batch'[b].status = "absent" <=> batch'[b].content = << >>
        /\ \A id : Held(id) => HeldNext(id)
    BY <1>1, RowsTyped DEF HandlerMoves
  <1>6. ReceiveTypeOK' /\ SaveInv' /\ stored' = stored
    BY <1>1, ReceiveRests DEF HandlerMoves
  <1>7. TypeOK'
    BY <1>1, <1>4, <1>5, <1>6 DEF HandlerMoves, TypeOK, BatchRow, HandlerState
  <1>8. RowInv'
    <2>1. \A e \in Delivery : ~Handles(e, "idle")' => Saving(e, "saved")'
      BY <1>1, <1>2, <1>4 DEF HandlerMoves, RowInv, Handles, Saving, receiving
    <2>2. \A e \in Delivery : handler'[e].pc \in Holding => HeldNext(handler'[e].at.id)
      BY <1>2, <1>4, <1>5 DEF RowInv
    <2>3. /\ \A w \in Worker : \A r \in worker'[w].todo : HeldNext(r.id)
          /\ \A w \in Worker : worker'[w].pc \in HoldingPoll => HeldNext(worker'[w].hand.id)
      BY <1>1, <1>5 DEF HandlerMoves, RowInv
    <2> QED
      BY <1>1, <2>1, <2>2, <2>3 DEF HandlerMoves, RowInv, Held, HeldNext, Polls
  <1>9. DispatchIsIdentified'
    BY <1>1, <1>2, <1>4, <1>6 DEF HandlerMoves, DispatchIsIdentified, Handles, Identified
  <1> QED
    BY <1>6, <1>7, <1>8, <1>9

LEMMA WorkerKeepsInv ==
  ASSUME BatchInv, NEW w \in Worker, WorkerStep(w)
  PROVE  BatchInv'
  <1> USE DEF BatchInv
  <1>1. PollMoves(w)
    BY PollsMove
  <1>2. PICK h \in WorkerState :
          /\ worker' = [worker EXCEPT ![w] = h]
          /\ \A r \in h.todo : HeldNext(r.id)
          /\ h.pc \in HoldingPoll => HeldNext(h.hand.id)
          /\ \/ /\ ~Polls(w, "wait") /\ h.pc # "wait"
                /\ UNCHANGED request
             \/ /\ ~Polls(w, "wait") /\ h.pc = "wait"
                /\ request' = request \cup {[from |-> w, at |-> h.hand, pc |-> "resolve",
                                             heard |-> TRUE]}
             \/ /\ Polls(w, "wait") /\ h.pc # "wait"
                /\ request' = {IF r.from = w THEN [r EXCEPT !.heard = FALSE] ELSE r :
                                  r \in request}
    BY <1>1 DEF PollMoves
  <1>3. worker \in [Worker -> WorkerState] /\ request \subseteq RequestState
    BY DEF TypeOK, WorkerState, RequestState
  <1>4. /\ worker' \in [Worker -> WorkerState]
        /\ \A v \in Worker : worker'[v] = IF v = w THEN h ELSE worker[v]
    BY <1>2, <1>3
  <1>5. /\ batch' \in [Batch -> BatchRow]
        /\ \A b \in Batch : batch'[b].status = "absent" <=> batch'[b].content = << >>
        /\ \A id : Held(id) => HeldNext(id)
    BY <1>1, RowsTyped DEF PollMoves
  <1>6. ReceiveTypeOK' /\ SaveInv' /\ stored' = stored
    BY <1>1, ReceiveRests DEF PollMoves
  <1>7. /\ request' \subseteq RequestState
        /\ \A r \in request' : r.heard => worker'[r.from].pc = "wait"
        /\ \A r, q \in request' : r.heard /\ q.heard /\ r.from = q.from => r = q
        /\ \A r \in request' : r.pc = "pipeline" => Identified(r.at.content)
    <2>1. /\ \A r \in request : r.heard => Polls(r.from, "wait")
          /\ \A r, q \in request : r.heard /\ q.heard /\ r.from = q.from => r = q
          /\ \A r \in request : r.pc = "pipeline" => Identified(r.at.content)
      BY DEF RowInv, DispatchIsIdentified
    <2>2. \A r \in request : /\ r.from \in Worker /\ r.at \in Snapshot
                             /\ r.pc \in {"resolve", "pipeline"} /\ r.heard \in BOOLEAN
      BY <1>3 DEF RequestState
    <2>3. CASE ~Polls(w, "wait") /\ h.pc # "wait" /\ UNCHANGED request
      BY <1>3, <1>4, <2>1, <2>2, <2>3 DEF Polls
    <2>4. CASE /\ ~Polls(w, "wait") /\ h.pc = "wait"
               /\ request' = request \cup {[from |-> w, at |-> h.hand, pc |-> "resolve",
                                            heard |-> TRUE]}
      <3> DEFINE new == [from |-> w, at |-> h.hand, pc |-> "resolve", heard |-> TRUE]
      <3>1. new \in RequestState /\ new.pc = "resolve" /\ new.from = w
        BY DEF RequestState, WorkerState
      <3>2. \A r \in request : r.heard => r.from # w
        BY <2>1, <2>4
      <3> HIDE DEF new
      <3>3. request' = request \cup {new}
        BY <2>4 DEF new
      <3> QED
        BY <1>3, <1>4, <2>1, <2>2, <2>4, <3>1, <3>2, <3>3 DEF Polls
    <2>5. CASE /\ Polls(w, "wait") /\ h.pc # "wait"
               /\ request' = {IF r.from = w THEN [r EXCEPT !.heard = FALSE] ELSE r :
                                 r \in request}
      <3>1. ASSUME NEW q \in request'
            PROVE  /\ q \in RequestState
                   /\ q.heard => q \in request /\ q.from # w
                   /\ \E r \in request : r.pc = q.pc /\ r.at = q.at
        <4>1. PICK r \in request : q = IF r.from = w THEN [r EXCEPT !.heard = FALSE] ELSE r
          BY <2>5
        <4> QED
          BY <1>3, <4>1 DEF RequestState
      <3> QED
        BY <1>4, <2>1, <2>2, <3>1 DEF Polls
    <2> QED
      BY <1>2, <2>3, <2>4, <2>5
  <1>8. TypeOK'
    BY <1>1, <1>4, <1>5, <1>6, <1>7
    DEF PollMoves, TypeOK, BatchRow, HandlerState, WorkerState, RequestState
  <1>9. RowInv'
    <2>1. /\ \A v \in Worker : \A r \in worker'[v].todo : HeldNext(r.id)
          /\ \A v \in Worker : worker'[v].pc \in HoldingPoll => HeldNext(worker'[v].hand.id)
      BY <1>2, <1>4, <1>5 DEF RowInv
    <2>2. /\ \A e \in Delivery : ~Handles(e, "idle")' => Saving(e, "saved")'
          /\ \A e \in Delivery : handler'[e].pc \in Holding => HeldNext(handler'[e].at.id)
      BY <1>1, <1>5 DEF PollMoves, RowInv, Handles, Saving, receiving
    <2> QED
      BY <1>7, <2>1, <2>2 DEF RowInv, Held, HeldNext, Polls
  <1>10. DispatchIsIdentified'
    BY <1>1, <1>6, <1>7 DEF PollMoves, DispatchIsIdentified, Handles, Identified
  <1> QED
    BY <1>6, <1>8, <1>9, <1>10

LEMMA RequestKeepsInv ==
  ASSUME BatchInv, RequestStep
  PROVE  BatchInv'
  <1> USE DEF BatchInv
  <1>1. PICK r \in request : RequestResolves(r) \/ RequestEnds(r)
    BY DEF RequestStep
  <1>2. /\ worker \in [Worker -> WorkerState] /\ request \subseteq RequestState
        /\ handed \in [Inbound -> Nat] /\ faults \in 0 .. MaxFaults
    BY DEF TypeOK, ReceiveTypeOK, WorkerState, RequestState
  <1>3. /\ r \in RequestState /\ r.from \in Worker /\ r.at \in Snapshot
        /\ r.at.content \in Content /\ r.heard \in BOOLEAN
    BY <1>2 DEF RequestState, Snapshot
  <1>4. /\ UNCHANGED <<receiving, handler, batch, stale>>
        /\ faults' \in 0 .. MaxFaults /\ handed' \in [Inbound -> Nat]
    <2>1. DbOk \/ DbError => faults' \in 0 .. MaxFaults
      BY <1>2, ReceiveAssumption DEF DbOk, DbError
    <2> QED
      BY <1>1, <1>2, <1>3, <2>1, HandOverTyped
      DEF RequestResolves, RequestEnds, receiveVars, receiving
  <1>5. ReceiveTypeOK' /\ SaveInv' /\ stored' = stored
    BY <1>4, ReceiveRests
  <1>6. /\ \A q \in request : q.heard => Polls(q.from, "wait")
        /\ \A q, p \in request : q.heard /\ p.heard /\ q.from = p.from => q = p
        /\ \A q \in request : q.pc = "pipeline" => Identified(q.at.content)
        /\ \A w \in Worker : worker[w].pc \in HoldingPoll => Held(worker[w].hand.id)
        /\ \A w \in Worker : \A q \in worker[w].todo : Held(q.id)
    BY DEF RowInv, DispatchIsIdentified
  <1> DEFINE Requests == /\ worker' \in [Worker -> WorkerState]
                         /\ request' \subseteq RequestState
                         /\ \A q \in request' : q.heard => worker'[q.from].pc = "wait"
                         /\ \A q, p \in request' : q.heard /\ p.heard /\ q.from = p.from => q = p
                         /\ \A q \in request' : q.pc = "pipeline" => Identified(q.at.content)
                         /\ \A w \in Worker : worker'[w].pc \in HoldingPoll =>
                                                 Held(worker'[w].hand.id)
                         /\ \A w \in Worker : \A q \in worker'[w].todo : Held(q.id)
  <1>7. ASSUME Answer(r) PROVE Requests
    <2>1. CASE r.heard
      <3> DEFINE k == [worker[r.from] EXCEPT !.pc = "complete"]
      <3>1. k \in WorkerState /\ k.hand = worker[r.from].hand /\ k.todo = worker[r.from].todo
            /\ k.pc = "complete"
        BY <1>2, <1>3 DEF WorkerState, WorkerPc
      <3>2. worker' = [worker EXCEPT ![r.from] = k]
        BY <1>7, <2>1 DEF Answer, Goto
      <3>3. Held(worker[r.from].hand.id)
        BY <1>3, <1>6, <2>1 DEF Polls, HoldingPoll
      <3>4. \A q \in request' : q \in request /\ (q.heard => q.from # r.from)
        BY <1>1, <1>6, <1>7, <2>1 DEF Answer
      <3> HIDE DEF k
      <3>5. \A w \in Worker : worker'[w] = IF w = r.from THEN k ELSE worker[w]
        BY <1>2, <3>2
      <3> QED
        BY <1>2, <1>3, <1>6, <3>1, <3>2, <3>3, <3>4, <3>5 DEF Polls, RequestState
    <2>2. CASE ~r.heard
      BY <1>2, <1>6, <1>7, <2>2 DEF Answer, Polls, RequestState
    <2> QED
      BY <2>1, <2>2
  <1>8. ASSUME Identified(r.at.content), UNCHANGED worker,
               request' = (request \ {r}) \cup {[r EXCEPT !.pc = "pipeline"]}
        PROVE  Requests
    <2> DEFINE k == [r EXCEPT !.pc = "pipeline"]
    <2>1. /\ k \in RequestState /\ k.pc = "pipeline" /\ k.at = r.at
          /\ k.from = r.from /\ k.heard = r.heard
      BY <1>3 DEF RequestState
    <2>2. request' = (request \ {r}) \cup {k}
      BY <1>8
    <2> HIDE DEF k
    <2> QED
      BY <1>2, <1>3, <1>6, <1>8, <2>1, <2>2 DEF Polls, RequestState
  <1>9. Requests
    BY <1>1, <1>7, <1>8 DEF RequestResolves, RequestEnds
  <1> HIDE DEF Requests
  <1>10. TypeOK'
    BY <1>4, <1>5, <1>9 DEF Requests, TypeOK, WorkerState, RequestState
  <1>11. RowInv'
    BY <1>4, <1>9 DEF Requests, RowInv, Held, Polls, Handles, Saving, receiving
  <1>12. DispatchIsIdentified'
    BY <1>4, <1>5, <1>9 DEF Requests, DispatchIsIdentified, Handles, Identified
  <1> QED
    BY <1>5, <1>10, <1>11, <1>12

LEMMA ReceiveKeepsInv ==
  ASSUME BatchInv, ReceiveStep, UNCHANGED batchVars
  PROVE  BatchInv'
  <1> USE DEF BatchInv
  <1>1. ReceiveTypeOK
    BY DEF TypeOK
  <1>2. ReceiveTypeOK'
    BY <1>1, ReceiveTyped
  <1>3. /\ SaveInv' /\ stored \subseteq stored'
        /\ \A d \in Delivery : Saving(d, "saved") => delivery'[d] = delivery[d]
    BY <1>1, SaveKept
  <1>4. TypeOK'
    BY <1>2 DEF TypeOK, batchVars
  <1>5. RowInv'
    BY <1>3 DEF RowInv, Held, Polls, Handles, Saving, batchVars
  <1>6. DispatchIsIdentified'
    BY <1>3, IdentityKept DEF DispatchIsIdentified, Handles, Identified, batchVars
  <1> QED
    BY <1>3, <1>4, <1>5, <1>6

LEMMA WindowKeepsInv ==
  ASSUME BatchInv, NEW b \in Batch, WindowPasses(b)
  PROVE  BatchInv'
  <1> USE DEF BatchInv
  <1>1. /\ UNCHANGED <<receiveVars, handler, worker, request, handed, stale>>
        /\ batch' = [batch EXCEPT ![b].due = TRUE]
    BY DEF WindowPasses
  <1>2. /\ batch' \in [Batch -> BatchRow]
        /\ \A c \in Batch : /\ batch'[c].status = batch[c].status
                            /\ batch'[c].content = batch[c].content
    <2> DEFINE row == [batch[b] EXCEPT !.due = TRUE]
    <2>1. batch \in [Batch -> BatchRow]
      BY DEF TypeOK, BatchRow
    <2>2. row \in BatchRow /\ row.status = batch[b].status /\ row.content = batch[b].content
      BY <2>1 DEF BatchRow
    <2>3. batch' = [batch EXCEPT ![b] = row]
      BY <1>1
    <2> HIDE DEF row
    <2> QED
      BY <2>1, <2>2, <2>3
  <1>3. ReceiveTypeOK' /\ SaveInv' /\ stored' = stored
    BY <1>1, ReceiveRests DEF receiveVars, receiving, TypeOK, ReceiveTypeOK
  <1>4. TypeOK'
    BY <1>1, <1>2, <1>3 DEF TypeOK, BatchRow
  <1>5. RowInv'
    BY <1>1, <1>2 DEF RowInv, Held, Polls, Handles, Saving, receiveVars
  <1>6. DispatchIsIdentified'
    BY <1>1, <1>3 DEF DispatchIsIdentified, Handles, Identified
  <1> QED
    BY <1>3, <1>4, <1>5, <1>6

LEMMA BackendCrashKeepsInv ==
  ASSUME BatchInv, BackendCrash
  PROVE  BatchInv'
  <1> USE DEF BatchInv
  <1>1. /\ UNCHANGED <<batch, handed, stale, stored, faults>> /\ request' = {}
        /\ \A d \in Delivery : /\ MessageOf(d)' = MessageOf(d)
                               /\ delivery'[d].pc \in {"idle", "saved", "dropped"}
                               /\ Saving(d, "saved")' <=> Saving(d, "saved")
                               /\ ~Saving(d, "idle")' => ~Saving(d, "idle")
    <2>1. UNCHANGED <<batch, handed, stale, stored, faults>> /\ request' = {}
      BY DEF BackendCrash, ReceiveCrash
    <2>2. ASSUME NEW d \in Delivery
          PROVE  /\ MessageOf(d)' = MessageOf(d)
                 /\ delivery'[d].pc \in {"idle", "saved", "dropped"}
                 /\ Saving(d, "saved")' <=> Saving(d, "saved")
                 /\ ~Saving(d, "idle")' => ~Saving(d, "idle")
      <3>1. /\ delivery[d].pc \in {"idle", "find", "insert", "thread", "saved", "dropped"}
            /\ delivery[d] \in SaveState
        BY DEF TypeOK, ReceiveTypeOK, SaveState
      <3>2. delivery'[d] = IF delivery[d].pc \in {"find", "insert", "thread"}
                           THEN [delivery[d] EXCEPT !.pc = "dropped"] ELSE delivery[d]
        BY DEF BackendCrash, ReceiveCrash
      <3> QED
        BY <3>1, <3>2 DEF MessageOf, Saving, SaveState
    <2> QED
      BY <2>1, <2>2
  <1>2. ReceiveTypeOK'
    <2>1. delivery' \in [Delivery -> SaveState]
      <3>1. \A d \in Delivery : delivery[d] \in SaveState
        BY DEF TypeOK, ReceiveTypeOK, SaveState
      <3>2. \A d \in Delivery : [delivery[d] EXCEPT !.pc = "dropped"] \in SaveState
        BY <3>1 DEF SaveState
      <3> QED
        BY <3>1, <3>2 DEF BackendCrash, ReceiveCrash
    <2>2. /\ crashes' \in 0 .. MaxCrashes /\ recent' \subseteq Anonymous
          /\ pending' \in [Inbound -> Delivery \cup {NoDelivery}]
      BY ReceiveAssumption DEF BackendCrash, ReceiveCrash, TypeOK, ReceiveTypeOK
    <2> QED
      BY <1>1, <2>1, <2>2 DEF TypeOK, ReceiveTypeOK, SaveState
  <1>3. SaveInv'
    BY <1>1 DEF SaveInv, Saving
  <1>4. \A d \in Delivery : /\ handler'[d] \in HandlerState
                            /\ handler'[d].at = handler[d].at
                            /\ handler'[d].pc \in {handler[d].pc, "lost"}
                            /\ handler'[d].pc = "lost" => Saving(d, "saved") \/ handler[d].pc = "lost"
    BY DEF BackendCrash, TypeOK, HandlerState, HandlerPc
  <1>5. \A w \in Worker : /\ worker'[w] \in WorkerState
                          /\ worker'[w].hand = worker[w].hand /\ worker'[w].todo = worker[w].todo
                          /\ \/ worker'[w].pc = worker[w].pc
                             \/ worker[w].pc = "wait" /\ worker'[w].pc = "complete"
    BY DEF BackendCrash, TypeOK, WorkerState, WorkerPc
  <1>6. /\ handler' \in [Delivery -> HandlerState]
        /\ worker' \in [Worker -> WorkerState]
    BY <1>4, <1>5 DEF BackendCrash
  <1>7. TypeOK'
    BY <1>1, <1>2, <1>6 DEF TypeOK, HandlerState, WorkerState
  <1>8. RowInv'
    BY <1>1, <1>4, <1>5 DEF RowInv, Held, Polls, Handles, Holding, HoldingPoll
  <1>9. DispatchIsIdentified'
    BY <1>1, <1>4 DEF DispatchIsIdentified, Handles, Identified
  <1> QED
    BY <1>3, <1>7, <1>8, <1>9

LEMMA WorkerCrashKeepsInv ==
  ASSUME BatchInv, NEW w \in Worker, WorkerCrash(w)
  PROVE  BatchInv'
  <1> USE DEF BatchInv
  <1>1. /\ UNCHANGED <<delivery, stored, recent, pending, faults, handler, handed, batch, stale>>
        /\ worker' = [worker EXCEPT ![w] = IdleWorker]
        /\ request' = {IF r.from = w THEN [r EXCEPT !.heard = FALSE] ELSE r : r \in request}
        /\ crashes' \in 0 .. MaxCrashes
    BY ReceiveAssumption DEF WorkerCrash, TypeOK, ReceiveTypeOK
  <1>2. ReceiveTypeOK' /\ SaveInv'
    BY <1>1 DEF TypeOK, ReceiveTypeOK, SaveInv, Saving, MessageOf
  <1>3. \A q \in request' : /\ q \in RequestState
                            /\ q.heard => q \in request /\ q.from # w
                            /\ \E r \in request : r.pc = q.pc /\ r.at = q.at
    <2>1. ASSUME NEW q \in request'
          PROVE  /\ q \in RequestState
                 /\ q.heard => q \in request /\ q.from # w
                 /\ \E r \in request : r.pc = q.pc /\ r.at = q.at
      <3>1. PICK r \in request : q = IF r.from = w THEN [r EXCEPT !.heard = FALSE] ELSE r
        BY <1>1
      <3> QED
        BY <3>1 DEF TypeOK, RequestState
    <2> QED
      BY <2>1
  <1>4. /\ IdleWorker \in WorkerState /\ IdleWorker.todo = {} /\ IdleWorker.pc = "idle"
        /\ worker \in [Worker -> WorkerState]
    BY DEF NoBatch, IdleWorker, Snapshot, WorkerState, WorkerPc, Content, TypeOK
  <1>5. /\ worker' \in [Worker -> WorkerState]
        /\ \A v \in Worker : worker'[v] = IF v = w THEN IdleWorker ELSE worker[v]
    BY <1>1, <1>4
  <1>6. TypeOK'
    BY <1>1, <1>2, <1>3, <1>5 DEF TypeOK, WorkerState, RequestState
  <1>7. RowInv'
    BY <1>1, <1>3, <1>4, <1>5 DEF RowInv, Held, Polls, Handles, Saving, HoldingPoll, RequestState
  <1>8. DispatchIsIdentified'
    BY <1>1, <1>3 DEF DispatchIsIdentified, Handles, Identified
  <1> QED
    BY <1>2, <1>6, <1>7, <1>8

-----------------------------------------------------------------------------
(* Types, identity and duplicates *)

\* What the properties rest on: types, who owns a key, who holds a row.
THEOREM BatchInvariant == Spec => []BatchInv
  <1>1. ASSUME BatchInv, [Next]_vars PROVE BatchInv'
    <2>1. CASE UNCHANGED vars
      BY <1>1, <2>1
      DEF vars, receiveVars, batchVars, BatchInv, TypeOK, ReceiveTypeOK, SaveInv, RowInv,
          DispatchIsIdentified, Saving, MessageOf, Held, Polls, Handles, Identified
    <2> QED
      BY <1>1, <2>1, HandlerKeepsInv, WorkerKeepsInv, RequestKeepsInv, ReceiveKeepsInv,
         WindowKeepsInv, BackendCrashKeepsInv, WorkerCrashKeepsInv
      DEF Next
  <1> QED
    BY <1>1, InitHolds, PTL DEF Spec

\* The state of the receive path and of the batches is well typed, and a row holds a message.
THEOREM TypeCorrect == Spec => []TypeOK
  BY BatchInvariant, PTL DEF BatchInv

\* What a batch hands to the pipeline can be answered: all its ids are there, and the last
\* is that of a stored message (resolveLastBatchMessageIdentity and the route handle-batch).
THEOREM DispatchIdentified == Spec => []DispatchIsIdentified
  BY BatchInvariant, PTL DEF BatchInv

\* A message with an id gets through saveIncomingMessage once, for any number of deliveries,
\* errors and crashes.
THEOREM Accepted == Spec => []AcceptedOnce
  <1>1. Init => AcceptedOnce
    BY DEF Init, ReceiveInit, AcceptedOnce, Saving
  <1>2. ASSUME BatchInv, AcceptedOnce, [Next]_vars PROVE AcceptedOnce'
    <2> USE <1>2
    <2>1. CASE ReceiveStep
      <3>1. /\ \A d \in Delivery : Saving(d, "saved") => delivery'[d] = delivery[d]
            /\ \A d \in Delivery : Saving(d, "saved")' /\ ~Saving(d, "saved") =>
                  Saving(d, "thread") /\ MessageOf(d)' = MessageOf(d)
            /\ \A d, e \in Delivery : d # e =>
                  delivery'[d] = delivery[d] \/ delivery'[e] = delivery[e]
        BY <2>1, SaveKept DEF BatchInv, TypeOK
      <3>2. \A d, e \in Delivery :
               Saving(d, "thread") /\ Saving(e, "saved") /\ MessageOf(d) = MessageOf(e) =>
                   MessageOf(d) \in Anonymous
        BY DEF BatchInv, SaveInv
      <3> QED
        BY <3>1, <3>2 DEF AcceptedOnce, MessageOf, Saving
    <2>2. CASE BackendCrash
      <3>1. \A d \in Delivery : Saving(d, "saved")' => delivery'[d] = delivery[d]
        BY <2>2 DEF BackendCrash, ReceiveCrash, Saving, BatchInv, TypeOK, ReceiveTypeOK
      <3> QED
        BY <3>1 DEF AcceptedOnce, Saving
    <2>3. CASE UNCHANGED delivery
      BY <2>3 DEF AcceptedOnce, Saving
    <2>4. ASSUME NEW d \in Delivery, HandlerStep(d) PROVE UNCHANGED delivery
      BY <2>4, HandlersMove DEF HandlerMoves, receiving
    <2>5. ASSUME NEW w \in Worker, WorkerStep(w) PROVE UNCHANGED delivery
      BY <2>5, PollsMove DEF PollMoves, receiving
    <2>6. ASSUME RequestStep PROVE UNCHANGED delivery
      BY <2>6 DEF RequestStep, RequestResolves, RequestEnds, receiving, receiveVars
    <2> QED
      BY <2>1, <2>2, <2>3, <2>4, <2>5, <2>6
      DEF Next, WorkerCrash, WindowPasses, vars, receiveVars
  <1> QED
    BY <1>1, <1>2, BatchInvariant, PTL DEF Spec

-----------------------------------------------------------------------------
(* A message is handed over once *)

\* The message of d has been put into a batch, or handed over without one.
Late(d) == handler[d].pc \notin {"idle", "refused", "find", "append", "create"}

\* Each message of a text that goes by the id of a batch got there through that batch, and
\* once.
OwnedBy(content, id) ==
    \A i \in DOMAIN content :
        \E d \in Delivery : Late(d) /\ MessageOf(d) = content[i] /\ handler[d].at.id = id
Distinct(content) ==
    \A i, j \in DOMAIN content : content[i] = content[j] /\ content[i] \notin Anonymous => i = j
Text(id, content) == OwnedBy(content, id) /\ Distinct(content)

TextInv ==
    /\ \A b \in Batch : Text(b, batch[b].content)
    /\ \A d \in Delivery : handler[d].pc \in {"append", "resolve"} =>
           Text(handler[d].at.id, handler[d].at.content)
    /\ \A w \in Worker : worker[w].pc = "ask" => Text(worker[w].hand.id, worker[w].hand.content)
    /\ \A w \in Worker : \A r \in worker[w].todo : Text(r.id, r.content)
    /\ \A r \in request : Text(r.at.id, r.at.content)

\* An id that somebody remembers is that of a row.
KnownInv ==
    /\ \A d \in Delivery : handler[d].at.id \in Batch => Held(handler[d].at.id)
    /\ \A r \in request : Held(r.at.id)

\* Those that have claimed a batch and are about to hand it over.
LoadingAt(b) == {d \in Delivery : handler[d].pc \in {"load", "resolve"} /\ handler[d].at.id = b}
AskingAt(b) == {w \in Worker : worker[w].pc = "ask" /\ worker[w].hand.id = b}
ResolvingAt(b) == {r \in request : r.pc = "resolve" /\ r.at.id = b}

NoHolder(b) == LoadingAt(b) = {} /\ AskingAt(b) = {} /\ ResolvingAt(b) = {}
OneHolder(b) ==
    /\ \A d, e \in LoadingAt(b) : d = e
    /\ \A w, v \in AskingAt(b) : w = v
    /\ \A r, q \in ResolvingAt(b) : r = q
    /\ LoadingAt(b) = {} \/ AskingAt(b) = {}
    /\ LoadingAt(b) = {} \/ ResolvingAt(b) = {}
    /\ AskingAt(b) = {} \/ ResolvingAt(b) = {}

\* Still to be handed over.
Fresh(b) == Claimable(b) \/ ~NoHolder(b)

ClaimInv ==
    \A b \in Batch \ stale :
        /\ Claimable(b) => NoHolder(b)
        /\ OneHolder(b)

Counted(d) == Late(d) /\ MessageOf(d) \notin Anonymous /\ ~Handles(d, "alone")

CountInv ==
    /\ \A m \in Inbound : handed[m] > 0 => \E d \in Delivery : MessageOf(d) = m /\ Late(d)
    /\ \A d \in Delivery : Counted(d) /\ handler[d].at.id \notin stale => handed[MessageOf(d)] <= 1
    /\ \A d \in Delivery : \A b \in Batch \ stale :
           Counted(d) /\ handler[d].at.id = b /\ Fresh(b) => handed[MessageOf(d)] = 0

OnceInv == BatchInv /\ AcceptedOnce /\ KnownInv /\ TextInv /\ ClaimInv /\ CountInv

\* The same text in the next state.
TextNext(id, content) ==
    /\ \A i \in DOMAIN content :
           \E d \in Delivery : /\ handler'[d].pc \notin {"idle", "refused", "find", "append", "create"}
                               /\ delivery'[d].inbound = content[i] /\ handler'[d].at.id = id
    /\ Distinct(content)

\* What every step leaves alone: who is late stays so, with the same batch and message.
OwnersKept ==
    \A d \in Delivery :
        /\ Late(d) => /\ Late(d)' /\ handler'[d].at.id = handler[d].at.id
                      /\ Handles(d, "alone") => Handles(d, "alone")'
        /\ Late(d)' => Saving(d, "saved") /\ MessageOf(d)' = MessageOf(d)

\* What a step may do to a batch: nobody new holds it; somebody claims it; it is created.
HolderStep(b) ==
    \/ /\ Claimable(b)' => Claimable(b)
       /\ NoHolder(b) => NoHolder(b)'
       /\ OneHolder(b) => OneHolder(b)'
    \/ /\ Claimable(b) /\ ~Claimable(b)'
       /\ NoHolder(b) => OneHolder(b)'
    \/ batch[b].status = "absent" /\ NoHolder(b)'

\* What a step may do to the counts: nothing, or hand over a batch that is fresh until then.
HandedStep ==
    /\ \A m \in Inbound : \/ handed'[m] = handed[m]
                          \/ \E d \in Delivery : Late(d)' /\ MessageOf(d)' = m
    /\ \A d \in Delivery : Counted(d)' /\ handler'[d].at.id \notin stale' =>
          \/ handed'[MessageOf(d)'] = handed[MessageOf(d)']
          \/ \E b \in Batch : /\ Late(d) /\ handler[d].at.id = b
                              /\ Fresh(b) /\ ~Fresh(b)'
                              /\ handed'[MessageOf(d)'] <= handed[MessageOf(d)'] + 1

\* A message that is not in a batch yet has not been handed over.
LEMMA EarlyUnhanded ==
  ASSUME OnceInv, NEW d \in Delivery, Saving(d, "saved"), ~Late(d), MessageOf(d) \notin Anonymous
  PROVE  handed[MessageOf(d)] = 0
  <1>1. MessageOf(d) \in Inbound /\ handed[MessageOf(d)] \in Nat
    BY DEF OnceInv, BatchInv, SaveInv, TypeOK, Saving
  <1>2. ASSUME NEW e \in Delivery, Late(e), MessageOf(e) = MessageOf(d) PROVE FALSE
    <2>1. Saving(e, "saved")
      BY <1>2 DEF OnceInv, BatchInv, RowInv, Late, Handles
    <2>2. e = d
      BY <1>2, <2>1 DEF OnceInv, AcceptedOnce, MessageOf
    <2> QED
      BY <1>2, <2>2
  <1>3. ~(handed[MessageOf(d)] > 0)
    BY <1>1, <1>2 DEF OnceInv, CountInv
  <1> QED
    BY <1>1, <1>3

LEMMA CountsKept ==
  ASSUME OnceInv, handed' \in [Inbound -> Nat], stale \subseteq stale', OwnersKept, HandedStep,
         \A b \in Batch \ stale' : HolderStep(b)
  PROVE  ClaimInv' /\ CountInv'
  <1>1. ClaimInv'
    <2>1. ASSUME NEW b \in Batch \ stale'
          PROVE  (Claimable(b)' => NoHolder(b)') /\ OneHolder(b)'
      <3>1. (Claimable(b) => NoHolder(b)) /\ OneHolder(b) /\ HolderStep(b)
        BY DEF OnceInv, ClaimInv
      <3>2. NoHolder(b)' => OneHolder(b)'
        BY DEF NoHolder, OneHolder
      <3> QED
        BY <3>1, <3>2 DEF HolderStep
    <2> QED
      BY <2>1 DEF ClaimInv
  <1>2. ASSUME NEW b \in Batch \ stale', Fresh(b)'
        PROVE  Fresh(b) \/ batch[b].status = "absent"
    BY <1>2 DEF HolderStep, Fresh
  <1>3. ASSUME NEW d \in Delivery, Late(d)
        PROVE  /\ handler[d].at.id \in Batch => batch[handler[d].at.id].status # "absent"
               /\ Counted(d)' => Counted(d)
               /\ handler'[d].at.id = handler[d].at.id /\ MessageOf(d)' = MessageOf(d)
    BY <1>3 DEF OnceInv, KnownInv, Held, OwnersKept, Counted
  <1>4. ASSUME NEW d \in Delivery, Counted(d)', handler'[d].at.id \notin stale'
        PROVE  /\ handed'[MessageOf(d)'] <= 1
               /\ \A b \in Batch : handler'[d].at.id = b /\ Fresh(b)' =>
                     handed'[MessageOf(d)'] = 0
    <2>1. MessageOf(d)' = MessageOf(d) /\ Saving(d, "saved")
      BY <1>4 DEF OwnersKept, Counted
    <2>2. MessageOf(d) \in Inbound /\ handed[MessageOf(d)] \in Nat /\ handed'[MessageOf(d)] \in Nat
      BY <2>1 DEF OnceInv, BatchInv, SaveInv, TypeOK, Saving
    <2>3. CASE ~Late(d)
      BY <1>4, <2>1, <2>2, <2>3, EarlyUnhanded DEF HandedStep, Counted
    <2>4. CASE Late(d)
      <3>1. Counted(d) /\ handler[d].at.id \notin stale /\ handler'[d].at.id = handler[d].at.id
        BY <1>3, <1>4, <2>4
      <3>2. handed[MessageOf(d)] <= 1
        BY <3>1 DEF OnceInv, CountInv
      <3>3. \A b \in Batch : b = handler[d].at.id /\ Fresh(b) => handed[MessageOf(d)] = 0
        BY <3>1 DEF OnceInv, CountInv
      <3>4. \A b \in Batch : b = handler[d].at.id /\ Fresh(b)' => Fresh(b)
        BY <1>2, <1>3, <1>4, <2>4, <3>1
      <3>5. \/ handed'[MessageOf(d)] = handed[MessageOf(d)]
            \/ \E b \in Batch : /\ handler[d].at.id = b
                                /\ Fresh(b) /\ ~Fresh(b)'
                                /\ handed'[MessageOf(d)] <= handed[MessageOf(d)] + 1
        BY <1>4, <2>1 DEF HandedStep
      <3> QED
        BY <2>1, <2>2, <3>1, <3>2, <3>3, <3>4, <3>5
    <2> QED
      BY <2>3, <2>4
  <1>5. \A m \in Inbound : handed'[m] > 0 => \E d \in Delivery : MessageOf(d)' = m /\ Late(d)'
    <2>1. ASSUME NEW m \in Inbound, handed'[m] > 0
          PROVE  \E d \in Delivery : MessageOf(d)' = m /\ Late(d)'
      <3>1. CASE handed'[m] = handed[m]
        <4>1. PICK d \in Delivery : MessageOf(d) = m /\ Late(d)
          BY <2>1, <3>1 DEF OnceInv, CountInv
        <4> QED
          BY <4>1 DEF OwnersKept
      <3>2. CASE handed'[m] # handed[m]
        BY <3>2 DEF HandedStep
      <3> QED
        BY <3>1, <3>2
    <2> QED
      BY <2>1
  <1> QED
    BY <1>1, <1>4, <1>5 DEF CountInv

\* A text without repetitions counts each of its messages once.
LEMMA HandOverCounts ==
  ASSUME NEW content \in Content, handed \in [Inbound -> Nat], HandOver(content),
         Distinct(content), NEW m \in Inbound, m \notin Anonymous
  PROVE  \/ handed'[m] = handed[m]
         \/ In(m, content) /\ handed'[m] = handed[m] + 1
  <1> DEFINE at == {i \in DOMAIN content : content[i] = m}
  <1>1. handed'[m] = handed[m] + Cardinality(at) /\ handed[m] \in Nat
    BY DEF HandOver
  <1>2. CASE at = {}
    BY <1>1, <1>2, FS_EmptySet
  <1>3. CASE at # {}
    <2>1. PICK i \in DOMAIN content : content[i] = m
      BY <1>3
    <2>2. at = {i}
      BY <2>1 DEF Distinct
    <2>3. Cardinality(at) = 1
      BY <2>2, FS_Singleton
    <2> QED
      BY <1>1, <2>1, <2>3 DEF In
  <1> QED
    BY <1>2, <1>3

\* A message that is counted is in texts of its own batch only.
LEMMA TextOfBatch ==
  ASSUME OnceInv, NEW id, NEW content, Text(id, content), NEW d \in Delivery, Saving(d, "saved"),
         MessageOf(d) \notin Anonymous, In(MessageOf(d), content)
  PROVE  Late(d) /\ handler[d].at.id = id
  <1>1. PICK i \in DOMAIN content : content[i] = MessageOf(d)
    BY DEF In
  <1>2. PICK e \in Delivery : Late(e) /\ MessageOf(e) = content[i] /\ handler[e].at.id = id
    BY DEF Text, OwnedBy
  <1>3. Saving(e, "saved")
    BY <1>2 DEF OnceInv, BatchInv, RowInv, Late, Handles
  <1>4. e = d
    BY <1>1, <1>2, <1>3 DEF OnceInv, AcceptedOnce, MessageOf
  <1> QED
    BY <1>2, <1>4

\* Who gives a batch away that it alone has claimed hands each of its messages over once.
LEMMA GivingCounts ==
  ASSUME OnceInv, OwnersKept, stale \subseteq stale', NEW id \in Batch, NEW content \in Content,
         Text(id, content), HandOver(content), Fresh(id), id \notin stale' => ~Fresh(id)'
  PROVE  HandedStep
  <1>1. handed \in [Inbound -> Nat]
    BY DEF OnceInv, BatchInv, TypeOK
  <1>2. ASSUME NEW m \in Inbound, handed'[m] # handed[m]
        PROVE  \E d \in Delivery : Late(d)' /\ MessageOf(d)' = m
    <2>1. {i \in DOMAIN content : content[i] = m} # {}
      <3>1. CASE {i \in DOMAIN content : content[i] = m} = {}
        BY <1>1, <1>2, <3>1, FS_EmptySet DEF HandOver
      <3> QED
        BY <3>1
    <2>2. PICK i \in DOMAIN content : content[i] = m
      BY <2>1
    <2>3. PICK d \in Delivery : Late(d) /\ MessageOf(d) = m
      BY <2>2 DEF Text, OwnedBy
    <2> QED
      BY <2>3 DEF OwnersKept
  <1>3. ASSUME NEW d \in Delivery, Counted(d)', handler'[d].at.id \notin stale'
        PROVE  \/ handed'[MessageOf(d)'] = handed[MessageOf(d)']
               \/ \E b \in Batch : /\ Late(d) /\ handler[d].at.id = b
                                   /\ Fresh(b) /\ ~Fresh(b)'
                                   /\ handed'[MessageOf(d)'] <= handed[MessageOf(d)'] + 1
    <2>1. MessageOf(d)' = MessageOf(d) /\ Saving(d, "saved") /\ MessageOf(d) \notin Anonymous
      BY <1>3 DEF OwnersKept, Counted
    <2>2. MessageOf(d) \in Inbound /\ handed[MessageOf(d)] \in Nat
      BY <1>1, <2>1 DEF OnceInv, BatchInv, SaveInv, Saving
    <2>3. \/ handed'[MessageOf(d)] = handed[MessageOf(d)]
          \/ /\ In(MessageOf(d), content)
             /\ handed'[MessageOf(d)] = handed[MessageOf(d)] + 1
      BY <1>1, <2>1, <2>2, HandOverCounts DEF Text
    <2>4. In(MessageOf(d), content) => Late(d) /\ handler[d].at.id = id
      BY <2>1, TextOfBatch
    <2>5. Late(d) => handler'[d].at.id = handler[d].at.id
      BY DEF OwnersKept
    <2> QED
      BY <1>3, <2>1, <2>2, <2>3, <2>4, <2>5
  <1> QED
    BY <1>2, <1>3 DEF HandedStep

\* Who owns a text keeps it.
LEMMA TextKept ==
  ASSUME OwnersKept, NEW id, NEW content, Text(id, content)
  PROVE  TextNext(id, content)
  BY DEF OwnersKept, Text, OwnedBy, TextNext, Late, MessageOf

LEMMA TextsKept ==
  ASSUME OnceInv, OwnersKept,
         \A b \in Batch : \/ batch'[b].content = batch[b].content
                          \/ TextNext(b, batch'[b].content),
         \A d \in Delivery : handler'[d].pc \in {"append", "resolve"} =>
             Text(handler'[d].at.id, handler'[d].at.content),
         \A w \in Worker : worker'[w].pc = "ask" =>
             Text(worker'[w].hand.id, worker'[w].hand.content),
         \A w \in Worker : \A r \in worker'[w].todo : Text(r.id, r.content),
         \A r \in request' : Text(r.at.id, r.at.content)
  PROVE  TextInv'
  <1>1. \A b \in Batch : TextNext(b, batch'[b].content)
    BY TextKept DEF OnceInv, TextInv
  <1>2. /\ \A d \in Delivery : handler'[d].pc \in {"append", "resolve"} =>
               TextNext(handler'[d].at.id, handler'[d].at.content)
        /\ \A w \in Worker : worker'[w].pc = "ask" =>
               TextNext(worker'[w].hand.id, worker'[w].hand.content)
        /\ \A w \in Worker : \A r \in worker'[w].todo : TextNext(r.id, r.content)
        /\ \A r \in request' : TextNext(r.at.id, r.at.content)
    BY TextKept
  <1> QED
    BY <1>1, <1>2 DEF TextInv, Text, OwnedBy, TextNext, Late, MessageOf

\* A status that is written over a row that is not claimable any more leaves all else alone.
LEMMA WithKeeps ==
  ASSUME TypeOK, NEW id, NEW status, batch' = With(id, status)
  PROVE  \A b \in Batch : /\ batch'[b].content = batch[b].content
                          /\ batch'[b].status = IF b = id THEN status ELSE batch[b].status
  <1>1. \A b \in Batch : batch[b] \in BatchRow
    BY DEF TypeOK, BatchRow
  <1> QED
    BY <1>1 DEF With, BatchRow, TypeOK

\* A handler that does not begin to hold a batch.
LEMMA HandlerHolds ==
  ASSUME NEW d \in Delivery, \A e \in Delivery : e # d => handler'[e] = handler[e],
         UNCHANGED <<worker, request>>, NEW b,
         \/ handler'[d].pc \notin {"load", "resolve"}
         \/ /\ handler[d].pc \in {"load", "resolve"}
            /\ handler'[d].at.id = handler[d].at.id
  PROVE  /\ NoHolder(b) => NoHolder(b)'
         /\ OneHolder(b) => OneHolder(b)'
  <1>1. LoadingAt(b)' \subseteq LoadingAt(b) /\ AskingAt(b)' = AskingAt(b)
        /\ ResolvingAt(b)' = ResolvingAt(b)
    BY DEF LoadingAt, AskingAt, ResolvingAt
  <1> QED
    BY <1>1 DEF NoHolder, OneHolder

\* What is common to the steps of a handler.
LEMMA HandlerFrame ==
  ASSUME OnceInv, NEW d \in Delivery, HandlerStep(d)
  PROVE  /\ Saving(d, "saved") /\ UNCHANGED <<delivery, worker, request>>
         /\ stale \subseteq stale' /\ Writes /\ handed' \in [Inbound -> Nat]
         /\ \A e \in Delivery : e # d => handler'[e] = handler[e]
         /\ OwnersKept
         /\ KnownInv'
  <1> USE DEF OnceInv
  <1>1. HandlerMoves(d)
    BY HandlersMove
  <1>2. PICK h \in HandlerState : /\ handler' = [handler EXCEPT ![d] = h]
                                  /\ h.pc \in Holding => HeldNext(h.at.id)
    BY <1>1 DEF HandlerMoves, HandlerGoesOn
  <1>3. /\ handler \in [Delivery -> HandlerState] /\ handler[d] \in HandlerState
    BY DEF BatchInv, TypeOK, HandlerState
  <1>4. /\ \A e \in Delivery : e # d => handler'[e] = handler[e]
        /\ handler'[d] = h
    BY <1>2, <1>3
  <1>5. stale \subseteq stale'
    BY DEF HandlerStep, Dispatch, FindCollecting, AppendTo, Create, NoteBatched, ClaimNow, Load,
           Resolve, PipelineEnds, CompleteNow, FallsThrough
  <1>6. /\ Late(d) => /\ h.pc \notin {"idle", "refused", "find", "append", "create"}
                      /\ h.at.id = handler[d].at.id
        /\ ~Handles(d, "alone")
        /\ h.pc \notin Holding => h.at.id = handler[d].at.id
    <2> USE <1>3, <1>4 DEF Goes, Handles, Late, HandlerState, Holding
    <2>1. CASE Dispatch(d)
      BY <2>1 DEF Dispatch
    <2>2. CASE FindCollecting(d)
      <3>1. /\ handler[d].pc = "find"
            /\ \/ handler' = [handler EXCEPT ![d].pc = "create"]
               \/ handler' = [handler EXCEPT ![d].pc = "alone"]
               \/ \E b \in Batch :
                     handler' = [handler EXCEPT ![d].pc = "append", ![d].at = Row(b)]
        BY <2>2 DEF FindCollecting, FallsThrough, Collecting
      <3>2. handler'[d].at.id = handler[d].at.id \/ handler'[d].pc = "append"
        BY <3>1
      <3>3. handler[d].pc = "find"
        BY <3>1
      <3> QED
        BY <3>2, <3>3
    <2>3. CASE AppendTo(d)
      <3>1. /\ handler[d].pc = "append"
            /\ \/ handler' = [handler EXCEPT ![d].pc = "alone"]
               \/ \E full \in BOOLEAN :
                     handler' = [handler EXCEPT ![d].pc = "note", ![d].ready = full]
        BY <2>3 DEF AppendTo, FallsThrough
      <3>2. handler'[d].at.id = handler[d].at.id
        BY <3>1
      <3>3. handler[d].pc = "append"
        BY <3>1
      <3> QED
        BY <3>2, <3>3
    <2>4. CASE Create(d)
      BY <2>4 DEF Create, FallsThrough
    <2>5. CASE NoteBatched(d)
      BY <2>5 DEF NoteBatched, FallsThrough
    <2>6. CASE ClaimNow(d)
      BY <2>6 DEF ClaimNow
    <2>7. CASE Load(d)
      BY <2>7 DEF Load, Row
    <2>8. CASE Resolve(d)
      BY <2>8 DEF Resolve
    <2>9. CASE PipelineEnds(d) \/ CompleteNow(d)
      BY <2>9 DEF PipelineEnds, CompleteNow
    <2> QED
      BY <2>1, <2>2, <2>3, <2>4, <2>5, <2>6, <2>7, <2>8, <2>9 DEF HandlerStep
  <1>7. OwnersKept
    <2>1. Saving(d, "saved") /\ UNCHANGED delivery
      BY <1>1 DEF HandlerMoves, receiving
    <2>2. \A e \in Delivery : Late(e) => Saving(e, "saved")
      BY DEF BatchInv, RowInv, Late, Handles
    <2> QED
      BY <1>4, <1>6, <2>1, <2>2 DEF OwnersKept, Late, Handles, Saving, MessageOf
  <1>8. KnownInv'
    <2>1. \A id : Held(id) => HeldNext(id)
      BY <1>1, RowsTyped DEF BatchInv, HandlerMoves
    <2>2. \A e \in Delivery : handler'[e].at.id \in Batch => HeldNext(handler'[e].at.id)
      BY <1>2, <1>4, <1>6, <2>1 DEF KnownInv
    <2>3. \A r \in request' : HeldNext(r.at.id)
      BY <1>1, <2>1 DEF KnownInv, HandlerMoves
    <2> QED
      BY <2>2, <2>3 DEF KnownInv, Held, HeldNext
  <1> QED
    BY <1>1, <1>4, <1>5, <1>7, <1>8 DEF HandlerMoves, receiving

LEMMA AppendTyped ==
  ASSUME NEW S, NEW seq \in Seq(S), NEW x \in S
  PROVE  /\ DOMAIN Append(seq, x) = 1 .. Len(seq) + 1 /\ Len(seq) \in Nat
         /\ DOMAIN seq = 1 .. Len(seq)
         /\ Append(seq, x)[Len(seq) + 1] = x
         /\ \A i \in 1 .. Len(seq) : Append(seq, x)[i] = seq[i]
  OBVIOUS

LEMMA HandlerKeepsOnce ==
  ASSUME OnceInv, NEW d \in Delivery, HandlerStep(d)
  PROVE  KnownInv' /\ TextInv' /\ ClaimInv' /\ CountInv'
  <1> USE DEF OnceInv
  <1> DEFINE h == handler[d]
             g == handler'[d]
  <1>1. /\ Saving(d, "saved") /\ UNCHANGED <<delivery, worker, request>>
        /\ stale \subseteq stale' /\ Writes /\ handed' \in [Inbound -> Nat]
        /\ \A e \in Delivery : e # d => handler'[e] = handler[e]
        /\ OwnersKept
        /\ KnownInv'
    BY HandlerFrame
  <1> SUFFICES TextInv' /\ ClaimInv' /\ CountInv'
    BY <1>1
  <1>2. /\ handler \in [Delivery -> HandlerState] /\ h \in HandlerState
        /\ h.pc \in Holding => Held(h.at.id)
        /\ batch \in [Batch -> BatchRow] /\ handed \in [Inbound -> Nat]
    BY DEF BatchInv, RowInv, TypeOK, HandlerState, BatchRow
  \* The shape of the goal: what remains to be shown of each action.
  <1>3. ASSUME \A b \in Batch : \/ batch'[b].content = batch[b].content
                                \/ TextNext(b, batch'[b].content),
               g.pc \in {"append", "resolve"} => Text(g.at.id, g.at.content),
               \A b \in Batch \ stale' : HolderStep(b),
               HandedStep
        PROVE  TextInv' /\ ClaimInv' /\ CountInv'
    <2>1. /\ \A e \in Delivery : handler'[e].pc \in {"append", "resolve"} =>
                 Text(handler'[e].at.id, handler'[e].at.content)
          /\ \A w \in Worker : worker'[w].pc = "ask" =>
                 Text(worker'[w].hand.id, worker'[w].hand.content)
          /\ \A w \in Worker : \A r \in worker'[w].todo : Text(r.id, r.content)
          /\ \A r \in request' : Text(r.at.id, r.at.content)
      BY <1>1, <1>3 DEF TextInv
    <2> QED
      BY <1>1, <1>3, <2>1, TextsKept, CountsKept
  \* A step that hands nothing over and begins no claim.
  <1>4. ASSUME UNCHANGED handed
        PROVE  HandedStep
    BY <1>4, <1>1 DEF HandedStep, OwnersKept, Counted
  <1>5. ASSUME \A b \in Batch : Claimable(b)' => Claimable(b),
               \/ g.pc \notin {"load", "resolve"}
               \/ h.pc \in {"load", "resolve"} /\ g.at.id = h.at.id
        PROVE  \A b \in Batch : HolderStep(b)
    BY <1>1, <1>5, HandlerHolds DEF HolderStep
  <1>6. ASSUME NEW pc, Goes(d, pc)
        PROVE  g.pc = pc /\ g.at = h.at
    BY <1>2, <1>6 DEF Goes, HandlerState
  <1>7. ASSUME UNCHANGED batch
        PROVE  /\ \A b \in Batch : batch'[b].content = batch[b].content
               /\ \A b \in Batch : Claimable(b)' => Claimable(b)
    BY <1>7 DEF Claimable
  <1>8. ASSUME NEW id, NEW status \in {"processing", "completed"}, batch' = With(id, status)
        PROVE  /\ \A b \in Batch : batch'[b].content = batch[b].content
               /\ \A b \in Batch : Claimable(b)' => Claimable(b) /\ b # id
    BY <1>8, WithKeeps DEF Claimable, BatchInv
  <1>9. ASSUME FallsThrough(d), ~Late(d) \/ Handles(d, "note")
        PROVE  TextInv' /\ ClaimInv' /\ CountInv'
    <2>1. g.pc = "alone" /\ UNCHANGED batch
      BY <1>6, <1>9 DEF FallsThrough
    <2>2. HandedStep
      <3>1. MessageOf(d) \in Inbound /\ <<MessageOf(d)>> \in Content
        BY <1>1 DEF BatchInv, SaveInv, Saving, Content
      <3>2. Distinct(<<MessageOf(d)>>)
        BY DEF Distinct
      <3>3. ASSUME NEW m \in Inbound, m # MessageOf(d) PROVE handed'[m] = handed[m]
        <4>1. {i \in DOMAIN <<MessageOf(d)>> : <<MessageOf(d)>>[i] = m} = {}
          BY <3>3
        <4> QED
          BY <1>2, <1>9, <4>1, FS_EmptySet DEF FallsThrough, HandOver
      <3>4. \A e \in Delivery : Counted(e)' => MessageOf(e)' # MessageOf(d)
        <4>1. ASSUME NEW e \in Delivery, Counted(e)', MessageOf(e)' = MessageOf(d) PROVE FALSE
          <5>1. Saving(e, "saved") /\ MessageOf(e) = MessageOf(d) /\ MessageOf(d) \notin Anonymous
            BY <1>1, <4>1 DEF OwnersKept, Counted
          <5>2. e = d
            BY <1>1, <5>1 DEF AcceptedOnce, MessageOf
          <5> QED
            BY <2>1, <4>1, <5>2 DEF Counted, Handles
        <4> QED
          BY <4>1
      <3>5. \A e \in Delivery : Counted(e)' => MessageOf(e)' \in Inbound
        BY <1>1 DEF OwnersKept, Counted, BatchInv, SaveInv, Saving
      <3>6. Late(d)' /\ MessageOf(d)' = MessageOf(d)
        BY <1>1, <2>1 DEF Late, MessageOf
      <3> QED
        BY <3>3, <3>4, <3>5, <3>6 DEF HandedStep
    <2> QED
      BY <1>3, <1>5, <1>7, <2>1, <2>2
  <1>10. CASE Dispatch(d)
    BY <1>3, <1>4, <1>5, <1>6, <1>7, <1>10 DEF Dispatch
  <1>11. CASE FindCollecting(d)
    <2>1. CASE FallsThrough(d)
      BY <1>9, <1>11, <2>1 DEF FindCollecting, Late, Handles
    <2>2. CASE Goes(d, "create") /\ UNCHANGED <<batch, handed>>
      BY <1>3, <1>4, <1>5, <1>6, <1>7, <2>2
    <2>3. ASSUME NEW b \in Batch, UNCHANGED <<batch, handed>>,
                 handler' = [handler EXCEPT ![d].pc = "append", ![d].at = Row(b)]
          PROVE  TextInv' /\ ClaimInv' /\ CountInv'
      <3>1. g.pc = "append" /\ g.at = Row(b)
        BY <1>2, <2>3 DEF HandlerState
      <3>2. Text(g.at.id, g.at.content)
        BY <3>1 DEF TextInv, Row
      <3> QED
        BY <1>3, <1>4, <1>5, <1>7, <2>3, <3>1, <3>2
    <2> QED
      BY <1>11, <2>1, <2>2, <2>3 DEF FindCollecting, Collecting
  <1>12. CASE AppendTo(d)
    <2>1. CASE FallsThrough(d)
      BY <1>9, <1>12, <2>1 DEF AppendTo, Late, Handles
    <2>2. CASE ~FallsThrough(d)
      <3> DEFINE new == Append(h.at.content, MessageOf(d))
                 id  == h.at.id
      <3>1. PICK long \in BOOLEAN :
               LET full == long \/ Len(new) >= MaxMessages IN
               /\ batch' = [batch EXCEPT ![id] =
                     [status |-> IF full THEN "ready" ELSE "collecting",
                      content |-> new, due |-> full]]
               /\ handler' = [handler EXCEPT ![d].pc = "note", ![d].ready = full]
               /\ stale' = IF Row(id) = h.at /\ id \in Collecting
                           THEN stale ELSE stale \cup {id}
               /\ UNCHANGED handed
        BY <1>12, <2>2 DEF AppendTo
      <3>2. Handles(d, "append") /\ ~Late(d) /\ id \in Batch
        BY <1>2, <1>12 DEF AppendTo, Handles, Late, Holding, Held
      <3>3. g.pc = "note" /\ g.at = h.at
        BY <1>2, <3>1 DEF HandlerState
      <3>4. /\ \A b \in Batch : b # id => batch'[b] = batch[b]
            /\ batch'[id].content = new
        BY <1>2, <3>1, <3>2
      <3>5. TextNext(id, new)
        <4>1. Text(id, h.at.content)
          BY <3>2 DEF TextInv, Handles
        <4>2. TextNext(id, h.at.content)
          BY <1>1, <4>1, TextKept
        <4>3. h.at.content \in Seq(Inbound) /\ MessageOf(d) \in Inbound
          BY <1>1, <1>2 DEF HandlerState, Snapshot, Content, BatchInv, SaveInv, Saving
        <4>4. /\ DOMAIN new = 1 .. Len(h.at.content) + 1 /\ Len(h.at.content) \in Nat
              /\ DOMAIN h.at.content = 1 .. Len(h.at.content)
              /\ new[Len(h.at.content) + 1] = MessageOf(d)
              /\ \A i \in 1 .. Len(h.at.content) : new[i] = h.at.content[i]
          BY <4>3, AppendTyped
        <4>5. MessageOf(d) \notin Anonymous =>
                 \A i \in DOMAIN h.at.content : h.at.content[i] # MessageOf(d)
          BY <1>1, <3>2, <4>1, TextOfBatch DEF In
        <4>6. /\ handler'[d].pc \notin {"idle", "refused", "find", "append", "create"}
              /\ delivery'[d].inbound = MessageOf(d) /\ handler'[d].at.id = id
          BY <1>1, <3>3 DEF MessageOf
        <4> HIDE DEF new
        <4>7. ASSUME NEW i \in DOMAIN new
              PROVE  \E e \in Delivery :
                        /\ handler'[e].pc \notin {"idle", "refused", "find", "append", "create"}
                        /\ delivery'[e].inbound = new[i] /\ handler'[e].at.id = id
          <5>1. CASE i = Len(h.at.content) + 1
            BY <4>4, <4>6, <5>1
          <5>2. CASE i \in DOMAIN h.at.content
            <6>1. new[i] = h.at.content[i]
              BY <4>4, <5>2
            <6> QED
              BY <4>2, <5>2, <6>1 DEF TextNext
          <5> QED
            BY <4>4, <5>1, <5>2
        <4>8. Distinct(new)
          <5> DEFINE old == h.at.content
                     n   == Len(old)
          <5>1. \A i, j \in 1 .. n : old[i] = old[j] /\ old[i] \notin Anonymous => i = j
            BY <4>1, <4>4 DEF Text, Distinct
          <5>2. /\ DOMAIN new = 1 .. n + 1 /\ n \in Nat
                /\ new[n + 1] = MessageOf(d)
                /\ \A i \in 1 .. n : new[i] = old[i]
                /\ MessageOf(d) \notin Anonymous => \A i \in 1 .. n : old[i] # MessageOf(d)
            BY <4>4, <4>5
          <5> HIDE DEF old, n
          <5> QED
            BY <5>1, <5>2 DEF Distinct
        <4> QED
          BY <4>7, <4>8 DEF TextNext
      <3>6. \A b \in Batch \ stale' : Claimable(b)' => Claimable(b)
        BY <3>1, <3>4 DEF Claimable, Collecting
      <3>7. \A b \in Batch \ stale' : HolderStep(b)
        BY <1>1, <3>3, <3>6, HandlerHolds DEF HolderStep
      <3> QED
        BY <1>3, <1>4, <3>1, <3>3, <3>4, <3>5, <3>7
    <2> QED
      BY <2>1, <2>2
  <1>13. CASE Create(d)
    <2>1. CASE FallsThrough(d)
      BY <1>9, <1>13, <2>1 DEF Create, Late, Handles
    <2>2. CASE ~FallsThrough(d)
      <3> DEFINE row == [status |-> "collecting", content |-> <<MessageOf(d)>>, due |-> FALSE]
      <3>1. PICK b \in Batch :
               /\ batch[b].status = "absent"
               /\ batch' = [batch EXCEPT ![b] = row]
               /\ handler' = [handler EXCEPT ![d].pc = "note", ![d].at.id = b]
               /\ UNCHANGED <<handed, stale>>
        BY <1>13, <2>2 DEF Create
      <3>2. g.pc = "note" /\ g.at.id = b
        BY <1>2, <3>1 DEF HandlerState, Snapshot
      <3>3. /\ \A c \in Batch : c # b => batch'[c] = batch[c]
            /\ batch'[b].content = <<MessageOf(d)>>
        BY <1>2, <3>1
      <3>4. TextNext(b, <<MessageOf(d)>>)
        <4>1. /\ g.pc \notin {"idle", "refused", "find", "append", "create"}
              /\ delivery'[d].inbound = MessageOf(d) /\ g.at.id = b
          BY <1>1, <3>2 DEF MessageOf
        <4> QED
          BY <4>1 DEF TextNext, Distinct
      <3>5. NoHolder(b)
        <4>1. ~Held(b)
          BY <3>1 DEF Held
        <4>2. LoadingAt(b) = {} /\ AskingAt(b) = {}
          BY <4>1 DEF LoadingAt, AskingAt, BatchInv, RowInv, Holding, HoldingPoll
        <4>3. ResolvingAt(b) = {}
          BY <4>1 DEF ResolvingAt, KnownInv
        <4> QED
          BY <4>2, <4>3 DEF NoHolder
      <3>6. ASSUME NEW c \in Batch PROVE HolderStep(c)
        <4>1. (NoHolder(c) => NoHolder(c)') /\ (OneHolder(c) => OneHolder(c)')
          BY <1>1, <3>2, HandlerHolds
        <4>2. CASE c = b
          BY <3>1, <3>5, <4>1, <4>2 DEF HolderStep
        <4>3. CASE c # b
          BY <3>3, <4>1, <4>3 DEF HolderStep, Claimable
        <4> QED
          BY <4>2, <4>3
      <3> QED
        BY <1>3, <1>4, <3>1, <3>2, <3>3, <3>4, <3>6
    <2> QED
      BY <2>1, <2>2
  <1>14. CASE NoteBatched(d)
    <2>1. CASE FallsThrough(d)
      BY <1>9, <1>14, <2>1 DEF NoteBatched
    <2>2. CASE ~FallsThrough(d)
      <3>1. UNCHANGED <<batch, handed>> /\ (Goes(d, "claim") \/ Goes(d, "done"))
        BY <1>14, <2>2 DEF NoteBatched
      <3> QED
        BY <1>3, <1>4, <1>5, <1>6, <1>7, <3>1
    <2> QED
      BY <2>1, <2>2
  <1>15. CASE ClaimNow(d)
    <2> DEFINE id == h.at.id
    <2>1. UNCHANGED handed /\ h.pc = "claim" /\ id \in Batch
      BY <1>2, <1>15 DEF ClaimNow, Handles, Holding, Held
    <2>2. CASE Goes(d, "done") /\ UNCHANGED batch
      BY <1>3, <1>4, <1>5, <1>6, <1>7, <2>1, <2>2
    <2>3. CASE Claimable(id) /\ batch' = With(id, "processing") /\ Goes(d, "load")
      <3>1. g.pc = "load" /\ g.at = h.at
        BY <1>6, <2>3
      <3>2. /\ \A b \in Batch : batch'[b].content = batch[b].content
            /\ \A b \in Batch : Claimable(b)' => Claimable(b) /\ b # id
        BY <1>8, <2>3
      <3>3. ASSUME NEW b \in Batch PROVE HolderStep(b)
        <4>1. CASE b = id
          <5>1. NoHolder(b) => OneHolder(b)'
            <6>1. /\ LoadingAt(b)' \subseteq LoadingAt(b) \cup {d}
                  /\ AskingAt(b)' = AskingAt(b) /\ ResolvingAt(b)' = ResolvingAt(b)
              BY <1>1 DEF LoadingAt, AskingAt, ResolvingAt
            <6> QED
              BY <6>1 DEF NoHolder, OneHolder
          <5> QED
            BY <2>3, <3>2, <4>1, <5>1 DEF HolderStep
        <4>2. CASE b # id
          <5>1. /\ LoadingAt(b)' = LoadingAt(b)
                /\ AskingAt(b)' = AskingAt(b) /\ ResolvingAt(b)' = ResolvingAt(b)
            BY <1>1, <2>1, <3>1, <4>2 DEF LoadingAt, AskingAt, ResolvingAt
          <5> QED
            BY <3>2, <5>1 DEF HolderStep, NoHolder, OneHolder
        <4> QED
          BY <4>1, <4>2
      <3> QED
        BY <1>3, <1>4, <2>1, <3>1, <3>2, <3>3
    <2> QED
      BY <1>15, <2>2, <2>3 DEF ClaimNow
  <1>16. CASE Load(d)
    <2>1. UNCHANGED <<batch, handed>> /\ h.pc = "load" /\ h.at.id \in Batch
      BY <1>2, <1>16 DEF Load, Handles, Holding, Held
    <2>2. CASE Goes(d, "done")
      BY <1>3, <1>4, <1>5, <1>6, <1>7, <2>1, <2>2
    <2>3. CASE ~Goes(d, "done")
      <3>1. handler' = [handler EXCEPT ![d].pc = "resolve", ![d].at = Row(h.at.id)]
        BY <1>16, <2>3 DEF Load
      <3>2. g.pc = "resolve" /\ g.at = Row(h.at.id)
        BY <1>2, <3>1 DEF HandlerState
      <3>3. g.at.id = h.at.id /\ g.at.content = batch[h.at.id].content
        BY <3>2 DEF Row
      <3>4. Text(g.at.id, g.at.content)
        BY <2>1, <3>3 DEF TextInv
      <3> QED
        BY <1>3, <1>4, <1>5, <1>7, <2>1, <3>2, <3>3, <3>4
    <2> QED
      BY <2>2, <2>3
  <1>17. CASE Resolve(d)
    <2>1. UNCHANGED <<batch, stale>> /\ h.pc = "resolve" /\ h.at.id \in Batch
      BY <1>2, <1>17 DEF Resolve, Handles, Holding, Held
    <2>2. CASE Goes(d, "recover") /\ UNCHANGED handed
      BY <1>3, <1>4, <1>5, <1>6, <1>7, <2>1, <2>2
    <2>3. CASE Goes(d, "pipeline") /\ HandOver(h.at.content)
      <3>1. g.pc = "pipeline"
        BY <1>6, <2>3
      <3> PICK b \in Batch : b = h.at.id
        BY <2>1
      <3>2. Text(b, h.at.content) /\ h.at.content \in Content
        BY <1>2, <2>1 DEF TextInv, HandlerState, Snapshot
      <3>3. d \in LoadingAt(b) /\ d \notin LoadingAt(b)'
        BY <2>1, <3>1 DEF LoadingAt
      <3>4. Fresh(b)
        BY <3>3 DEF Fresh, NoHolder
      <3>5. b \notin stale' => ~Fresh(b)'
        <4>1. ASSUME b \notin stale'
              PROVE  /\ OneHolder(b) /\ ~Claimable(b)
                     /\ LoadingAt(b) = {d} /\ AskingAt(b) = {} /\ ResolvingAt(b) = {}
          BY <2>1, <3>3, <4>1 DEF ClaimInv, NoHolder, OneHolder
        <4>2. /\ LoadingAt(b)' \subseteq LoadingAt(b) \ {d} /\ AskingAt(b)' = AskingAt(b)
              /\ ResolvingAt(b)' = ResolvingAt(b)
          BY <1>1, <3>1 DEF LoadingAt, AskingAt, ResolvingAt
        <4>3. Claimable(b)' <=> Claimable(b)
          BY <2>1 DEF Claimable
        <4> QED
          BY <4>1, <4>2, <4>3 DEF Fresh, NoHolder
      <3>6. HandedStep
        BY <1>1, <2>1, <2>3, <3>2, <3>4, <3>5, GivingCounts
      <3> QED
        BY <1>3, <1>5, <1>7, <2>1, <3>1, <3>6
    <2> QED
      BY <1>17, <2>2, <2>3 DEF Resolve
  <1>18. CASE PipelineEnds(d)
    BY <1>3, <1>4, <1>5, <1>6, <1>7, <1>18 DEF PipelineEnds
  <1>19. CASE CompleteNow(d)
    <2>1. UNCHANGED handed /\ (Goes(d, "done") \/ Goes(d, "recover"))
          /\ (batch' = With(h.at.id, "completed") \/ UNCHANGED batch)
      BY <1>19 DEF CompleteNow
    <2> QED
      BY <1>3, <1>4, <1>5, <1>6, <1>7, <1>8, <2>1
  <1> QED
    BY <1>10, <1>11, <1>12, <1>13, <1>14, <1>15, <1>16, <1>17, <1>18, <1>19 DEF HandlerStep

\* Steps that leave the handlers alone keep who owns what.
LEMMA OwnersRest ==
  ASSUME OnceInv, UNCHANGED <<delivery, handler>>
  PROVE  OwnersKept
  BY DEF OnceInv, BatchInv, RowInv, OwnersKept, Late, Handles, Saving, MessageOf

\* Others' requests stay as they are, and those of w are not heard any more.
LEMMA UnheardHold ==
  ASSUME OnceInv, NEW w \in Worker, NEW b,
         request' = {IF r.from = w THEN [r EXCEPT !.heard = FALSE] ELSE r : r \in request}
  PROVE  /\ \A q \in request' : \E r \in request : q.at = r.at
         /\ ResolvingAt(b) = {} => ResolvingAt(b)' = {}
         /\ (\A r, q \in ResolvingAt(b) : r = q) => \A r, q \in ResolvingAt(b)' : r = q
  <1> DEFINE F(r) == IF r.from = w THEN [r EXCEPT !.heard = FALSE] ELSE r
  <1>1. \A r \in request : F(r).at = r.at /\ F(r).pc = r.pc
    BY DEF OnceInv, BatchInv, TypeOK
  <1>2. request' = {F(r) : r \in request}
    OBVIOUS
  <1> HIDE DEF F
  <1>3. ResolvingAt(b)' = {F(r) : r \in ResolvingAt(b)}
    BY <1>1, <1>2 DEF ResolvingAt
  <1> QED
    BY <1>1, <1>2, <1>3

LEMMA WorkerKeepsOnce ==
  ASSUME OnceInv, NEW w \in Worker, WorkerStep(w)
  PROVE  KnownInv' /\ TextInv' /\ ClaimInv' /\ CountInv'
  <1> USE DEF OnceInv
  <1> DEFINE h == worker[w]
             g == worker'[w]
  <1>1. /\ UNCHANGED <<delivery, handler, handed>> /\ Writes /\ PollMoves(w)
        /\ OwnersKept
    BY PollsMove, OwnersRest DEF PollMoves, receiving
  <1>2. /\ worker \in [Worker -> WorkerState] /\ h \in WorkerState
        /\ batch \in [Batch -> BatchRow] /\ handed \in [Inbound -> Nat]
        /\ h.pc \in HoldingPoll => Held(h.hand.id)
        /\ \A r \in h.todo : Held(r.id)
    BY DEF BatchInv, RowInv, TypeOK, WorkerState, BatchRow
  <1>3. \A v \in Worker : v # w => worker'[v] = worker[v]
    BY <1>1, <1>2 DEF PollMoves
  <1>4. \A id : Held(id) => HeldNext(id)
    BY <1>1, RowsTyped DEF BatchInv
  <1>5. stale \subseteq stale'
    BY DEF WorkerStep, PollReady, PollOverdue, Claim, Ask, Timeout, Complete
  <1>6. HandedStep
    BY <1>1 DEF HandedStep
  \* The shape of the goal: what remains to be shown of each action.
  <1>7. ASSUME \A b \in Batch : batch'[b].content = batch[b].content,
               g.pc = "ask" => Text(g.hand.id, g.hand.content),
               \A r \in g.todo : Text(r.id, r.content),
               \A q \in request' : Held(q.at.id) /\ Text(q.at.id, q.at.content),
               \A b \in Batch \ stale' : HolderStep(b)
        PROVE  KnownInv' /\ TextInv' /\ ClaimInv' /\ CountInv'
    <2>1. KnownInv'
      BY <1>1, <1>4, <1>7 DEF KnownInv, Held, HeldNext
    <2>2. /\ \A e \in Delivery : handler'[e].pc \in {"append", "resolve"} =>
                 Text(handler'[e].at.id, handler'[e].at.content)
          /\ \A v \in Worker : worker'[v].pc = "ask" =>
                 Text(worker'[v].hand.id, worker'[v].hand.content)
          /\ \A v \in Worker : \A r \in worker'[v].todo : Text(r.id, r.content)
          /\ \A q \in request' : Text(q.at.id, q.at.content)
      BY <1>1, <1>3, <1>7 DEF TextInv
    <2>3. TextInv'
      BY <1>1, <1>7, <2>2, TextsKept
    <2>4. ClaimInv' /\ CountInv'
      BY <1>1, <1>2, <1>5, <1>6, <1>7, CountsKept
    <2> QED
      BY <2>1, <2>3, <2>4
  <1>8. /\ \A r \in h.todo : Text(r.id, r.content)
        /\ \A q \in request : Held(q.at.id) /\ Text(q.at.id, q.at.content)
        /\ \A b \in Batch : Text(b, batch[b].content)
        /\ h.pc = "ask" => Text(h.hand.id, h.hand.content)
    BY DEF TextInv, KnownInv
  \* A poll that does not begin to ask.
  <1>9. ASSUME g.pc # "ask", UNCHANGED request, NEW b
        PROVE  /\ NoHolder(b) => NoHolder(b)'
               /\ OneHolder(b) => OneHolder(b)'
    <2>1. /\ LoadingAt(b)' = LoadingAt(b) /\ ResolvingAt(b)' = ResolvingAt(b)
          /\ AskingAt(b)' \subseteq AskingAt(b)
      BY <1>1, <1>3, <1>9 DEF LoadingAt, AskingAt, ResolvingAt
    <2> QED
      BY <2>1 DEF NoHolder, OneHolder
  <1>10. ASSUME UNCHANGED batch
         PROVE  /\ \A b \in Batch : batch'[b].content = batch[b].content
                /\ \A b \in Batch : Claimable(b)' => Claimable(b)
    BY <1>10 DEF Claimable
  <1>11. ASSUME UNCHANGED <<batch, request>>, g.pc # "ask",
                \A r \in g.todo : Text(r.id, r.content)
         PROVE  KnownInv' /\ TextInv' /\ ClaimInv' /\ CountInv'
    BY <1>7, <1>8, <1>9, <1>10, <1>11 DEF HolderStep
  <1>12. PollFails(w) => g.pc # "ask" /\ g.todo = {}
    BY <1>2 DEF PollFails, IdleWorker
  <1>13. ASSUME NEW todo, Proceeds(w, todo) PROVE g.pc # "ask" /\ g.todo = todo
    BY <1>2, <1>13 DEF Proceeds
  <1>14. ASSUME NEW pc, Goto(w, pc) PROVE g.pc = pc /\ g.todo = h.todo /\ g.hand = h.hand
    BY <1>2, <1>14 DEF Goto, WorkerState
  <1>15. CASE PollReady(w)
    <2>1. UNCHANGED <<batch, request>>
      BY <1>15 DEF PollReady
    <2>2. CASE ~PollFails(w)
      <3> DEFINE found == {Row(b) : b \in {c \in Batch : batch[c].status = "ready"}}
      <3>1. worker' = [worker EXCEPT ![w].pc = "overdue", ![w].todo = found]
        BY <1>15, <2>2 DEF PollReady
      <3>2. \A r \in found : Text(r.id, r.content)
        BY <1>8 DEF Row
      <3> HIDE DEF found
      <3>3. g.pc = "overdue" /\ g.todo = found
        BY <1>2, <3>1 DEF WorkerState
      <3> QED
        BY <1>11, <2>1, <3>2, <3>3
    <2> QED
      BY <1>11, <1>12, <2>1, <2>2
  <1>16. CASE PollOverdue(w)
    <2>1. UNCHANGED <<batch, request>>
      BY <1>16 DEF PollOverdue
    <2>2. CASE ~PollFails(w)
      <3> DEFINE found == {Row(b) : b \in {c \in Collecting : batch[c].due}}
      <3>1. Proceeds(w, h.todo \cup found)
        BY <1>16, <2>2 DEF PollOverdue
      <3>2. \A r \in found : Text(r.id, r.content)
        BY <1>8 DEF Row, Collecting
      <3> HIDE DEF found
      <3> QED
        BY <1>8, <1>11, <1>13, <2>1, <3>1, <3>2
    <2> QED
      BY <1>11, <1>12, <2>1, <2>2
  <1>17. CASE Claim(w)
    <2>1. PICK r \in h.todo :
             \/ /\ Claimable(r.id)
                /\ batch' = With(r.id, "processing")
                /\ worker' = [worker EXCEPT ![w] =
                      [pc |-> "ask", todo |-> h.todo \ {r}, hand |-> r]]
             \/ /\ Proceeds(w, h.todo \ {r})
                /\ UNCHANGED batch
             \/ PollFails(w) /\ UNCHANGED batch
      BY <1>2, <1>17 DEF Claim
    <2>2. UNCHANGED request /\ h.pc = "claim"
      BY <1>17 DEF Claim, Polls
    <2>3. CASE Proceeds(w, h.todo \ {r}) /\ UNCHANGED batch
      BY <1>8, <1>11, <1>13, <2>2, <2>3
    <2>4. CASE PollFails(w) /\ UNCHANGED batch
      BY <1>11, <1>12, <2>2, <2>4
    <2>5. CASE /\ Claimable(r.id)
               /\ batch' = With(r.id, "processing")
               /\ worker' = [worker EXCEPT ![w] =
                     [pc |-> "ask", todo |-> h.todo \ {r}, hand |-> r]]
      <3>1. g.pc = "ask" /\ g.hand = r /\ g.todo \subseteq h.todo
        BY <1>2, <2>5
      <3>2. /\ \A b \in Batch : batch'[b].content = batch[b].content
            /\ \A b \in Batch : Claimable(b)' => Claimable(b) /\ b # r.id
        BY <2>5, WithKeeps DEF Claimable, BatchInv
      <3>3. ASSUME NEW b \in Batch PROVE HolderStep(b)
        <4>1. CASE b = r.id
          <5>1. /\ AskingAt(b)' \subseteq AskingAt(b) \cup {w}
                /\ LoadingAt(b)' = LoadingAt(b) /\ ResolvingAt(b)' = ResolvingAt(b)
            BY <1>1, <1>3, <2>2 DEF LoadingAt, AskingAt, ResolvingAt
          <5>2. NoHolder(b) => OneHolder(b)'
            BY <5>1 DEF NoHolder, OneHolder
          <5> QED
            BY <2>5, <3>2, <4>1, <5>2 DEF HolderStep
        <4>2. CASE b # r.id
          <5>1. /\ AskingAt(b)' = AskingAt(b)
                /\ LoadingAt(b)' = LoadingAt(b) /\ ResolvingAt(b)' = ResolvingAt(b)
            BY <1>1, <1>3, <2>2, <3>1, <4>2 DEF LoadingAt, AskingAt, ResolvingAt
          <5> QED
            BY <3>2, <5>1 DEF HolderStep, NoHolder, OneHolder
        <4> QED
          BY <4>1, <4>2
      <3> QED
        BY <1>7, <1>8, <2>2, <3>1, <3>2, <3>3
    <2> QED
      BY <2>1, <2>3, <2>4, <2>5
  <1>18. CASE Ask(w)
    <2>1. UNCHANGED <<batch, stale>> /\ h.pc = "ask" /\ Held(h.hand.id)
      BY <1>2, <1>18 DEF Ask, Polls, HoldingPoll
    <2>2. CASE Goto(w, "complete") /\ UNCHANGED request
      BY <1>8, <1>11, <1>14, <2>1, <2>2
    <2>3. CASE ~(Goto(w, "complete") /\ UNCHANGED request)
      <3> DEFINE new == [from |-> w, at |-> h.hand, pc |-> "resolve", heard |-> TRUE]
      <3>1. Goto(w, "wait") /\ request' = request \cup {new}
        BY <1>18, <2>3 DEF Ask
      <3>2. new.at = h.hand /\ new.pc = "resolve"
        OBVIOUS
      <3> HIDE DEF new
      <3>3. g.pc = "wait" /\ g.todo = h.todo
        BY <1>14, <3>1
      <3>4. ASSUME NEW b \in Batch PROVE HolderStep(b)
        <4>1. LoadingAt(b)' = LoadingAt(b)
          BY <1>1 DEF LoadingAt
        <4>2. CASE b = h.hand.id
          <5>1. /\ w \in AskingAt(b) /\ AskingAt(b)' = AskingAt(b) \ {w}
                /\ ResolvingAt(b)' = ResolvingAt(b) \cup {new}
            BY <1>3, <2>1, <3>1, <3>2, <3>3, <4>2 DEF AskingAt, ResolvingAt
          <5> QED
            BY <1>10, <2>1, <4>1, <5>1 DEF HolderStep, NoHolder, OneHolder
        <4>3. CASE b # h.hand.id
          <5>1. AskingAt(b)' = AskingAt(b) /\ ResolvingAt(b)' = ResolvingAt(b)
            BY <1>3, <2>1, <3>1, <3>2, <3>3, <4>3 DEF AskingAt, ResolvingAt
          <5> QED
            BY <1>10, <2>1, <4>1, <5>1 DEF HolderStep, NoHolder, OneHolder
        <4> QED
          BY <4>2, <4>3
      <3>5. \A q \in request' : Held(q.at.id) /\ Text(q.at.id, q.at.content)
        BY <1>8, <2>1, <3>1, <3>2
      <3> QED
        BY <1>7, <1>8, <1>10, <2>1, <3>3, <3>4, <3>5
    <2> QED
      BY <2>2, <2>3
  <1>19. CASE Timeout(w)
    <2>1. /\ UNCHANGED <<batch, stale>> /\ Goto(w, "complete")
          /\ request' = {IF r.from = w THEN [r EXCEPT !.heard = FALSE] ELSE r : r \in request}
      BY <1>19 DEF Timeout
    <2>2. g.pc = "complete" /\ g.todo = h.todo
      BY <1>14, <2>1
    <2>3. ASSUME NEW b \in Batch PROVE HolderStep(b)
      <3>1. /\ LoadingAt(b)' = LoadingAt(b)
            /\ AskingAt(b)' \subseteq AskingAt(b)
        BY <1>1, <1>3, <2>2 DEF LoadingAt, AskingAt
      <3>2. /\ ResolvingAt(b) = {} => ResolvingAt(b)' = {}
            /\ (\A r, q \in ResolvingAt(b) : r = q) => \A r, q \in ResolvingAt(b)' : r = q
        BY <2>1, UnheardHold
      <3> QED
        BY <1>10, <2>1, <3>1, <3>2 DEF HolderStep, NoHolder, OneHolder
    <2>4. \A q \in request' : Held(q.at.id) /\ Text(q.at.id, q.at.content)
      BY <1>8, <2>1, UnheardHold
    <2> QED
      BY <1>7, <1>8, <1>10, <2>1, <2>2, <2>3, <2>4
  <1>20. CASE Complete(w)
    <2>1. UNCHANGED request
      BY <1>20 DEF Complete
    <2>2. g.pc # "ask" /\ \A r \in g.todo : Text(r.id, r.content)
      BY <1>8, <1>12, <1>13, <1>14, <1>20 DEF Complete
    <2>3. batch' = With(h.hand.id, "completed") \/ UNCHANGED batch
      BY <1>20 DEF Complete
    <2>4. /\ \A b \in Batch : batch'[b].content = batch[b].content
          /\ \A b \in Batch : Claimable(b)' => Claimable(b)
      BY <1>10, <2>3, WithKeeps DEF Claimable, BatchInv
    <2> QED
      BY <1>7, <1>8, <1>9, <2>1, <2>2, <2>4 DEF HolderStep
  <1> QED
    BY <1>15, <1>16, <1>17, <1>18, <1>19, <1>20 DEF WorkerStep

LEMMA RequestKeepsOnce ==
  ASSUME OnceInv, RequestStep
  PROVE  KnownInv' /\ TextInv' /\ ClaimInv' /\ CountInv'
  <1> USE DEF OnceInv
  <1>1. PICK r \in request : RequestResolves(r) \/ RequestEnds(r)
    BY DEF RequestStep
  <1>2. /\ UNCHANGED <<delivery, handler, batch, stale>>
        /\ OwnersKept
    BY <1>1, OwnersRest DEF RequestResolves, RequestEnds, receiving, receiveVars
  <1>3. /\ worker \in [Worker -> WorkerState] /\ request \subseteq RequestState
        /\ handed \in [Inbound -> Nat] /\ r \in RequestState
    BY DEF BatchInv, TypeOK, WorkerState, RequestState
  <1>4. handed' \in [Inbound -> Nat]
    BY RequestKeepsInv DEF BatchInv, TypeOK
  <1>5. \A w \in Worker : /\ worker'[w].hand = worker[w].hand /\ worker'[w].todo = worker[w].todo
                          /\ worker'[w].pc = "ask" => worker[w].pc = "ask"
    <2>1. CASE UNCHANGED worker
      BY <2>1
    <2>2. CASE Goto(r.from, "complete")
      BY <1>3, <2>2 DEF Goto, WorkerState
    <2> QED
      BY <1>1, <2>1, <2>2 DEF RequestResolves, RequestEnds, Answer
  <1>6. \A q \in request' : \E p \in request : q.at = p.at /\ (q.pc = "resolve" => q = p /\ q # r)
    <2>1. CASE request' = request \ {r}
      BY <1>1, <2>1
    <2>2. CASE request' = (request \ {r}) \cup {[r EXCEPT !.pc = "pipeline"]}
      <3>1. /\ [r EXCEPT !.pc = "pipeline"].at = r.at
            /\ [r EXCEPT !.pc = "pipeline"].pc = "pipeline"
        BY <1>3 DEF RequestState
      <3> QED
        BY <1>1, <2>2, <3>1
    <2> QED
      BY <1>1, <2>1, <2>2 DEF RequestResolves, RequestEnds, Answer
  <1>7. KnownInv'
    BY <1>2, <1>6 DEF KnownInv, Held
  <1>8. TextInv'
    <2>1. /\ \A e \in Delivery : handler'[e].pc \in {"append", "resolve"} =>
                 Text(handler'[e].at.id, handler'[e].at.content)
          /\ \A w \in Worker : worker'[w].pc = "ask" =>
                 Text(worker'[w].hand.id, worker'[w].hand.content)
          /\ \A w \in Worker : \A q \in worker'[w].todo : Text(q.id, q.content)
          /\ \A q \in request' : Text(q.at.id, q.at.content)
      BY <1>2, <1>5, <1>6 DEF TextInv
    <2> QED
      BY <1>2, <2>1, TextsKept
  <1>9. ASSUME NEW b
        PROVE  /\ LoadingAt(b)' = LoadingAt(b) /\ AskingAt(b)' \subseteq AskingAt(b)
               /\ ResolvingAt(b)' \subseteq ResolvingAt(b) \ {r}
               /\ Claimable(b)' <=> Claimable(b)
    BY <1>2, <1>5, <1>6 DEF LoadingAt, AskingAt, ResolvingAt, Claimable
  <1>10. \A b \in Batch : HolderStep(b)
    BY <1>9 DEF HolderStep, NoHolder, OneHolder
  <1>11. HandedStep
    <2>1. CASE UNCHANGED handed
      BY <2>1 DEF HandedStep
    <2>2. CASE r.pc = "resolve" /\ HandOver(r.at.content)
      <3> PICK b \in Batch : b = r.at.id
        BY <1>1 DEF KnownInv, Held
      <3>1. Text(b, r.at.content) /\ r.at.content \in Content
        BY <1>1, <1>3 DEF TextInv, RequestState, Snapshot
      <3>2. r \in ResolvingAt(b)
        BY <1>1, <2>2 DEF ResolvingAt
      <3>3. Fresh(b)
        BY <3>2 DEF Fresh, NoHolder
      <3>4. b \notin stale' => ~Fresh(b)'
        <4>1. ASSUME b \notin stale
              PROVE  /\ ~Claimable(b)
                     /\ LoadingAt(b) = {} /\ AskingAt(b) = {} /\ ResolvingAt(b) = {r}
          BY <3>2, <4>1 DEF ClaimInv, NoHolder, OneHolder
        <4> QED
          BY <1>2, <1>9, <4>1 DEF Fresh, NoHolder
      <3> QED
        BY <1>2, <2>2, <3>1, <3>3, <3>4, GivingCounts
    <2> QED
      BY <1>1, <2>1, <2>2 DEF RequestResolves, RequestEnds
  <1> QED
    BY <1>2, <1>4, <1>7, <1>8, <1>10, <1>11, CountsKept

\* Steps of other parts, and crashes: nobody begins to hold a batch, nothing is handed over.
LEMMA RestKeepsOnce ==
  ASSUME OnceInv, OwnersKept, UNCHANGED <<handed, stale>>,
         \A b \in Batch : /\ batch'[b].content = batch[b].content
                          /\ batch'[b].status = batch[b].status,
         \A d \in Delivery : /\ handler'[d].at = handler[d].at
                             /\ handler'[d].pc \in {handler[d].pc, "lost"},
         \A w \in Worker : \/ worker'[w] = worker[w]
                           \/ /\ worker'[w].todo \subseteq worker[w].todo
                              /\ worker'[w].pc # "ask",
         \A q \in request' : \E r \in request : q.at = r.at,
         \A b : /\ ResolvingAt(b) = {} => ResolvingAt(b)' = {}
                /\ (\A r, q \in ResolvingAt(b) : r = q) => \A r, q \in ResolvingAt(b)' : r = q
  PROVE  KnownInv' /\ TextInv' /\ ClaimInv' /\ CountInv'
  <1> USE DEF OnceInv
  <1>1. KnownInv'
    BY DEF KnownInv, Held
  <1>2. TextInv'
    <2>1. /\ \A e \in Delivery : handler'[e].pc \in {"append", "resolve"} =>
                 Text(handler'[e].at.id, handler'[e].at.content)
          /\ \A w \in Worker : worker'[w].pc = "ask" =>
                 Text(worker'[w].hand.id, worker'[w].hand.content)
          /\ \A w \in Worker : \A r \in worker'[w].todo : Text(r.id, r.content)
          /\ \A q \in request' : Text(q.at.id, q.at.content)
      BY DEF TextInv
    <2> QED
      BY <2>1, TextsKept
  <1>3. ASSUME NEW b \in Batch PROVE HolderStep(b)
    <2>1. /\ LoadingAt(b)' \subseteq LoadingAt(b) /\ AskingAt(b)' \subseteq AskingAt(b)
          /\ Claimable(b)' <=> Claimable(b)
      BY DEF LoadingAt, AskingAt, Claimable
    <2> QED
      BY <2>1 DEF HolderStep, NoHolder, OneHolder
  <1>4. HandedStep
    BY DEF HandedStep
  <1>5. handed' \in [Inbound -> Nat]
    BY DEF BatchInv, TypeOK
  <1> QED
    BY <1>1, <1>2, <1>3, <1>4, <1>5, CountsKept

LEMMA NextKeepsOnce ==
  ASSUME OnceInv, [Next]_vars
  PROVE  KnownInv' /\ TextInv' /\ ClaimInv' /\ CountInv'
  <1> USE DEF OnceInv
  <1> DEFINE Goal == KnownInv' /\ TextInv' /\ ClaimInv' /\ CountInv'
  <1>1. ASSUME UNCHANGED request
        PROVE  /\ \A q \in request' : \E r \in request : q.at = r.at
               /\ \A b : ResolvingAt(b)' = ResolvingAt(b)
    BY <1>1 DEF ResolvingAt
  <1>2. ASSUME ReceiveStep, UNCHANGED batchVars PROVE Goal
    <2>1. \A d \in Delivery : Saving(d, "saved") => delivery'[d] = delivery[d]
      BY <1>2, SaveKept DEF BatchInv, TypeOK
    <2>2. \A d \in Delivery : Late(d) => Saving(d, "saved")
      BY DEF BatchInv, RowInv, Late, Handles
    <2>3. OwnersKept
      BY <1>2, <2>1, <2>2 DEF OwnersKept, Late, Handles, MessageOf, batchVars
    <2> QED
      BY <1>1, <1>2, <2>3, RestKeepsOnce DEF batchVars
  <1>3. ASSUME NEW c \in Batch, WindowPasses(c) PROVE Goal
    <2>1. UNCHANGED <<delivery, handler, worker, request, handed, stale>>
      BY <1>3 DEF WindowPasses, receiveVars
    <2>2. \A b \in Batch : /\ batch'[b].content = batch[b].content
                           /\ batch'[b].status = batch[b].status
      <3>1. \A b \in Batch : batch[b] \in BatchRow
        BY DEF BatchInv, TypeOK, BatchRow
      <3>2. batch' = [batch EXCEPT ![c].due = TRUE]
        BY <1>3 DEF WindowPasses
      <3> QED
        BY <3>1, <3>2 DEF BatchRow, BatchInv, TypeOK
    <2>3. OwnersKept
      BY <2>1, OwnersRest
    <2> QED
      BY <1>1, <2>1, <2>2, <2>3, RestKeepsOnce
  <1>4. ASSUME BackendCrash PROVE Goal
    <2>1. UNCHANGED <<batch, handed, stale>> /\ request' = {}
      BY <1>4 DEF BackendCrash
    <2>2. \A d \in Delivery : Saving(d, "saved") => delivery'[d] = delivery[d]
      BY <1>4 DEF BackendCrash, ReceiveCrash, Saving
    <2>3. \A d \in Delivery : Late(d) => Saving(d, "saved")
      BY DEF BatchInv, RowInv, Late, Handles
    <2>4. ASSUME NEW d \in Delivery
          PROVE  /\ handler'[d].at = handler[d].at
                 /\ handler'[d].pc \in {handler[d].pc, "lost"}
                 /\ handler[d].pc = "alone" => handler'[d].pc = "alone"
                 /\ handler'[d].pc # handler[d].pc => Saving(d, "saved")
      <3>1. handler[d] \in HandlerState
        BY DEF BatchInv, TypeOK, HandlerState
      <3>2. handler'[d] =
               IF Saving(d, "saved") /\ handler[d].pc \notin {"refused", "done", "alone"}
               THEN [handler[d] EXCEPT !.pc = "lost"] ELSE handler[d]
        BY <1>4 DEF BackendCrash
      <3> QED
        BY <3>1, <3>2 DEF HandlerState
    <2>5. OwnersKept
      BY <2>2, <2>3, <2>4 DEF OwnersKept, Late, Handles, MessageOf
    <2>6. \A w \in Worker : \/ worker'[w] = worker[w]
                            \/ /\ worker'[w].todo \subseteq worker[w].todo
                               /\ worker'[w].pc # "ask"
      <3>1. \A w \in Worker : worker[w] \in WorkerState
        BY DEF BatchInv, TypeOK, WorkerState
      <3> QED
        BY <1>4, <3>1 DEF BackendCrash, WorkerState
    <2>7. \A b : ResolvingAt(b)' = {}
      BY <2>1 DEF ResolvingAt
    <2> QED
      BY <2>1, <2>4, <2>5, <2>6, <2>7, RestKeepsOnce
  <1>5. ASSUME NEW w \in Worker, WorkerCrash(w) PROVE Goal
    <2>1. /\ UNCHANGED <<delivery, handler, batch, handed, stale>>
          /\ worker' = [worker EXCEPT ![w] = IdleWorker]
          /\ request' = {IF r.from = w THEN [r EXCEPT !.heard = FALSE] ELSE r : r \in request}
      BY <1>5 DEF WorkerCrash
    <2>2. OwnersKept
      BY <2>1, OwnersRest
    <2>3. /\ IdleWorker.todo = {} /\ IdleWorker.pc = "idle"
          /\ worker \in [Worker -> WorkerState]
      BY DEF IdleWorker, BatchInv, TypeOK, WorkerState
    <2>4. \A v \in Worker : \/ worker'[v] = worker[v]
                            \/ /\ worker'[v].todo \subseteq worker[v].todo
                               /\ worker'[v].pc # "ask"
      BY <2>1, <2>3
    <2>5. /\ \A q \in request' : \E r \in request : q.at = r.at
          /\ \A b : /\ ResolvingAt(b) = {} => ResolvingAt(b)' = {}
                    /\ (\A r, q \in ResolvingAt(b) : r = q) =>
                          \A r, q \in ResolvingAt(b)' : r = q
      BY <2>1, UnheardHold
    <2> QED
      BY <2>1, <2>2, <2>4, <2>5, RestKeepsOnce
  <1>6. CASE UNCHANGED vars
    <2>1. UNCHANGED <<delivery, batch, handler, worker, request, handed, stale>>
      BY <1>6 DEF vars, receiveVars, batchVars
    <2>2. OwnersKept
      BY <2>1, OwnersRest
    <2> QED
      BY <1>1, <2>1, <2>2, RestKeepsOnce
  <1> QED
    BY <1>2, <1>3, <1>4, <1>5, <1>6, HandlerKeepsOnce, WorkerKeepsOnce, RequestKeepsOnce DEF Next

\* The inductive invariant of the hand-over: texts, claims and counts.
THEOREM OnceInvariant == Spec => []OnceInv
  <1>1. Init => KnownInv /\ TextInv /\ ClaimInv /\ CountInv
    <2> SUFFICES ASSUME Init PROVE KnownInv /\ TextInv /\ ClaimInv /\ CountInv
      OBVIOUS
    <2> USE DEF Init, NoBatch, IdleWorker
    <2>1. KnownInv
      BY DEF KnownInv, Batch
    <2>2. TextInv
      BY DEF TextInv, Text, OwnedBy, Distinct
    <2>3. ClaimInv
      BY DEF ClaimInv, Claimable, OneHolder, LoadingAt, AskingAt, ResolvingAt
    <2>4. CountInv
      BY DEF CountInv, Counted, Late
    <2> QED
      BY <2>1, <2>2, <2>3, <2>4
  <1>2. ASSUME BatchInv, BatchInv', AcceptedOnce, AcceptedOnce',
               KnownInv /\ TextInv /\ ClaimInv /\ CountInv, [Next]_vars
        PROVE  (KnownInv /\ TextInv /\ ClaimInv /\ CountInv)'
    BY <1>2, NextKeepsOnce DEF OnceInv
  <1> QED
    BY <1>1, <1>2, BatchInvariant, Accepted, PTL DEF Spec, OnceInv

\* A batch is claimed and handed over by one of the two processes (claimBatch), so that a
\* message with an id reaches the pipeline once: for any number of handlers, polls,
\* time-outs, errors and crashes, with the exceptions that HandedOnce names.
THEOREM HandedOver == Spec => []HandedOnce
  <1>1. OnceInv => HandedOnce
    <2> SUFFICES ASSUME OnceInv, NEW m \in Inbound \ Anonymous, handed[m] > 1
                 PROVE  \E d \in Delivery : /\ MessageOf(d) = m
                                            /\ Handles(d, "alone") \/ handler[d].at.id \in stale
      BY DEF HandedOnce
    <2>1. handed[m] \in Nat
      BY DEF OnceInv, BatchInv, TypeOK
    <2>2. PICK d \in Delivery : MessageOf(d) = m /\ Late(d)
      BY <2>1 DEF OnceInv, CountInv
    <2>3. ASSUME ~Handles(d, "alone"), handler[d].at.id \notin stale PROVE FALSE
      <3>1. handed[m] <= 1
        BY <2>2, <2>3 DEF OnceInv, CountInv, Counted
      <3> QED
        BY <2>1, <3>1
    <2> QED
      BY <2>2, <2>3
  <1> QED
    BY <1>1, OnceInvariant, PTL

-----------------------------------------------------------------------------
(* What no message of a batch is lost by: the inductive invariant *)

Undisturbed == faults = 0 /\ crashes = 0

Given(content) == \A i \in DOMAIN content : handed[content[i]] > 0
Nameless(b) == \E i \in DOMAIN batch[b].content : batch[b].content[i] \in Anonymous

\* What the batch holds has been handed over, is on its way in a request, or cannot be.
Settled(b) == Nameless(b) \/ Given(batch[b].content) \/ \E r \in request : r.at = Row(b)

\* A handler of the batch knows the row's text from the load on, and what it has passed on
\* before it completes the batch.
HandlerWhole(b, d) ==
    Batched(d) /\ handler[d].at.id = b =>
        /\ batch[b].status # "absent"
        /\ In(MessageOf(d), batch[b].content)
        /\ Handles(d, "resolve") => handler[d].at = Row(b)
        /\ handler[d].pc \in {"pipeline", "complete", "recover"} => Settled(b)
        /\ handler[d].pc \in {"load", "resolve", "pipeline", "complete", "recover"} => ~Claimable(b)

\* So does a poll that has claimed it,
PollWhole(b, w) ==
    worker[w].pc \in HoldingPoll /\ worker[w].hand.id = b =>
        /\ batch[b].status # "absent"
        /\ Polls(w, "ask") => worker[w].hand = Row(b)
        /\ ~Polls(w, "ask") => Settled(b)
        /\ ~Claimable(b)

\* and a request made for it.
RequestWhole(b, r) ==
    r.at.id = b => /\ batch[b].status # "absent"
                   /\ r.at = Row(b)
                   /\ r.pc = "pipeline" => Given(r.at.content)
                   /\ ~Claimable(b)

CompletedWhole(b) == batch[b].status = "completed" => Settled(b)

Whole(b) ==
    /\ \A d \in Delivery : HandlerWhole(b, d)
    /\ \A w \in Worker : PollWhole(b, w)
    /\ \A r \in request : RequestWhole(b, r)
    /\ CompletedWhole(b)

LossInv ==
    Undisturbed =>
        /\ \A d \in Delivery : Batched(d) => handler[d].at.id \in Batch
        /\ \A b \in Batch \ stale : Whole(b)

-----------------------------------------------------------------------------
(* What a step keeps *)

\* A step on the batch: it keeps its messages, and either nobody had claimed it, or the text
\* stays and nobody can claim it anew.
Keeps(b) ==
    /\ \A m : In(m, batch[b].content) => In(m, batch'[b].content)
    /\ batch[b].status # "absent" => batch'[b].status # "absent"
    /\ \/ Claimable(b) \/ batch[b].status = "absent"
       \/ /\ batch'[b].content = batch[b].content
          /\ Settled(b) => Settled(b)'
          /\ ~(Claimable(b)')
    /\ \A m \in Inbound : handed'[m] >= handed[m]

\* Whoever does not move keeps what is said of it.
LEMMA Rests ==
  ASSUME OnceInv, OnceInv', NEW b \in Batch, Whole(b), Keeps(b)
  PROVE  /\ \A d \in Delivery : /\ handler'[d] = handler[d]
                                /\ Batched(d) => MessageOf(d)' = MessageOf(d)
                                => HandlerWhole(b, d)'
         /\ \A w \in Worker : worker'[w] = worker[w] => PollWhole(b, w)'
         /\ \A r \in request : RequestWhole(b, r)'
  <1>1. ASSUME NEW d \in Delivery, handler'[d] = handler[d],
               Batched(d) => MessageOf(d)' = MessageOf(d)
        PROVE  HandlerWhole(b, d)'
    <2>1. HandlerWhole(b, d)
      BY DEF Whole
    <2> SUFFICES ASSUME Batched(d), handler[d].at.id = b PROVE HandlerWhole(b, d)'
      BY <1>1 DEF HandlerWhole, Batched
    <2>2. /\ batch[b].status # "absent" /\ In(MessageOf(d), batch[b].content)
      BY <2>1 DEF HandlerWhole
    <2>3. /\ batch'[b].status # "absent" /\ In(MessageOf(d), batch'[b].content)
      BY <2>2 DEF Keeps
    <2>4. CASE Claimable(b)
      BY <1>1, <2>1, <2>3, <2>4 DEF HandlerWhole, Handles
    <2>5. CASE ~Claimable(b)
      <3>1. Row(b)' = Row(b) /\ (Settled(b) => Settled(b)') /\ ~(Claimable(b)')
        BY <2>2, <2>5 DEF Keeps, Row
      <3> QED
        BY <1>1, <2>1, <2>3, <3>1 DEF HandlerWhole, Handles
    <2> QED
      BY <2>4, <2>5
  <1>2. ASSUME NEW w \in Worker, worker'[w] = worker[w] PROVE PollWhole(b, w)'
    <2>1. PollWhole(b, w)
      BY DEF Whole
    <2> SUFFICES ASSUME worker[w].pc \in HoldingPoll, worker[w].hand.id = b PROVE PollWhole(b, w)'
      BY <1>2 DEF PollWhole
    <2>2. batch[b].status # "absent" /\ ~Claimable(b)
      BY <2>1 DEF PollWhole
    <2>3. /\ Row(b)' = Row(b) /\ (Settled(b) => Settled(b)') /\ ~(Claimable(b)')
          /\ batch'[b].status # "absent"
      BY <2>2 DEF Keeps, Row
    <2> QED
      BY <1>2, <2>1, <2>3 DEF PollWhole, Polls
  <1>3. ASSUME NEW r \in request PROVE RequestWhole(b, r)'
    <2>1. RequestWhole(b, r)
      BY DEF Whole
    <2> SUFFICES ASSUME r.at.id = b PROVE RequestWhole(b, r)'
      BY DEF RequestWhole
    <2>2. batch[b].status # "absent" /\ ~Claimable(b) /\ r.at = Row(b)
      BY <2>1 DEF RequestWhole
    <2>3. /\ Row(b)' = Row(b) /\ ~(Claimable(b)') /\ batch'[b].status # "absent"
      BY <2>2 DEF Keeps, Row
    <2>4. Given(r.at.content) => Given(r.at.content)'
      <3>1. /\ batch[b].content \in Content /\ handed \in [Inbound -> Nat]
            /\ handed' \in [Inbound -> Nat]
        BY DEF OnceInv, BatchInv, TypeOK
      <3>2. r.at.content = batch[b].content
        BY <2>2 DEF Row
      <3>3. \A i \in DOMAIN batch[b].content : batch[b].content[i] \in Inbound
        BY <3>1 DEF Content
      <3>4. \A i \in DOMAIN r.at.content :
              /\ handed[r.at.content[i]] \in Nat /\ handed'[r.at.content[i]] \in Nat
              /\ handed'[r.at.content[i]] >= handed[r.at.content[i]]
        BY <3>1, <3>2, <3>3 DEF Keeps
      <3> QED
        BY <3>4 DEF Given
    <2> QED
      BY <2>1, <2>2, <2>3, <2>4 DEF RequestWhole
  <1> QED
    BY <1>1, <1>2, <1>3

\* Handing over only adds to what has been handed over, and gives each of the messages.
LEMMA HandOverGives ==
  ASSUME NEW content \in Content, handed \in [Inbound -> Nat], HandOver(content)
  PROVE  /\ \A m \in Inbound : handed'[m] >= handed[m]
         /\ Given(content)'
  <1>1. ASSUME NEW m \in Inbound
        PROVE  /\ handed'[m] >= handed[m]
               /\ In(m, content) => handed'[m] > 0
    <2> DEFINE at == {i \in DOMAIN content : content[i] = m}
    <2>1. handed'[m] = handed[m] + Cardinality(at) /\ handed[m] \in Nat
      BY DEF HandOver
    <2>2. IsFiniteSet(at)
      <3>1. DOMAIN content = 1 .. Len(content) /\ Len(content) \in Nat
        BY DEF Content
      <3>2. IsFiniteSet(DOMAIN content)
        BY <3>1, FS_Interval
      <3> QED
        BY <3>2, FS_Subset
    <2>3. Cardinality(at) \in Nat
      BY <2>2, FS_CardinalityType
    <2>4. In(m, content) => Cardinality(at) # 0
      BY <2>2, FS_EmptySet DEF In
    <2> HIDE DEF at
    <2> QED
      BY <2>1, <2>3, <2>4
  <1>2. \A i \in DOMAIN content : content[i] \in Inbound /\ In(content[i], content)
    BY DEF Content, In
  <1> QED
    BY <1>1, <1>2 DEF Given

\* A text without an anonymous message has a stored one to be answered by.
LEMMA NamedIsIdentified ==
  ASSUME OnceInv, NEW b \in Batch, batch[b].status # "absent", ~Nameless(b)
  PROVE  Identified(batch[b].content)
  <1>1. batch[b].content # << >> /\ batch[b].content \in Content
    BY DEF OnceInv, BatchInv, TypeOK
  <1>2. Len(batch[b].content) \in DOMAIN batch[b].content
    BY <1>1 DEF Content
  <1>3. PICK d \in Delivery : /\ Late(d) /\ handler[d].at.id = b
                              /\ MessageOf(d) = batch[b].content[Len(batch[b].content)]
    BY <1>2 DEF OnceInv, TextInv, Text, OwnedBy
  <1>4. Saving(d, "saved")
    BY <1>3 DEF OnceInv, BatchInv, RowInv, Late, Handles
  <1>5. MessageOf(d) \in stored
    BY <1>4 DEF OnceInv, BatchInv, SaveInv, Saving
  <1> QED
    BY <1>1, <1>3, <1>5 DEF Identified, Nameless

\* Requests that go stay covered by what has been handed over.
LEMMA SettledKept ==
  ASSUME OnceInv, OnceInv', NEW b \in Batch, batch'[b].content = batch[b].content,
         \A m \in Inbound : handed'[m] >= handed[m],
         \A r \in request : r.at = Row(b) =>
             (\E q \in request' : q.at = r.at) \/ Given(batch[b].content)' \/ Nameless(b)
  PROVE  Settled(b) => Settled(b)'
  <1>1. Row(b)' = Row(b) /\ Nameless(b)' = Nameless(b)
    BY DEF Row, Nameless
  <1>2. Given(batch[b].content) => Given(batch[b].content)'
    <2>1. /\ batch[b].content \in Content /\ handed \in [Inbound -> Nat]
          /\ handed' \in [Inbound -> Nat]
      BY DEF OnceInv, BatchInv, TypeOK
    <2>2. \A i \in DOMAIN batch[b].content : batch[b].content[i] \in Inbound
      BY <2>1 DEF Content
    <2>3. \A i \in DOMAIN batch[b].content :
            handed[batch[b].content[i]] > 0 => handed'[batch[b].content[i]] > 0
      BY <2>1, <2>2
    <2> QED
      BY <2>3 DEF Given
  <1> QED
    BY <1>1, <1>2 DEF Settled

\* What a step does to a batch whose text it leaves alone and which it does not reopen.
LEMMA RowKept ==
  ASSUME OnceInv, OnceInv', NEW b \in Batch, batch'[b].content = batch[b].content,
         Claimable(b)' => Claimable(b),
         \A m \in Inbound : handed'[m] >= handed[m],
         \A r \in request : r.at = Row(b) =>
             (\E q \in request' : q.at = r.at) \/ Given(batch[b].content)' \/ Nameless(b)
  PROVE  Keeps(b) /\ (Settled(b) => Settled(b)')
  <1>1. Settled(b) => Settled(b)'
    BY SettledKept
  <1>2. batch'[b].status = "absent" <=> batch[b].status = "absent"
    BY DEF OnceInv, BatchInv, TypeOK
  <1> QED
    BY <1>1, <1>2 DEF Keeps

LEMMA HandedTyped ==
  ASSUME OnceInv
  PROVE  \A m \in Inbound : handed[m] >= handed[m]
  <1>1. handed \in [Inbound -> Nat]
    BY DEF OnceInv, BatchInv, TypeOK
  <1> QED
    BY <1>1

-----------------------------------------------------------------------------
(* The handlers *)

\* Each step of a handler does to a batch, and to what is said of the handler, what it may.
LEMMA HandlerWrites ==
  ASSUME OnceInv, OnceInv', Undisturbed, Undisturbed', NEW d \in Delivery, HandlerStep(d),
         NEW b \in Batch \ stale', Whole(b)
  PROVE  Keeps(b) /\ HandlerWhole(b, d)' /\ CompletedWhole(b)'
  <1> DEFINE h == handler[d]
             g == handler'[d]
  <1>1. /\ UNCHANGED <<delivery, worker, request>> /\ stale \subseteq stale' /\ OwnersKept
        /\ MessageOf(d)' = MessageOf(d)
    BY HandlerFrame DEF MessageOf
  <1>2. /\ handler \in [Delivery -> HandlerState] /\ h \in HandlerState
        /\ h.at \in Snapshot /\ h.at.content \in Content
        /\ batch \in [Batch -> BatchRow] /\ handed \in [Inbound -> Nat]
        /\ batch[b].content \in Content
        /\ h.pc \in Holding => Held(h.at.id)
    BY DEF OnceInv, BatchInv, RowInv, TypeOK, HandlerState, BatchRow, Snapshot
  <1>3. ~DbError
    BY DEF Undisturbed, DbError, OnceInv, BatchInv, TypeOK, ReceiveTypeOK
  <1>4. \A m \in Inbound : handed[m] >= handed[m]
    BY HandedTyped
  <1>5. HandlerWhole(b, d) /\ CompletedWhole(b)
    BY DEF Whole
  \* A step that writes to no row, or to another one, or a status that does not reopen it.
  <1>6. ASSUME batch'[b].content = batch[b].content, Claimable(b)' => Claimable(b),
               UNCHANGED handed
        PROVE  Keeps(b) /\ (Settled(b) => Settled(b)')
    BY <1>1, <1>4, <1>6, RowKept
  <1>7. ASSUME batch'[b] = batch[b], UNCHANGED handed
        PROVE  /\ Keeps(b) /\ (Settled(b) => Settled(b)') /\ CompletedWhole(b)'
               /\ Row(b)' = Row(b) /\ (Claimable(b)' <=> Claimable(b))
    <2>1. Claimable(b)' <=> Claimable(b)
      BY <1>7 DEF Claimable
    <2>2. Keeps(b) /\ (Settled(b) => Settled(b)')
      BY <1>6, <1>7, <2>1
    <2> QED
      BY <1>5, <1>7, <2>1, <2>2 DEF CompletedWhole, Row
  <1>8. ASSUME NEW pc, Goes(d, pc)
        PROVE  g.pc = pc /\ g.at = h.at
    BY <1>2, <1>8 DEF Goes, HandlerState
  <1>9. CASE Dispatch(d)
    <2>1. UNCHANGED <<batch, handed>> /\ (Goes(d, "find") \/ Goes(d, "refused"))
      BY <1>3, <1>9 DEF Dispatch
    <2> QED
      BY <1>7, <1>8, <2>1 DEF HandlerWhole, Batched
  <1>10. CASE FindCollecting(d)
    <2>1. /\ UNCHANGED <<batch, handed>>
          /\ \/ Goes(d, "create")
             \/ \E c \in Collecting :
                   handler' = [handler EXCEPT ![d].pc = "append", ![d].at = Row(c)]
      BY <1>3, <1>10 DEF FindCollecting, FallsThrough
    <2>2. g.pc \in {"create", "append"}
      <3>1. CASE Goes(d, "create")
        BY <1>8, <3>1
      <3>2. ASSUME NEW c \in Collecting,
                   handler' = [handler EXCEPT ![d].pc = "append", ![d].at = Row(c)]
            PROVE  g.pc = "append"
        BY <1>2, <3>2 DEF HandlerState
      <3> QED
        BY <2>1, <3>1, <3>2
    <2> QED
      BY <1>7, <2>1, <2>2 DEF HandlerWhole, Batched
  <1>11. CASE AppendTo(d)
    <2>1. PICK full \in BOOLEAN :
            /\ batch' = [batch EXCEPT ![h.at.id] =
                  [status |-> IF full THEN "ready" ELSE "collecting",
                   content |-> Append(h.at.content, MessageOf(d)), due |-> full]]
            /\ handler' = [handler EXCEPT ![d].pc = "note", ![d].ready = full]
            /\ stale' = IF Row(h.at.id) = h.at /\ h.at.id \in Collecting
                        THEN stale ELSE stale \cup {h.at.id}
            /\ UNCHANGED handed
      <3>1. PICK long \in BOOLEAN :
              LET seen == handler[d].at
                  new  == Append(seen.content, MessageOf(d))
                  full == long \/ Len(new) >= MaxMessages
              IN
              /\ batch' = [batch EXCEPT ![seen.id] =
                    [status |-> IF full THEN "ready" ELSE "collecting",
                     content |-> new, due |-> full]]
              /\ handler' = [handler EXCEPT ![d].pc = "note", ![d].ready = full]
              /\ stale' = IF Row(seen.id) = seen /\ seen.id \in Collecting
                          THEN stale ELSE stale \cup {seen.id}
              /\ UNCHANGED handed
        BY <1>3, <1>11 DEF AppendTo, FallsThrough
      <3> QED
        BY <3>1
    <2>2. g.pc = "note" /\ g.at = h.at
      BY <1>2, <2>1 DEF HandlerState
    <2>3. Held(h.at.id)
      BY <1>2, <1>11 DEF AppendTo, Handles, Holding
    <2>4. CASE b # h.at.id
      <3>1. batch'[b] = batch[b]
        BY <1>2, <2>1, <2>4
      <3> QED
        BY <1>7, <2>1, <2>2, <2>4, <3>1 DEF HandlerWhole
    <2>5. CASE b = h.at.id
      <3>1. Row(b) = h.at /\ b \in Collecting
        BY <2>1, <2>5
      <3>2. Claimable(b) /\ h.at.content = batch[b].content
        BY <3>1 DEF Collecting, Claimable, Row
      <3>3. /\ batch'[b].status \in {"ready", "collecting"}
            /\ batch'[b].content = Append(batch[b].content, MessageOf(d))
        BY <1>2, <2>1, <2>5, <3>2
      <3>4. MessageOf(d) \in Inbound
        <4>1. Saving(d, "saved")
          BY HandlerFrame
        <4> QED
          BY <4>1 DEF OnceInv, BatchInv, SaveInv, Saving
      <3> DEFINE old == batch[b].content
                 new == Append(old, MessageOf(d))
      <3>5. /\ DOMAIN new = 1 .. Len(old) + 1 /\ Len(old) \in Nat
            /\ DOMAIN old = 1 .. Len(old)
            /\ new[Len(old) + 1] = MessageOf(d)
            /\ \A i \in 1 .. Len(old) : new[i] = old[i]
        BY <1>2, <3>4, AppendTyped DEF Content
      <3>6. In(MessageOf(d), new) /\ \A m : In(m, old) => In(m, new)
        <4> HIDE DEF old, new
        <4> QED
          BY <3>5 DEF In
      <3>7. Keeps(b)
        BY <1>4, <2>1, <3>2, <3>3, <3>6 DEF Keeps
      <3> QED
        BY <1>1, <2>2, <3>3, <3>6, <3>7 DEF HandlerWhole, CompletedWhole, Handles
    <2> QED
      BY <2>4, <2>5
  <1>12. CASE Create(d)
    <2>1. PICK c \in Batch :
            /\ batch[c].status = "absent"
            /\ batch' = [batch EXCEPT ![c] =
                  [status |-> "collecting", content |-> <<MessageOf(d)>>, due |-> FALSE]]
            /\ handler' = [handler EXCEPT ![d].pc = "note", ![d].at.id = c]
            /\ UNCHANGED handed
      BY <1>3, <1>12 DEF Create, FallsThrough
    <2>2. g.pc = "note" /\ g.at.id = c
      BY <1>2, <2>1 DEF HandlerState, Snapshot
    <2>3. CASE b # c
      <3>1. batch'[b] = batch[b]
        BY <1>2, <2>1, <2>3
      <3> QED
        BY <1>7, <2>1, <2>2, <2>3, <3>1 DEF HandlerWhole
    <2>4. CASE b = c
      <3>1. batch[b].content = << >>
        BY <2>1, <2>4 DEF OnceInv, BatchInv, TypeOK
      <3>2. batch'[b].status = "collecting" /\ batch'[b].content = <<MessageOf(d)>>
        BY <1>2, <2>1, <2>4
      <3>3. \A m : ~In(m, << >>)
        BY DEF In
      <3>4. In(MessageOf(d), <<MessageOf(d)>>)
        <4>1. 1 \in DOMAIN <<MessageOf(d)>> /\ <<MessageOf(d)>>[1] = MessageOf(d)
          OBVIOUS
        <4> QED
          BY <4>1 DEF In
      <3>5. Keeps(b)
        BY <1>4, <2>1, <2>4, <3>1, <3>2, <3>3 DEF Keeps
      <3> QED
        BY <1>1, <2>2, <3>2, <3>4, <3>5 DEF HandlerWhole, CompletedWhole, Handles
    <2> QED
      BY <2>3, <2>4
  <1>13. CASE NoteBatched(d)
    <2>1. /\ UNCHANGED <<batch, handed>> /\ Handles(d, "note")
          /\ Goes(d, "claim") \/ Goes(d, "done")
      BY <1>3, <1>13 DEF NoteBatched, FallsThrough
    <2> QED
      BY <1>1, <1>5, <1>7, <1>8, <2>1 DEF HandlerWhole, Batched, Handles
  <1>14. CASE ClaimNow(d)
    <2>1. Handles(d, "claim") /\ UNCHANGED handed
      BY <1>14 DEF ClaimNow
    <2>2. CASE UNCHANGED batch /\ Goes(d, "done")
      BY <1>1, <1>5, <1>7, <1>8, <2>1, <2>2 DEF HandlerWhole, Batched, Handles
    <2>3. CASE Claimable(h.at.id) /\ batch' = With(h.at.id, "processing") /\ Goes(d, "load")
      <3>1. /\ batch'[b].content = batch[b].content
            /\ batch'[b].status = IF b = h.at.id THEN "processing" ELSE batch[b].status
        BY <2>3, WithKeeps DEF OnceInv, BatchInv
      <3>2. Keeps(b) /\ (Settled(b) => Settled(b)')
        BY <1>6, <2>1, <3>1 DEF Claimable
      <3>3. CompletedWhole(b)'
        BY <1>5, <3>1, <3>2 DEF CompletedWhole
      <3>4. HandlerWhole(b, d)'
        BY <1>1, <1>5, <1>8, <2>1, <2>3, <3>1 DEF HandlerWhole, Batched, Handles, Claimable
      <3> QED
        BY <3>2, <3>3, <3>4
    <2> QED
      BY <1>3, <1>14, <2>2, <2>3 DEF ClaimNow
  <1>15. CASE Load(d)
    <2>1. /\ UNCHANGED <<batch, handed>> /\ Handles(d, "load")
          /\ handler' = [handler EXCEPT ![d].pc = "resolve", ![d].at = Row(h.at.id)]
      BY <1>3, <1>15 DEF Load
    <2>2. g.pc = "resolve" /\ g.at = Row(h.at.id) /\ g.at.id = h.at.id
      BY <1>2, <2>1 DEF HandlerState, Row
    <2> QED
      BY <1>1, <1>5, <1>7, <2>1, <2>2 DEF HandlerWhole, Batched, Handles
  <1>16. CASE Resolve(d)
    <2>1. UNCHANGED batch /\ Handles(d, "resolve")
      BY <1>16 DEF Resolve
    <2>2. h.at.id = b => h.at = Row(b) /\ h.at.content = batch[b].content
      BY <1>5, <2>1 DEF HandlerWhole, Batched, Handles, Row
    <2>3. CASE Goes(d, "pipeline") /\ HandOver(h.at.content)
      <3> PICK text \in Content : text = h.at.content
        BY <1>2
      <3>1. (\A m \in Inbound : handed'[m] >= handed[m]) /\ Given(text)'
        BY <1>2, <2>3, HandOverGives
      <3>2. Keeps(b) /\ (Settled(b) => Settled(b)')
        BY <1>1, <2>1, <3>1, RowKept DEF Claimable
      <3>3. h.at.id = b => Settled(b)'
        BY <2>1, <2>2, <3>1 DEF Settled
      <3>4. CompletedWhole(b)'
        BY <1>5, <2>1, <3>2 DEF CompletedWhole
      <3>5. HandlerWhole(b, d)'
        BY <1>1, <1>5, <1>8, <2>1, <2>3, <3>3 DEF HandlerWhole, Batched, Handles, Claimable
      <3> QED
        BY <3>2, <3>4, <3>5
    <2>4. CASE ~Identified(h.at.content) /\ Goes(d, "recover") /\ UNCHANGED handed
      <3>1. h.at.id = b => Settled(b)
        BY <1>5, <2>1, <2>2, <2>4, NamedIsIdentified DEF HandlerWhole, Batched, Handles, Settled
      <3> QED
        BY <1>1, <1>5, <1>7, <1>8, <2>1, <2>4, <3>1 DEF HandlerWhole, Batched, Handles
    <2> QED
      BY <1>3, <1>16, <2>3, <2>4 DEF Resolve
  <1>17. CASE PipelineEnds(d)
    <2>1. /\ UNCHANGED <<batch, handed>> /\ Handles(d, "pipeline")
          /\ Goes(d, "complete") \/ Goes(d, "recover")
      BY <1>17 DEF PipelineEnds
    <2> QED
      BY <1>1, <1>5, <1>7, <1>8, <2>1 DEF HandlerWhole, Batched, Handles
  <1>18. CASE CompleteNow(d)
    <2>1. /\ Handles(d, "complete") \/ Handles(d, "recover")
          /\ batch' = With(h.at.id, "completed") /\ Goes(d, "done") /\ UNCHANGED handed
      BY <1>3, <1>18 DEF CompleteNow
    <2>2. /\ batch'[b].content = batch[b].content
          /\ batch'[b].status = IF b = h.at.id THEN "completed" ELSE batch[b].status
      BY <2>1, WithKeeps DEF OnceInv, BatchInv
    <2>3. Keeps(b) /\ (Settled(b) => Settled(b)')
      BY <1>6, <2>1, <2>2 DEF Claimable
    <2>4. h.at.id = b => Settled(b)
      BY <1>5, <2>1 DEF HandlerWhole, Batched, Handles
    <2>5. CompletedWhole(b)'
      BY <1>5, <2>2, <2>3, <2>4 DEF CompletedWhole
    <2>6. HandlerWhole(b, d)'
      BY <1>1, <1>5, <1>8, <2>1, <2>2 DEF HandlerWhole, Batched, Handles
    <2> QED
      BY <2>3, <2>5, <2>6
  <1> QED
    BY <1>9, <1>10, <1>11, <1>12, <1>13, <1>14, <1>15, <1>16, <1>17, <1>18 DEF HandlerStep

\* Of the handlers that hold a message in a batch, the one that moves keeps its batch.
LEMMA HandlerKnows ==
  ASSUME OnceInv, OnceInv', Undisturbed, Undisturbed', NEW d \in Delivery, HandlerStep(d),
         Batched(d) => handler[d].at.id \in Batch, Batched(d)'
  PROVE  handler'[d].at.id \in Batch
  <1>1. CASE handler'[d].pc \in Holding
    BY <1>1 DEF OnceInv, BatchInv, RowInv, Held
  <1>2. CASE handler'[d].pc \notin Holding
    <2>1. handler'[d].pc = "done"
      BY <1>2 DEF Batched, Holding
    <2>2. ~DbError /\ handler[d] \in HandlerState /\ handler \in [Delivery -> HandlerState]
      BY DEF Undisturbed, DbError, OnceInv, BatchInv, TypeOK, ReceiveTypeOK, HandlerState
    <2>3. ASSUME NEW pc, Goes(d, pc) PROVE handler'[d].pc = pc
      BY <2>2, <2>3 DEF Goes, HandlerState
    <2>4. handler[d].pc # "find"
      <3>1. CASE FindCollecting(d)
        <4>1. ASSUME NEW c \in Collecting,
                     handler' = [handler EXCEPT ![d].pc = "append", ![d].at = Row(c)]
              PROVE  handler'[d].pc = "append"
          BY <2>2, <4>1 DEF HandlerState
        <4>2. \/ Goes(d, "create")
              \/ \E c \in Collecting :
                    handler' = [handler EXCEPT ![d].pc = "append", ![d].at = Row(c)]
          BY <2>2, <3>1 DEF FindCollecting, FallsThrough
        <4> QED
          BY <2>1, <2>3, <4>1, <4>2
      <3>2. CASE ~FindCollecting(d)
        BY <3>2 DEF HandlerStep, Dispatch, AppendTo, Create, NoteBatched, ClaimNow, Load, Resolve,
                    PipelineEnds, CompleteNow, Handles
      <3> QED
        BY <3>1, <3>2
    <2>5. Batched(d)
      <3>1. ~Dispatch(d)
        BY <2>1, <2>2, <2>3 DEF Dispatch
      <3>2. ~AppendTo(d)
        <4>1. ASSUME NEW full \in BOOLEAN,
                     handler' = [handler EXCEPT ![d].pc = "note", ![d].ready = full]
              PROVE  handler'[d].pc = "note"
          BY <2>2, <4>1 DEF HandlerState
        <4>2. AppendTo(d) => \E full \in BOOLEAN :
                  handler' = [handler EXCEPT ![d].pc = "note", ![d].ready = full]
          BY <2>2 DEF AppendTo, FallsThrough
        <4> QED
          BY <2>1, <4>1, <4>2
      <3>3. ~Create(d)
        BY <2>1, <2>2 DEF Create, FallsThrough, HandlerState
      <3> QED
        BY <2>4, <3>1, <3>2, <3>3 DEF HandlerStep, FindCollecting, NoteBatched, ClaimNow, Load,
           Resolve, PipelineEnds, CompleteNow, Handles, Batched
    <2>6. handler'[d].at.id = handler[d].at.id
      BY <2>5, HandlerFrame DEF OwnersKept, Late, Batched
    <2> QED
      BY <2>5, <2>6
  <1> QED
    BY <1>1, <1>2

LEMMA HandlerKeepsAll ==
  ASSUME OnceInv, OnceInv', LossInv, Undisturbed, NEW d \in Delivery, HandlerStep(d)
  PROVE  LossInv'
  <1> SUFFICES ASSUME Undisturbed' PROVE LossInv'
    BY DEF LossInv
  <1>1. /\ UNCHANGED <<delivery, worker, request>> /\ stale \subseteq stale'
        /\ \A e \in Delivery : e # d => handler'[e] = handler[e]
    BY HandlerFrame
  <1>2. ASSUME NEW e \in Delivery, Batched(e)' PROVE handler'[e].at.id \in Batch
    BY <1>1, <1>2, HandlerKnows DEF LossInv, Batched
  <1>3. ASSUME NEW b \in Batch \ stale' PROVE Whole(b)'
    <2>1. Whole(b)
      BY <1>1 DEF LossInv
    <2>2. Keeps(b) /\ HandlerWhole(b, d)' /\ CompletedWhole(b)'
      BY <2>1, HandlerWrites
    <2>3. \A e \in Delivery : HandlerWhole(b, e)'
      BY <1>1, <2>1, <2>2, Rests DEF MessageOf
    <2>4. (\A w \in Worker : PollWhole(b, w)') /\ \A r \in request : RequestWhole(b, r)'
      BY <1>1, <2>1, <2>2, Rests
    <2> QED
      BY <1>1, <2>2, <2>3, <2>4 DEF Whole
  <1> QED
    BY <1>2, <1>3 DEF LossInv

-----------------------------------------------------------------------------
(* The polls *)

LEMMA PollWrites ==
  ASSUME OnceInv, OnceInv', Undisturbed, Undisturbed', NEW w \in Worker, WorkerStep(w),
         NEW b \in Batch \ stale', Whole(b)
  PROVE  /\ Keeps(b) /\ PollWhole(b, w)' /\ CompletedWhole(b)'
         /\ \A q \in request' : RequestWhole(b, q)'
  <1> DEFINE h == worker[w]
             g == worker'[w]
  <1>1. UNCHANGED <<delivery, handler, handed>>
    BY DEF WorkerStep, PollReady, PollOverdue, Claim, Ask, Timeout, Complete, handling,
           receiving, receiveVars
  <1>2. /\ worker \in [Worker -> WorkerState] /\ h \in WorkerState /\ h.hand \in Snapshot
        /\ request \subseteq RequestState
        /\ batch \in [Batch -> BatchRow] /\ handed \in [Inbound -> Nat]
        /\ h.pc \in HoldingPoll => Held(h.hand.id)
    BY DEF OnceInv, BatchInv, RowInv, TypeOK, WorkerState, RequestState, BatchRow
  <1>3. ~DbError
    BY DEF Undisturbed, DbError, OnceInv, BatchInv, TypeOK, ReceiveTypeOK
  <1>4. \A m \in Inbound : handed'[m] >= handed[m]
    BY <1>1, HandedTyped
  <1>5. PollWhole(b, w) /\ CompletedWhole(b) /\ \A r \in request : RequestWhole(b, r)
    BY DEF Whole
  <1>6. ASSUME batch'[b].content = batch[b].content, Claimable(b)' => Claimable(b),
               \A r \in request : \E q \in request' : q.at = r.at
        PROVE  Keeps(b) /\ (Settled(b) => Settled(b)')
    BY <1>4, <1>6, RowKept
  <1>7. ASSUME Keeps(b) PROVE \A r \in request : RequestWhole(b, r)'
    BY <1>7, Rests
  <1>8. ASSUME batch'[b] = batch[b], \A r \in request : \E q \in request' : q.at = r.at
        PROVE  /\ Keeps(b) /\ (Settled(b) => Settled(b)') /\ CompletedWhole(b)'
               /\ Row(b)' = Row(b) /\ (Claimable(b)' <=> Claimable(b))
    <2>1. Claimable(b)' <=> Claimable(b)
      BY <1>8 DEF Claimable
    <2>2. Keeps(b) /\ (Settled(b) => Settled(b)')
      BY <1>6, <1>8, <2>1
    <2> QED
      BY <1>5, <1>8, <2>1, <2>2 DEF CompletedWhole, Row
  <1>9. ASSUME NEW pc, Goto(w, pc) PROVE g.pc = pc /\ g.hand = h.hand
    BY <1>2, <1>9 DEF Goto, WorkerState
  <1>10. ASSUME NEW todo, Proceeds(w, todo) PROVE g.pc \notin HoldingPoll
    BY <1>2, <1>10 DEF Proceeds, HoldingPoll
  <1>11. CASE PollReady(w) \/ PollOverdue(w)
    <2>1. UNCHANGED <<batch, request>> /\ g.pc \notin HoldingPoll
      <3>1. CASE PollReady(w)
        <4>1. g.pc = "overdue"
          BY <1>2, <1>3, <3>1 DEF PollReady, PollFails, WorkerState
        <4> QED
          BY <3>1, <4>1 DEF PollReady, HoldingPoll
      <3>2. CASE PollOverdue(w)
        BY <1>3, <1>10, <3>2 DEF PollOverdue, PollFails
      <3> QED
        BY <1>11, <3>1, <3>2
    <2> QED
      BY <1>7, <1>8, <2>1 DEF PollWhole
  <1>12. CASE Claim(w)
    <2>1. UNCHANGED request
      BY <1>12 DEF Claim
    <2>2. CASE UNCHANGED batch /\ \E todo : Proceeds(w, todo)
      BY <1>7, <1>8, <1>10, <2>1, <2>2 DEF PollWhole
    <2>3. ASSUME NEW r \in h.todo, Claimable(r.id), batch' = With(r.id, "processing"),
                 worker' = [worker EXCEPT ![w] =
                     [pc |-> "ask", todo |-> @.todo \ {r}, hand |-> r]],
                 stale' = IF Row(r.id) = r THEN stale ELSE stale \cup {r.id}
          PROVE  /\ Keeps(b) /\ PollWhole(b, w)' /\ CompletedWhole(b)'
      <3>1. g.pc = "ask" /\ g.hand = r
        BY <1>2, <2>3
      <3>2. /\ batch'[b].content = batch[b].content
            /\ batch'[b].status = IF b = r.id THEN "processing" ELSE batch[b].status
        BY <2>3, WithKeeps DEF OnceInv, BatchInv
      <3>3. Keeps(b) /\ (Settled(b) => Settled(b)')
        BY <1>6, <2>1, <3>2 DEF Claimable
      <3>4. CompletedWhole(b)'
        BY <1>5, <3>2, <3>3 DEF CompletedWhole
      <3>5. b = r.id => r = Row(b)
        BY <2>3
      <3>6. PollWhole(b, w)'
        BY <3>1, <3>2, <3>5 DEF PollWhole, Polls, Claimable, Row
      <3> QED
        BY <3>3, <3>4, <3>6
    <2>4. \/ UNCHANGED batch /\ \E todo : Proceeds(w, todo)
          \/ \E r \in h.todo :
                /\ Claimable(r.id) /\ batch' = With(r.id, "processing")
                /\ worker' = [worker EXCEPT ![w] =
                      [pc |-> "ask", todo |-> @.todo \ {r}, hand |-> r]]
                /\ stale' = IF Row(r.id) = r THEN stale ELSE stale \cup {r.id}
      BY <1>3, <1>12 DEF Claim, PollFails
    <2> QED
      BY <1>7, <2>1, <2>2, <2>3, <2>4
  <1>13. CASE Ask(w)
    <2> PICK new \in RequestState :
            new = [from |-> w, at |-> h.hand, pc |-> "resolve", heard |-> TRUE]
      BY <1>2 DEF RequestState
    <2>1. /\ Polls(w, "ask") /\ Goto(w, "wait") /\ request' = request \cup {new}
          /\ UNCHANGED batch
      BY <1>3, <1>13 DEF Ask
    <2>2. new.at = h.hand /\ new.pc = "resolve"
      OBVIOUS
    <2>3. /\ Keeps(b) /\ CompletedWhole(b)'
          /\ Row(b)' = Row(b) /\ (Claimable(b)' <=> Claimable(b))
      BY <1>8, <2>1
    <2>4. h.hand.id = b => h.hand = Row(b) /\ ~Claimable(b) /\ batch[b].status # "absent"
      BY <1>5, <2>1 DEF PollWhole, Polls, HoldingPoll
    <2>5. RequestWhole(b, new)'
      <3>1. new.at.id = b => /\ batch'[b].status # "absent" /\ new.at = Row(b)'
                             /\ ~(Claimable(b)')
        BY <2>1, <2>2, <2>3, <2>4
      <3> QED
        BY <2>2, <3>1 DEF RequestWhole
    <2>6. PollWhole(b, w)'
      <3>1. h.hand.id = b => Settled(b)'
        <4>1. ASSUME h.hand.id = b PROVE \E r \in request' : r.at = Row(b)'
          BY <2>1, <2>2, <2>3, <2>4, <4>1
        <4> QED
          BY <4>1 DEF Settled
      <3> QED
        BY <1>9, <2>1, <2>3, <2>4, <3>1 DEF PollWhole, Polls
    <2>7. \A q \in request' : RequestWhole(b, q)'
      BY <1>7, <2>1, <2>3, <2>5
    <2> QED
      BY <2>3, <2>6, <2>7
  <1>14. CASE Timeout(w)
    <2> DEFINE F(r) == IF r.from = w THEN [r EXCEPT !.heard = FALSE] ELSE r
    <2>1. /\ Polls(w, "wait") /\ Goto(w, "complete") /\ UNCHANGED batch
          /\ request' = {F(r) : r \in request}
      BY <1>14 DEF Timeout
    <2>2. \A r \in request : F(r).at = r.at /\ F(r).pc = r.pc
      BY <1>2 DEF RequestState
    <2> HIDE DEF F
    <2>3. \A r \in request : \E q \in request' : q.at = r.at
      BY <2>1, <2>2
    <2>4. /\ Keeps(b) /\ (Settled(b) => Settled(b)') /\ CompletedWhole(b)'
          /\ Row(b)' = Row(b) /\ (Claimable(b)' <=> Claimable(b))
      BY <1>8, <2>1, <2>3
    <2>5. PollWhole(b, w)'
      BY <1>5, <1>9, <2>1, <2>4 DEF PollWhole, Polls, HoldingPoll
    <2>6. \A r \in request : RequestWhole(b, F(r))'
      <3> TAKE r \in request
      <3>1. RequestWhole(b, r)' /\ F(r).at = r.at /\ F(r).pc = r.pc
        BY <1>7, <2>2, <2>4
      <3> QED
        BY <3>1 DEF RequestWhole
    <2>7. \A q \in request' : RequestWhole(b, q)'
      BY <2>1, <2>6
    <2> QED
      BY <2>4, <2>5, <2>7
  <1>15. CASE Complete(w)
    <2>1. /\ Polls(w, "complete") \/ Polls(w, "recover")
          /\ batch' = With(h.hand.id, "completed") /\ UNCHANGED request
          /\ \E todo : Proceeds(w, todo)
      BY <1>3, <1>15 DEF Complete, PollFails
    <2>2. /\ batch'[b].content = batch[b].content
          /\ batch'[b].status = IF b = h.hand.id THEN "completed" ELSE batch[b].status
      BY <2>1, WithKeeps DEF OnceInv, BatchInv
    <2>3. Keeps(b) /\ (Settled(b) => Settled(b)')
      BY <1>6, <2>1, <2>2 DEF Claimable
    <2>4. h.hand.id = b => Settled(b)
      BY <1>5, <2>1 DEF PollWhole, Polls, HoldingPoll
    <2>5. CompletedWhole(b)'
      BY <1>5, <2>2, <2>3, <2>4 DEF CompletedWhole
    <2> QED
      BY <1>7, <1>10, <2>1, <2>3, <2>5 DEF PollWhole
  <1> QED
    BY <1>11, <1>12, <1>13, <1>14, <1>15 DEF WorkerStep

LEMMA PollKeepsAll ==
  ASSUME OnceInv, OnceInv', LossInv, Undisturbed, NEW w \in Worker, WorkerStep(w)
  PROVE  LossInv'
  <1> SUFFICES ASSUME Undisturbed' PROVE LossInv'
    BY DEF LossInv
  <1>1. /\ UNCHANGED <<delivery, handler>> /\ stale \subseteq stale'
        /\ \A v \in Worker : v # w => worker'[v] = worker[v]
    <2>1. UNCHANGED <<delivery, handler>>
      BY DEF WorkerStep, PollReady, PollOverdue, Claim, Ask, Timeout, Complete, handling,
             receiving, receiveVars
    <2>2. stale \subseteq stale'
      BY DEF WorkerStep, PollReady, PollOverdue, Claim, Ask, Timeout, Complete
    <2>3. \E g : worker' = [worker EXCEPT ![w] = g]
      BY DEF WorkerStep, PollReady, PollOverdue, Claim, Ask, Timeout, Complete, Goto, Proceeds,
             PollFails
    <2>4. worker \in [Worker -> WorkerState]
      BY DEF OnceInv, BatchInv, TypeOK, WorkerState
    <2> QED
      BY <2>1, <2>2, <2>3, <2>4
  <1>2. ASSUME NEW e \in Delivery, Batched(e)' PROVE handler'[e].at.id \in Batch
    BY <1>1, <1>2 DEF LossInv, Batched
  <1>3. ASSUME NEW b \in Batch \ stale' PROVE Whole(b)'
    <2>1. Whole(b)
      BY <1>1 DEF LossInv
    <2>2. /\ Keeps(b) /\ PollWhole(b, w)' /\ CompletedWhole(b)'
          /\ \A q \in request' : RequestWhole(b, q)'
      BY <2>1, PollWrites
    <2>3. /\ \A e \in Delivery : HandlerWhole(b, e)'
          /\ \A v \in Worker : PollWhole(b, v)'
      BY <1>1, <2>1, <2>2, Rests DEF MessageOf
    <2> QED
      BY <2>2, <2>3 DEF Whole
  <1> QED
    BY <1>2, <1>3 DEF LossInv

-----------------------------------------------------------------------------
(* The requests, the time and the saves *)

\* The poll that hears the answer stops waiting; the batch is as settled as before.
LEMMA HearerKeeps ==
  ASSUME OnceInv, NEW b \in Batch, Whole(b), Keeps(b), NEW w \in Worker, Polls(w, "wait"),
         Goto(w, "complete")
  PROVE  \A v \in Worker : PollWhole(b, v)' \/ worker'[v] = worker[v]
  <1>1. /\ worker'[w].pc = "complete" /\ worker'[w].hand = worker[w].hand
        /\ \A v \in Worker : v # w => worker'[v] = worker[v]
    BY DEF Goto, OnceInv, BatchInv, TypeOK
  <1>2. PollWhole(b, w)'
    <2>1. PollWhole(b, w)
      BY DEF Whole
    <2> SUFFICES ASSUME worker[w].hand.id = b PROVE PollWhole(b, w)'
      BY <1>1 DEF PollWhole
    <2>2. batch[b].status # "absent" /\ Settled(b) /\ ~Claimable(b)
      BY <2>1 DEF PollWhole, Polls, HoldingPoll
    <2>3. batch'[b].status # "absent" /\ Settled(b)' /\ ~(Claimable(b)')
      BY <2>2 DEF Keeps
    <2> QED
      BY <1>1, <2>3 DEF PollWhole, Polls
  <1> QED
    BY <1>1, <1>2

LEMMA RequestWrites ==
  ASSUME OnceInv, OnceInv', Undisturbed, Undisturbed', NEW r \in request,
         RequestResolves(r) \/ RequestEnds(r), NEW b \in Batch \ stale', Whole(b)
  PROVE  /\ Keeps(b) /\ CompletedWhole(b)'
         /\ \A q \in request' : RequestWhole(b, q)'
         /\ \A w \in Worker : PollWhole(b, w)' \/ worker'[w] = worker[w]
  <1>1. UNCHANGED <<delivery, handler, batch, stale>>
    BY DEF RequestResolves, RequestEnds, receiving, receiveVars
  <1>2. /\ request \subseteq RequestState /\ r \in RequestState /\ r.at.content \in Content
        /\ handed \in [Inbound -> Nat] /\ r.from \in Worker
    BY DEF OnceInv, BatchInv, TypeOK, RequestState, Snapshot
  <1>3. ~DbError
    BY DEF Undisturbed, DbError, OnceInv, BatchInv, TypeOK, ReceiveTypeOK
  <1>4. CompletedWhole(b) /\ RequestWhole(b, r)
    BY DEF Whole
  <1>5. r.at.id = b => /\ r.at = Row(b) /\ r.at.content = batch[b].content
                       /\ batch[b].status # "absent"
    BY <1>4 DEF RequestWhole, Row
  <1>6. r.at = Row(b) => r.at.id = b
    BY DEF Row
  <1>7. Claimable(b)' <=> Claimable(b)
    BY <1>1 DEF Claimable
  <1>8. ASSUME Answer(r), Keeps(b)
        PROVE  /\ \A q \in request' : RequestWhole(b, q)'
               /\ \A w \in Worker : PollWhole(b, w)' \/ worker'[w] = worker[w]
    <2>1. request' \subseteq request
      BY <1>8 DEF Answer
    <2>2. CASE r.heard
      <3>1. Polls(r.from, "wait") /\ Goto(r.from, "complete")
        BY <1>8, <2>2 DEF Answer, OnceInv, BatchInv, RowInv
      <3> QED
        BY <1>2, <1>8, <2>1, <3>1, HearerKeeps, Rests
    <2>3. CASE ~r.heard
      BY <1>8, <2>1, <2>3, Rests DEF Answer
    <2> QED
      BY <2>2, <2>3
  <1>9. CASE r.pc = "resolve" /\ ~Identified(r.at.content) /\ Answer(r) /\ UNCHANGED handed
    <2>1. r.at = Row(b) => Nameless(b)
      BY <1>5, <1>6, <1>9, NamedIsIdentified
    <2>2. \A q \in request : q.at = Row(b) =>
             (\E p \in request' : p.at = q.at) \/ Given(batch[b].content)' \/ Nameless(b)
      BY <1>9, <2>1 DEF Answer
    <2>3. \A m \in Inbound : handed'[m] >= handed[m]
      BY <1>9, HandedTyped
    <2>4. Keeps(b) /\ (Settled(b) => Settled(b)')
      BY <1>1, <1>7, <2>2, <2>3, RowKept
    <2>5. CompletedWhole(b)'
      BY <1>1, <1>4, <2>4 DEF CompletedWhole
    <2> QED
      BY <1>8, <1>9, <2>4, <2>5
  <1>10. CASE RequestEnds(r)
    <2>1. r.pc = "pipeline" /\ Answer(r) /\ UNCHANGED handed
      BY <1>10 DEF RequestEnds
    <2>2. r.at = Row(b) => Given(batch[b].content)'
      <3>1. r.at = Row(b) => Given(batch[b].content)
        BY <1>4, <1>5, <1>6, <2>1 DEF RequestWhole
      <3> QED
        BY <1>1, <2>1, <3>1 DEF Given
    <2>3. \A q \in request : q.at = Row(b) =>
             (\E p \in request' : p.at = q.at) \/ Given(batch[b].content)' \/ Nameless(b)
      BY <2>1, <2>2 DEF Answer
    <2>4. \A m \in Inbound : handed'[m] >= handed[m]
      BY <2>1, HandedTyped
    <2>5. Keeps(b) /\ (Settled(b) => Settled(b)')
      BY <1>1, <1>7, <2>3, <2>4, RowKept
    <2>6. CompletedWhole(b)'
      BY <1>1, <1>4, <2>5 DEF CompletedWhole
    <2> QED
      BY <1>8, <2>1, <2>5, <2>6
  <1>11. CASE /\ request' = (request \ {r}) \cup {[r EXCEPT !.pc = "pipeline"]}
              /\ HandOver(r.at.content) /\ UNCHANGED worker
    <2> PICK new \in RequestState : new = [r EXCEPT !.pc = "pipeline"]
      BY <1>2 DEF RequestState
    <2>1. /\ new.at = r.at /\ new.pc = "pipeline"
          /\ request' = (request \ {r}) \cup {new}
      BY <1>2, <1>11 DEF RequestState
    <2>2. (\A m \in Inbound : handed'[m] >= handed[m]) /\ Given(r.at.content)'
      BY <1>2, <1>11, HandOverGives
    <2>3. \A q \in request : \E p \in request' : p.at = q.at
      BY <2>1
    <2>4. Keeps(b) /\ (Settled(b) => Settled(b)')
      BY <1>1, <1>7, <2>2, <2>3, RowKept
    <2>5. CompletedWhole(b)'
      BY <1>1, <1>4, <2>4 DEF CompletedWhole
    <2>6. \A q \in request : RequestWhole(b, q)'
      BY <2>4, Rests
    <2>7. RequestWhole(b, new)'
      BY <2>1, <2>2, <2>6 DEF RequestWhole
    <2> QED
      BY <1>11, <2>1, <2>4, <2>5, <2>6, <2>7
  <1> QED
    BY <1>3, <1>9, <1>10, <1>11 DEF RequestResolves

LEMMA RequestKeepsAll ==
  ASSUME OnceInv, OnceInv', LossInv, Undisturbed, RequestStep
  PROVE  LossInv'
  <1> SUFFICES ASSUME Undisturbed' PROVE LossInv'
    BY DEF LossInv
  <1>1. PICK r \in request : RequestResolves(r) \/ RequestEnds(r)
    BY DEF RequestStep
  <1>2. UNCHANGED <<delivery, handler, stale>>
    BY <1>1 DEF RequestResolves, RequestEnds, receiving, receiveVars
  <1>3. ASSUME NEW e \in Delivery, Batched(e)' PROVE handler'[e].at.id \in Batch
    BY <1>2, <1>3 DEF LossInv, Batched
  <1>4. ASSUME NEW b \in Batch \ stale' PROVE Whole(b)'
    <2>1. Whole(b)
      BY <1>2 DEF LossInv
    <2>2. /\ Keeps(b) /\ CompletedWhole(b)'
          /\ \A q \in request' : RequestWhole(b, q)'
          /\ \A w \in Worker : PollWhole(b, w)' \/ worker'[w] = worker[w]
      BY <1>1, <2>1, RequestWrites
    <2>3. /\ \A e \in Delivery : HandlerWhole(b, e)'
          /\ \A w \in Worker : PollWhole(b, w)'
      BY <1>2, <2>1, <2>2, Rests DEF MessageOf
    <2> QED
      BY <2>2, <2>3 DEF Whole
  <1> QED
    BY <1>3, <1>4 DEF LossInv

\* The saves go on, a window passes, or nothing happens.
LEMMA OthersKeepAll ==
  ASSUME OnceInv, OnceInv', LossInv, Undisturbed,
         UNCHANGED <<handler, worker, request, handed, stale>>,
         \A b \in Batch : /\ batch'[b].content = batch[b].content
                          /\ batch'[b].status = batch[b].status,
         \A d \in Delivery : Batched(d) => MessageOf(d)' = MessageOf(d)
  PROVE  LossInv'
  <1> SUFFICES ASSUME Undisturbed' PROVE LossInv'
    BY DEF LossInv
  <1>1. ASSUME NEW e \in Delivery, Batched(e)' PROVE handler'[e].at.id \in Batch
    BY <1>1 DEF LossInv, Batched
  <1>2. ASSUME NEW b \in Batch \ stale' PROVE Whole(b)'
    <2>1. Whole(b)
      BY DEF LossInv
    <2>2. Claimable(b)' <=> Claimable(b)
      BY DEF Claimable
    <2>3. \A m \in Inbound : handed'[m] >= handed[m]
      BY HandedTyped
    <2>4. Keeps(b) /\ (Settled(b) => Settled(b)')
      BY <2>2, <2>3, RowKept
    <2>5. CompletedWhole(b)'
      BY <2>1, <2>4 DEF Whole, CompletedWhole
    <2>6. /\ \A e \in Delivery : HandlerWhole(b, e)'
          /\ \A w \in Worker : PollWhole(b, w)'
          /\ \A q \in request' : RequestWhole(b, q)'
      BY <2>1, <2>4, Rests
    <2> QED
      BY <2>5, <2>6 DEF Whole
  <1> QED
    BY <1>1, <1>2 DEF LossInv

LEMMA NextKeepsAll ==
  ASSUME OnceInv, OnceInv', LossInv, [Next]_vars
  PROVE  LossInv'
  <1>1. CASE ~Undisturbed'
    BY <1>1 DEF LossInv
  <1>2. CASE Undisturbed'
    <2>1. /\ ~BackendCrash /\ \A w \in Worker : ~WorkerCrash(w)
      BY <1>2 DEF Undisturbed, BackendCrash, ReceiveCrash, WorkerCrash, OnceInv, BatchInv, TypeOK,
                  ReceiveTypeOK
    <2>2. Undisturbed
      <3>1. faults' \in {faults, faults + 1} /\ crashes' = crashes
        BY <2>1 DEF Next, ReceiveStep, SaveStep, Arrive, FindStored, Insert, UpsertThread, Forget,
           HandlerStep, Dispatch, FindCollecting, AppendTo, Create, NoteBatched, ClaimNow, Load,
           Resolve, PipelineEnds, CompleteNow, FallsThrough, WorkerStep, PollReady, PollOverdue,
           Claim, Ask, Timeout, Complete, PollFails, RequestStep, RequestResolves, RequestEnds,
           WindowPasses, DbOk, DbError, receiving, receiveVars, handling, vars
      <3> QED
        BY <1>2, <3>1 DEF Undisturbed, OnceInv, BatchInv, TypeOK, ReceiveTypeOK
    <2>3. CASE ReceiveStep /\ UNCHANGED batchVars
      <3>1. \A d \in Delivery : Saving(d, "saved") => delivery'[d] = delivery[d]
        BY <2>3, SaveKept DEF OnceInv, BatchInv, TypeOK
      <3>2. \A d \in Delivery : Batched(d) => MessageOf(d)' = MessageOf(d)
        BY <3>1 DEF OnceInv, BatchInv, RowInv, Batched, Handles, MessageOf
      <3> QED
        BY <2>2, <2>3, <3>2, OthersKeepAll DEF batchVars
    <2>4. ASSUME NEW c \in Batch, WindowPasses(c) PROVE LossInv'
      <3>1. /\ UNCHANGED <<delivery, handler, worker, request, handed, stale>>
            /\ batch' = [batch EXCEPT ![c].due = TRUE]
        BY <2>4 DEF WindowPasses, receiveVars
      <3>2. batch \in [Batch -> BatchRow]
        BY DEF OnceInv, BatchInv, TypeOK, BatchRow
      <3>3. \A b \in Batch : /\ batch'[b].content = batch[b].content
                             /\ batch'[b].status = batch[b].status
        BY <3>1, <3>2 DEF BatchRow
      <3> QED
        BY <2>2, <3>1, <3>3, OthersKeepAll DEF MessageOf
    <2>5. CASE UNCHANGED vars
      BY <2>2, <2>5, OthersKeepAll DEF vars, receiveVars, batchVars, MessageOf
    <2> QED
      BY <2>1, <2>2, <2>3, <2>4, <2>5, HandlerKeepsAll, PollKeepsAll, RequestKeepsAll DEF Next
  <1> QED
    BY <1>1, <1>2

-----------------------------------------------------------------------------
(* Theorems *)

\* The inductive invariant: at each await a handler, a poll or a request knows its batch, and
\* has handed it over, or is about to, by the time it lets go of it.
THEOREM LossInvariant == Spec => []LossInv
  <1>1. Init => LossInv
    BY DEF Init, LossInv, Whole, HandlerWhole, PollWhole, RequestWhole, CompletedWhole, Batched,
           HoldingPoll, IdleWorker
  <1>2. OnceInv /\ OnceInv' /\ LossInv /\ [Next]_vars => LossInv'
    BY NextKeepsAll
  <1> QED
    BY <1>1, <1>2, OnceInvariant, PTL DEF Spec

\* No message of a batch gets lost without errors, crashes and outdated reads, whichever of
\* the two processes claims the batch and whoever gives up waiting: for any number of
\* messages, deliveries and polls and any size of a batch.
THEOREM NoneLost == Spec => []NothingLost
  <1>1. OnceInv /\ LossInv => NothingLost
    <2> SUFFICES ASSUME OnceInv, LossInv, Undisturbed, NEW d \in Delivery, Batched(d),
                        handler[d].at.id \notin stale,
                        \A i \in DOMAIN batch[handler[d].at.id].content :
                            batch[handler[d].at.id].content[i] \notin Anonymous
                 PROVE  Cared(d)
      BY DEF NothingLost, Undisturbed
    <2> PICK b \in Batch \ stale : b = handler[d].at.id
      BY DEF LossInv
    <2>1. In(MessageOf(d), batch[b].content) /\ CompletedWhole(b) /\ ~Nameless(b)
      BY DEF LossInv, Whole, HandlerWhole, Nameless
    <2>2. CASE batch[b].status # "completed"
      BY <2>1, <2>2 DEF Cared
    <2>3. CASE Given(batch[b].content)
      BY <2>1, <2>3 DEF Given, In, Cared
    <2>4. CASE \E r \in request : r.at = Row(b)
      <3>1. Row(b).content = batch[b].content
        BY DEF Row
      <3> QED
        BY <2>1, <2>4, <3>1 DEF Cared
    <2> QED
      BY <2>1, <2>2, <2>3, <2>4 DEF CompletedWhole, Settled
  <1> QED
    BY <1>1, OnceInvariant, LossInvariant, PTL
=============================================================================
