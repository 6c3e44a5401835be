------------------------------ MODULE Receive ------------------------------
(***************************************************************************)
(* saveIncomingMessage (zalo-receive.ts) as the gateway's listener calls   *)
(* it: what Zalo delivers, perhaps more than once, is stored and let       *)
(* through to the dispatcher once.  The maps of pending and recent keys    *)
(* are in memory, the Message rows survive a crash.                        *)
(*                                                                         *)
(* A delivery that finds its key pending awaits that save and is a         *)
(* duplicate (or fails) whatever comes of it; it ends at once here.        *)
(***************************************************************************)
EXTENDS Naturals

CONSTANTS
    Inbound,    \* text messages of one thread
    Anonymous,  \* those that come without a zaloMessageId
    Delivery,   \* the events that deliver them
    NoInbound, NoDelivery,
    MaxFaults,  \* bound on database and network errors of a behaviour
    MaxCrashes  \* bound on the crashes of backend and worker

ASSUME ReceiveAssumption ==
    /\ Anonymous \subseteq Inbound
    /\ NoInbound \notin Inbound
    /\ NoDelivery \notin Delivery
    /\ MaxFaults \in Nat
    /\ MaxCrashes \in Nat

VARIABLES
    delivery,  \* the calls of saveIncomingMessage
    stored,    \* Message rows
    recent,    \* recentDedupEntries of keys without an id; an id is looked up anyway
    pending,   \* pendingDedupSaves
    faults, crashes

receiveVars == <<delivery, stored, recent, pending, faults, crashes>>

ReceiveTypeOK ==
    /\ delivery \in [Delivery -> [pc : {"idle", "find", "insert", "thread", "saved", "dropped"},
                                  inbound : Inbound \cup {NoInbound}]]
    /\ stored \subseteq Inbound
    /\ recent \subseteq Anonymous
    /\ pending \in [Inbound -> Delivery \cup {NoDelivery}]
    /\ faults \in 0 .. MaxFaults
    /\ crashes \in 0 .. MaxCrashes

ReceiveInit ==
    /\ delivery = [d \in Delivery |-> [pc |-> "idle", inbound |-> NoInbound]]
    /\ stored = {}
    /\ recent = {}
    /\ pending = [m \in Inbound |-> NoDelivery]
    /\ faults = 0
    /\ crashes = 0

DbOk == UNCHANGED faults
DbError == faults < MaxFaults /\ faults' = faults + 1

Saving(d, pc) == delivery[d].pc = pc
Moved(d, pc) == [delivery EXCEPT ![d].pc = pc]

\* The save returns or throws: the key is no longer pending.
Ended(d, pc) ==
    /\ delivery' = Moved(d, pc)
    /\ pending' = [pending EXCEPT ![delivery[d].inbound] = NoDelivery]

\* A bug: the map of pending saves is not looked at.
ArriveUnguarded(d, m) ==
    /\ Saving(d, "idle")
    /\ delivery' = [delivery EXCEPT ![d] =
          [pc |-> IF m \in recent \/ m \notin Anonymous THEN "find" ELSE "insert",
           inbound |-> m]]
    /\ pending' = [pending EXCEPT ![m] = d]
    /\ UNCHANGED <<stored, recent, faults, crashes>>

\* Only a key that is remembered, or an id of the provider, can be looked up.
Arrive(d, m) ==
    /\ Saving(d, "idle")
    /\ IF pending[m] # NoDelivery
       THEN /\ delivery' = [delivery EXCEPT ![d] = [pc |-> "dropped", inbound |-> m]]
            /\ UNCHANGED pending
       ELSE /\ delivery' = [delivery EXCEPT ![d] =
                  [pc |-> IF m \in recent \/ m \notin Anonymous THEN "find" ELSE "insert",
                   inbound |-> m]]
            /\ pending' = [pending EXCEPT ![m] = d]
    /\ UNCHANGED <<stored, recent, faults, crashes>>

FindStored(d) ==
    /\ Saving(d, "find")
    /\ LET m == delivery[d].inbound IN
       \/ DbOk /\ m \in stored /\ Ended(d, "dropped") /\ UNCHANGED recent
       \/ /\ DbOk /\ m \notin stored
          /\ delivery' = Moved(d, "insert")
          /\ recent' = recent \ {m}
          /\ UNCHANGED pending
       \/ DbError /\ Ended(d, "dropped") /\ UNCHANGED recent
    /\ UNCHANGED <<stored, crashes>>

\* The upsert keeps a row that is there, and reports it as saved all the same.
Insert(d) ==
    /\ Saving(d, "insert")
    /\ \/ /\ DbOk
          /\ stored' = stored \cup {delivery[d].inbound}
          /\ recent' = recent \cup ({delivery[d].inbound} \cap Anonymous)
          /\ delivery' = Moved(d, "thread")
          /\ UNCHANGED pending
       \/ DbError /\ Ended(d, "dropped") /\ UNCHANGED <<stored, recent>>
    /\ UNCHANGED crashes

\* An error here drops a message that is stored and remembered.
UpsertThread(d) ==
    /\ Saving(d, "thread")
    /\ \/ DbOk /\ Ended(d, "saved")
       \/ DbError /\ Ended(d, "dropped")
    /\ UNCHANGED <<stored, recent, crashes>>

\* The entry expires after a minute, or is pruned at DEDUP_MAX_SIZE.
Forget(m) ==
    /\ m \in recent
    /\ recent' = recent \ {m}
    /\ UNCHANGED <<delivery, stored, pending, faults, crashes>>

ReceiveCrash ==
    /\ crashes < MaxCrashes
    /\ crashes' = crashes + 1
    /\ delivery' = [d \in Delivery |->
          IF delivery[d].pc \in {"find", "insert", "thread"}
          THEN [delivery[d] EXCEPT !.pc = "dropped"] ELSE delivery[d]]
    /\ recent' = {}
    /\ pending' = [m \in Inbound |-> NoDelivery]
    /\ UNCHANGED <<stored, faults>>

SaveStep(d) == FindStored(d) \/ Insert(d) \/ UpsertThread(d)

ReceiveStep ==
    \/ \E d \in Delivery : SaveStep(d) \/ \E m \in Inbound : Arrive(d, m)
    \/ \E m \in Anonymous : Forget(m)

-----------------------------------------------------------------------------
\* A message that has an id is let through to the dispatcher once at most, however often
\* it is delivered, whatever is forgotten, fails or crashes (dedup by map and by row).
AcceptedOnce ==
    \A d, e \in Delivery :
        /\ Saving(d, "saved") /\ Saving(e, "saved")
        /\ delivery[d].inbound = delivery[e].inbound
        /\ delivery[d].inbound \notin Anonymous
        => d = e
=============================================================================
