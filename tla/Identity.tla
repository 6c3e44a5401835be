------------------------------- MODULE Identity -------------------------------
(***************************************************************************)
(* Who sent a message, and with which role it is handled: the thread, its  *)
(* type and the sender derived from what fields an event has               *)
(* (inbound-identity.ts, normalizeMessage of zalo-receive.ts), and the     *)
(* guard and the two lookups of the dispatcher (resolvePrincipal of        *)
(* principal.service.ts), between which an operator edits the rows.        *)
(*                                                                         *)
(* A field that an event has at two places counts as one.  What a message  *)
(* says and the files it names are left out.                               *)
(***************************************************************************)
EXTENDS Naturals, FiniteSets

CONSTANTS
    MaxRowEdits,        \* bound on the operator's edits
    MaxIdentityFaults   \* bound on database errors

ASSUME IdentityAssumption == MaxRowEdits \in Nat /\ MaxIdentityFaults \in Nat

VARIABLES
    event,      \* the event, and where its handling is
    identity,   \* what it was normalized to; without a thread there is no message
    handledAs,  \* the role and status it is handled with
    roleRows,   \* ZaloPrincipal rows of an id: in the thread of the event, and in all
    held,       \* the rows there have been while it was handled: history
    rowEdits, identityFaults

identityVars == <<event, identity, handledAs, roleRows, held, rowEdits, identityFaults>>

\* The person, the group, and the account that receives.
Absent == "none"
Event == [type : {Absent, "user", "group"}, isGroup : {Absent, "yes", "no"}, groupId : {Absent, "group"},
          senderId : {Absent, "person"}, threadId : {Absent, "person", "group"}, to : {Absent, "self"}]
RowKey == {"person", "group"} \X {"thread", "all"}
RowValue == {Absent, "admin", "blocked"}
Nobody == [role |-> "form_only", status |-> "active"]

IdentityInit ==
    /\ event = [pc |-> "idle"] /\ identity = [threadId |-> Absent] /\ handledAs = Nobody
    /\ roleRows = [k \in RowKey |-> Absent] /\ held = {} /\ rowEdits = 0 /\ identityFaults = 0

IdentityTypeOK ==
    /\ event.pc \in {"idle", "dropped", "thread", "all", "skipped", "handled"}
    /\ event.pc # "idle" => event.raw \in Event
    /\ handledAs.role \in {"form_only", "admin"} /\ handledAs.status \in {"active", "blocked"}
    /\ roleRows \in [RowKey -> RowValue] /\ held \subseteq RowKey \X RowValue
    /\ rowEdits \in 0 .. MaxRowEdits /\ identityFaults \in 0 .. MaxIdentityFaults

-----------------------------------------------------------------------------
(***************************************************************************)
(* Normalization.                                                          *)
(***************************************************************************)
firstStr(a, b) == IF a # Absent THEN a ELSE b

\* The type of the thread: what the event says, what speaks for a group, or a sender alone.
threadTypeOf(e) ==
    CASE e.type # Absent -> e.type
      [] e.type = Absent /\ (e.isGroup = "yes" \/ e.groupId # Absent) -> "group"
      [] e.type = Absent /\ e.isGroup = "no" /\ e.groupId = Absent -> "user"
      [] OTHER -> IF e.senderId # Absent THEN "user" ELSE "unknown"

threadIdOf(e) ==
    IF e.threadId # Absent THEN e.threadId
    ELSE firstStr(IF threadTypeOf(e) = "group" THEN e.groupId ELSE e.senderId, e.to)

confidenceOf(e) ==
    IF threadIdOf(e) = Absent \/ threadTypeOf(e) = "unknown" THEN "unknown"
    ELSE IF e.threadId # Absent /\ e.type # Absent THEN "exact" ELSE "derived"

normalizeInboundIdentity(e) ==
    [threadId |-> threadIdOf(e), threadType |-> threadTypeOf(e), senderId |-> e.senderId,
     confidence |-> confidenceOf(e)]

\* normalizeMessage: an unknown type is stored as that of a person.
normalizeMessage(e) ==
    [normalizeInboundIdentity(e) EXCEPT !.threadType = IF @ = "group" THEN "group" ELSE "user"]

-----------------------------------------------------------------------------
(***************************************************************************)
(* The role.                                                               *)
(***************************************************************************)
Held(r) == {<<k, r[k]>> : k \in RowKey}

\* The identity guard: a sender that is not known has the lowest role, whoever's the thread.
cannotIdentifySender(id) ==
    id.confidence = "unknown" \/ (id.senderId = Absent /\ id.threadType = "group")

\* An event of the listener, up to the first await of resolvePrincipal.
Comes(e) ==
    /\ event.pc = "idle"
    /\ identity' = normalizeMessage(e)
    /\ event' = [raw |-> e, pc |-> IF identity'.threadId = Absent THEN "dropped"
                                   ELSE IF cannotIdentifySender(identity') THEN "handled" ELSE "thread"]
    /\ held' = Held(roleRows)
    /\ UNCHANGED <<handledAs, roleRows, rowEdits, identityFaults>>

\* The id whose rows count: in a chat without a sender, the thread is the person.
canonicalId == firstStr(identity.senderId, identity.threadId)
RowOf(scope) == IF <<canonicalId, scope>> \in RowKey THEN roleRows[canonicalId, scope] ELSE Absent

\* A blocked sender is skipped, anyone else is handled with the role of the row.
HandledAs(value) ==
    /\ handledAs' = CASE value = "admin" -> [role |-> "admin", status |-> "active"]
                    [] value = "blocked" -> [role |-> "form_only", status |-> "blocked"]
                    [] OTHER -> Nobody
    /\ event' = [event EXCEPT !.pc = IF value = "blocked" THEN "skipped" ELSE "handled"]

\* resolvePrincipal: the row of the thread, then the one of all threads, then the default,
\* which is also what an error of the database leads to.
resolvePrincipal(scope) ==
    /\ event.pc = scope
    /\ \/ /\ scope = "thread" /\ RowOf(scope) = Absent
          /\ event' = [event EXCEPT !.pc = "all"] /\ UNCHANGED <<handledAs, identityFaults>>
       \/ /\ scope = "thread" => RowOf(scope) # Absent
          /\ HandledAs(RowOf(scope)) /\ UNCHANGED identityFaults
       \/ identityFaults < MaxIdentityFaults /\ identityFaults' = identityFaults + 1 /\ HandledAs(Absent)
    /\ UNCHANGED <<identity, roleRows, held, rowEdits>>

\* The operator creates, edits or deletes a row.
EditRow(k, v) ==
    /\ rowEdits < MaxRowEdits /\ rowEdits' = rowEdits + 1
    /\ roleRows[k] # v /\ roleRows' = [roleRows EXCEPT ![k] = v]
    /\ held' = IF event.pc \in {"thread", "all"} THEN held \cup Held(roleRows') ELSE held
    /\ UNCHANGED <<event, identity, handledAs, identityFaults>>

IdentityNext ==
    \/ \E e \in Event : Comes(e)
    \/ \E scope \in {"thread", "all"} : resolvePrincipal(scope)
    \/ \E k \in RowKey, v \in RowValue : EditRow(k, v)

IdentitySpec == IdentityInit /\ [][IdentityNext]_identityVars

-----------------------------------------------------------------------------
\* Nobody is handled with a role that no row of theirs had while the message was resolved:
\* not with that of the group they write in, nor with one when it is unclear who they are.
\* A thread's own id stands for the sender only in a chat whose event names none.
NobodyIsElevated ==
    event.pc = "handled" /\ handledAs.role = "admin" =>
        LET raw == event.raw
            id == IF raw.senderId # Absent THEN "person" ELSE identity.threadId
        IN /\ confidenceOf(raw) # "unknown"
           /\ raw.senderId # Absent \/ threadTypeOf(raw) = "user"
           /\ \E scope \in {"thread", "all"} : <<<<id, scope>>, "admin">> \in held

\* Who has been blocked all the while, here or, without another row here, everywhere, is
\* skipped when nothing fails.
BlockedAreSkipped ==
    LET Always(scope, v) == \A k \in held : k[1] = <<"person", scope>> => k[2] = v
    IN event.pc = "handled" /\ event.raw.senderId # Absent /\ confidenceOf(event.raw) # "unknown"
       /\ identityFaults = 0
       => /\ ~Always("thread", "blocked")
          /\ ~(Always("thread", Absent) /\ Always("all", "blocked"))

RolesAreTheirs == NobodyIsElevated /\ BlockedAreSkipped
=============================================================================
