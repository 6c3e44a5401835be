----------------------------- MODULE AdminRecords -----------------------------
(***************************************************************************)
(* Records the console edits: a reply rule with its versions               *)
(* (rule-engine.service), the principals that give one sender a role       *)
(* (principal.service) and the settings of one thread                      *)
(* (thread-settings.service).                                              *)
(*                                                                         *)
(* Each request is a handful of statements with awaits between them and no *)
(* transaction: it reads, decides, writes, then writes the version or the  *)
(* audit entry.  The three areas share nothing, so one behaviour keeps to  *)
(* one of them.                                                            *)
(***************************************************************************)
EXTENDS Integers, Sequences, SequencesExt

CONSTANTS
    Edit,            \* requests in progress at once
    NoRow,
    MaxEdits,        \* bound on the requests of a behaviour
    MaxEditFaults    \* bound on failed statements

ASSUME AdminAssumption == MaxEdits \in Nat /\ MaxEditFaults \in Nat

VARIABLES
    area,         \* what this behaviour edits
    rule,         \* the Rule row: what its trigger and its conditions are for, and enabled
    versions,     \* its RuleVersion rows, in order of creation
    principals,   \* ZaloPrincipal rows of one sender, in order of creation
    audited,      \* the role the last audit entry of each row gives it
    joined,       \* one of a thread was put beside one for all threads: history
    threadRow,    \* the ThreadSetting row
    edits,        \* requests in progress
    begun,        \* how many have begun
    disturbed,    \* two requests overlapped, or one was cut off: history
    wanted,       \* what the last finished PATCH of the thread asked for: history
    editFaults

adminVars == <<area, rule, versions, principals, audited, joined, threadRow, edits, begun, disturbed, wanted, editFaults>>
ruleVars == <<rule, versions>>
principalVars == <<principals, audited, joined>>
threadVars == <<threadRow, wanted>>

Kind == {"keyword", "type"}
Rule == [trigger : Kind, conditions : Kind, enabled : BOOLEAN]
Scope == {"global", "thread"}
Role == {"basic", "advanced"}
Idle == [op |-> "none", pc |-> "idle", at |-> 0, give |-> NoRow, seen |-> NoRow]

AdminInit ==
    /\ area \in {"rules", "principals", "threads"}
    /\ rule = [trigger |-> "keyword", conditions |-> "keyword", enabled |-> TRUE]
    /\ versions = <<[version |-> 1, of |-> rule]>>
    /\ principals = <<>> /\ audited = <<>> /\ joined = FALSE
    /\ threadRow = NoRow /\ wanted = NoRow
    /\ edits = [e \in Edit |-> Idle]
    /\ begun = 0 /\ disturbed = FALSE /\ editFaults = 0

-----------------------------------------------------------------------------
\* Every step of a request; its statements change the rows of its area only.
Busy == {e \in Edit : edits[e].pc # "idle"}
Steps(e, pc) == edits' = [edits EXCEPT ![e].pc = pc] /\ UNCHANGED <<area, begun, disturbed, editFaults>>
Sees(e, pc, x) ==
    edits' = [edits EXCEPT ![e].pc = pc, ![e].seen = x] /\ UNCHANGED <<area, begun, disturbed, editFaults>>
Ends(e) == edits' = [edits EXCEPT ![e] = Idle] /\ UNCHANGED <<area, begun, disturbed, editFaults>>
EditAt(e, op, pc) == edits[e].op = op /\ edits[e].pc = pc

Begin(e, where, op, at, give) ==
    /\ area = where /\ edits[e].pc = "idle" /\ begun < MaxEdits
    /\ edits' = [edits EXCEPT ![e] = [op |-> op, pc |-> "read", at |-> at, give |-> give, seen |-> NoRow]]
    /\ begun' = begun + 1
    /\ disturbed' = (disturbed \/ Busy # {})
    /\ UNCHANGED <<area, ruleVars, principalVars, threadVars, editFaults>>

\* A statement fails: the request ends in an error where it stands.
CutOff(e) ==
    /\ edits[e].pc # "idle" /\ editFaults < MaxEditFaults
    /\ editFaults' = editFaults + 1
    /\ edits' = [edits EXCEPT ![e] = Idle]
    /\ disturbed' = (disturbed \/ edits[e].pc \notin {"read", "write"})
    /\ UNCHANGED <<area, begun, ruleVars, principalVars, threadVars>>

-----------------------------------------------------------------------------
(***************************************************************************)
(* Rules.                                                                  *)
(***************************************************************************)
\* validateRule: the conditions are those the trigger needs.
Sound(r) == r.trigger = r.conditions

\* A PATCH gives some of the fields.
Patched(r, give) == [x \in DOMAIN r |-> IF x \in DOMAIN give THEN give[x] ELSE r[x]]
RulePatch == {[trigger |-> k, conditions |-> c] : k \in Kind, c \in Kind}
             \cup {[conditions |-> k] : k \in Kind} \cup {[trigger |-> k] : k \in Kind}

\* What is validated is the row as it was read, merged with the patch.
AcceptsPatch(r, give) == Sound(Patched(r, give))

RuleReads(e) ==
    /\ EditAt(e, "rulePatch", "read")
    /\ IF AcceptsPatch(rule, edits[e].give) THEN Steps(e, "write") ELSE Ends(e)
    /\ UNCHANGED <<ruleVars, principalVars, threadVars>>
RuleWrites(e) ==
    /\ EditAt(e, "rulePatch", "write")
    /\ rule' = Patched(rule, edits[e].give)
    /\ Steps(e, "reread")
    /\ UNCHANGED <<versions, principalVars, threadVars>>
RuleRereads(e) ==
    /\ EditAt(e, "rulePatch", "reread")
    /\ Sees(e, "number", rule)
    /\ UNCHANGED <<ruleVars, principalVars, threadVars>>
\* The highest version number is read by a statement of its own.
RuleNumbers(e) ==
    /\ EditAt(e, "rulePatch", "number")
    /\ edits' = [edits EXCEPT ![e].pc = "version", ![e].at = Max({versions[i].version : i \in DOMAIN versions}) + 1]
    /\ UNCHANGED <<area, begun, disturbed, editFaults, ruleVars, principalVars, threadVars>>
RuleVersions(e) ==
    /\ EditAt(e, "rulePatch", "version")
    /\ versions' = Append(versions, [version |-> edits[e].at, of |-> edits[e].seen])
    /\ Ends(e)
    /\ UNCHANGED <<rule, principalVars, threadVars>>

\* enableRule and disableRule leave no version.
RuleToggles(e, on) ==
    /\ area = "rules" /\ edits[e].pc = "idle" /\ begun < MaxEdits
    /\ begun' = begun + 1
    /\ rule' = [rule EXCEPT !.enabled = on]
    /\ UNCHANGED <<area, versions, principalVars, threadVars, edits, disturbed, editFaults>>

-----------------------------------------------------------------------------
(***************************************************************************)
(* Principals.                                                             *)
(***************************************************************************)
Rows(scope) == {i \in DOMAIN principals : principals[i].scope = scope}
\* @@unique([principalId, threadId]) does not hold for a NULL thread.
Violates(scope, but) == scope # "global" /\ Rows(scope) \ {but} # {}

MayCreate(scope) == Rows(scope) = {}

PrincipalReads(e) ==
    /\ EditAt(e, "principalCreate", "read")
    /\ IF MayCreate(edits[e].give.scope) THEN Steps(e, "write") ELSE Ends(e)
    /\ UNCHANGED <<ruleVars, principalVars, threadVars>>
PrincipalInserts(e) ==
    /\ EditAt(e, "principalCreate", "write")
    /\ IF Violates(edits[e].give.scope, 0) THEN Ends(e) /\ UNCHANGED principalVars
       ELSE /\ principals' = Append(principals, edits[e].give)
            /\ audited' = Append(audited, NoRow)
            /\ edits' = [edits EXCEPT ![e].pc = "audit", ![e].at = Len(principals) + 1]
            /\ UNCHANGED <<joined, area, begun, disturbed, editFaults>>
    /\ UNCHANGED <<ruleVars, threadVars>>

\* updatePrincipalRole, and updatePrincipalStatus alike: one field, then its audit entry;
\* updatePrincipal: the thread, which only the table refuses, and an entry without a role.
RowReads(e) ==
    /\ EditAt(e, "principalRole", "read") \/ EditAt(e, "principalMove", "read")
    /\ Steps(e, "write")
    /\ UNCHANGED <<ruleVars, principalVars, threadVars>>
RoleWrites(e) ==
    /\ EditAt(e, "principalRole", "write")
    /\ principals' = [principals EXCEPT ![edits[e].at].role = edits[e].give.role]
    /\ Steps(e, "audit")
    /\ UNCHANGED <<ruleVars, audited, joined, threadVars>>
MoveWrites(e) ==
    LET at == edits[e].at
        scope == edits[e].give.scope
    IN /\ EditAt(e, "principalMove", "write")
       /\ IF Violates(scope, at) THEN Ends(e) /\ UNCHANGED principalVars
          ELSE /\ principals' = [principals EXCEPT ![at].scope = scope]
               /\ joined' = (joined \/ (scope = "global" /\ Rows(scope) \ {at} # {}))
               /\ Steps(e, "audit")
               /\ UNCHANGED audited
       /\ UNCHANGED <<ruleVars, threadVars>>
PrincipalAudits(e) ==
    /\ edits[e].op \in {"principalCreate", "principalRole"} /\ edits[e].pc = "audit"
    /\ audited' = [audited EXCEPT ![edits[e].at] = edits[e].give.role]
    /\ Ends(e)
    /\ UNCHANGED <<ruleVars, principals, joined, threadVars>>
MoveAudits(e) ==
    /\ EditAt(e, "principalMove", "audit") /\ Ends(e)
    /\ UNCHANGED <<ruleVars, principalVars, threadVars>>

-----------------------------------------------------------------------------
(***************************************************************************)
(* Thread settings.                                                        *)
(***************************************************************************)
DefaultSetting == "default"

\* getThreadSettings of the dispatcher, the guardrails and the reactions.
ThreadReads(e) ==
    /\ EditAt(e, "threadGet", "read")
    /\ IF threadRow = NoRow THEN Steps(e, "write") ELSE Ends(e)
    /\ UNCHANGED <<ruleVars, principalVars, threadVars>>

\* The row is unique: creating it a second time fails, and the caller with it.
ThreadCreates(e) ==
    /\ EditAt(e, "threadGet", "write")
    /\ threadRow' = IF threadRow = NoRow THEN DefaultSetting ELSE threadRow
    /\ Ends(e)
    /\ UNCHANGED <<ruleVars, principalVars, wanted>>

\* A PATCH is one upsert.
ThreadPatches(e) ==
    /\ EditAt(e, "threadPatch", "read")
    /\ threadRow' = edits[e].give /\ wanted' = edits[e].give
    /\ Ends(e)
    /\ UNCHANGED <<ruleVars, principalVars>>

-----------------------------------------------------------------------------
AdminNext ==
    \E e \in Edit :
        \/ \E give \in RulePatch : Begin(e, "rules", "rulePatch", 0, give)
        \/ RuleReads(e) \/ RuleWrites(e) \/ RuleRereads(e) \/ RuleNumbers(e) \/ RuleVersions(e)
        \/ \E on \in BOOLEAN : RuleToggles(e, on)
        \/ \E give \in [scope : Scope, role : Role] : Begin(e, "principals", "principalCreate", 0, give)
        \/ \E i \in DOMAIN principals, role \in Role :
              Begin(e, "principals", "principalRole", i, [principals[i] EXCEPT !.role = role])
        \/ \E i \in DOMAIN principals, scope \in Scope :
              Begin(e, "principals", "principalMove", i, [principals[i] EXCEPT !.scope = scope])
        \/ PrincipalReads(e) \/ PrincipalInserts(e) \/ RowReads(e) \/ RoleWrites(e) \/ PrincipalAudits(e)
        \/ MoveWrites(e) \/ MoveAudits(e)
        \/ Begin(e, "threads", "threadGet", 0, NoRow)
        \/ \E give \in {"a", "b"} : Begin(e, "threads", "threadPatch", 0, give)
        \/ ThreadReads(e) \/ ThreadCreates(e) \/ ThreadPatches(e)
        \/ CutOff(e)

AdminSpec == AdminInit /\ [][AdminNext]_adminVars

-----------------------------------------------------------------------------
\* The type invariant.
AdminTypeOK ==
    /\ area \in {"rules", "principals", "threads"}
    /\ rule \in Rule
    /\ \A i \in DOMAIN versions : versions[i].of \in Rule /\ versions[i].version \in 1..begun + 1
    /\ \A i \in DOMAIN principals : principals[i] \in [scope : Scope, role : Role]
    /\ audited \in Seq(Role \cup {NoRow}) /\ Len(audited) = Len(principals) /\ joined \in BOOLEAN
    /\ threadRow \in {NoRow, DefaultSetting, "a", "b"} /\ wanted \in {NoRow, "a", "b"}
    /\ \A e \in Edit : edits[e].pc \in {"idle", "read", "write", "reread", "number", "version", "audit"}
    /\ begun \in 0..MaxEdits /\ disturbed \in BOOLEAN /\ editFaults \in 0..MaxEditFaults

\* Unless two requests overlapped or one was cut off between its statements: the stored rule
\* is one that the validation accepts, whatever parts of it were patched, and its last
\* version is what it looks like; the versions are numbered without a gap.
RuleIsSound ==
    disturbed \/
        /\ Sound(rule)
        /\ Busy = {} => Patched(Last(versions).of, [enabled |-> rule.enabled]) = rule
        /\ \A i \in DOMAIN versions : versions[i].version = i

\* "One role per user per thread", with the audit trail ending at that role: a sender has at
\* most one principal in a thread, always, and one for all threads unless requests overlapped
\* or an update put a second one there, which nothing refuses (updatePrincipal).
OneRole ==
    /\ \A i, j \in Rows("thread") : i = j
    /\ disturbed \/
          /\ joined \/ \A i, j \in Rows("global") : i = j
          /\ Busy = {} => \A i \in DOMAIN principals : audited[i] = principals[i].role

\* What the console has set for a thread is not undone by a handler that found no row
\* before and is about to create the default one.
PatchStays == wanted # NoRow => threadRow = wanted

\* The records the console edits are what it was told they are.
RecordsAreKept == RuleIsSound /\ OneRole /\ PatchStays
=============================================================================
