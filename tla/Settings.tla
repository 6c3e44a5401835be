------------------------------- MODULE Settings -------------------------------
(***************************************************************************)
(* Stored settings and their caches in the backend: the allowlist          *)
(* (allowlist.service) and the runtime settings (runtime-config.service).  *)
(*                                                                         *)
(* The senders and the gates never read the table: they read a cache which *)
(* a request refreshes after it has written the row and its audit entry,   *)
(* and which the start of the process loads, or, for the settings that     *)
(* have no cache, the environment.  Requests are coroutines.  An allowlist *)
(* request reads the whole list and writes it back changed.                *)
(***************************************************************************)
EXTENDS Naturals, FiniteSets

CONSTANTS
    AllowThread,      \* threads with their type
    SettingRequest,   \* requests in progress at once
    Unset,            \* no row: the value of the environment applies
    MaxSettingFaults  \* bound on failed statements

ASSUME SettingsAssumption == MaxSettingFaults \in Nat

\* The allowlist; a setting of the hot cache; the dry-run switch, which only goes on; and one
\* updateHotCache has no case for (document.enabled, vision.enabled, autoReply.enabled).
SettingKey == {"allow", "hot", "dryRun", "cold"}
SettingValue(k) ==
    CASE k = "allow" -> SUBSET AllowThread [] k = "hot" -> {1, 2, Unset}
      [] k = "dryRun" -> {TRUE, Unset} [] k = "cold" -> {1, Unset}
Cached == SettingKey \ {"cold"}

VARIABLES
    settingRow,     \* the RuntimeSetting table; an absent allowlist is the empty one
    settingCache,   \* what the gates and the senders read
    requests,       \* requests in progress
    blurred,        \* keys whose cache need not say what the row says: history
    settingFaults

settingVars == <<settingRow, settingCache, requests, blurred, settingFaults>>

NoRequest == [pc |-> "idle", key |-> "hot", next |-> Unset, alone |-> TRUE]
Default(k) == IF k = "allow" THEN {} ELSE Unset

SettingInit ==
    /\ settingRow = [k \in SettingKey |-> Default(k)]
    /\ settingCache = [k \in SettingKey |-> Default(k)]
    /\ requests = [r \in SettingRequest |-> NoRequest]
    /\ blurred = {}
    /\ settingFaults = 0

SettingFault == settingFaults < MaxSettingFaults /\ settingFaults' = settingFaults + 1
Pending(k) == {r \in SettingRequest : requests[r].pc # "idle" /\ requests[r].key = k}

\* Whoever shares a key with another request in progress is not alone.
BeginRequest(r, k, v) ==
    /\ requests[r].pc = "idle"
    /\ requests' = [q \in SettingRequest |->
          IF q = r THEN [pc |-> "write", key |-> k, next |-> v, alone |-> Pending(k) = {}]
          ELSE IF q \in Pending(k) THEN [requests[q] EXCEPT !.alone = FALSE]
          ELSE requests[q]]

\* Afterwards the key is in order if the request was alone and did all of it.
EndRequest(r, whole) ==
    /\ requests' = [requests EXCEPT ![r] = NoRequest]
    /\ blurred' = IF whole /\ requests[r].alone THEN blurred \ {requests[r].key}
                  ELSE blurred \cup {requests[r].key}

\* applyAllowChanges reads the list; what it will write is settled now.
AllowRead(r, add, remove) ==
    /\ BeginRequest(r, "allow", (settingRow["allow"] \ remove) \cup add)
    /\ UNCHANGED <<settingRow, settingCache, blurred, settingFaults>>

\* setRuntimeSetting and setRuntimeConfig: a refused key or value ends here and changes
\* nothing, global live is refused, the reads for validation and audit bind nothing.
SetSetting(r, k, v) ==
    /\ k # "allow" /\ v # Unset
    /\ BeginRequest(r, k, v)
    /\ UNCHANGED <<settingRow, settingCache, blurred, settingFaults>>

\* A plausible defect: the cache is refreshed with what is about to be written.
WriteRowCacheFirst(r) ==
    /\ requests[r].pc = "write"
    /\ settingCache' = [settingCache EXCEPT ![requests[r].key] = requests[r].next]
    /\ \/ /\ settingRow' = [settingRow EXCEPT ![requests[r].key] = requests[r].next]
          /\ requests' = [requests EXCEPT ![r].pc = "audit"]
          /\ UNCHANGED <<blurred, settingFaults>>
       \/ /\ SettingFault
          /\ requests' = [requests EXCEPT ![r] = NoRequest]
          /\ blurred' = IF requests[r].alone THEN blurred ELSE blurred \cup {requests[r].key}
          /\ UNCHANGED settingRow

\* The upsert; its error is the answer.
WriteRow(r) ==
    /\ requests[r].pc = "write"
    /\ \/ /\ settingRow' = [settingRow EXCEPT ![requests[r].key] = requests[r].next]
          /\ requests' = [requests EXCEPT ![r].pc = "audit"]
          /\ UNCHANGED <<blurred, settingFaults>>
       \/ /\ SettingFault
          /\ requests' = [requests EXCEPT ![r] = NoRequest]
          /\ blurred' = IF requests[r].alone THEN blurred ELSE blurred \cup {requests[r].key}
          /\ UNCHANGED settingRow
    /\ UNCHANGED settingCache

\* The audit entry, then the cache, of a key that has one.  The allowlist swallows the error
\* of the entry; the runtime settings answer DB_ERROR and leave the cache, the row being
\* written.
AuditAndCache(r) ==
    LET k == requests[r].key IN
    /\ requests[r].pc = "audit"
    /\ \/ /\ k \in Cached
          /\ settingCache' = [settingCache EXCEPT ![k] = requests[r].next]
          /\ EndRequest(r, TRUE)
          /\ UNCHANGED settingFaults
       \/ /\ k \notin Cached
          /\ EndRequest(r, FALSE)
          /\ UNCHANGED <<settingCache, settingFaults>>
       \/ /\ k # "allow"
          /\ SettingFault
          /\ EndRequest(r, FALSE)
          /\ UNCHANGED settingCache
    /\ UNCHANGED settingRow

\* The process ends and starts: initRuntimeConfig and initAllowlist load their keys, or
\* the default when the read fails; initHotCache asks for its keys by names no row has, and
\* the settings without a cache are those of the environment.
Restarted(k, failed) ==
    IF k \in {"hot", "cold"} \/ k \in failed THEN Default(k) ELSE settingRow[k]

SettingRestart ==
    \E failed \in SUBSET {"allow", "dryRun"} :
        /\ settingFaults + Cardinality(failed) <= MaxSettingFaults
        /\ settingFaults' = settingFaults + Cardinality(failed)
        /\ settingCache' = [k \in SettingKey |-> Restarted(k, failed)]
        /\ requests' = [r \in SettingRequest |-> NoRequest]
        /\ blurred' = failed \cup {k \in {"hot", "cold"} : settingRow[k] # Unset}
        /\ UNCHANGED settingRow

SettingNext ==
    \/ \E r \in SettingRequest :
          \/ \E add, remove \in SUBSET AllowThread : add \cap remove = {} /\ AllowRead(r, add, remove)
          \/ \E k \in SettingKey : \E v \in SettingValue(k) : SetSetting(r, k, v)
          \/ WriteRow(r) \/ AuditAndCache(r)
    \/ SettingRestart

SettingSpec == SettingInit /\ [][SettingNext]_settingVars

-----------------------------------------------------------------------------
\* The type invariant.
SettingTypeOK ==
    /\ \A k \in SettingKey :
          settingRow[k] \in SettingValue(k) /\ settingCache[k] \in SettingValue(k)
    /\ \A r \in SettingRequest :
          requests[r].pc \in {"idle", "write", "audit"} /\ requests[r].key \in SettingKey
    /\ blurred \subseteq SettingKey
    /\ settingFaults \in 0 .. MaxSettingFaults

\* What the gates act on is what the table says whenever no request for the key is in
\* progress, unless since the last request that had the key to itself two overlapped
\* (the later writer is not the later to refresh), an audit entry failed, the process
\* restarted and could not or, for the hot settings, would not load the row, or the key is
\* one without a cache and was set (updateHotCache, initHotCache).
CachesFollowStore ==
    \A k \in SettingKey \ blurred : settingCache[k] # settingRow[k] => Pending(k) # {}
=============================================================================
