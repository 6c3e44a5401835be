---------------------------- MODULE ConsoleProofs ---------------------------
(***************************************************************************)
(* Proofs about the console, for any number of requests, rules, messages,  *)
(* threads, senders and edits.  What it stores: the settings and their     *)
(* caches, the rows of a rule, of a sender's principals and of a thread,   *)
(* and the rule that takes a message.  What it shows: the login card and   *)
(* the status, the threads and the senders' roles.                         *)
(***************************************************************************)
EXTENDS ConsoleEdits, ConsolePages, TLAPS

-----------------------------------------------------------------------------
(* Settings: what the gates read is what is stored *)

SettingGiven == UNION {SettingValue(k) : k \in SettingKey}
SettingAsked == [pc : {"idle", "write", "audit"}, key : SettingKey, next : SettingGiven,
                 alone : BOOLEAN]

\* Rows, caches and requests have their fields.
SettingsHaveFields ==
    /\ settingRow \in [SettingKey -> SettingGiven]
    /\ settingCache \in [SettingKey -> SettingGiven]
    /\ requests \in [SettingRequest -> SettingAsked]
    /\ blurred \subseteq SettingKey

\* Each has a value its key may have.
SettingsHaveValues ==
    /\ \A k \in SettingKey :
          settingRow[k] \in SettingValue(k) /\ settingCache[k] \in SettingValue(k)
    /\ \A r \in SettingRequest : requests[r].next \in SettingValue(requests[r].key)

Holds(r, k) == requests[r].pc # "idle" /\ requests[r].key = k

\* A request that had its key to itself still has it, and has written what it was asked to.
AloneIsAlone ==
    \A r \in SettingRequest : requests[r].pc # "idle" /\ requests[r].alone =>
        /\ \A q \in SettingRequest : Holds(q, requests[r].key) => q = r
        /\ requests[r].pc = "audit" => settingRow[requests[r].key] = requests[r].next

\* The strengthening of CachesFollowStore: a request that has the key to itself and has not
\* written yet disturbs nothing.
CachesAreFresh ==
    \A k \in SettingKey \ blurred :
        (\A r \in SettingRequest :
            Holds(r, k) => requests[r].pc = "write" /\ requests[r].alone) =>
            settingCache[k] = settingRow[k]

SettingInv == SettingsHaveFields /\ SettingsHaveValues /\ AloneIsAlone /\ CachesAreFresh

\* What a request may be given.
LEMMA GivenValues ==
  /\ \A k \in SettingKey : SettingValue(k) \subseteq SettingGiven
  /\ \A k \in SettingKey : Default(k) \in SettingValue(k) /\ Default(k) \in SettingGiven
  /\ NoRequest \in SettingAsked /\ NoRequest.pc = "idle"
  /\ NoRequest.next \in SettingValue(NoRequest.key)
  /\ "allow" \in SettingKey /\ "hot" \in SettingKey
  <1>1. \A k \in SettingKey : SettingValue(k) \subseteq SettingGiven
    BY DEF SettingGiven
  <1>2. /\ "allow" \in SettingKey /\ "hot" \in SettingKey /\ "dryRun" \in SettingKey
        /\ "cold" \in SettingKey
    BY DEF SettingKey
  <1>3. {} \in SettingValue("allow")
    BY DEF SettingValue
  <1>4. Unset \in SettingValue("hot")
    BY DEF SettingValue
  <1>5. {} \in SettingGiven /\ Unset \in SettingGiven
    BY <1>1, <1>2, <1>3, <1>4
  <1>6. \A k \in SettingKey : Default(k) \in SettingValue(k)
    <2> SUFFICES ASSUME NEW k \in SettingKey PROVE Default(k) \in SettingValue(k)
      OBVIOUS
    <2>1. CASE k = "allow"
      BY <1>3, <2>1 DEF Default
    <2>2. CASE k = "hot"
      BY <1>4, <2>2 DEF Default
    <2>3. CASE k = "dryRun"
      BY <2>3 DEF Default, SettingValue
    <2>4. CASE k = "cold"
      BY <2>4 DEF Default, SettingValue
    <2> QED
      BY <2>1, <2>2, <2>3, <2>4 DEF SettingKey
  <1>7. /\ NoRequest \in SettingAsked /\ NoRequest.pc = "idle"
        /\ NoRequest.next = Unset /\ NoRequest.key = "hot"
    BY <1>2, <1>5 DEF NoRequest, SettingAsked
  <1> QED
    BY <1>1, <1>2, <1>4, <1>6, <1>7

\* The table is empty, and so is the cache.
LEMMA SettingInitHolds == SettingInit => SettingInv
  <1> SUFFICES ASSUME SettingInit PROVE SettingInv
    OBVIOUS
  <1>1. SettingsHaveFields
    BY GivenValues DEF SettingInit, SettingsHaveFields
  <1>2. \A r \in SettingRequest : requests[r].pc = "idle"
    BY GivenValues DEF SettingInit
  <1>5. SettingsHaveValues
    BY GivenValues DEF SettingInit, SettingsHaveValues
  <1>3. AloneIsAlone
    BY <1>2 DEF AloneIsAlone
  <1>4. CachesAreFresh
    BY DEF SettingInit, CachesAreFresh
  <1> QED
    BY <1>1, <1>3, <1>4, <1>5 DEF SettingInv

\* A request begins: it is alone, or no request of the key is.
LEMMA BeginKeeps ==
  ASSUME SettingInv, NEW r \in SettingRequest, NEW k \in SettingKey, NEW v \in SettingValue(k),
         BeginRequest(r, k, v), UNCHANGED <<settingRow, settingCache, blurred>>
  PROVE  SettingInv'
  <1>1. requests \in [SettingRequest -> SettingAsked] /\ v \in SettingGiven
    BY GivenValues DEF SettingInv, SettingsHaveFields
  <1>2. \A q \in SettingRequest : requests[q] \in SettingAsked
    BY <1>1
  <1>3. \A q \in SettingRequest :
           requests'[q] = IF q = r THEN [pc |-> "write", key |-> k, next |-> v,
                                         alone |-> Pending(k) = {}]
                          ELSE IF q \in Pending(k) THEN [requests[q] EXCEPT !.alone = FALSE]
                          ELSE requests[q]
    BY DEF BeginRequest
  <1>4. /\ requests'[r].pc = "write" /\ requests'[r].key = k /\ requests'[r].next = v
        /\ requests'[r].alone = (Pending(k) = {})
        /\ requests'[r] \in SettingAsked
    <2> DEFINE alone == Pending(k) = {}
    <2>1. alone \in BOOLEAN
      OBVIOUS
    <2>2. requests'[r] = [pc |-> "write", key |-> k, next |-> v, alone |-> alone]
      BY <1>3
    <2> HIDE DEF alone
    <2>3. /\ requests'[r].pc = "write" /\ requests'[r].key = k /\ requests'[r].next = v
          /\ requests'[r].alone = alone /\ requests'[r] \in SettingAsked
      BY <1>1, <2>1, <2>2 DEF SettingAsked
    <2> QED
      BY <2>3 DEF alone
  <1>5. ASSUME NEW q \in SettingRequest, q # r
        PROVE  /\ requests'[q].pc = requests[q].pc /\ requests'[q].key = requests[q].key
               /\ requests'[q].next = requests[q].next
               /\ requests'[q].alone = (requests[q].alone /\ ~Holds(q, k))
               /\ requests'[q] \in SettingAsked
    <2>1. q \in Pending(k) <=> Holds(q, k)
      BY DEF Pending, Holds
    <2>2. CASE Holds(q, k)
      <3>1. requests'[q] = [requests[q] EXCEPT !.alone = FALSE]
        BY <1>3, <1>5, <2>1, <2>2
      <3> QED
        BY <1>2, <3>1, <2>2 DEF SettingAsked
    <2>3. CASE ~Holds(q, k)
      BY <1>2, <1>3, <1>5, <2>1, <2>3 DEF SettingAsked
    <2> QED
      BY <2>2, <2>3
  <1>6. SettingsHaveFields'
    <2>1. requests' = [q \in SettingRequest |-> requests'[q]]
      BY DEF BeginRequest
    <2>2. \A q \in SettingRequest : requests'[q] \in SettingAsked
      BY <1>4, <1>5
    <2> QED
      BY <2>1, <2>2 DEF SettingInv, SettingsHaveFields
  <1>11. SettingsHaveValues'
    <2> SUFFICES ASSUME NEW q \in SettingRequest
                 PROVE  requests'[q].next \in SettingValue(requests'[q].key)
      BY DEF SettingInv, SettingsHaveValues
    <2>1. CASE q = r
      BY <1>4, <2>1
    <2>2. CASE q # r
      BY <1>5, <2>2 DEF SettingInv, SettingsHaveValues
    <2> QED
      BY <2>1, <2>2
  <1>7. \A q \in SettingRequest : Holds(q, k) => requests'[r].alone = FALSE
    BY <1>4 DEF Holds, Pending
  <1>8. \A q \in SettingRequest : \A l :
           (requests'[q].pc # "idle" /\ requests'[q].key = l) <=>
              IF q = r THEN l = k ELSE Holds(q, l)
    BY <1>4, <1>5 DEF Holds
  <1>0. requests[r].pc = "idle"
    BY DEF BeginRequest
  <1>9. AloneIsAlone'
    <2> SUFFICES ASSUME NEW q \in SettingRequest, requests'[q].pc # "idle", requests'[q].alone
                 PROVE  /\ \A p \in SettingRequest :
                              requests'[p].pc # "idle" /\ requests'[p].key = requests'[q].key
                                 => p = q
                        /\ requests'[q].pc = "audit" =>
                              settingRow'[requests'[q].key] = requests'[q].next
      BY DEF AloneIsAlone, Holds
    <2>1. CASE q = r
      BY <1>4, <1>7, <1>8, <2>1
    <2>2. CASE q # r
      <3>1. /\ requests[q].pc # "idle" /\ requests[q].alone /\ ~Holds(q, k)
            /\ requests'[q].key = requests[q].key /\ requests'[q].pc = requests[q].pc
            /\ requests'[q].next = requests[q].next /\ requests[q].key # k
        BY <1>5, <2>2 DEF Holds
      <3>2. /\ \A p \in SettingRequest : Holds(p, requests[q].key) => p = q
            /\ requests[q].pc = "audit" => settingRow[requests[q].key] = requests[q].next
        BY <3>1 DEF SettingInv, AloneIsAlone
      <3> QED
        BY <1>8, <3>1, <3>2
    <2> QED
      BY <2>1, <2>2
  <1>10. CachesAreFresh'
    <2> SUFFICES ASSUME NEW l \in SettingKey \ blurred,
                        \A q \in SettingRequest :
                            requests'[q].pc # "idle" /\ requests'[q].key = l =>
                                requests'[q].pc = "write" /\ requests'[q].alone
                 PROVE  settingCache[l] = settingRow[l]
      BY DEF CachesAreFresh, Holds
    <2>1. ASSUME NEW q \in SettingRequest, Holds(q, l)
          PROVE  requests[q].pc = "write" /\ requests[q].alone
      <3>1. q # r
        BY <1>0, <2>1 DEF Holds
      <3>2. requests'[q].pc # "idle" /\ requests'[q].key = l
        BY <1>8, <2>1, <3>1
      <3> QED
        BY <1>5, <3>1, <3>2
    <2> QED
      BY <2>1 DEF SettingInv, CachesAreFresh
  <1> QED
    BY <1>6, <1>9, <1>10, <1>11 DEF SettingInv

\* A request ends, with its key in order, blurred, or as it was.
LEMMA EndKeeps ==
  ASSUME SettingInv, NEW r \in SettingRequest, requests[r].pc # "idle",
         requests' = [requests EXCEPT ![r] = NoRequest], settingRow' = settingRow,
         settingCache' \in [SettingKey -> SettingGiven],
         \A l \in SettingKey : settingCache'[l] \in SettingValue(l),
         \A l \in SettingKey \ {requests[r].key} : settingCache'[l] = settingCache[l],
         \A l \in SettingKey \ {requests[r].key} : l \in blurred' <=> l \in blurred,
         blurred' \subseteq SettingKey,
         requests[r].key \notin blurred' =>
            settingCache'[requests[r].key] = settingRow[requests[r].key]
  PROVE  SettingInv'
  <1>1. requests \in [SettingRequest -> SettingAsked]
    BY DEF SettingInv, SettingsHaveFields
  <1>2. /\ requests' \in [SettingRequest -> SettingAsked] /\ requests'[r].pc = "idle"
        /\ \A q \in SettingRequest \ {r} : requests'[q] = requests[q]
    BY <1>1, GivenValues
  <1>3. SettingsHaveFields'
    BY <1>2 DEF SettingInv, SettingsHaveFields
  <1>7. SettingsHaveValues'
    <2>1. requests'[r] = NoRequest
      BY <1>1
    <2> QED
      BY <1>2, <2>1, GivenValues DEF SettingInv, SettingsHaveValues
  <1>4. \A q \in SettingRequest : \A l :
           (requests'[q].pc # "idle" /\ requests'[q].key = l) <=> q # r /\ Holds(q, l)
    BY <1>2 DEF Holds
  <1>5. AloneIsAlone'
    <2> SUFFICES ASSUME NEW q \in SettingRequest, requests'[q].pc # "idle", requests'[q].alone
                 PROVE  /\ \A p \in SettingRequest :
                              requests'[p].pc # "idle" /\ requests'[p].key = requests'[q].key
                                 => p = q
                        /\ requests'[q].pc = "audit" =>
                              settingRow'[requests'[q].key] = requests'[q].next
      BY DEF AloneIsAlone, Holds
    <2>1. q # r /\ requests'[q] = requests[q]
      BY <1>2
    <2>2. /\ \A p \in SettingRequest : Holds(p, requests[q].key) => p = q
          /\ requests[q].pc = "audit" => settingRow[requests[q].key] = requests[q].next
      BY <2>1 DEF SettingInv, AloneIsAlone
    <2> QED
      BY <1>4, <2>1, <2>2
  <1>6. CachesAreFresh'
    <2> SUFFICES ASSUME NEW l \in SettingKey \ blurred',
                        \A q \in SettingRequest :
                            requests'[q].pc # "idle" /\ requests'[q].key = l =>
                                requests'[q].pc = "write" /\ requests'[q].alone
                 PROVE  settingCache'[l] = settingRow[l]
      BY DEF CachesAreFresh, Holds
    <2>1. CASE l = requests[r].key
      BY <2>1
    <2>2. CASE l # requests[r].key
      <3>1. \A q \in SettingRequest :
               Holds(q, l) => requests[q].pc = "write" /\ requests[q].alone
        BY <1>2, <1>4, <2>2 DEF Holds
      <3> QED
        BY <2>2, <3>1 DEF SettingInv, CachesAreFresh
    <2> QED
      BY <2>1, <2>2
  <1> QED
    BY <1>3, <1>5, <1>6, <1>7 DEF SettingInv

\* The row is written.
LEMMA WriteKeeps ==
  ASSUME SettingInv, NEW r \in SettingRequest, WriteRow(r)
  PROVE  SettingInv'
  <1> DEFINE k == requests[r].key
  <1>0. /\ requests \in [SettingRequest -> SettingAsked] /\ requests[r] \in SettingAsked
        /\ k \in SettingKey /\ requests[r].next \in SettingGiven
        /\ requests[r].next \in SettingValue(k)
    BY DEF SettingInv, SettingsHaveFields, SettingAsked, SettingsHaveValues
  <1>1. CASE /\ settingRow' = [settingRow EXCEPT ![k] = requests[r].next]
             /\ requests' = [requests EXCEPT ![r].pc = "audit"]
             /\ blurred' = blurred
    <2>1. /\ requests[r].pc = "write" /\ settingCache' = settingCache
          /\ settingRow'[k] = requests[r].next
          /\ \A l \in SettingKey \ {k} : settingRow'[l] = settingRow[l]
          /\ settingRow' \in [SettingKey -> SettingGiven]
      BY <1>0, <1>1 DEF WriteRow, SettingInv, SettingsHaveFields
    <2>2. /\ requests'[r] = [requests[r] EXCEPT !.pc = "audit"]
          /\ \A q \in SettingRequest \ {r} : requests'[q] = requests[q]
      BY <1>0, <1>1
    <2>3. /\ requests'[r].key = k /\ requests'[r].next = requests[r].next
          /\ requests'[r].alone = requests[r].alone /\ requests'[r].pc = "audit"
          /\ requests'[r] \in SettingAsked
      BY <1>0, <2>2 DEF SettingAsked
    <2>4. SettingsHaveFields'
      <3>1. requests' \in [SettingRequest -> SettingAsked]
        BY <1>0, <1>1, <2>2, <2>3
      <3> QED
        BY <1>1, <2>1, <3>1 DEF SettingInv, SettingsHaveFields
    <2>8. SettingsHaveValues'
      BY <1>0, <2>1, <2>2, <2>3 DEF SettingInv, SettingsHaveValues
    <2>5. \A q \in SettingRequest : \A l :
             (requests'[q].pc # "idle" /\ requests'[q].key = l) <=> Holds(q, l)
      BY <2>1, <2>2, <2>3 DEF Holds
    <2>6. AloneIsAlone'
      <3> SUFFICES ASSUME NEW q \in SettingRequest, requests'[q].pc # "idle", requests'[q].alone
                   PROVE  /\ \A p \in SettingRequest :
                              requests'[p].pc # "idle" /\ requests'[p].key = requests'[q].key
                                 => p = q
                          /\ requests'[q].pc = "audit" =>
                                settingRow'[requests'[q].key] = requests'[q].next
        BY DEF AloneIsAlone, Holds
      <3>1. /\ requests'[q].key = requests[q].key /\ requests[q].alone /\ requests[q].pc # "idle"
            /\ requests[q].key \in SettingKey
        BY <1>0, <2>1, <2>2, <2>3 DEF SettingAsked
      <3>2. /\ \A p \in SettingRequest : Holds(p, requests[q].key) => p = q
            /\ requests[q].pc = "audit" => settingRow[requests[q].key] = requests[q].next
        BY <3>1 DEF SettingInv, AloneIsAlone
      <3>3. q # r => requests[q].key # k
        BY <2>1, <3>2 DEF Holds
      <3>4. CASE q = r
        BY <2>1, <2>3, <2>5, <3>1, <3>2, <3>4
      <3>5. CASE q # r
        <4>1. /\ requests'[q] = requests[q]
              /\ settingRow'[requests[q].key] = settingRow[requests[q].key]
          BY <2>1, <2>2, <3>1, <3>3, <3>5
        <4> QED
          BY <2>5, <3>1, <3>2, <4>1
      <3> QED
        BY <3>4, <3>5
    <2>7. CachesAreFresh'
      <3> SUFFICES ASSUME NEW l \in SettingKey \ blurred,
                          \A q \in SettingRequest :
                              requests'[q].pc # "idle" /\ requests'[q].key = l =>
                                requests'[q].pc = "write" /\ requests'[q].alone
                   PROVE  settingCache[l] = settingRow'[l]
        BY <1>1, <2>1 DEF CachesAreFresh, Holds
      <3>1. l # k
        BY <2>1, <2>3, <2>5 DEF Holds
      <3>2. \A q \in SettingRequest :
               Holds(q, l) => requests[q].pc = "write" /\ requests[q].alone
        BY <2>2, <2>5, <3>1 DEF Holds
      <3> QED
        BY <2>1, <3>1, <3>2 DEF SettingInv, CachesAreFresh
    <2> QED
      BY <2>4, <2>6, <2>7, <2>8 DEF SettingInv
  <1>2. CASE /\ requests' = [requests EXCEPT ![r] = NoRequest] /\ settingRow' = settingRow
             /\ blurred' = IF requests[r].alone THEN blurred ELSE blurred \cup {k}
    <2>1. requests[r].pc = "write" /\ settingCache' = settingCache
      BY DEF WriteRow
    <2>2. ASSUME k \notin blurred'
          PROVE  settingCache'[k] = settingRow[k]
      <3>1. requests[r].alone /\ k \notin blurred
        BY <1>2, <2>2
      <3>2. \A q \in SettingRequest : Holds(q, k) => q = r
        BY <2>1, <3>1 DEF SettingInv, AloneIsAlone
      <3> QED
        BY <1>0, <2>1, <3>1, <3>2 DEF SettingInv, CachesAreFresh
    <2>3. /\ settingCache' \in [SettingKey -> SettingGiven] /\ blurred' \subseteq SettingKey
          /\ \A l \in SettingKey : settingCache'[l] \in SettingValue(l)
          /\ \A l \in SettingKey \ {k} : settingCache'[l] = settingCache[l]
          /\ \A l \in SettingKey \ {k} : l \in blurred' <=> l \in blurred
      BY <1>0, <1>2, <2>1 DEF SettingInv, SettingsHaveFields, SettingsHaveValues
    <2> QED
      BY <1>2, <2>1, <2>2, <2>3, EndKeeps
  <1> QED
    BY <1>1, <1>2 DEF WriteRow

\* The audit entry, and the cache.
LEMMA AuditKeeps ==
  ASSUME SettingInv, NEW r \in SettingRequest, AuditAndCache(r)
  PROVE  SettingInv'
  <1> DEFINE k == requests[r].key
  <1>0. /\ k \in SettingKey /\ requests[r].next \in SettingGiven
        /\ settingCache \in [SettingKey -> SettingGiven] /\ blurred \subseteq SettingKey
        /\ requests[r].next \in SettingValue(k)
        /\ \A l \in SettingKey : settingCache[l] \in SettingValue(l)
    BY DEF SettingInv, SettingsHaveFields, SettingAsked, SettingsHaveValues
  <1>1. /\ requests[r].pc = "audit" /\ settingRow' = settingRow
        /\ requests' = [requests EXCEPT ![r] = NoRequest]
    BY DEF AuditAndCache, EndRequest
  <1>2. \/ /\ settingCache' = [settingCache EXCEPT ![k] = requests[r].next]
           /\ blurred' = IF requests[r].alone THEN blurred \ {k} ELSE blurred \cup {k}
        \/ settingCache' = settingCache /\ blurred' = blurred \cup {k}
    BY DEF AuditAndCache, EndRequest
  <1>3. /\ settingCache' \in [SettingKey -> SettingGiven] /\ blurred' \subseteq SettingKey
        /\ \A l \in SettingKey : settingCache'[l] \in SettingValue(l)
        /\ \A l \in SettingKey \ {k} : settingCache'[l] = settingCache[l]
        /\ \A l \in SettingKey \ {k} : l \in blurred' <=> l \in blurred
    BY <1>0, <1>2
  <1>4. ASSUME k \notin blurred'
        PROVE  settingCache'[k] = settingRow[k]
    <2>1. requests[r].alone /\ settingCache'[k] = requests[r].next
      BY <1>0, <1>2, <1>4
    <2>2. settingRow[k] = requests[r].next
      BY <1>1, <2>1 DEF SettingInv, AloneIsAlone
    <2> QED
      BY <2>1, <2>2
  <1> QED
    BY <1>1, <1>3, <1>4, EndKeeps

\* The process starts again.
LEMMA RestartKeeps ==
  ASSUME SettingInv, SettingRestart
  PROVE  SettingInv'
  <1>1. PICK failed \in SUBSET {"allow", "dryRun"} :
           /\ settingCache' = [k \in SettingKey |-> Restarted(k, failed)]
           /\ requests' = [r \in SettingRequest |-> NoRequest]
           /\ blurred' = failed \cup {k \in {"hot", "cold"} : settingRow[k] # Unset}
           /\ settingRow' = settingRow
    BY DEF SettingRestart
  <1>2. \A k \in SettingKey : Restarted(k, failed) \in SettingGiven
    BY GivenValues DEF SettingInv, SettingsHaveFields, Restarted
  <1>3. blurred' \subseteq SettingKey
    BY <1>1 DEF SettingKey
  <1>8. SettingsHaveValues'
    <2>1. \A k \in SettingKey : Restarted(k, failed) \in SettingValue(k)
      BY GivenValues DEF SettingInv, SettingsHaveValues, Restarted
    <2> QED
      BY <1>1, <2>1, GivenValues DEF SettingInv, SettingsHaveValues
  <1>4. SettingsHaveFields'
    BY <1>1, <1>2, <1>3, GivenValues DEF SettingInv, SettingsHaveFields
  <1>5. \A r \in SettingRequest : requests'[r].pc = "idle"
    BY <1>1, GivenValues
  <1>6. AloneIsAlone'
    BY <1>5 DEF AloneIsAlone
  <1>7. CachesAreFresh'
    <2> SUFFICES ASSUME NEW k \in SettingKey \ blurred'
                 PROVE  settingCache'[k] = settingRow'[k]
      BY DEF CachesAreFresh
    <2>1. settingCache'[k] = Restarted(k, failed) /\ k \notin failed
      BY <1>1
    <2>2. CASE k \in {"hot", "cold"}
      <3>1. settingRow[k] = Unset
        BY <1>1, <2>2
      <3>2. settingCache'[k] = Unset
        BY <2>1, <2>2 DEF Restarted, Default
      <3> QED
        BY <1>1, <2>2, <3>1, <3>2
    <2>3. CASE k \notin {"hot", "cold"}
      BY <1>1, <2>1, <2>3 DEF Restarted
    <2> QED
      BY <2>2, <2>3
  <1> QED
    BY <1>4, <1>6, <1>7, <1>8 DEF SettingInv

\* The inductive invariant of the settings.
THEOREM SettingInvariant == SettingSpec => []SettingInv
  <1>1. SettingInv /\ [SettingNext]_settingVars => SettingInv'
    <2> SUFFICES ASSUME SettingInv, [SettingNext]_settingVars PROVE SettingInv'
      OBVIOUS
    <2>1. CASE UNCHANGED settingVars
      <3>1. /\ requests' = requests /\ settingRow' = settingRow /\ blurred' = blurred
            /\ settingCache' = settingCache
        BY <2>1 DEF settingVars
      <3> QED
        BY <3>1 DEF SettingInv, SettingsHaveFields, SettingsHaveValues, AloneIsAlone,
                    CachesAreFresh, Holds
    <2>2. ASSUME NEW r \in SettingRequest, NEW add \in SUBSET AllowThread,
                 NEW remove \in SUBSET AllowThread, AllowRead(r, add, remove)
          PROVE  SettingInv'
      <3>1. settingRow["allow"] \in SettingValue("allow")
        BY GivenValues DEF SettingInv, SettingsHaveValues
      <3>2. (settingRow["allow"] \ remove) \cup add \in SettingValue("allow")
        BY <3>1 DEF SettingValue
      <3> QED
        BY <2>2, <3>2, GivenValues, BeginKeeps DEF AllowRead
    <2>3. ASSUME NEW r \in SettingRequest, NEW k \in SettingKey, NEW v \in SettingValue(k),
                 SetSetting(r, k, v)
          PROVE  SettingInv'
      BY <2>3, GivenValues, BeginKeeps DEF SetSetting
    <2> QED
      BY <2>1, <2>2, <2>3, WriteKeeps, AuditKeeps, RestartKeeps DEF SettingNext
  <1> QED
    BY <1>1, SettingInitHolds, PTL DEF SettingSpec

\* A key without a request has nothing that could disturb it.
LEMMA SettingsFollow == SettingInv => CachesFollowStore
  BY DEF SettingInv, CachesAreFresh, CachesFollowStore, Pending, Holds

-----------------------------------------------------------------------------
(* RuleMatching: between two edits one rule takes a message *)

RuleRow == [enabled : BOOLEAN, priority : {1, 2}, targets : SUBSET RuleThread,
            trigger : Trigger, action : Action, updatedAt : Nat]

\* VerdictsStand with the fields it compares is inductive.
RulesHaveFields ==
    /\ rules \in [RuleId -> RuleRow] /\ stamp \in Nat
    /\ DOMAIN takenBy = Message /\ takenBy = [m \in Message |-> takenBy[m]]

VerdictInv == RulesHaveFields /\ VerdictsStand

\* No message was asked about.
LEMMA VerdictInitHolds == RuleInit => VerdictInv
  <1> SUFFICES ASSUME RuleInit PROVE VerdictInv
    OBVIOUS
  <1>1. [on |-> "words", of |-> {"hi"}] \in Trigger
    BY DEF Trigger
  <1>2. "fixed_reply" \in Action
    BY DEF Action
  <1>3. RulesHaveFields
    BY <1>1, <1>2 DEF RuleInit, RulesHaveFields, RuleRow
  <1>4. VerdictsStand
    BY DEF RuleInit, VerdictsStand
  <1> QED
    BY <1>3, <1>4 DEF VerdictInv

\* The rules alone decide who may win.
LEMMA RulesDecide ==
  ASSUME rules' = rules, NEW m \in Message
  PROVE  Matching(m)' = Matching(m) /\ Winners(m)' = Winners(m) /\ (Tied(m)' <=> Tied(m))
  <1>1. \A q \in RuleId : Matches(q, m)' <=> Matches(q, m)
    BY DEF Matches
  <1>2. Matching(m)' = Matching(m)
    BY <1>1 DEF Matching
  <1>3. \A q, p \in RuleId : Before(q, p)' <=> Before(q, p)
    BY DEF Before
  <1>4. Winners(m)' = Winners(m)
    BY <1>2, <1>3 DEF Winners, Matching
  <1>5. Tied(m)' <=> Tied(m)
    BY <1>2 DEF Tied
  <1> QED
    BY <1>2, <1>4, <1>5

\* A rule is asked for: the rules are what they were.
LEMMA TakenKeeps ==
  ASSUME VerdictInv, NEW m \in Message, NEW w, evaluateRules(m, w),
         takenBy' = [takenBy EXCEPT ![m] = w], UNCHANGED <<rules, stamp>>
  PROVE  VerdictInv'
  <1>1. /\ takenBy'[m] = w /\ \A n \in Message \ {m} : takenBy'[n] = takenBy[n]
        /\ DOMAIN takenBy' = Message /\ takenBy' = [n \in Message |-> takenBy'[n]]
    BY DEF VerdictInv, RulesHaveFields
  <1>3. rules' = rules
    OBVIOUS
  <1>4. RulesHaveFields'
    BY <1>1 DEF VerdictInv, RulesHaveFields
  <1>5. VerdictsStand'
    <2> SUFFICES ASSUME NEW n \in Message, takenBy'[n] # "unasked"
                 PROVE  evaluateRules(n, takenBy[n])' \/ Tied(n)'
      BY DEF VerdictsStand
    <2>1. evaluateRules(n, takenBy'[n]) \/ Tied(n)
      BY <1>1 DEF VerdictInv, VerdictsStand
    <2> QED
      BY <1>3, <2>1, RulesDecide DEF evaluateRules
  <1> QED
    BY <1>4, <1>5 DEF VerdictInv

\* A count moves the stamp of a rule, which only ties are broken by.
LEMMA CountKeeps ==
  ASSUME VerdictInv, NEW r \in RuleId, Count(r)
  PROVE  VerdictInv'
  <1>1. /\ stamp' \in Nat /\ takenBy' = takenBy
        /\ rules' = [rules EXCEPT ![r] = [rules[r] EXCEPT !.updatedAt = stamp + 1]]
    BY DEF Count, VerdictInv, RulesHaveFields
  <1>2. \A q \in RuleId : rules[q] \in RuleRow
    BY DEF VerdictInv, RulesHaveFields
  <1>3. ASSUME NEW q \in RuleId
        PROVE  /\ rules'[q] \in RuleRow
               /\ rules'[q].enabled = rules[q].enabled /\ rules'[q].priority = rules[q].priority
               /\ rules'[q].targets = rules[q].targets /\ rules'[q].trigger = rules[q].trigger
    <2>1. CASE q = r
      <3>1. rules'[q] = [rules[r] EXCEPT !.updatedAt = stamp + 1]
        BY <1>1, <2>1 DEF VerdictInv, RulesHaveFields
      <3> QED
        BY <1>2, <2>1, <3>1 DEF RuleRow, VerdictInv, RulesHaveFields
    <2>2. CASE q # r
      BY <1>1, <1>2, <2>2 DEF VerdictInv, RulesHaveFields
    <2> QED
      BY <2>1, <2>2
  <1>4. RulesHaveFields'
    <2>1. rules' = [q \in RuleId |-> rules'[q]]
      BY <1>1 DEF VerdictInv, RulesHaveFields
    <2> QED
      BY <1>1, <1>3, <2>1 DEF VerdictInv, RulesHaveFields
  <1>5. ASSUME NEW m \in Message
        PROVE  Matching(m)' = Matching(m)
    <2>1. \A q \in RuleId : Matches(q, m)' <=> Matches(q, m)
      BY <1>3 DEF Matches
    <2> QED
      BY <2>1 DEF Matching
  <1>6. \A m \in Message : Tied(m)' <=> Tied(m)
    BY <1>3, <1>5 DEF Tied, Matching
  <1>7. VerdictsStand'
    <2> SUFFICES ASSUME NEW m \in Message, takenBy[m] # "unasked", ~Tied(m)
                 PROVE  evaluateRules(m, takenBy[m])'
      BY <1>1, <1>6 DEF VerdictsStand
    <2>1. evaluateRules(m, takenBy[m])
      BY DEF VerdictInv, VerdictsStand
    <2>2. CASE Matching(m) = {}
      BY <1>1, <1>5, <2>1, <2>2 DEF evaluateRules
    <2>3. CASE Matching(m) # {}
      <3> DEFINE w == takenBy[m]
      <3>1. w \in Matching(m) /\ \A q \in Matching(m) : Before(w, q)
        BY <2>1, <2>3 DEF evaluateRules, Winners
      <3>2. ASSUME NEW q \in Matching(m)
            PROVE  Before(w, q)'
        <4>1. w \in RuleId /\ q \in RuleId
          BY <3>1 DEF Matching
        <4>2. CASE q = w
          <5>1. rules'[w].updatedAt >= rules'[w].updatedAt
            BY <1>3, <4>1 DEF RuleRow
          <5> QED
            BY <1>1, <4>2, <5>1 DEF Before
        <4>3. CASE q # w
          <5>1. rules[w].priority # rules[q].priority
            BY <3>1, <4>3 DEF Tied
          <5>2. rules[w].priority < rules[q].priority
            BY <3>1, <5>1 DEF Before
          <5>3. rules'[w].priority < rules'[q].priority
            BY <1>3, <4>1, <5>2
          <5> QED
            BY <1>1, <5>3 DEF Before
        <4> QED
          BY <4>2, <4>3
      <3>3. w \in Winners(m)'
        BY <1>1, <1>5, <3>1, <3>2 DEF Winners
      <3> QED
        BY <1>1, <1>5, <2>3, <3>3 DEF evaluateRules
    <2> QED
      BY <2>2, <2>3
  <1> QED
    BY <1>4, <1>7 DEF VerdictInv

\* After an edit everything is open.
LEMMA RuleEditKeeps ==
  ASSUME VerdictInv, NEW r \in RuleId, EditRule(r)
  PROVE  VerdictInv'
  <1>1. rules[r] \in RuleRow /\ stamp \in Nat /\ rules \in [RuleId -> RuleRow]
    BY DEF VerdictInv, RulesHaveFields
  <1>2. PICK entry \in {[rules[r] EXCEPT !.enabled = ~@]}
                  \cup {[rules[r] EXCEPT !.priority = p] : p \in {1, 2}}
                  \cup {[rules[r] EXCEPT !.targets = ts] : ts \in SUBSET RuleThread}
                  \cup {[rules[r] EXCEPT !.trigger = t] : t \in Trigger}
                  \cup {[rules[r] EXCEPT !.action = a] : a \in Action} :
           rules' = [rules EXCEPT ![r] = [entry EXCEPT !.updatedAt = stamp + 1]]
    BY DEF EditRule
  <1>3. entry \in RuleRow
    <2>1. CASE entry = [rules[r] EXCEPT !.enabled = ~@]
      BY <1>1, <2>1 DEF RuleRow
    <2>2. CASE \E p \in {1, 2} : entry = [rules[r] EXCEPT !.priority = p]
      BY <1>1, <2>2 DEF RuleRow
    <2>3. CASE \E ts \in SUBSET RuleThread : entry = [rules[r] EXCEPT !.targets = ts]
      BY <1>1, <2>3 DEF RuleRow
    <2>4. CASE \E t \in Trigger : entry = [rules[r] EXCEPT !.trigger = t]
      BY <1>1, <2>4 DEF RuleRow
    <2>5. CASE \E a \in Action : entry = [rules[r] EXCEPT !.action = a]
      BY <1>1, <2>5 DEF RuleRow
    <2> QED
      BY <1>2, <2>1, <2>2, <2>3, <2>4, <2>5
  <1>4. rules' \in [RuleId -> RuleRow]
    <2>1. [entry EXCEPT !.updatedAt = stamp + 1] \in RuleRow
      BY <1>1, <1>3 DEF RuleRow
    <2> QED
      BY <1>1, <1>2, <2>1
  <1>5. takenBy' = [m \in Message |-> "unasked"] /\ stamp' = stamp + 1
    BY DEF EditRule
  <1>6. RulesHaveFields'
    BY <1>1, <1>4, <1>5 DEF RulesHaveFields
  <1>7. VerdictsStand'
    BY <1>5 DEF VerdictsStand
  <1> QED
    BY <1>6, <1>7 DEF VerdictInv

\* The inductive invariant of the reply rules.
THEOREM VerdictInvariant == RuleSpec => []VerdictInv
  <1>1. VerdictInv /\ [RuleNext]_ruleMatchVars => VerdictInv'
    <2> SUFFICES ASSUME VerdictInv, [RuleNext]_ruleMatchVars PROVE VerdictInv'
      OBVIOUS
    <2>1. CASE UNCHANGED ruleMatchVars
      <3>1. rules' = rules /\ stamp' = stamp /\ takenBy' = takenBy
        BY <2>1 DEF ruleMatchVars
      <3> QED
        BY <3>1, RulesDecide DEF VerdictInv, RulesHaveFields, VerdictsStand, evaluateRules
    <2>2. ASSUME NEW m \in Message, NEW w \in RuleId \cup {NoRule}, RuleTakes(m, w)
          PROVE  VerdictInv'
      BY <2>2, TakenKeeps DEF RuleTakes
    <2>3. ASSUME NEW m \in Message, NEW w \in RuleId \cup {NoRule}, simulateRule(m, w)
          PROVE  VerdictInv'
      BY <2>3, TakenKeeps DEF simulateRule
    <2> QED
      BY <2>1, <2>2, <2>3, CountKeeps, RuleEditKeeps DEF RuleNext
  <1> QED
    BY <1>1, VerdictInitHolds, PTL DEF RuleSpec

-----------------------------------------------------------------------------
(* AdminRecords: what the console edits is what it was told *)

\* Requests have their fields.
EditsHaveFields ==
    /\ edits = [e \in Edit |-> edits[e]]
    /\ \A e \in Edit :
          edits[e] = [op |-> edits[e].op, pc |-> edits[e].pc, at |-> edits[e].at,
                      give |-> edits[e].give, seen |-> edits[e].seen]

\* Undisturbed, one request is in progress.
OneBusy ==
    ~disturbed =>
        \A e, f \in Edit : edits[e].pc # "idle" /\ edits[f].pc # "idle" => e = f

\* Two rows of a rule that a toggle tells apart at most.
Alike(r, q) == r.trigger = q.trigger /\ r.conditions = q.conditions

\* A PATCH that has written the rule and not yet its version.
Unversioned(e) ==
    edits[e].op = "rulePatch" /\ edits[e].pc \in {"reread", "number", "version"}

RuleVersion == [version : Nat, of : Rule]

\* The rule is sound, and its versions are numbered through.
RuleStored ==
    /\ rule \in Rule /\ Sound(rule)
    /\ versions \in Seq(RuleVersion) /\ Len(versions) >= 1
    /\ \A i \in 1 .. Len(versions) : versions[i].version = i

LastIsRule == Alike(versions[Len(versions)].of, rule)

\* What a PATCH has read, and what it is about to write.
PatchPlace(e) ==
    edits[e].op = "rulePatch" =>
        /\ edits[e].give \in RulePatch
        /\ edits[e].pc = "write" => AcceptsPatch(rule, edits[e].give)
        /\ edits[e].pc \in {"number", "version"} =>
              edits[e].seen \in Rule /\ Alike(edits[e].seen, rule)
        /\ edits[e].pc = "version" => edits[e].at = Len(versions) + 1

\* The strengthening of RuleIsSound: what a PATCH has read still holds.
RuleKept ==
    ~disturbed =>
        /\ RuleStored
        /\ (\A e \in Edit : ~Unversioned(e)) => LastIsRule
        /\ \A e \in Edit : PatchPlace(e)

Principal == [scope : Scope, role : Role]
OfPrincipals(e) == edits[e].op \in {"principalCreate", "principalRole", "principalMove"}
Unaudited(e) == edits[e].op \in {"principalCreate", "principalRole"} /\ edits[e].pc = "audit"
Alone(scope) ==
    \A i, j \in 1 .. Len(principals) :
        principals[i].scope = scope /\ principals[j].scope = scope => i = j

OneForAll == joined \/ Alone("global")

\* Rows are only added, and in a thread there is one.
RowsStored ==
    /\ principals \in Seq(Principal) /\ audited \in Seq(Role \cup {NoRow})
    /\ Len(audited) = Len(principals)
    /\ Alone("thread")

\* A request names a row that is there.
RowPlace(e) ==
    OfPrincipals(e) =>
        /\ edits[e].give \in Principal
        /\ edits[e].op # "principalCreate" \/ edits[e].pc = "audit" =>
              edits[e].at \in 1 .. Len(principals)

\* Who is about to insert a row has seen none, and who is about to write an audit entry has
\* given the row its role.
RolePlace(e) ==
    /\ edits[e].op = "principalCreate" /\ edits[e].pc = "write" =>
          \A i \in 1 .. Len(principals) : principals[i].scope # edits[e].give.scope
    /\ Unaudited(e) => principals[edits[e].at].role = edits[e].give.role

RolesAudited ==
    \A i \in 1 .. Len(principals) :
        (\A e \in Edit : Unaudited(e) => edits[e].at # i) => audited[i] = principals[i].role

\* The strengthening of OneRole.
PrincipalsKept ==
    /\ RowsStored
    /\ \A e \in Edit : RowPlace(e)
    /\ ~disturbed => OneForAll /\ RolesAudited /\ \A e \in Edit : RolePlace(e)

AdminInv == EditsHaveFields /\ OneBusy /\ RuleKept /\ PrincipalsKept /\ PatchStays

\* A step of e's request leaves the others where they are.
StepOf(e) ==
    /\ EditsHaveFields'
    /\ \A f \in Edit \ {e} : edits'[f] = edits[f]
    /\ disturbed' = disturbed

\* What the ends of the actions make of the request: it goes on,
LEMMA StepsMove ==
  ASSUME EditsHaveFields, NEW e \in Edit, NEW pc, Steps(e, pc)
  PROVE  /\ StepOf(e) /\ edits'[e].pc = pc
         /\ edits'[e].op = edits[e].op /\ edits'[e].at = edits[e].at
         /\ edits'[e].give = edits[e].give /\ edits'[e].seen = edits[e].seen
  <1>1. /\ edits'[e] = [edits[e] EXCEPT !.pc = pc]
        /\ \A f \in Edit \ {e} : edits'[f] = edits[f]
        /\ edits' = [f \in Edit |-> edits'[f]] /\ disturbed' = disturbed
    BY DEF Steps, EditsHaveFields
  <1>2. edits[e] = [op |-> edits[e].op, pc |-> edits[e].pc, at |-> edits[e].at,
                    give |-> edits[e].give, seen |-> edits[e].seen]
    BY DEF EditsHaveFields
  <1>3. edits'[e] = [op |-> edits[e].op, pc |-> pc, at |-> edits[e].at,
                     give |-> edits[e].give, seen |-> edits[e].seen]
    BY <1>1, <1>2
  <1> QED
    BY <1>1, <1>3 DEF StepOf, EditsHaveFields

\* goes on with a row it has seen,
LEMMA SeesMoves ==
  ASSUME EditsHaveFields, NEW e \in Edit, NEW pc, NEW x, Sees(e, pc, x)
  PROVE  /\ StepOf(e) /\ edits'[e].pc = pc /\ edits'[e].seen = x
         /\ edits'[e].op = edits[e].op /\ edits'[e].at = edits[e].at
         /\ edits'[e].give = edits[e].give
  <1>2. edits[e] = [op |-> edits[e].op, pc |-> edits[e].pc, at |-> edits[e].at,
                    give |-> edits[e].give, seen |-> edits[e].seen]
    BY DEF EditsHaveFields
  <1>1. /\ edits'[e] = [[edits[e] EXCEPT !.pc = pc] EXCEPT !.seen = x]
        /\ \A f \in Edit \ {e} : edits'[f] = edits[f]
        /\ edits' = [f \in Edit |-> edits'[f]] /\ disturbed' = disturbed
    BY DEF Sees, EditsHaveFields
  <1>3. edits'[e] = [op |-> edits[e].op, pc |-> pc, at |-> edits[e].at,
                     give |-> edits[e].give, seen |-> x]
    BY <1>1, <1>2
  <1> QED
    BY <1>1, <1>3 DEF StepOf, EditsHaveFields

\* goes on with a number,
Places(e, pc, x) ==
    edits' = [edits EXCEPT ![e].pc = pc, ![e].at = x] /\ disturbed' = disturbed

LEMMA TakesPlace ==
  ASSUME EditsHaveFields, NEW e \in Edit, NEW pc, NEW x, Places(e, pc, x)
  PROVE  /\ StepOf(e) /\ edits'[e].pc = pc /\ edits'[e].at = x
         /\ edits'[e].op = edits[e].op /\ edits'[e].seen = edits[e].seen
         /\ edits'[e].give = edits[e].give
  <1>2. edits[e] = [op |-> edits[e].op, pc |-> edits[e].pc, at |-> edits[e].at,
                    give |-> edits[e].give, seen |-> edits[e].seen]
    BY DEF EditsHaveFields
  <1>1. /\ edits'[e] = [[edits[e] EXCEPT !.pc = pc] EXCEPT !.at = x]
        /\ \A f \in Edit \ {e} : edits'[f] = edits[f]
        /\ edits' = [f \in Edit |-> edits'[f]] /\ disturbed' = disturbed
    BY DEF EditsHaveFields, Places
  <1>3. edits'[e] = [op |-> edits[e].op, pc |-> pc, at |-> x,
                     give |-> edits[e].give, seen |-> edits[e].seen]
    BY <1>1, <1>2
  <1> QED
    BY <1>1, <1>3 DEF StepOf, EditsHaveFields

\* or is over.
LEMMA EndsIdle ==
  ASSUME EditsHaveFields, NEW e \in Edit, edits' = [edits EXCEPT ![e] = Idle]
  PROVE  /\ EditsHaveFields' /\ \A f \in Edit \ {e} : edits'[f] = edits[f]
         /\ edits'[e].pc = "idle" /\ edits'[e].op = "none"
  BY DEF EditsHaveFields, Idle

\* What a PATCH may give makes a rule of a rule.
LEMMA PatchedIsRule ==
  ASSUME NEW r \in Rule, NEW give \in RulePatch
  PROVE  Patched(r, give) \in Rule
  <1>1. DOMAIN r = {"trigger", "conditions", "enabled"}
    BY DEF Rule
  <1>2. r.trigger \in Kind /\ r.conditions \in Kind /\ r.enabled \in BOOLEAN
    BY DEF Rule
  <1> DEFINE p == Patched(r, give)
  <1>3. p = [x \in {"trigger", "conditions", "enabled"} |->
                IF x \in DOMAIN give THEN give[x] ELSE r[x]]
    BY <1>1 DEF Patched
  <1>4. /\ "trigger" \in DOMAIN give => give["trigger"] \in Kind
        /\ "conditions" \in DOMAIN give => give["conditions"] \in Kind
        /\ "enabled" \notin DOMAIN give
    <2>1. CASE \E k, c \in Kind : give = [trigger |-> k, conditions |-> c]
      BY <2>1
    <2>2. CASE \E c \in Kind : give = [conditions |-> c]
      BY <2>2
    <2>3. CASE \E k \in Kind : give = [trigger |-> k]
      BY <2>3
    <2> QED
      BY <2>1, <2>2, <2>3 DEF RulePatch
  <1>5. p["trigger"] \in Kind /\ p["conditions"] \in Kind /\ p["enabled"] \in BOOLEAN
    BY <1>2, <1>3, <1>4
  <1>6. p = [trigger |-> p["trigger"], conditions |-> p["conditions"], enabled |-> p["enabled"]]
    BY <1>3
  <1> QED
    BY <1>5, <1>6 DEF Rule

\* A row that is alike but for the toggle is the rule once toggled.
LEMMA PatchedIsAlike ==
  ASSUME NEW r \in Rule, NEW q \in Rule, Alike(r, q)
  PROVE  Patched(r, [enabled |-> q.enabled]) = q
  <1>1. /\ r = [trigger |-> r.trigger, conditions |-> r.conditions, enabled |-> r.enabled]
        /\ q = [trigger |-> q.trigger, conditions |-> q.conditions, enabled |-> q.enabled]
    BY DEF Rule
  <1> DEFINE p == Patched(r, [enabled |-> q.enabled])
  <1>2. p = [x \in {"trigger", "conditions", "enabled"} |->
                IF x \in {"enabled"} THEN q.enabled ELSE r[x]]
    BY <1>1 DEF Patched
  <1>3. p = [trigger |-> r.trigger, conditions |-> r.conditions, enabled |-> q.enabled]
    BY <1>2
  <1> QED
    BY <1>1, <1>3 DEF Alike

\* Max, of a set that has one.
LEMMA MaxIs ==
  ASSUME NEW S, NEW n \in S, \A y \in S : n >= y,
         \A x \in S : (\A y \in S : x >= y) => x = n
  PROVE  Max(S) = n
  <1>1. \E x \in S : \A y \in S : x >= y
    OBVIOUS
  <1>2. Max(S) = CHOOSE x \in S : \A y \in S : x >= y
    BY Zenon DEF Max
  <1>3. Max(S) \in S /\ \A y \in S : Max(S) >= y
    BY <1>1, <1>2, Zenon
  <1> QED
    BY <1>3, Zenon

\* Versions that are numbered through: the highest is the last.
LEMMA HighestVersion ==
  ASSUME versions \in Seq(RuleVersion), Len(versions) >= 1,
         \A i \in 1 .. Len(versions) : versions[i].version = i
  PROVE  Max({versions[i].version : i \in DOMAIN versions}) = Len(versions)
  <1> DEFINE S == {versions[i].version : i \in DOMAIN versions}
  <1>1. S = 1 .. Len(versions) /\ Len(versions) \in Nat
    <2>1. DOMAIN versions = 1 .. Len(versions) /\ Len(versions) \in Nat
      OBVIOUS
    <2> QED
      BY <2>1
  <1> DEFINE n == Len(versions)
  <1>2. n \in 1 .. n /\ \A y \in 1 .. n : n >= y
    BY <1>1
  <1>3. ASSUME NEW x \in 1 .. n, \A y \in 1 .. n : x >= y
        PROVE  x = n
    <2>1. x >= n /\ x \in Nat /\ x <= n
      BY <1>1, <1>2, <1>3
    <2> QED
      BY <1>1, <2>1
  <1>4. Max(1 .. n) = n
    BY <1>2, <1>3, MaxIs, Zenon
  <1> QED
    BY <1>1, <1>4

\* The requests but e's are idle, unless requests overlapped.
LEMMA OthersIdle ==
  ASSUME OneBusy, ~disturbed, NEW e \in Edit, edits[e].pc # "idle",
         NEW f \in Edit, f # e
  PROVE  edits[f].pc = "idle"
  BY DEF OneBusy

\* One request stays the only one.
LEMMA BusyKeeps ==
  ASSUME OneBusy, NEW e \in Edit, edits[e].pc # "idle", disturbed => disturbed',
         \A f \in Edit \ {e} : edits'[f] = edits[f]
  PROVE  OneBusy'
  BY DEF OneBusy

\* The rule is left alone, and nothing of a PATCH is known but that it has begun or is over.
LEMMA RuleRests ==
  ASSUME RuleKept, NEW e \in Edit, disturbed => disturbed',
         \A f \in Edit \ {e} : edits'[f] = edits[f],
         rule' = rule, versions' = versions,
         ~disturbed' => ~Unversioned(e),
         edits'[e].op = "rulePatch" => edits'[e].pc = "read" /\ edits'[e].give \in RulePatch
  PROVE  RuleKept'
  <1> SUFFICES ASSUME ~disturbed'
               PROVE  /\ RuleStored'
                      /\ (\A f \in Edit : ~Unversioned(f)') => LastIsRule'
                      /\ \A f \in Edit : PatchPlace(f)'
    BY DEF RuleKept
  <1>1. /\ RuleStored /\ \A f \in Edit : PatchPlace(f)
        /\ (\A f \in Edit : ~Unversioned(f)) => LastIsRule
    BY DEF RuleKept
  <1>2. RuleStored'
    BY <1>1 DEF RuleStored, Sound
  <1>3. ASSUME \A f \in Edit : ~Unversioned(f)'
        PROVE  LastIsRule'
    <2>1. \A f \in Edit : ~Unversioned(f)
      BY <1>3 DEF Unversioned
    <2> QED
      BY <1>1, <2>1 DEF LastIsRule, Alike
  <1>4. ASSUME NEW f \in Edit
        PROVE  PatchPlace(f)'
    <2>1. CASE f = e
      BY <2>1 DEF PatchPlace
    <2>2. CASE f # e
      BY <1>1, <2>2 DEF PatchPlace, AcceptsPatch, Alike, Sound, Patched
    <2> QED
      BY <2>1, <2>2
  <1> QED
    BY <1>2, <1>3, <1>4

\* A step of the only PATCH.
LEMMA PatchSteps ==
  ASSUME RuleKept, OneBusy, NEW e \in Edit, edits[e].pc # "idle", disturbed' = disturbed,
         \A f \in Edit \ {e} : edits'[f] = edits[f],
         ~disturbed => RuleStored' /\ PatchPlace(e)' /\ (~Unversioned(e)' => LastIsRule')
  PROVE  RuleKept'
  <1> SUFFICES ASSUME ~disturbed
               PROVE  \A f \in Edit : PatchPlace(f)'
    BY DEF RuleKept
  <1> SUFFICES ASSUME NEW f \in Edit, f # e
               PROVE  PatchPlace(f)'
    OBVIOUS
  <1>1. edits'[f] = edits[f] /\ edits[f].pc = "idle"
    BY OthersIdle
  <1>2. PatchPlace(f)
    BY DEF RuleKept
  <1> QED
    BY <1>1, <1>2 DEF PatchPlace

\* Principals are left alone, and so is what a request has seen of them.
LEMMA RowsRest ==
  ASSUME PrincipalsKept, NEW e \in Edit, disturbed => disturbed',
         \A f \in Edit \ {e} : edits'[f] = edits[f],
         principals' = principals, audited' = audited, joined' = joined,
         ~disturbed' => ~Unaudited(e),
         edits'[e].op \in {"principalCreate", "principalRole", "principalMove"} =>
            /\ edits'[e].give \in Principal /\ edits'[e].pc # "audit"
            /\ edits'[e].op # "principalCreate" => edits'[e].at \in 1 .. Len(principals)
            /\ edits'[e].op = "principalCreate" /\ edits'[e].pc = "write" =>
                  \A i \in 1 .. Len(principals) : principals[i].scope # edits'[e].give.scope
  PROVE  PrincipalsKept'
  <1>1. RowsStored' /\ (~disturbed' => OneForAll')
    BY DEF PrincipalsKept, RowsStored, Alone, OneForAll
  <1>2. ASSUME NEW f \in Edit
        PROVE  RowPlace(f)' /\ (~disturbed' => RolePlace(f)')
    <2>1. CASE f = e
      BY <2>1 DEF RowPlace, RolePlace, OfPrincipals, Unaudited
    <2>2. CASE f # e
      BY <2>2 DEF PrincipalsKept, RowPlace, RolePlace, OfPrincipals, Unaudited
    <2> QED
      BY <2>1, <2>2
  <1>3. ASSUME ~disturbed'
        PROVE  RolesAudited'
    <2> SUFFICES ASSUME NEW i \in 1 .. Len(principals),
                        \A f \in Edit : Unaudited(f)' => edits'[f].at # i
                 PROVE  audited[i] = principals[i].role
      BY DEF RolesAudited
    <2>1. \A f \in Edit : Unaudited(f) => edits[f].at # i
      BY <1>3 DEF Unaudited, OfPrincipals
    <2> QED
      BY <1>3, <2>1 DEF PrincipalsKept, RolesAudited
  <1> QED
    BY <1>1, <1>2, <1>3 DEF PrincipalsKept

\* A step of the request that may touch the principals: the others keep their rows, and if
\* none overlapped they are idle.
LEMMA RowSteps ==
  ASSUME PrincipalsKept, OneBusy, NEW e \in Edit, edits[e].pc # "idle", disturbed' = disturbed,
         \A f \in Edit \ {e} : edits'[f] = edits[f],
         RowsStored', Len(principals') >= Len(principals), RowPlace(e)',
         ~disturbed => OneForAll' /\ RolesAudited' /\ RolePlace(e)'
  PROVE  PrincipalsKept'
  <1>1. Len(principals) \in Nat /\ Len(principals') \in Nat
    BY DEF PrincipalsKept, RowsStored
  <1>2. ASSUME NEW f \in Edit, f # e
        PROVE  RowPlace(f)' /\ (~disturbed => RolePlace(f)')
    <2>1. edits'[f] = edits[f] /\ RowPlace(f)
      BY <1>2 DEF PrincipalsKept
    <2>2. RowPlace(f)'
      <3>1. ASSUME edits[f].at \in 1 .. Len(principals)
            PROVE  edits[f].at \in 1 .. Len(principals')
        BY <1>1, <3>1
      <3> QED
        BY <2>1, <3>1 DEF RowPlace, OfPrincipals
    <2>3. ASSUME ~disturbed
          PROVE  RolePlace(f)'
      <3>1. edits[f].pc = "idle"
        BY <1>2, <2>3, OthersIdle
      <3> QED
        BY <2>1, <3>1 DEF RolePlace, Unaudited
    <2> QED
      BY <2>2, <2>3
  <1> QED
    BY <1>2 DEF PrincipalsKept

\* The row of the thread is left alone.
LEMMA PatchRests ==
  ASSUME PatchStays, UNCHANGED threadVars
  PROVE  PatchStays'
  BY DEF PatchStays, threadVars

\* A request that goes on, or ends, without a row of the rules or the principals: it is one
\* of the threads', or one of the others that has only read.
LEMMA AsideKeeps ==
  ASSUME AdminInv, NEW e \in Edit, edits[e].pc # "idle", disturbed => disturbed',
         EditsHaveFields', \A f \in Edit \ {e} : edits'[f] = edits[f],
         UNCHANGED <<ruleVars, principalVars>>, PatchStays',
         ~disturbed' => ~Unversioned(e) /\ ~Unaudited(e),
         edits'[e].op = "rulePatch" => edits'[e].pc = "read" /\ edits'[e].give \in RulePatch,
         edits'[e].op \in {"principalCreate", "principalRole", "principalMove"} =>
            /\ edits'[e].give \in Principal /\ edits'[e].pc # "audit"
            /\ edits'[e].op # "principalCreate" => edits'[e].at \in 1 .. Len(principals)
            /\ edits'[e].op = "principalCreate" /\ edits'[e].pc = "write" =>
                  \A i \in 1 .. Len(principals) : principals[i].scope # edits'[e].give.scope
  PROVE  AdminInv'
  <1>1. OneBusy'
    BY BusyKeeps DEF AdminInv
  <1>2. /\ rule' = rule /\ versions' = versions /\ principals' = principals
        /\ audited' = audited /\ joined' = joined
    BY DEF ruleVars, principalVars
  <1>3. RuleKept'
    BY <1>2, RuleRests DEF AdminInv
  <1>4. PrincipalsKept'
    BY <1>2, RowsRest DEF AdminInv
  <1> QED
    BY <1>1, <1>3, <1>4 DEF AdminInv

\* A step of a PATCH of the rule.
LEMMA RuleStepKeeps ==
  ASSUME AdminInv, NEW e \in Edit, edits[e].pc # "idle", StepOf(e),
         edits[e].op = "rulePatch", edits'[e].op \in {"rulePatch", "none"},
         UNCHANGED <<principalVars, threadVars>>,
         ~disturbed => RuleStored' /\ PatchPlace(e)' /\ (~Unversioned(e)' => LastIsRule')
  PROVE  AdminInv'
  <1>1. OneBusy' /\ RuleKept'
    BY BusyKeeps, PatchSteps DEF AdminInv, StepOf
  <1>2. principals' = principals /\ audited' = audited /\ joined' = joined
    BY DEF principalVars
  <1>3. PrincipalsKept'
    BY <1>2, RowsRest DEF AdminInv, StepOf, Unaudited, OfPrincipals
  <1> QED
    BY <1>1, <1>3, PatchRests DEF AdminInv, StepOf

\* A step of a request for a principal.
LEMMA RowStepKeeps ==
  ASSUME AdminInv, NEW e \in Edit, edits[e].pc # "idle", StepOf(e),
         OfPrincipals(e), edits'[e].op # "rulePatch",
         UNCHANGED <<ruleVars, threadVars>>,
         RowsStored', Len(principals') >= Len(principals), RowPlace(e)',
         ~disturbed => OneForAll' /\ RolesAudited' /\ RolePlace(e)'
  PROVE  AdminInv'
  <1>1. OneBusy' /\ PrincipalsKept'
    BY BusyKeeps, RowSteps DEF AdminInv, StepOf
  <1>2. rule' = rule /\ versions' = versions
    BY DEF ruleVars
  <1>3. RuleKept'
    BY <1>2, RuleRests DEF AdminInv, StepOf, Unversioned, OfPrincipals
  <1> QED
    BY <1>1, <1>3, PatchRests DEF AdminInv, StepOf

\* A request ends where it has written nothing that is to be followed.
LEMMA EndKeepsRecords ==
  ASSUME AdminInv, NEW e \in Edit, edits[e].pc # "idle", Ends(e), PatchStays',
         UNCHANGED <<ruleVars, principalVars>>, ~Unversioned(e), ~Unaudited(e)
  PROVE  AdminInv'
  <1>1. /\ EditsHaveFields' /\ \A f \in Edit \ {e} : edits'[f] = edits[f]
        /\ edits'[e].op = "none" /\ disturbed' = disturbed
    BY EndsIdle DEF Ends, AdminInv
  <1> QED
    BY <1>1, AsideKeeps

-----------------------------------------------------------------------------
\* The rows of the rule.

\* The PATCH reads the row and validates.
LEMMA RuleReadsKeeps ==
  ASSUME AdminInv, NEW e \in Edit, RuleReads(e) PROVE AdminInv'
  <1>1. edits[e].op = "rulePatch" /\ edits[e].pc = "read"
    BY DEF RuleReads, EditAt
  <1>2. CASE AcceptsPatch(rule, edits[e].give) /\ Steps(e, "write")
    <2>1. /\ StepOf(e) /\ edits'[e].pc = "write" /\ edits'[e].op = "rulePatch"
          /\ edits'[e].give = edits[e].give
      BY <1>1, <1>2, StepsMove DEF AdminInv
    <2>2. /\ rule' = rule /\ versions' = versions /\ UNCHANGED <<principalVars, threadVars>>
      BY DEF RuleReads, ruleVars
    <2>3. ASSUME ~disturbed
          PROVE  RuleStored' /\ PatchPlace(e)' /\ LastIsRule'
      <3>1. RuleStored /\ PatchPlace(e)
        BY <2>3 DEF AdminInv, RuleKept
      <3>2. \A f \in Edit : ~Unversioned(f)
        BY <1>1, <2>3, OthersIdle DEF AdminInv, Unversioned
      <3>3. LastIsRule
        BY <2>3, <3>2 DEF AdminInv, RuleKept
      <3>4. AcceptsPatch(rule, edits[e].give)'
        BY <1>2, <2>1, <2>2 DEF AcceptsPatch, Sound, Patched
      <3> QED
        BY <1>1, <2>1, <2>2, <3>1, <3>3, <3>4 DEF RuleStored, Sound, PatchPlace, LastIsRule, Alike
    <2> QED
      BY <1>1, <2>1, <2>2, <2>3, RuleStepKeeps
  <1>3. CASE Ends(e)
    BY <1>1, <1>3, EndKeepsRecords, PatchRests
       DEF RuleReads, Unversioned, Unaudited, OfPrincipals, AdminInv
  <1> QED
    BY <1>2, <1>3 DEF RuleReads

\* It writes what it has validated.
LEMMA RuleWritesKeeps ==
  ASSUME AdminInv, NEW e \in Edit, RuleWrites(e) PROVE AdminInv'
  <1>1. /\ edits[e].op = "rulePatch" /\ edits[e].pc = "write"
        /\ rule' = Patched(rule, edits[e].give)
        /\ versions' = versions /\ UNCHANGED <<principalVars, threadVars>> /\ Steps(e, "reread")
    BY DEF RuleWrites, EditAt
  <1>2. /\ StepOf(e) /\ edits'[e].pc = "reread" /\ edits'[e].op = "rulePatch"
        /\ edits'[e].give = edits[e].give
    BY <1>1, StepsMove DEF AdminInv
  <1>3. ASSUME ~disturbed
        PROVE  RuleStored' /\ PatchPlace(e)' /\ Unversioned(e)'
    <2>1. RuleStored /\ PatchPlace(e)
      BY <1>3 DEF AdminInv, RuleKept
    <2>2. edits[e].give \in RulePatch /\ AcceptsPatch(rule, edits[e].give)
      BY <1>1, <2>1 DEF PatchPlace
    <2>3. rule' \in Rule /\ Sound(rule')
      BY <1>1, <2>1, <2>2, PatchedIsRule DEF RuleStored, AcceptsPatch
    <2> QED
      BY <1>1, <1>2, <2>1, <2>2, <2>3 DEF RuleStored, PatchPlace, Unversioned, Sound
  <1> QED
    BY <1>1, <1>2, <1>3, RuleStepKeeps

\* It reads the row again, for the version.
LEMMA RuleRereadsKeeps ==
  ASSUME AdminInv, NEW e \in Edit, RuleRereads(e) PROVE AdminInv'
  <1>1. /\ edits[e].op = "rulePatch" /\ edits[e].pc = "reread" /\ Sees(e, "number", rule)
        /\ rule' = rule /\ versions' = versions /\ UNCHANGED <<principalVars, threadVars>>
    BY DEF RuleRereads, EditAt, ruleVars
  <1>2. /\ StepOf(e) /\ edits'[e].pc = "number" /\ edits'[e].op = "rulePatch"
        /\ edits'[e].give = edits[e].give /\ edits'[e].seen = rule
    BY <1>1, SeesMoves DEF AdminInv
  <1>3. ASSUME ~disturbed
        PROVE  RuleStored' /\ PatchPlace(e)' /\ Unversioned(e)'
    <2>1. RuleStored /\ PatchPlace(e)
      BY <1>3 DEF AdminInv, RuleKept
    <2> QED
      BY <1>1, <1>2, <2>1 DEF RuleStored, PatchPlace, Unversioned, Sound, Alike
  <1> QED
    BY <1>1, <1>2, <1>3, RuleStepKeeps

\* It takes the next number.
LEMMA RuleNumbersKeeps ==
  ASSUME AdminInv, NEW e \in Edit, RuleNumbers(e) PROVE AdminInv'
  <1> DEFINE n == Max({versions[i].version : i \in DOMAIN versions}) + 1
  <1>1. /\ edits[e].op = "rulePatch" /\ edits[e].pc = "number" /\ Places(e, "version", n)
        /\ rule' = rule /\ versions' = versions /\ UNCHANGED <<principalVars, threadVars>>
    BY DEF RuleNumbers, EditAt, ruleVars, Places
  <1> HIDE DEF n
  <1>2. /\ StepOf(e) /\ edits'[e].pc = "version" /\ edits'[e].op = "rulePatch"
        /\ edits'[e].give = edits[e].give /\ edits'[e].seen = edits[e].seen /\ edits'[e].at = n
    BY <1>1, TakesPlace DEF AdminInv
  <1>3. ASSUME ~disturbed
        PROVE  RuleStored' /\ PatchPlace(e)' /\ Unversioned(e)'
    <2>1. RuleStored /\ PatchPlace(e)
      BY <1>3 DEF AdminInv, RuleKept
    <2>2. n = Len(versions) + 1
      BY <2>1, HighestVersion DEF RuleStored, n
    <2> QED
      BY <1>1, <1>2, <2>1, <2>2 DEF RuleStored, PatchPlace, Unversioned, Sound, Alike
  <1> QED
    BY <1>1, <1>2, <1>3, RuleStepKeeps

\* It writes the version.
LEMMA RuleVersionsKeeps ==
  ASSUME AdminInv, NEW e \in Edit, RuleVersions(e) PROVE AdminInv'
  <1>1. /\ edits[e].op = "rulePatch" /\ edits[e].pc = "version" /\ Ends(e)
        /\ versions' = Append(versions, [version |-> edits[e].at, of |-> edits[e].seen])
        /\ rule' = rule /\ UNCHANGED <<principalVars, threadVars>>
    BY DEF RuleVersions, EditAt
  <1>2. StepOf(e) /\ edits'[e].pc = "idle" /\ edits'[e].op = "none"
    BY <1>1, EndsIdle DEF AdminInv, Ends, StepOf
  <1>3. ASSUME ~disturbed
        PROVE  RuleStored' /\ PatchPlace(e)' /\ LastIsRule'
    <2>1. RuleStored /\ PatchPlace(e)
      BY <1>3 DEF AdminInv, RuleKept
    <2> DEFINE v == [version |-> edits[e].at, of |-> edits[e].seen]
    <2>2. edits[e].seen \in Rule /\ Alike(edits[e].seen, rule) /\ edits[e].at = Len(versions) + 1
      BY <1>1, <2>1 DEF PatchPlace
    <2>3. Len(versions) \in Nat /\ versions \in Seq(RuleVersion)
      BY <2>1 DEF RuleStored
    <2>4. v \in RuleVersion /\ v.of = edits[e].seen /\ v.version = Len(versions) + 1
      BY <2>2, <2>3 DEF RuleVersion
    <2> HIDE DEF v
    <2>5. /\ versions' \in Seq(RuleVersion) /\ Len(versions') = Len(versions) + 1
          /\ versions'[Len(versions) + 1] = v
          /\ \A i \in 1 .. Len(versions) : versions'[i] = versions[i]
      BY <1>1, <2>3, <2>4 DEF v
    <2>6. \A i \in 1 .. Len(versions') : versions'[i].version = i
      BY <2>1, <2>3, <2>4, <2>5 DEF RuleStored
    <2>7. LastIsRule'
      BY <1>1, <2>2, <2>4, <2>5 DEF LastIsRule, Alike
    <2> QED
      BY <1>1, <1>2, <2>1, <2>3, <2>5, <2>6, <2>7 DEF RuleStored, PatchPlace, Sound
  <1> QED
    BY <1>1, <1>2, <1>3, RuleStepKeeps

\* The toggle is a statement of its own, beside a PATCH, too.
LEMMA RuleTogglesKeeps ==
  ASSUME AdminInv, NEW e \in Edit, NEW on \in BOOLEAN, RuleToggles(e, on) PROVE AdminInv'
  <1>1. /\ rule' = [rule EXCEPT !.enabled = on] /\ versions' = versions /\ edits' = edits
        /\ disturbed' = disturbed /\ principals' = principals /\ audited' = audited
        /\ joined' = joined /\ UNCHANGED threadVars
    BY DEF RuleToggles, principalVars
  <1>2. EditsHaveFields' /\ OneBusy' /\ PatchStays'
    BY <1>1, PatchRests DEF AdminInv, EditsHaveFields, OneBusy
  <1>3. PrincipalsKept'
    BY <1>1 DEF AdminInv, PrincipalsKept, RowsStored, OneForAll, Alone, RowPlace, RolePlace,
                RolesAudited, OfPrincipals, Unaudited
  <1>4. ASSUME ~disturbed
        PROVE  /\ RuleStored' /\ ((\A f \in Edit : ~Unversioned(f)') => LastIsRule')
               /\ \A f \in Edit : PatchPlace(f)'
    <2>1. /\ RuleStored /\ \A f \in Edit : PatchPlace(f)
          /\ (\A f \in Edit : ~Unversioned(f)) => LastIsRule
      BY <1>4 DEF AdminInv, RuleKept
    <2>2. /\ rule' \in Rule /\ rule'.trigger = rule.trigger /\ rule'.conditions = rule.conditions
      BY <1>1, <2>1 DEF RuleStored, Rule
    <2>3. RuleStored'
      BY <1>1, <2>1, <2>2 DEF RuleStored, Sound
    <2>4. (\A f \in Edit : ~Unversioned(f)') => LastIsRule'
      BY <1>1, <2>1, <2>2 DEF LastIsRule, Alike, Unversioned
    <2>5. ASSUME NEW f \in Edit
          PROVE  PatchPlace(f)'
      <3>1. ASSUME NEW give \in RulePatch, AcceptsPatch(rule, give)
            PROVE  AcceptsPatch(rule', give)
        <4>1. \A x \in {"trigger", "conditions"} : rule'[x] = rule[x]
          BY <2>2
        <4>2. DOMAIN rule' = DOMAIN rule /\ {"trigger", "conditions"} \subseteq DOMAIN rule
          BY <2>1, <2>2 DEF RuleStored, Rule
        <4>3. \A x \in {"trigger", "conditions"} : Patched(rule', give)[x] = Patched(rule, give)[x]
          BY <4>1, <4>2 DEF Patched
        <4> QED
          BY <3>1, <4>3 DEF AcceptsPatch, Sound
      <3> QED
        BY <1>1, <2>1, <2>2, <3>1 DEF PatchPlace, Alike
    <2> QED
      BY <2>3, <2>4, <2>5
  <1> QED
    BY <1>2, <1>3, <1>4, <1>1 DEF AdminInv, RuleKept

-----------------------------------------------------------------------------
\* The rows of the principals.

\* A creation looks for a row.
LEMMA PrincipalReadsKeeps ==
  ASSUME AdminInv, NEW e \in Edit, PrincipalReads(e) PROVE AdminInv'
  <1>1. edits[e].op = "principalCreate" /\ edits[e].pc = "read"
    BY DEF PrincipalReads, EditAt
  <1>2. PatchStays' /\ UNCHANGED <<ruleVars, principalVars>>
    BY PatchRests DEF PrincipalReads, AdminInv
  <1>3. CASE MayCreate(edits[e].give.scope) /\ Steps(e, "write")
    <2>1. /\ StepOf(e) /\ edits'[e].pc = "write" /\ edits'[e].op = "principalCreate"
          /\ edits'[e].give = edits[e].give
      BY <1>1, <1>3, StepsMove DEF AdminInv
    <2>2. edits[e].give \in Principal /\ principals \in Seq(Principal)
      BY <1>1 DEF AdminInv, PrincipalsKept, RowPlace, RowsStored, OfPrincipals
    <2>3. \A i \in 1 .. Len(principals) : principals[i].scope # edits[e].give.scope
      BY <1>3, <2>2 DEF MayCreate, Rows
    <2> QED
      BY <1>1, <1>2, <2>1, <2>2, <2>3, AsideKeeps DEF StepOf, Unversioned, Unaudited
  <1>4. CASE Ends(e)
    BY <1>1, <1>2, <1>4, EndKeepsRecords DEF Unversioned, Unaudited
  <1> QED
    BY <1>3, <1>4 DEF PrincipalReads

\* It inserts its own, or the table refuses it.
LEMMA PrincipalInsertsKeeps ==
  ASSUME AdminInv, NEW e \in Edit, PrincipalInserts(e) PROVE AdminInv'
  <1> DEFINE give == edits[e].give
             n == Len(principals) + 1
  <1>1. /\ edits[e].op = "principalCreate" /\ edits[e].pc = "write"
        /\ UNCHANGED <<ruleVars, threadVars>>
    BY DEF PrincipalInserts, EditAt
  <1>2. /\ give \in Principal /\ RowsStored /\ OneBusy
        /\ principals \in Seq(Principal) /\ Len(principals) \in Nat
        /\ audited \in Seq(Role \cup {NoRow}) /\ Len(audited) = Len(principals)
    BY <1>1 DEF AdminInv, PrincipalsKept, RowPlace, RowsStored, OfPrincipals
  <1>3. CASE Violates(give.scope, 0)
    <2>1. Ends(e) /\ UNCHANGED principalVars
      BY <1>3 DEF PrincipalInserts
    <2> QED
      BY <1>1, <2>1, EndKeepsRecords, PatchRests DEF Unversioned, Unaudited, AdminInv
  <1>4. CASE ~Violates(give.scope, 0)
    <2>1. /\ principals' = Append(principals, give) /\ audited' = Append(audited, NoRow)
          /\ Places(e, "audit", n) /\ joined' = joined
      BY <1>4 DEF PrincipalInserts, Places
    <2>2. /\ StepOf(e) /\ edits'[e].pc = "audit" /\ edits'[e].at = n
          /\ edits'[e].op = "principalCreate" /\ edits'[e].give = give
      BY <1>1, <2>1, TakesPlace DEF AdminInv
    <2>3. /\ principals' \in Seq(Principal) /\ Len(principals') = n
          /\ audited' \in Seq(Role \cup {NoRow}) /\ Len(audited') = n
          /\ principals'[n] = give
          /\ \A i \in 1 .. Len(principals) :
                principals'[i] = principals[i] /\ audited'[i] = audited[i]
      BY <1>2, <2>1
    <2>4. ASSUME give.scope = "thread"
          PROVE  \A i \in 1 .. Len(principals) : principals[i].scope # "thread"
      <3>1. Rows("thread") \ {0} = {}
        BY <1>4, <2>4 DEF Violates
      <3>2. \A i \in 1 .. Len(principals) : i \in DOMAIN principals /\ i # 0
        BY <1>2
      <3> QED
        BY <3>1, <3>2 DEF Rows
    <2>5. ASSUME ~disturbed
          PROVE  /\ \A i \in 1 .. Len(principals) : principals[i].scope # give.scope
                 /\ OneForAll /\ RolesAudited
      BY <1>1, <2>5 DEF AdminInv, PrincipalsKept, RolePlace
    <2>6. ASSUME NEW scope, Alone(scope),
                 give.scope = scope => \A i \in 1 .. Len(principals) : principals[i].scope # scope
          PROVE  Alone(scope)'
      <3> SUFFICES ASSUME NEW i \in 1 .. n, NEW j \in 1 .. n,
                          principals'[i].scope = scope, principals'[j].scope = scope
                   PROVE  i = j
        BY <2>3 DEF Alone
      <3>1. CASE i = n \/ j = n
        BY <1>2, <2>3, <2>6, <3>1
      <3>2. CASE i # n /\ j # n
        <4>1. i \in 1 .. Len(principals) /\ j \in 1 .. Len(principals)
          BY <1>2, <3>2
        <4> QED
          BY <2>3, <2>6, <4>1 DEF Alone
      <3> QED
        BY <3>1, <3>2
    <2>7. RowsStored'
      BY <1>2, <2>3, <2>4, <2>6 DEF RowsStored
    <2>8. RowPlace(e)'
      BY <1>2, <2>2, <2>3 DEF RowPlace
    <2>9. ASSUME ~disturbed
          PROVE  OneForAll' /\ RolesAudited' /\ RolePlace(e)'
      <3>1. OneForAll'
        <4>1. CASE joined
          BY <2>1, <4>1 DEF OneForAll
        <4>2. CASE Alone("global")
          BY <2>5, <2>6, <2>9, <4>2 DEF OneForAll
        <4> QED
          BY <2>5, <2>9, <4>1, <4>2 DEF OneForAll
      <3>2. RolePlace(e)'
        BY <2>2, <2>3 DEF RolePlace
      <3>3. RolesAudited'
        <4> SUFFICES ASSUME NEW i \in 1 .. n, i # n
                     PROVE  audited'[i] = principals'[i].role
          BY <2>2, <2>3 DEF RolesAudited, Unaudited, OfPrincipals
        <4>1. i \in 1 .. Len(principals)
          BY <1>2
        <4>2. \A f \in Edit : ~Unaudited(f)
          BY <1>1, <1>2, <2>9, OthersIdle DEF Unaudited
        <4>3. audited[i] = principals[i].role
          BY <2>5, <2>9, <4>1, <4>2 DEF RolesAudited
        <4> QED
          BY <2>3, <4>1, <4>3
      <3> QED
        BY <3>1, <3>2, <3>3
    <2>10. Len(principals') >= Len(principals)
      BY <1>2, <2>3
    <2> QED
      BY <1>1, <2>2, <2>7, <2>8, <2>9, <2>10, RowStepKeeps DEF OfPrincipals
  <1> QED
    BY <1>3, <1>4

\* A change of the role or the thread reads the row.
LEMMA RowReadsKeeps ==
  ASSUME AdminInv, NEW e \in Edit, RowReads(e) PROVE AdminInv'
  <1>1. /\ edits[e].op \in {"principalRole", "principalMove"} /\ edits[e].pc = "read"
        /\ Steps(e, "write") /\ UNCHANGED <<ruleVars, principalVars, threadVars>>
    BY DEF RowReads, EditAt
  <1>2. /\ StepOf(e) /\ edits'[e].pc = "write" /\ edits'[e].op = edits[e].op
        /\ edits'[e].give = edits[e].give /\ edits'[e].at = edits[e].at
    BY <1>1, StepsMove DEF AdminInv
  <1>3. edits[e].give \in Principal /\ edits[e].at \in 1 .. Len(principals)
    BY <1>1 DEF AdminInv, PrincipalsKept, RowPlace, OfPrincipals
  <1> QED
    BY <1>1, <1>2, <1>3, AsideKeeps, PatchRests
       DEF StepOf, Unversioned, Unaudited, AdminInv

\* It writes the field.
LEMMA RoleWritesKeeps ==
  ASSUME AdminInv, NEW e \in Edit, RoleWrites(e) PROVE AdminInv'
  <1> DEFINE at == edits[e].at
             role == edits[e].give.role
  <1>1. /\ edits[e].op = "principalRole" /\ edits[e].pc = "write" /\ Steps(e, "audit")
        /\ principals' = [principals EXCEPT ![at].role = role] /\ audited' = audited
        /\ joined' = joined /\ UNCHANGED <<ruleVars, threadVars>>
    BY DEF RoleWrites, EditAt
  <1>2. /\ StepOf(e) /\ edits'[e].pc = "audit" /\ edits'[e].op = "principalRole"
        /\ edits'[e].give = edits[e].give /\ edits'[e].at = at
    BY <1>1, StepsMove DEF AdminInv
  <1>3. /\ edits[e].give \in Principal /\ at \in 1 .. Len(principals) /\ OneBusy /\ RowsStored
        /\ principals \in Seq(Principal) /\ Len(principals) \in Nat
    BY <1>1 DEF AdminInv, PrincipalsKept, RowPlace, RowsStored, OfPrincipals
  <1> DEFINE row == [principals[at] EXCEPT !.role = role]
  <1>4. principals[at] \in Principal
    BY <1>3
  <1>5. row \in Principal /\ row.role = role /\ row.scope = principals[at].scope
    BY <1>3, <1>4 DEF Principal
  <1>6. principals' = [principals EXCEPT ![at] = row]
    BY <1>1
  <1> HIDE DEF row
  <1>7. /\ principals'[at] = row
        /\ \A i \in 1 .. Len(principals) : i # at => principals'[i] = principals[i]
        /\ Len(principals') = Len(principals) /\ principals' \in Seq(Principal)
    BY <1>3, <1>5, <1>6
  <1>8. \A i \in 1 .. Len(principals) : principals'[i].scope = principals[i].scope
    BY <1>5, <1>7
  <1>9. \A scope : Alone(scope) => Alone(scope)'
    BY <1>7, <1>8 DEF Alone
  <1>10. RowsStored'
    BY <1>1, <1>3, <1>7, <1>9 DEF RowsStored
  <1>11. RowPlace(e)'
    BY <1>2, <1>3, <1>7 DEF RowPlace
  <1>12. ASSUME ~disturbed
         PROVE  OneForAll' /\ RolesAudited' /\ RolePlace(e)'
    <2>1. RolePlace(e)'
      BY <1>2, <1>5, <1>7 DEF RolePlace
    <2>2. OneForAll /\ RolesAudited
      BY <1>12 DEF AdminInv, PrincipalsKept
    <2>3. \A f \in Edit : ~Unaudited(f)
      BY <1>1, <1>3, <1>12, OthersIdle DEF Unaudited
    <2>4. RolesAudited'
      <3> SUFFICES ASSUME NEW i \in 1 .. Len(principals), i # at
                   PROVE  audited'[i] = principals'[i].role
        BY <1>2, <1>5, <1>7 DEF RolesAudited, Unaudited, OfPrincipals
      <3> QED
        BY <1>1, <1>7, <2>2, <2>3 DEF RolesAudited
    <2> QED
      BY <1>1, <1>9, <2>1, <2>2, <2>4 DEF OneForAll
  <1>13. Len(principals') >= Len(principals)
    BY <1>3, <1>7
  <1> QED
    BY <1>1, <1>2, <1>10, <1>11, <1>12, <1>13, RowStepKeeps DEF OfPrincipals

\* It moves the row, where the table does not refuse: beside one of the thread.
LEMMA MoveWritesKeeps ==
  ASSUME AdminInv, NEW e \in Edit, MoveWrites(e) PROVE AdminInv'
  <1> DEFINE at == edits[e].at
             scope == edits[e].give.scope
  <1>1. /\ edits[e].op = "principalMove" /\ edits[e].pc = "write"
        /\ UNCHANGED <<ruleVars, threadVars>>
    BY DEF MoveWrites, EditAt
  <1>2. CASE Violates(scope, at)
    <2>1. Ends(e) /\ UNCHANGED principalVars
      BY <1>2 DEF MoveWrites
    <2> QED
      BY <1>1, <2>1, EndKeepsRecords, PatchRests DEF Unversioned, Unaudited, AdminInv
  <1>3. CASE ~Violates(scope, at)
    <2>1. /\ principals' = [principals EXCEPT ![at].scope = scope] /\ audited' = audited
          /\ joined' = (joined \/ (scope = "global" /\ Rows(scope) \ {at} # {}))
          /\ Steps(e, "audit")
      BY <1>3 DEF MoveWrites
    <2>2. /\ StepOf(e) /\ edits'[e].pc = "audit" /\ edits'[e].op = "principalMove"
          /\ edits'[e].give = edits[e].give /\ edits'[e].at = at
      BY <1>1, <2>1, StepsMove DEF AdminInv
    <2>3. /\ edits[e].give \in Principal /\ at \in 1 .. Len(principals) /\ OneBusy /\ RowsStored
          /\ principals \in Seq(Principal) /\ Len(principals) \in Nat
      BY <1>1 DEF AdminInv, PrincipalsKept, RowPlace, RowsStored, OfPrincipals
    <2> DEFINE row == [principals[at] EXCEPT !.scope = scope]
    <2>4. principals[at] \in Principal
      BY <2>3
    <2>5. row \in Principal /\ row.scope = scope /\ row.role = principals[at].role
      BY <2>3, <2>4 DEF Principal
    <2>6. principals' = [principals EXCEPT ![at] = row]
      BY <2>1
    <2> HIDE DEF row
    <2>7. /\ principals'[at] = row
          /\ \A i \in 1 .. Len(principals) : i # at => principals'[i] = principals[i]
          /\ Len(principals') = Len(principals) /\ principals' \in Seq(Principal)
      BY <2>3, <2>5, <2>6
    <2>8. \A i \in 1 .. Len(principals) : principals'[i].role = principals[i].role
      BY <2>5, <2>7
    <2>9. ASSUME NEW s, Alone(s), scope = s => Rows(s) \ {at} = {}
          PROVE  Alone(s)'
      <3>1. \A i \in 1 .. Len(principals) : i # at /\ scope = s => principals[i].scope # s
        BY <2>3, <2>9 DEF Rows
      <3> QED
        BY <2>5, <2>7, <2>9, <3>1 DEF Alone
    <2>10. RowsStored'
      <3>1. scope = "thread" => Rows("thread") \ {at} = {}
        BY <1>3 DEF Violates
      <3> QED
        BY <2>1, <2>3, <2>7, <2>9, <3>1 DEF RowsStored
    <2>11. RowPlace(e)'
      BY <2>2, <2>3, <2>7 DEF RowPlace
    <2>12. ASSUME ~disturbed
           PROVE  OneForAll' /\ RolesAudited' /\ RolePlace(e)'
      <3>1. OneForAll /\ RolesAudited
        BY <2>12 DEF AdminInv, PrincipalsKept
      <3>2. OneForAll'
        BY <2>1, <2>9, <3>1 DEF OneForAll
      <3>3. RolePlace(e)'
        BY <2>2 DEF RolePlace, Unaudited
      <3>4. \A f \in Edit : ~Unaudited(f)
        BY <1>1, <2>3, <2>12, OthersIdle DEF Unaudited
      <3>5. RolesAudited'
        BY <2>1, <2>7, <2>8, <3>1, <3>4 DEF RolesAudited
      <3> QED
        BY <3>2, <3>3, <3>5
    <2>13. Len(principals') >= Len(principals)
      BY <2>3, <2>7
    <2> QED
      BY <1>1, <2>2, <2>10, <2>11, <2>12, <2>13, RowStepKeeps DEF OfPrincipals
  <1> QED
    BY <1>2, <1>3

\* Its audit entry says nothing of a role.
LEMMA MoveAuditsKeeps ==
  ASSUME AdminInv, NEW e \in Edit, MoveAudits(e) PROVE AdminInv'
  BY EndKeepsRecords, PatchRests DEF MoveAudits, EditAt, Unversioned, Unaudited, AdminInv

\* The audit entry gives the row the role it has.
LEMMA PrincipalAuditsKeeps ==
  ASSUME AdminInv, NEW e \in Edit, PrincipalAudits(e) PROVE AdminInv'
  <1> DEFINE at == edits[e].at
             role == edits[e].give.role
  <1>1. /\ OfPrincipals(e) /\ Unaudited(e) /\ edits[e].pc = "audit" /\ Ends(e)
        /\ audited' = [audited EXCEPT ![at] = role] /\ principals' = principals
        /\ joined' = joined /\ UNCHANGED <<ruleVars, threadVars>>
    BY DEF PrincipalAudits, OfPrincipals, Unaudited
  <1>2. StepOf(e) /\ edits'[e].pc = "idle" /\ edits'[e].op = "none"
    BY <1>1, EndsIdle DEF AdminInv, Ends, StepOf
  <1>3. /\ edits[e].give \in Principal /\ at \in 1 .. Len(principals) /\ OneBusy /\ RowsStored
        /\ audited \in Seq(Role \cup {NoRow}) /\ Len(audited) = Len(principals)
        /\ Len(principals) \in Nat
    BY <1>1 DEF AdminInv, PrincipalsKept, RowPlace, RowsStored
  <1>4. role \in Role \cup {NoRow}
    BY <1>3 DEF Principal
  <1>5. /\ audited' \in Seq(Role \cup {NoRow}) /\ Len(audited') = Len(audited)
        /\ audited'[at] = role
        /\ \A i \in 1 .. Len(principals) : i # at => audited'[i] = audited[i]
    BY <1>1, <1>3, <1>4
  <1>6. RowsStored' /\ RowPlace(e)' /\ RolePlace(e)'
    BY <1>1, <1>2, <1>3, <1>5
       DEF RowsStored, Alone, RowPlace, RolePlace, OfPrincipals, Unaudited
  <1>7. ASSUME ~disturbed
        PROVE  OneForAll' /\ RolesAudited'
    <2>1. OneForAll /\ RolesAudited /\ RolePlace(e)
      BY <1>7 DEF AdminInv, PrincipalsKept
    <2>2. ASSUME NEW i \in 1 .. Len(principals)
          PROVE  audited'[i] = principals[i].role
      <3>1. CASE i = at
        BY <1>1, <1>5, <2>1, <3>1 DEF RolePlace, Unaudited
      <3>2. CASE i # at
        <4>1. \A f \in Edit : Unaudited(f) => f = e
          BY <1>1, <1>3, <1>7, OthersIdle DEF Unaudited
        <4> QED
          BY <1>5, <2>1, <3>2, <4>1 DEF RolesAudited
      <3> QED
        BY <3>1, <3>2
    <2> QED
      BY <1>1, <2>1, <2>2 DEF RolesAudited, OneForAll, Alone
  <1>8. Len(principals') >= Len(principals)
    BY <1>1, <1>3
  <1> QED
    BY <1>1, <1>2, <1>6, <1>7, <1>8, RowStepKeeps

-----------------------------------------------------------------------------
\* The rows of the threads, and how requests begin and are cut off.

\* A handler that found no row creates none over a PATCH.
LEMMA ThreadSteps ==
  ASSUME AdminInv, NEW e \in Edit, ThreadReads(e) \/ ThreadCreates(e) \/ ThreadPatches(e)
  PROVE  AdminInv'
  <1>1. /\ edits[e].op \in {"threadGet", "threadPatch"} /\ edits[e].pc # "idle"
        /\ UNCHANGED <<ruleVars, principalVars>>
        /\ Ends(e) \/ Steps(e, "write")
    BY DEF ThreadReads, ThreadCreates, ThreadPatches, EditAt
  <1>2. PatchStays'
    BY DEF ThreadReads, ThreadCreates, ThreadPatches, PatchStays, threadVars, AdminInv
  <1>3. CASE Ends(e)
    BY <1>1, <1>2, <1>3, EndKeepsRecords DEF Unversioned, Unaudited, OfPrincipals
  <1>4. CASE Steps(e, "write")
    <2>1. StepOf(e) /\ edits'[e].op = edits[e].op
      BY <1>4, StepsMove DEF AdminInv
    <2> QED
      BY <1>1, <1>2, <2>1, AsideKeeps DEF StepOf, Unversioned, Unaudited, OfPrincipals
  <1> QED
    BY <1>1, <1>3, <1>4

\* A request begins, alone or disturbing.
LEMMA BeginKeepsRecords ==
  ASSUME AdminInv, NEW e \in Edit, NEW where, NEW op, NEW at, NEW give,
         Begin(e, where, op, at, give),
         op = "rulePatch" => give \in RulePatch,
         op \in {"principalCreate", "principalRole", "principalMove"} => give \in Principal,
         op \in {"principalRole", "principalMove"} => at \in 1 .. Len(principals)
  PROVE  AdminInv'
  <1>1. /\ edits[e].pc = "idle" /\ disturbed' = (disturbed \/ Busy # {})
        /\ rule' = rule /\ versions' = versions /\ principals' = principals
        /\ audited' = audited /\ joined' = joined /\ UNCHANGED threadVars
    BY DEF Begin, ruleVars, principalVars
  <1>2. /\ \A f \in Edit \ {e} : edits'[f] = edits[f]
        /\ edits'[e] = [op |-> op, pc |-> "read", at |-> at, give |-> give, seen |-> NoRow]
        /\ EditsHaveFields'
    BY DEF Begin, AdminInv, EditsHaveFields
  <1>3. /\ edits'[e].op = op /\ edits'[e].pc = "read" /\ edits'[e].at = at
        /\ edits'[e].give = give
    BY <1>2
  <1>4. OneBusy'
    <2> SUFFICES ASSUME ~disturbed', NEW f \in Edit, NEW g \in Edit,
                        edits'[f].pc # "idle", edits'[g].pc # "idle"
                 PROVE  f = g
      BY DEF OneBusy
    <2>1. \A h \in Edit : edits[h].pc = "idle"
      BY <1>1 DEF Busy
    <2> QED
      BY <1>2, <2>1
  <1>5. RuleKept'
    BY <1>1, <1>2, <1>3, RuleRests DEF AdminInv, Unversioned
  <1>6. PrincipalsKept'
    BY <1>1, <1>2, <1>3, RowsRest DEF AdminInv, Unaudited
  <1>7. PatchStays'
    BY <1>1, PatchRests DEF AdminInv
  <1> QED
    BY <1>2, <1>4, <1>5, <1>6, <1>7 DEF AdminInv

\* A request is cut off: before it has written, nothing has happened.
LEMMA CutOffKeeps ==
  ASSUME AdminInv, NEW e \in Edit, CutOff(e) PROVE AdminInv'
  <1>1. /\ edits[e].pc # "idle" /\ edits' = [edits EXCEPT ![e] = Idle]
        /\ disturbed' = (disturbed \/ edits[e].pc \notin {"read", "write"})
        /\ UNCHANGED <<ruleVars, principalVars, threadVars>>
    BY DEF CutOff
  <1>2. /\ EditsHaveFields' /\ \A f \in Edit \ {e} : edits'[f] = edits[f]
        /\ edits'[e].op = "none"
    BY <1>1, EndsIdle DEF AdminInv
  <1>3. ~disturbed' => ~Unversioned(e) /\ ~Unaudited(e)
    BY <1>1 DEF Unversioned, Unaudited
  <1> QED
    BY <1>1, <1>2, <1>3, AsideKeeps, PatchRests DEF AdminInv

\* One rule with its first version, no principal, no row of a thread.
LEMMA AdminInitHolds == AdminInit => AdminInv
  <1> SUFFICES ASSUME AdminInit PROVE AdminInv
    OBVIOUS
  <1>1. \A e \in Edit : edits[e] = Idle
    BY DEF AdminInit
  <1>2. EditsHaveFields /\ OneBusy /\ \A e \in Edit : edits[e].op = "none" /\ edits[e].pc = "idle"
    BY <1>1 DEF AdminInit, EditsHaveFields, OneBusy, Idle
  <1>3. RuleKept
    <2>1. rule \in Rule /\ Sound(rule)
      BY DEF AdminInit, Rule, Kind, Sound
    <2> DEFINE v == [version |-> 1, of |-> rule]
    <2>2. v \in RuleVersion /\ v.version = 1 /\ v.of = rule
      BY <2>1 DEF RuleVersion
    <2>3. versions = <<v>>
      BY DEF AdminInit
    <2> HIDE DEF v
    <2>4. versions \in Seq(RuleVersion) /\ Len(versions) = 1 /\ versions[1] = v
      BY <2>2, <2>3
    <2>5. RuleStored /\ LastIsRule
      BY <2>1, <2>2, <2>4 DEF RuleStored, LastIsRule, Alike
    <2> QED
      BY <1>2, <2>5 DEF RuleKept, PatchPlace
  <1>4. PrincipalsKept
    <2>1. /\ principals = <<>> /\ audited = <<>> /\ Len(principals) = 0 /\ Len(audited) = 0
          /\ joined = FALSE
          /\ principals \in Seq(Principal) /\ audited \in Seq(Role \cup {NoRow})
      BY DEF AdminInit
    <2> QED
      BY <1>2, <2>1 DEF PrincipalsKept, RowsStored, OneForAll, Alone, RowPlace, RolePlace,
                        RolesAudited, OfPrincipals, Unaudited
  <1>5. PatchStays
    BY DEF AdminInit, PatchStays
  <1> QED
    BY <1>2, <1>3, <1>4, <1>5 DEF AdminInv

\* A step changes none of it.
LEMMA AdminStepKeeps ==
  ASSUME AdminInv, [AdminNext]_adminVars
  PROVE  AdminInv'
  <1>1. CASE UNCHANGED adminVars
    <2>1. /\ rule' = rule /\ versions' = versions /\ principals' = principals
          /\ audited' = audited /\ threadRow' = threadRow /\ edits' = edits
          /\ disturbed' = disturbed /\ wanted' = wanted /\ joined' = joined
      BY <1>1 DEF adminVars
    <2>2. EditsHaveFields' /\ OneBusy' /\ PatchStays'
      BY <2>1 DEF AdminInv, EditsHaveFields, OneBusy, PatchStays
    <2>3. RuleKept'
      BY <2>1 DEF AdminInv, RuleKept, RuleStored, LastIsRule, PatchPlace, Unversioned, Sound,
                  Alike, AcceptsPatch, Patched
    <2>4. PrincipalsKept'
      BY <2>1 DEF AdminInv, PrincipalsKept, RowsStored, OneForAll, Alone, RowPlace, RolePlace,
                  RolesAudited, OfPrincipals, Unaudited
    <2> QED
      BY <2>2, <2>3, <2>4 DEF AdminInv
  <1>2. ASSUME NEW e \in Edit, NEW give \in RulePatch, Begin(e, "rules", "rulePatch", 0, give)
        PROVE  AdminInv'
    BY <1>2, BeginKeepsRecords
  <1>3. ASSUME NEW e \in Edit, NEW give \in [scope : Scope, role : Role],
               Begin(e, "principals", "principalCreate", 0, give)
        PROVE  AdminInv'
    BY <1>3, BeginKeepsRecords DEF Principal
  <1>4. ASSUME NEW e \in Edit, NEW i \in DOMAIN principals, NEW role \in Role,
               Begin(e, "principals", "principalRole", i, [principals[i] EXCEPT !.role = role])
        PROVE  AdminInv'
    <2> DEFINE give == [principals[i] EXCEPT !.role = role]
    <2>1. principals \in Seq(Principal)
      BY DEF AdminInv, PrincipalsKept, RowsStored
    <2>2. i \in 1 .. Len(principals) /\ principals[i] \in Principal
      BY <2>1
    <2>3. give \in Principal
      BY <2>2 DEF Principal
    <2> HIDE DEF give
    <2>4. Begin(e, "principals", "principalRole", i, give)
      BY <1>4 DEF give
    <2> QED
      BY <2>2, <2>3, <2>4, BeginKeepsRecords
  <1>8. ASSUME NEW e \in Edit, NEW i \in DOMAIN principals, NEW scope \in Scope,
               Begin(e, "principals", "principalMove", i, [principals[i] EXCEPT !.scope = scope])
        PROVE  AdminInv'
    <2> DEFINE give == [principals[i] EXCEPT !.scope = scope]
    <2>1. principals \in Seq(Principal)
      BY DEF AdminInv, PrincipalsKept, RowsStored
    <2>2. i \in 1 .. Len(principals) /\ principals[i] \in Principal
      BY <2>1
    <2>3. give \in Principal
      BY <2>2 DEF Principal
    <2> HIDE DEF give
    <2>4. Begin(e, "principals", "principalMove", i, give)
      BY <1>8 DEF give
    <2> QED
      BY <2>2, <2>3, <2>4, BeginKeepsRecords
  <1>5. ASSUME NEW e \in Edit, NEW op \in {"threadGet", "threadPatch"}, NEW give,
               Begin(e, "threads", op, 0, give)
        PROVE  AdminInv'
    BY <1>5, BeginKeepsRecords
  <1>6. ASSUME NEW e \in Edit,
               \/ RuleReads(e) \/ RuleWrites(e) \/ RuleRereads(e) \/ RuleNumbers(e)
               \/ RuleVersions(e) \/ \E on \in BOOLEAN : RuleToggles(e, on)
        PROVE  AdminInv'
    BY <1>6, RuleReadsKeeps, RuleWritesKeeps, RuleRereadsKeeps, RuleNumbersKeeps,
       RuleVersionsKeeps, RuleTogglesKeeps
  <1>7. ASSUME NEW e \in Edit,
               \/ PrincipalReads(e) \/ PrincipalInserts(e) \/ RowReads(e) \/ RoleWrites(e)
               \/ MoveWrites(e) \/ MoveAudits(e) \/ PrincipalAudits(e) \/ ThreadReads(e) \/ ThreadCreates(e) \/ ThreadPatches(e)
               \/ CutOff(e)
        PROVE  AdminInv'
    BY <1>7, PrincipalReadsKeeps, PrincipalInsertsKeeps, RowReadsKeeps, RoleWritesKeeps,
       MoveWritesKeeps, MoveAuditsKeeps, PrincipalAuditsKeeps, ThreadSteps, CutOffKeeps
  <1> QED
    BY <1>1, <1>2, <1>3, <1>4, <1>5, <1>6, <1>7, <1>8 DEF AdminNext

\* The inductive invariant of the records.
THEOREM RecordInvariant == AdminSpec => []AdminInv
  BY AdminInitHolds, AdminStepKeeps, PTL DEF AdminSpec

\* What it says when nothing is in progress.
LEMMA RecordsFollow == AdminInv => RecordsAreKept
  <1> SUFFICES ASSUME AdminInv PROVE RecordsAreKept
    OBVIOUS
  <1>1. RuleIsSound
    <2> SUFFICES ASSUME ~disturbed
                 PROVE  /\ Sound(rule)
                        /\ Busy = {} =>
                              Patched(Last(versions).of, [enabled |-> rule.enabled]) = rule
                        /\ \A i \in DOMAIN versions : versions[i].version = i
      BY DEF RuleIsSound
    <2>1. RuleStored /\ ((\A e \in Edit : ~Unversioned(e)) => LastIsRule)
      BY DEF AdminInv, RuleKept
    <2>2. \A i \in DOMAIN versions : versions[i].version = i
      BY <2>1 DEF RuleStored
    <2>3. ASSUME Busy = {}
          PROVE  Patched(Last(versions).of, [enabled |-> rule.enabled]) = rule
      <3>1. LastIsRule
        BY <2>1, <2>3 DEF Busy, Unversioned
      <3>2. versions[Len(versions)] \in RuleVersion /\ rule \in Rule
        BY <2>1 DEF RuleStored
      <3>3. Last(versions).of = versions[Len(versions)].of /\ versions[Len(versions)].of \in Rule
        BY <3>2 DEF RuleVersion, Last
      <3> QED
        BY <3>1, <3>2, <3>3, PatchedIsAlike DEF LastIsRule
    <2> QED
      BY <2>1, <2>2, <2>3 DEF RuleStored
  <1>2. OneRole
    <2>1. RowsStored /\ principals \in Seq(Principal)
      BY DEF AdminInv, PrincipalsKept, RowsStored
    <2>2. \A scope : Alone(scope) => \A i, j \in Rows(scope) : i = j
      BY <2>1 DEF Alone, Rows
    <2>3. ASSUME ~disturbed, Busy = {}, NEW i \in DOMAIN principals
          PROVE  audited[i] = principals[i].role
      <3>1. i \in 1 .. Len(principals) /\ \A e \in Edit : ~Unaudited(e)
        BY <2>1, <2>3 DEF Busy, Unaudited
      <3> QED
        BY <2>3, <3>1 DEF AdminInv, PrincipalsKept, RolesAudited
    <2> QED
      BY <2>1, <2>2, <2>3 DEF OneRole, OneForAll, RowsStored, AdminInv, PrincipalsKept
  <1> QED
    BY <1>1, <1>2 DEF RecordsAreKept, AdminInv

-----------------------------------------------------------------------------
(* All of it *)

\* What an operator has stored is kept and acted on, whatever overlaps (the three services the
\* console edits).
THEOREM EditsHold == ConsoleEditsSpec => []EditsTakeHold
  BY SettingInvariant, SettingsFollow, VerdictInvariant, RecordInvariant, RecordsFollow, PTL
     DEF ConsoleEditsSpec, EditsTakeHold, VerdictInv

-----------------------------------------------------------------------------
(* The login card *)

\* The strengthening of CardNeverHangs and CardIsSettled: only a card that polls asks for a
\* status or an image by itself, and it polls while the login is pending.
PollsWhilePending ==
    /\ waiting \cap {"poll", "qr"} # {} => polling
    /\ polling => phase = "pending"

CardInv ==
    /\ phase \in CardPhase \cup {"none"} /\ waiting \subseteq Operation
    /\ PollsWhilePending /\ CardNeverHangs /\ CardIsSettled

\* Where a flow may begin, with the request it begins with.
FlowBegins(to, request) ==
    \/ request = {} /\ to \in {"none", "idle", "connected", "expired", "blocked", "error"}
    \/ request = {"check"} /\ to = "checking"
    \/ request = {"start"} /\ to = "starting"
    \/ request \in {{"cancel"}, {"replace"}} /\ to = "cancelling"

\* A new flow starts from nothing.
LEMMA FlowKeeps ==
  ASSUME NEW to, NEW request, FlowBegins(to, request), NewFlow(to, request)
  PROVE  CardInv'
  <1>1. phase' = to /\ polling' = FALSE /\ qr' = FALSE /\ waiting' = request
    BY DEF NewFlow
  <1>2. CASE request = {} /\ to \in {"none", "idle", "connected", "expired", "blocked", "error"}
    BY <1>1, <1>2
    DEF CardInv, PollsWhilePending, CardNeverHangs, CardIsSettled, CardPhase, Operation
  <1>3. CASE request = {"check"} /\ to = "checking"
    BY <1>1, <1>3
    DEF CardInv, PollsWhilePending, CardNeverHangs, CardIsSettled, CardPhase, Operation
  <1>4. CASE request = {"start"} /\ to = "starting"
    BY <1>1, <1>4
    DEF CardInv, PollsWhilePending, CardNeverHangs, CardIsSettled, CardPhase, Operation
  <1>5. CASE request \in {{"cancel"}, {"replace"}} /\ to = "cancelling"
    <2>1. waiting' = {"cancel"} \/ waiting' = {"replace"}
      BY <1>1, <1>5
    <2> QED
      BY <1>1, <1>5, <2>1
      DEF CardInv, PollsWhilePending, CardNeverHangs, CardIsSettled, CardPhase, Operation
  <1> QED
    BY <1>2, <1>3, <1>4, <1>5 DEF FlowBegins

\* Polling starts, with what is in flight.
LEMMA PollingKeeps ==
  ASSUME CardInv, NEW rest, rest \subseteq waiting, StartsPolling(rest)
  PROVE  CardInv'
  BY DEF StartsPolling, CardInv, PollsWhilePending, CardNeverHangs, CardIsSettled, CardPhase,
         Operation

\* The account is connected.
LEMMA ConnectedKeeps ==
  ASSUME NEW notify, Connected(notify)
  PROVE  CardInv'
  BY
  DEF Connected, CardInv, PollsWhilePending, CardNeverHangs, CardIsSettled, CardPhase, Operation

\* A flow that fails.
LEMMA FailsKeep == Fails => CardInv'
  BY FlowKeeps DEF Fails, EndsFlow, FlowBegins, CardPhase

\* A status is applied.
LEMMA KnownKeeps ==
  ASSUME CardInv, NEW s \in LoginStatus, NEW rest, rest \subseteq waiting, NEW notify,
         Known(s, rest, notify)
  PROVE  CardInv'
  <1>1. CASE s = "connected"
    BY <1>1, ConnectedKeeps DEF Known
  <1>2. CASE IsPending(s)
    BY <1>2, PollingKeeps DEF Known, IsPending
  <1>3. CASE s # "connected" /\ ~IsPending(s)
    <2>1. FlowBegins(s, {}) /\ NewFlow(s, {})
      BY <1>3 DEF Known, IsPending, EndsFlow, LoginStatus, FlowBegins, CardPhase
    <2> QED
      BY <2>1, FlowKeeps
  <1> QED
    BY <1>1, <1>2, <1>3

\* An answer that is let pass, or makes way for the next request of the same phase.
LEMMA RestKeeps ==
  ASSUME CardInv, NEW op \in waiting,
         \/ op \in {"qr", "poll"} \/ signedOut
         \/ op = "start" /\ "startStatus" \in waiting'
         \/ op \in {"cancel", "replace"} /\ waiting' \cap {"cancelStatus", "replaceStatus"} # {},
         waiting \ {op} \subseteq waiting',
         waiting' \ waiting \subseteq {"startStatus", "cancelStatus", "replaceStatus"},
         waiting' \subseteq Operation,
         UNCHANGED <<phase, polling, qr, signedOut>>
  PROVE  CardInv'
  BY DEF CardInv, PollsWhilePending, CardNeverHangs, CardIsSettled, CardPhase

\* What the operator clicks.
LEMMA ClickKeeps ==
  ASSUME NEW from, NEW to, NEW op, FlowBegins(to, {op}), Click(from, to, op)
  PROVE  CardInv'
  BY FlowKeeps DEF Click

\* What a request is answered.
LEMMA CardAnswersKeep ==
  ASSUME CardInv,
         \/ CheckAnswers \/ StartAnswers \/ StartStatusAnswers \/ CancelAnswers
         \/ CancelStatusAnswers \/ ReplaceStatusAnswers \/ PollAnswers \/ QrAnswers
  PROVE  CardInv'
  <1>1. CASE CheckAnswers
    BY <1>1, FailsKeep, KnownKeeps DEF CheckAnswers, Rest
  <1>2. CASE StartAnswers
    <2>1. AnswerTo("start")
      BY <1>2 DEF StartAnswers
    <2>2. CASE StartsPolling(Rest("start"))
      BY <2>2, PollingKeeps DEF Rest
    <2>3. CASE Goes("start", "startStatus")
      BY <2>1, <2>3, RestKeeps DEF AnswerTo, Goes, Ignored, CardInv, Operation
    <2> QED
      BY <1>2, <2>2, <2>3, FailsKeep DEF StartAnswers
  <1>3. CASE StartStatusAnswers
    BY <1>3, FailsKeep, KnownKeeps DEF StartStatusAnswers, Rest
  <1>4. CASE CancelAnswers
    <2>1. CASE AnswerTo("cancel") /\ Goes("cancel", "cancelStatus")
      BY <2>1, RestKeeps DEF AnswerTo, Goes, Ignored, CardInv, Operation
    <2>2. CASE AnswerTo("replace") /\ Goes("replace", "replaceStatus")
      BY <2>2, RestKeeps DEF AnswerTo, Goes, Ignored, CardInv, Operation
    <2> QED
      BY <1>4, <2>1, <2>2 DEF CancelAnswers
  <1>5. CASE CancelStatusAnswers
    BY <1>5, FailsKeep, KnownKeeps DEF CancelStatusAnswers, Rest
  <1>6. CASE ReplaceStatusAnswers
    <2>1. FlowBegins("starting", {"start"})
      BY DEF FlowBegins
    <2> QED
      BY <1>6, <2>1, FailsKeep, FlowKeeps, KnownKeeps DEF ReplaceStatusAnswers, Rest
  <1>7. CASE PollAnswers
    <2>1. AnswerTo("poll")
      BY <1>7 DEF PollAnswers
    <2>2. ASSUME NEW s \in LoginStatus, s # "connected", ~IsPending(s), EndsFlow(s)
          PROVE  CardInv'
      <3>1. FlowBegins(s, {}) /\ NewFlow(s, {})
        BY <2>2 DEF IsPending, EndsFlow, LoginStatus, FlowBegins
      <3> QED
        BY <3>1, FlowKeeps
    <2>3. ASSUME phase' = "pending", waiting' \in {Rest("poll"), Rest("poll") \cup {"qr"}},
                 UNCHANGED <<polling, qr>>
          PROVE  CardInv'
      <3>1. polling /\ UNCHANGED <<phase, signedOut>>
        BY <2>1, <2>3 DEF AnswerTo, CardInv, PollsWhilePending
      <3>2. waiting' \subseteq Operation
        BY <2>3 DEF Rest, CardInv, Operation
      <3> QED
        BY <2>3, <3>1, <3>2
        DEF CardInv, PollsWhilePending, CardNeverHangs, CardIsSettled, CardPhase
    <2> QED
      BY <1>7, <2>2, <2>3, FailsKeep, ConnectedKeeps DEF PollAnswers
  <1>8. CASE QrAnswers
    <2>1. AnswerTo("qr")
      BY <1>8 DEF QrAnswers
    <2>2. polling /\ phase = "pending"
      BY <2>1 DEF AnswerTo, CardInv, PollsWhilePending
    <2>3. CASE waiting' = Rest("qr") /\ UNCHANGED <<phase, polling>>
      BY <2>1, <2>2, <2>3
      DEF AnswerTo, Rest, CardInv, PollsWhilePending, CardNeverHangs, CardIsSettled, CardPhase
    <2>4. CASE EndsFlow("expired")
      BY <2>4, FlowKeeps DEF EndsFlow, FlowBegins
    <2> QED
      BY <1>8, <2>3, <2>4, FailsKeep DEF QrAnswers, Ignored
  <1> QED
    BY <1>1, <1>2, <1>3, <1>4, <1>5, <1>6, <1>7, <1>8

\* Whatever happens, the card waits for something that will end its phase.
LEMMA CardSteps == CardInv /\ [ConsoleNext]_consoleVars => CardInv'
  <1> SUFFICES ASSUME CardInv, [ConsoleNext]_consoleVars
               PROVE  CardInv'
    OBVIOUS
  <1>1. ASSUME UNCHANGED cardVars, signedOut' = signedOut \/ signedOut' = TRUE
        PROVE  CardInv'
    BY <1>1 DEF cardVars, CardInv, PollsWhilePending, CardNeverHangs, CardIsSettled
  <1>2. CASE UNCHANGED consoleVars
    BY <1>1, <1>2 DEF consoleVars, cardVars
  <1>3. CASE \/ StatusStarts \/ Refresh \/ LateLoadEnds \/ SignsOut
             \/ \E c \in Caller : CallerContinues(c)
    BY <1>1, <1>3 DEF StatusStarts, Refresh, LateLoadEnds, SignsOut, CallerContinues
  <1>4. FlowBegins("none", {}) /\ FlowBegins("idle", {}) /\ FlowBegins("checking", {"check"})
        /\ FlowBegins("starting", {"start"}) /\ FlowBegins("cancelling", {"cancel"})
        /\ FlowBegins("cancelling", {"replace"})
    BY DEF FlowBegins
  <1>5. CASE LoadEnds
    BY <1>1, <1>4, <1>5, FlowKeeps DEF LoadEnds, Leaves, EndsFlow
  <1>6. CASE Mounts \/ ChecksStatus \/ StartsLogin \/ CancelsLogin \/ ReplacesQr
    BY <1>4, <1>6, ClickKeeps DEF Mounts, ChecksStatus, StartsLogin, CancelsLogin, ReplacesQr
  <1>7. CASE ReturnsIdle \/ LeavesPage \/ GateCloses
    BY <1>4, <1>7, FlowKeeps DEF ReturnsIdle, LeavesPage, GateCloses, Leaves, EndsFlow
  <1>8. CASE PollTicks
    BY <1>8
    DEF PollTicks, CardInv, PollsWhilePending, CardNeverHangs, CardIsSettled, CardPhase, Operation
  <1>9. ASSUME NEW op \in waiting, StaleAnswers(op)
        PROVE  CardInv'
    BY <1>9, RestKeeps DEF StaleAnswers, Ignored, Rest, CardInv
  <1> QED
    BY <1>2, <1>3, <1>5, <1>6, <1>7, <1>8, <1>9, CardAnswersKeep DEF ConsoleNext

-----------------------------------------------------------------------------
(* The status all pages show *)

StatusHasFields ==
    /\ loads = [current |-> loads.current, late |-> loads.late]
    /\ loads.current = [is |-> loads.current.is, sees |-> loads.current.sees]
    /\ loads.current # NoLoad => loads.current.is = "load"
    /\ callers = [c \in Caller |-> callers[c]]
    /\ \A c \in Caller :
          callers[c] = [at |-> callers[c].at, on |-> callers[c].on, last |-> callers[c].last]

\* A call that has a load of its own, which nobody has stopped.
Owes(c) == callers[c].at # "idle" /\ callers[c].on = "current" /\ callers[c].last

\* The strengthening of RefreshSeesConnect: until it comes back, the load in progress sees the
\* connect it was made for, and afterwards every load does.
LoadsSeeConnects ==
    \A c \in Caller : Owes(c) =>
        /\ loads.current # NoLoad => c \in loads.current.sees
        /\ callers[c].at = "awaits" => loads.current # NoLoad
        /\ callers[c].at = "woken" => c \in shown
        /\ callers[c].at \in {"awaits", "woken"}

StatusInv == StatusHasFields /\ LoadsSeeConnects

\* Joining a load takes nobody out of it, and a new one sees everyone.
LEMMA JoinedSees ==
  ASSUME StatusHasFields, NEW also
  PROVE  /\ Joined(also) = [current |-> Joined(also).current, late |-> loads.late]
         /\ Joined(also).current = [is |-> "load", sees |-> Joined(also).current.sees]
         /\ loads.current # NoLoad => Joined(also) = loads
         /\ loads.current = NoLoad =>
               Joined(also).current.sees = also \cup {c \in Caller : callers[c].at # "idle"}
  BY DEF StatusHasFields, Joined

\* Who is woken.
LEMMA WokenCallers ==
  ASSUME StatusHasFields, NEW on, callers' = Woken(on)
  PROVE  /\ callers' = [c \in Caller |-> callers'[c]]
         /\ \A c \in Caller :
               /\ callers'[c] = [at |-> callers'[c].at, on |-> callers[c].on,
                                 last |-> callers[c].last]
               /\ callers'[c].at = IF callers[c].at = "awaits" /\ callers[c].on = on
                                   THEN "woken" ELSE callers[c].at
  BY DEF StatusHasFields, Woken

\* A refresh by itself.
LEMMA JoinKeeps ==
  ASSUME StatusInv, loads' = Joined({}), UNCHANGED <<callers, shown>>
  PROVE  StatusInv'
  <1> USE DEF StatusInv
  <1> DEFINE J == Joined({})
  <1>1. /\ J = [current |-> J.current, late |-> loads.late]
        /\ J.current = [is |-> "load", sees |-> J.current.sees]
        /\ loads.current # NoLoad => J = loads
        /\ loads.current = NoLoad => J.current.sees = {c \in Caller : callers[c].at # "idle"}
    BY JoinedSees
  <1>2. loads' = J
    OBVIOUS
  <1> HIDE DEF J
  <1>3. StatusHasFields'
    BY <1>1, <1>2 DEF StatusHasFields
  <1>4. loads'.current # NoLoad
    BY <1>1, <1>2 DEF NoLoad
  <1>5. LoadsSeeConnects'
    BY <1>1, <1>2, <1>4 DEF LoadsSeeConnects, Owes
  <1> QED
    BY <1>3, <1>5

\* A connect is reported.
LEMMA ReportKeeps ==
  ASSUME StatusInv, NEW c \in Caller, AfterMutation(c)
  PROVE  StatusInv'
  <1> USE DEF StatusInv
  <1> DEFINE J == Joined({c})
  <1>1. /\ J = [current |-> J.current, late |-> loads.late]
        /\ J.current = [is |-> "load", sees |-> J.current.sees]
        /\ loads.current # NoLoad => J = loads
        /\ loads.current = NoLoad =>
              J.current.sees = {c} \cup {d \in Caller : callers[d].at # "idle"}
    BY JoinedSees
  <1>2. /\ callers[c].at = "idle" /\ shown' = shown \ {c}
        /\ callers' = [callers EXCEPT ![c] = [at |-> "awaits", on |-> "current",
                                             last |-> loads.current = NoLoad]]
        /\ loads' = [J EXCEPT !.current.sees = IF loads.current = NoLoad THEN @ ELSE @ \ {c}]
    BY DEF AfterMutation, Waits
  <1> HIDE DEF J
  <1>10. PICK sees : /\ loads' = [J EXCEPT !.current.sees = sees]
                     /\ loads.current = NoLoad => sees = J.current.sees
                     /\ loads.current # NoLoad => sees = J.current.sees \ {c}
    <2>1. CASE loads.current = NoLoad
      BY <1>2, <2>1
    <2>2. CASE loads.current # NoLoad
      BY <1>2, <2>2
    <2> QED
      BY <2>1, <2>2
  <1>3. loads' = [current |-> [is |-> "load", sees |-> sees], late |-> loads.late]
    <2>1. loads' = [J EXCEPT !.current = [J.current EXCEPT !.sees = sees]]
      BY <1>10
    <2>2. [J.current EXCEPT !.sees = sees] = [is |-> "load", sees |-> sees]
      BY <1>1
    <2> QED
      BY <1>1, <2>1, <2>2
  <1>4. loads'.current # NoLoad
    BY <1>3 DEF NoLoad
  <1>5. StatusHasFields'
    <2>1. /\ callers' = [d \in Caller |-> callers'[d]]
          /\ \A d \in Caller :
                callers'[d] = [at |-> callers'[d].at, on |-> callers'[d].on,
                               last |-> callers'[d].last]
      BY <1>2 DEF StatusHasFields
    <2> QED
      BY <1>3, <2>1 DEF StatusHasFields
  <1>6. ASSUME NEW d \in Caller, d # c
        PROVE  callers'[d] = callers[d] /\ (Owes(d) => d \in loads'.current.sees)
    <2>1. callers'[d] = callers[d]
      BY <1>2, <1>6 DEF StatusHasFields
    <2>2. Owes(d) => d \in J.current.sees
      BY <1>1 DEF LoadsSeeConnects, Owes
    <2> QED
      BY <1>3, <1>6, <1>10, <2>1, <2>2
  <1>7. /\ callers'[c].at = "awaits"
        /\ callers'[c].last => loads.current = NoLoad
    BY <1>2 DEF StatusHasFields
  <1>8. loads.current = NoLoad => c \in loads'.current.sees
    BY <1>1, <1>3, <1>10
  <1>9. ASSUME NEW d \in Caller, Owes(d)'
        PROVE  /\ d \in loads'.current.sees
               /\ callers'[d].at = "woken" => d \in shown'
               /\ callers'[d].at \in {"awaits", "woken"}
    <2>1. CASE d = c
      BY <1>7, <1>8, <1>9, <2>1 DEF Owes
    <2>2. CASE d # c
      <3>1. Owes(d) /\ callers'[d] = callers[d] /\ d \in loads'.current.sees
        BY <1>6, <1>9, <2>2 DEF Owes
      <3> QED
        BY <1>2, <2>2, <3>1 DEF LoadsSeeConnects
    <2> QED
      BY <2>1, <2>2
  <1> QED
    BY <1>4, <1>5, <1>9 DEF LoadsSeeConnects

\* A call goes on.
LEMMA CallerKeeps ==
  ASSUME StatusInv, NEW c \in Caller, CallerContinues(c)
  PROVE  StatusInv'
  <1> USE DEF StatusInv
  <1> DEFINE J == Joined({c})
  <1>1. /\ J = [current |-> J.current, late |-> loads.late]
        /\ J.current = [is |-> "load", sees |-> J.current.sees]
        /\ loads.current # NoLoad => J = loads
        /\ loads.current = NoLoad =>
              J.current.sees = {c} \cup {d \in Caller : callers[d].at # "idle"}
    BY JoinedSees
  <1>2. callers[c].at = "woken" /\ shown' = shown
    BY DEF CallerContinues
  <1>3. CASE callers' = [callers EXCEPT ![c] = NoCaller] /\ UNCHANGED loads
    <2>1. StatusHasFields'
      BY <1>3 DEF StatusHasFields, NoCaller
    <2>2. \A d \in Caller : Owes(d)' => Owes(d) /\ callers'[d] = callers[d]
      BY <1>3 DEF StatusHasFields, NoCaller, Owes
    <2> QED
      BY <1>2, <1>3, <2>1, <2>2 DEF LoadsSeeConnects
  <1>4. CASE loads' = J /\ callers' = Waits(c)
    <2> HIDE DEF J
    <2>1. callers' = [callers EXCEPT ![c] = [at |-> "awaits", on |-> "current",
                                             last |-> loads.current = NoLoad]]
      BY <1>4 DEF Waits
    <2>2. StatusHasFields'
      BY <1>1, <1>4, <2>1 DEF StatusHasFields
    <2>3. loads'.current # NoLoad
      BY <1>1, <1>4 DEF NoLoad
    <2>4. ASSUME NEW d \in Caller, Owes(d)'
          PROVE  /\ d \in loads'.current.sees
                 /\ callers'[d].at = "woken" => d \in shown'
                 /\ callers'[d].at \in {"awaits", "woken"}
      <3>1. CASE d = c
        <4>1. callers'[c].at = "awaits" /\ (callers'[c].last => loads.current = NoLoad)
          BY <2>1 DEF StatusHasFields
        <4> QED
          BY <1>1, <1>4, <2>4, <3>1, <4>1 DEF Owes
      <3>2. CASE d # c
        <4>1. Owes(d) /\ callers'[d] = callers[d]
          BY <2>1, <2>4, <3>2 DEF StatusHasFields, Owes
        <4> QED
          BY <1>1, <1>2, <1>4, <4>1 DEF LoadsSeeConnects, Owes
      <3> QED
        BY <3>1, <3>2
    <2> QED
      BY <2>2, <2>3, <2>4 DEF LoadsSeeConnects
  <1> QED
    BY <1>3, <1>4 DEF CallerContinues

\* Loads end and are stopped.
LEMMA LoadsEndSafely ==
  ASSUME StatusInv,
         \/ LoadEnds \/ LateLoadEnds
         \/ StopsStatus /\ UNCHANGED shown
  PROVE  StatusInv'
  <1> USE DEF StatusInv
  <1>1. CASE LoadEnds
    <2>1. /\ loads.current # NoLoad /\ shown' = loads.current.sees
          /\ loads' = [loads EXCEPT !.current = NoLoad] /\ callers' = Woken("current")
      BY <1>1 DEF LoadEnds
    <2>2. /\ callers' = [c \in Caller |-> callers'[c]]
          /\ \A c \in Caller :
               /\ callers'[c] = [at |-> callers'[c].at, on |-> callers[c].on,
                                 last |-> callers[c].last]
               /\ callers'[c].at = IF callers[c].at = "awaits" /\ callers[c].on = "current"
                                   THEN "woken" ELSE callers[c].at
      BY <2>1, WokenCallers
    <2>3. loads' = [current |-> NoLoad, late |-> loads.late]
      BY <2>1 DEF StatusHasFields
    <2>4. StatusHasFields'
      BY <2>2, <2>3 DEF StatusHasFields, NoLoad
    <2>5. ASSUME NEW c \in Caller, Owes(c)'
          PROVE  callers'[c].at = "woken" /\ c \in shown'
      <3>1. Owes(c)
        BY <2>2, <2>5 DEF Owes
      <3> QED
        BY <2>1, <2>2, <2>5, <3>1 DEF LoadsSeeConnects, Owes
    <2> QED
      BY <2>3, <2>4, <2>5 DEF LoadsSeeConnects
  <1>2. CASE LateLoadEnds
    <2>1. /\ shown' = shown /\ callers' = Woken("late")
          /\ loads' = [loads EXCEPT !.late = FALSE]
      BY <1>2 DEF LateLoadEnds
    <2>2. /\ callers' = [c \in Caller |-> callers'[c]]
          /\ \A c \in Caller :
               /\ callers'[c] = [at |-> callers'[c].at, on |-> callers[c].on,
                                 last |-> callers[c].last]
               /\ callers'[c].at = IF callers[c].at = "awaits" /\ callers[c].on = "late"
                                   THEN "woken" ELSE callers[c].at
      BY <2>1, WokenCallers
    <2>3. loads' = [current |-> loads.current, late |-> FALSE]
      BY <2>1 DEF StatusHasFields
    <2>4. StatusHasFields'
      BY <2>2, <2>3 DEF StatusHasFields
    <2>5. \A c \in Caller : Owes(c)' => Owes(c) /\ callers'[c].at = callers[c].at
      BY <2>2 DEF Owes
    <2> QED
      BY <2>1, <2>3, <2>4, <2>5 DEF LoadsSeeConnects
  <1>3. CASE StopsStatus /\ UNCHANGED shown
    <2>1. /\ loads' = [current |-> NoLoad, late |-> loads.late \/ loads.current # NoLoad]
          /\ callers' = [c \in Caller |-> IF callers[c].at = "awaits"
                                          THEN [callers[c] EXCEPT !.on = "late"] ELSE callers[c]]
          /\ shown' = shown
      BY <1>3 DEF StopsStatus
    <2>2. StatusHasFields'
      BY <2>1 DEF StatusHasFields, NoLoad
    <2>3. ASSUME NEW c \in Caller, Owes(c)'
          PROVE  Owes(c) /\ callers'[c] = callers[c] /\ callers[c].at # "awaits"
      <3>1. CASE callers[c].at = "awaits"
        <4>1. callers'[c].on = "late"
          BY <2>1, <3>1 DEF StatusHasFields
        <4> QED
          BY <2>3, <4>1 DEF Owes
      <3>2. CASE callers[c].at # "awaits"
        BY <2>1, <2>3, <3>2 DEF Owes
      <3> QED
        BY <3>1, <3>2
    <2> QED
      BY <2>1, <2>2, <2>3 DEF LoadsSeeConnects
  <1> QED
    BY <1>1, <1>2, <1>3

\* Of the status the card changes no more than that it reports a connect.
LEMMA CardReports ==
  ASSUME \/ Mounts \/ ChecksStatus \/ StartsLogin \/ CancelsLogin \/ ReplacesQr \/ ReturnsIdle
         \/ PollTicks \/ CheckAnswers \/ StartAnswers \/ StartStatusAnswers \/ CancelAnswers
         \/ CancelStatusAnswers \/ ReplaceStatusAnswers \/ PollAnswers \/ QrAnswers
         \/ LeavesPage \/ SignsOut
         \/ \E op \in waiting : StaleAnswers(op)
  PROVE  UNCHANGED statusVars \/ \E c \in Caller : AfterMutation(c)
  <1>1. \A notify \in BOOLEAN :
           Connected(notify) => UNCHANGED statusVars \/ \E c \in Caller : AfterMutation(c)
    BY DEF Connected
  <1>2. \A s, rest : \A notify \in BOOLEAN :
           Known(s, rest, notify) => UNCHANGED statusVars \/ \E c \in Caller : AfterMutation(c)
    BY <1>1 DEF Known
  <1>3. Fails => UNCHANGED statusVars
    BY DEF Fails
  <1>4. CASE \/ Mounts \/ ChecksStatus \/ StartsLogin \/ CancelsLogin \/ ReplacesQr \/ ReturnsIdle
             \/ PollTicks \/ LeavesPage \/ SignsOut
             \/ \E op \in waiting : StaleAnswers(op)
    BY <1>4 DEF Mounts, ChecksStatus, StartsLogin, CancelsLogin, ReplacesQr, ReturnsIdle, Click,
                PollTicks, LeavesPage, SignsOut, StaleAnswers, Ignored
  <1>5. CASE CheckAnswers \/ StartAnswers \/ StartStatusAnswers \/ CancelAnswers
    BY <1>2, <1>3, <1>5
    DEF CheckAnswers, StartAnswers, StartStatusAnswers, CancelAnswers, Goes, Ignored
  <1>6. CASE CancelStatusAnswers \/ ReplaceStatusAnswers
    BY <1>2, <1>3, <1>6 DEF CancelStatusAnswers, ReplaceStatusAnswers
  <1>7. CASE PollAnswers
    BY <1>1, <1>3, <1>7 DEF PollAnswers
  <1>8. CASE QrAnswers
    BY <1>3, <1>8 DEF QrAnswers, Ignored
  <1> QED
    BY <1>4, <1>5, <1>6, <1>7, <1>8

\* Whatever happens, a call that comes back was seen.
LEMMA StatusSteps == StatusInv /\ [ConsoleNext]_consoleVars => StatusInv'
  <1> SUFFICES ASSUME StatusInv, [ConsoleNext]_consoleVars
               PROVE  StatusInv'
    OBVIOUS
  <1>1. ASSUME UNCHANGED statusVars
        PROVE  StatusInv'
    BY <1>1 DEF statusVars, StatusInv, StatusHasFields, LoadsSeeConnects, Owes
  <1>2. CASE UNCHANGED consoleVars
    BY <1>1, <1>2 DEF consoleVars, statusVars
  <1>3. CASE StatusStarts \/ Refresh
    BY <1>3, JoinKeeps DEF StatusStarts, Refresh
  <1>4. CASE LateLoadEnds \/ LoadEnds
    BY <1>4, LoadsEndSafely
  <1>5. CASE GateCloses
    BY <1>5, LoadsEndSafely DEF GateCloses
  <1>6. CASE \E c \in Caller : CallerContinues(c)
    BY <1>6, CallerKeeps
  <1> QED
    BY <1>1, <1>2, <1>3, <1>4, <1>5, <1>6, CardReports, ReportKeeps DEF ConsoleNext

\* The inductive invariant of the login card and the status.
THEOREM ConsoleInvariant == ConsoleSpec => [](CardInv /\ StatusInv)
  <1>1. ConsoleInit => CardInv /\ StatusInv
    BY DEF ConsoleInit, CardInv, PollsWhilePending, CardNeverHangs, CardIsSettled, CardPhase,
           Operation,
           StatusInv, StatusHasFields, LoadsSeeConnects, Owes, NoLoad, NoCaller
  <1> QED
    BY <1>1, CardSteps, StatusSteps, PTL DEF ConsoleSpec

-----------------------------------------------------------------------------
(* The page of threads *)

\* The rows a search finds in a tab.
Hits(t, q) == FoundBy[q] \cap (IF t = "allowed" THEN allowList ELSE Listing[t])

\* A load that a tab waits for is its own, for the search last asked for.
LoadsAreTheirs ==
    /\ \A t \in Tab : current[t] # NoTabLoad =>
          asks[current[t]].tab = t /\ asks[current[t]].query = searched[t]
    /\ \A x \in TabLoad : asks[x] # NotLoading => asks[x].tab \in Tab

\* A switch on its way belongs to a tab.  A tab that is not muddled waits for no load while one
\* is, and it is its own.
FlipsAreTheirs ==
    \A a \in PageThread : flips[a] # NoFlip =>
        /\ flips[a].tab \in Tab
        /\ \A t \in Tab \ muddled : flips[a].tab = t /\ current[t] = NoTabLoad

\* A tab's rows are its search's, each with the server's flag but for those whose switch is on
\* its way.
FlagsAreCurrent(t) ==
    /\ DOMAIN lists[t].rows = Hits(t, searched[t])
    /\ \A a \in PageThread :
          /\ flips[a] # NoFlip =>
                a \in DOMAIN lists[t].rows /\ (flips[a].to <=> a \notin allowList)
          /\ a \in DOMAIN lists[t].rows =>
                lists[t].rows[a] = (IF flips[a] = NoFlip THEN a \in allowList ELSE flips[a].to)

\* The strengthening of ThreadsShownAreCurrent: so are they of a tab that waits for no load.
ListsAreCurrent ==
    \A t \in Tab : lists[t].loaded /\ current[t] = NoTabLoad =>
        /\ lists[t].query = searched[t]
        /\ ~lists[t].failed /\ t \notin muddled => FlagsAreCurrent(t)

ThreadPageInv == ThreadPageTypeOK /\ LoadsAreTheirs /\ FlipsAreTheirs /\ ListsAreCurrent

\* A load that is not there is of no tab.
LEMMA NoLoadNoTab == NotLoading.tab = "none"
  <1>1. \A q : [tab |-> "none", query |-> q].tab = "none"
    OBVIOUS
  <1> QED
    BY <1>1, Zenon DEF NotLoading

\* An empty list of rows, and what the server lists.
LEMMA ListsHaveTypes ==
  ASSUME ThreadPageTypeOK
  PROVE  /\ <<>> \in FlagRows
         /\ \A t \in Tab, q \in Query : ServerList(t, q) \in FlagRows
         /\ EmptyList \in [rows : FlagRows, failed : BOOLEAN, loaded : BOOLEAN, query : Query]
  <1>1. <<>> \in [{} -> BOOLEAN]
    OBVIOUS
  <1>2. <<>> \in FlagRows
    BY <1>1 DEF FlagRows
  <1>3. ASSUME NEW t \in Tab, NEW q \in Query
        PROVE  ServerList(t, q) \in FlagRows
    <2> DEFINE hits == FoundBy[q] \cap (IF t = "allowed" THEN allowList ELSE Listing[t])
    <2>1. hits \subseteq PageThread
      <3>1. FoundBy[q] \in Range(FoundBy)
        BY DEF Range, Query
      <3> QED
        BY <3>1, PageAssumption
    <2>2. ServerList(t, q) = [a \in hits |-> a \in allowList]
      BY DEF ServerList
    <2>3. ServerList(t, q) \in [hits -> BOOLEAN]
      BY <2>2
    <2> QED
      BY <2>1, <2>3 DEF FlagRows
  <1>4. "" \in Query
    BY PageAssumption DEF Query
  <1> QED
    BY <1>2, <1>3, <1>4 DEF EmptyList

\* Every list is a function with flags.
LEMMA RowsAreFlags ==
  ASSUME NEW rows \in FlagRows
  PROVE  /\ DOMAIN rows \subseteq PageThread
         /\ rows = [a \in DOMAIN rows |-> rows[a]]
         /\ \A a \in DOMAIN rows : rows[a] \in BOOLEAN
  BY DEF FlagRows

\* An empty page shows nothing wrong.
LEMMA ThreadPageInitHolds == ThreadPageInit => ThreadPageInv
  <1> SUFFICES ASSUME ThreadPageInit PROVE ThreadPageInv
    OBVIOUS
  <1>1. /\ "" \in Query /\ "allowed" \in Tab /\ "none" \notin Tab
    BY PageAssumption DEF Query
  <1>2. <<>> \in FlagRows
    <2>1. <<>> \in [{} -> BOOLEAN]
      OBVIOUS
    <2> QED
      BY <2>1 DEF FlagRows
  <1>3. EmptyList \in [rows : FlagRows, failed : BOOLEAN, loaded : BOOLEAN, query : Query]
    BY <1>1, <1>2 DEF EmptyList
  <1>4. ThreadPageTypeOK
    BY <1>1, <1>3 DEF ThreadPageInit, ThreadPageTypeOK, NotLoading, NoFlip
  <1>5. LoadsAreTheirs /\ FlipsAreTheirs /\ ListsAreCurrent
    BY DEF ThreadPageInit, LoadsAreTheirs, FlipsAreTheirs, ListsAreCurrent, FlagsAreCurrent,
           EmptyList
  <1> QED
    BY <1>4, <1>5 DEF ThreadPageInv

\* The parts of the state a step leaves to the lists.
PageTyped ==
    /\ allowList \subseteq PageThread
    /\ tab \in Tab \cup {"none"} /\ search \in Query /\ timer \in Tab \cup {"none"}

\* A tab begins a load: it waits for it, and is muddled if a switch is on its way.
LEMMA LoadBegins ==
  ASSUME ThreadPageInv, PageTyped', NEW t \in Tab, NEW q \in Query, LoadTab(t, q),
         UNCHANGED <<allowList, flips>>
  PROVE  ThreadPageInv'
  <1> USE DEF ThreadPageInv
  <1>1. PICK x \in TabLoad :
            /\ asks[x] = NotLoading
            /\ asks' = [asks EXCEPT ![x] = [tab |-> t, query |-> q]]
            /\ current' = [current EXCEPT ![t] = x]
    BY DEF LoadTab
  <1>2. /\ lists' = [lists EXCEPT ![t].failed = FALSE]
        /\ searched' = [searched EXCEPT ![t] = q]
        /\ muddled' = IF \A a \in PageThread : flips[a] = NoFlip
                      THEN muddled \ {t} ELSE muddled \cup {t}
    BY DEF LoadTab
  <1>3. x # NoTabLoad /\ "none" \notin Tab
    BY PageAssumption
  <1>4. ThreadPageTypeOK'
    BY <1>1, <1>2 DEF PageTyped, ThreadPageTypeOK
  <1>5. /\ asks'[x].tab = t /\ asks'[x].query = q /\ current'[t] = x /\ searched'[t] = q
        /\ \A y \in TabLoad : y # x => asks'[y] = asks[y]
        /\ \A u \in Tab : u # t =>
              current'[u] = current[u] /\ searched'[u] = searched[u] /\ lists'[u] = lists[u]
    BY <1>1, <1>2 DEF ThreadPageTypeOK
  <1>6. \A u \in Tab : current[u] # x
    <2>1. asks[x].tab = "none"
      BY <1>1, NoLoadNoTab
    <2> QED
      BY <1>3, <2>1 DEF LoadsAreTheirs
  <1>7. LoadsAreTheirs'
    <2>1. \A u \in Tab : current[u] \in TabLoad \cup {NoTabLoad}
      BY DEF ThreadPageTypeOK
    <2>2. \A u \in Tab : u # t /\ current[u] # NoTabLoad => asks'[current[u]] = asks[current[u]]
      BY <1>5, <1>6, <2>1
    <2> QED
      BY <1>3, <1>5, <2>2 DEF LoadsAreTheirs
  <1>8. FlipsAreTheirs'
    BY <1>2, <1>5 DEF FlipsAreTheirs
  <1>9. \A u \in Tab : current'[u] = NoTabLoad => u # t /\ (u \notin muddled' => u \notin muddled)
    BY <1>2, <1>3, <1>5
  <1>10. ListsAreCurrent'
    BY <1>5, <1>9 DEF ListsAreCurrent, FlagsAreCurrent, Hits
  <1> QED
    BY <1>4, <1>7, <1>8, <1>10

\* What is no load and no switch changes nothing that is shown.
LEMMA ViewKeeps ==
  ASSUME ThreadPageInv, PageTyped',
         UNCHANGED <<allowList, asks, current, lists, searched, muddled, flips>>
  PROVE  ThreadPageInv'
  BY DEF ThreadPageInv, PageTyped, ThreadPageTypeOK, LoadsAreTheirs, FlipsAreTheirs,
         ListsAreCurrent, FlagsAreCurrent, Hits

\* A load ends.
LEMMA LoadSettles ==
  ASSUME ThreadPageInv, NEW x \in TabLoad, asks[x] # NotLoading, NEW rows \in FlagRows,
         NEW failed \in BOOLEAN,
         Settle(x, [rows |-> rows, failed |-> failed, loaded |-> TRUE, query |-> asks[x].query]),
         ~failed => rows = ServerList(asks[x].tab, asks[x].query)
  PROVE  ThreadPageInv'
  <1> USE DEF ThreadPageInv
  <1> DEFINE t == asks[x].tab
             list == [rows |-> rows, failed |-> failed, loaded |-> TRUE, query |-> asks[x].query]
  <1>1. /\ asks' = [asks EXCEPT ![x] = NotLoading]
        /\ UNCHANGED <<allowList, tab, search, timer, flips, searched, muddled>>
    BY DEF Settle
  <1>2. /\ "none" \notin Tab
        /\ x # NoTabLoad
        /\ NotLoading \in [tab : Tab \cup {"none"}, query : Query]
    BY PageAssumption DEF NotLoading, Query
  <1>3. list \in [rows : FlagRows, failed : BOOLEAN, loaded : BOOLEAN, query : Query]
    BY DEF ThreadPageTypeOK
  <1>4. CASE Overtaken(x)
    <2>1. UNCHANGED <<lists, current>>
      BY <1>4 DEF Settle
    <2>2. ThreadPageTypeOK'
      BY <1>1, <1>2, <2>1 DEF ThreadPageTypeOK
    <2>3. \A u \in Tab : current[u] # x
      BY <1>2, <1>4 DEF Overtaken, LoadsAreTheirs
    <2>4. LoadsAreTheirs'
      BY <1>1, <2>1, <2>3 DEF LoadsAreTheirs, ThreadPageTypeOK
    <2>5. FlipsAreTheirs' /\ ListsAreCurrent'
      BY <1>1, <2>1 DEF FlipsAreTheirs, ListsAreCurrent, FlagsAreCurrent, Hits
    <2> QED
      BY <2>2, <2>4, <2>5
  <1>5. CASE ~Overtaken(x)
    <2>1. /\ lists' = [lists EXCEPT ![t] = list]
          /\ current' = [current EXCEPT ![t] = NoTabLoad]
          /\ current[t] = x /\ t \in Tab /\ asks[x].query = searched[t]
      BY <1>2, <1>5 DEF Settle, Overtaken, LoadsAreTheirs
    <2> HIDE DEF list
    <2>2. ThreadPageTypeOK'
      BY <1>1, <1>2, <1>3, <2>1 DEF ThreadPageTypeOK
    <2>3. /\ lists'[t] = list /\ current'[t] = NoTabLoad
          /\ \A u \in Tab : u # t => lists'[u] = lists[u] /\ current'[u] = current[u]
      BY <2>1 DEF ThreadPageTypeOK
    <2>4. \A y \in TabLoad : y # x => asks'[y] = asks[y]
      BY <1>1 DEF ThreadPageTypeOK
    <2>5. \A u \in Tab : current'[u] # NoTabLoad =>
             u # t /\ current[u] # x /\ current[u] \in TabLoad
      BY <2>1, <2>3 DEF ThreadPageTypeOK, LoadsAreTheirs
    <2>6. LoadsAreTheirs'
      <3>1. asks'[x] = NotLoading
        BY <1>1 DEF ThreadPageTypeOK
      <3> QED
        BY <1>1, <2>3, <2>4, <2>5, <3>1 DEF LoadsAreTheirs
    <2>7. FlipsAreTheirs'
      BY <1>1, <2>3 DEF FlipsAreTheirs
    <2>8. ListsAreCurrent'
      <3>1. list.loaded = TRUE /\ list.query = searched[t] /\ list.failed = failed /\ list.rows = rows
        BY <2>1 DEF list
      <3>2. t \notin muddled => \A a \in PageThread : flips[a] = NoFlip
        BY <1>2, <2>1 DEF FlipsAreTheirs
      <3>3. ~failed => /\ DOMAIN rows = Hits(t, searched[t])
                       /\ \A a \in DOMAIN rows : rows[a] = (a \in allowList)
        BY <2>1 DEF ServerList, Hits
      <3> QED
        BY <1>1, <2>3, <3>1, <3>2, <3>3 DEF ListsAreCurrent, FlagsAreCurrent, Hits
    <2> QED
      BY <2>2, <2>6, <2>7, <2>8
  <1> QED
    BY <1>4, <1>5

TabList == [rows : FlagRows, failed : BOOLEAN, loaded : BOOLEAN, query : Query]

\* A switch moves one flag of one tab, if its row is there.
LEMMA FlipMoves ==
  ASSUME lists \in [Tab -> TabList], NEW t \in Tab, NEW a \in PageThread, NEW to \in BOOLEAN,
         lists' = Flip(lists, t, a, to)
  PROVE  /\ lists' \in [Tab -> TabList]
         /\ \A u \in Tab : /\ u # t => lists'[u] = lists[u]
                          /\ lists'[u].loaded = lists[u].loaded
                          /\ lists'[u].failed = lists[u].failed
                          /\ lists'[u].query = lists[u].query
                          /\ DOMAIN lists'[u].rows = DOMAIN lists[u].rows
         /\ \A b \in DOMAIN lists[t].rows :
               lists'[t].rows[b] = (IF b = a THEN to ELSE lists[t].rows[b])
  <1>1. CASE a \notin DOMAIN lists[t].rows
    <2>1. lists' = lists
      BY <1>1 DEF Flip
    <2> QED
      BY <1>1, <2>1
  <1>2. CASE a \in DOMAIN lists[t].rows
    <2> DEFINE rows == [lists[t].rows EXCEPT ![a] = to]
    <2>1. lists' = [lists EXCEPT ![t].rows = rows]
      BY <1>2 DEF Flip
    <2>2. lists[t].rows \in FlagRows
      BY DEF TabList
    <2>3. /\ rows \in FlagRows /\ DOMAIN rows = DOMAIN lists[t].rows
          /\ \A b \in DOMAIN lists[t].rows : rows[b] = IF b = a THEN to ELSE lists[t].rows[b]
      BY <1>2, <2>2 DEF FlagRows
    <2> HIDE DEF rows
    <2>4. /\ lists'[t] = [lists[t] EXCEPT !.rows = rows]
          /\ \A u \in Tab : u # t => lists'[u] = lists[u]
      BY <2>1
    <2>5. /\ lists'[t] \in TabList /\ lists'[t].rows = rows
          /\ lists'[t].loaded = lists[t].loaded /\ lists'[t].failed = lists[t].failed
          /\ lists'[t].query = lists[t].query
      BY <2>3, <2>4 DEF TabList
    <2>6. lists' = [u \in Tab |-> lists'[u]]
      BY <2>1
    <2> QED
      BY <2>3, <2>4, <2>5, <2>6
  <1> QED
    BY <1>1, <1>2

\* A switch is flipped: every other tab is muddled, and this one if it waits for a load.
LEMMA ToggleKeeps ==
  ASSUME ThreadPageInv, NEW a \in PageThread, ToggleAllow(a)
  PROVE  ThreadPageInv'
  <1> USE DEF ThreadPageInv
  <1> DEFINE to == ~lists[tab].rows[a]
  <1>1. /\ tab \in Tab /\ ~lists[tab].failed /\ a \in DOMAIN lists[tab].rows /\ flips[a] = NoFlip
        /\ flips' = [flips EXCEPT ![a] = [tab |-> tab, to |-> to]]
        /\ lists' = Flip(lists, tab, a, to)
        /\ muddled' = muddled \cup {t \in Tab : t # tab \/ current[t] # NoTabLoad}
        /\ UNCHANGED <<allowList, tab, search, timer, asks, current, searched>>
    BY DEF ToggleAllow, ThreadPageTypeOK
  <1>2. lists \in [Tab -> TabList]
    BY DEF ThreadPageTypeOK, TabList
  <1>3. to \in BOOLEAN
    OBVIOUS
  <1> HIDE DEF to
  <1>4. /\ lists' \in [Tab -> TabList]
        /\ \A u \in Tab : /\ u # tab => lists'[u] = lists[u]
                         /\ lists'[u].loaded = lists[u].loaded
                         /\ lists'[u].failed = lists[u].failed
                         /\ lists'[u].query = lists[u].query
                         /\ DOMAIN lists'[u].rows = DOMAIN lists[u].rows
        /\ \A b \in DOMAIN lists[tab].rows :
               lists'[tab].rows[b] = (IF b = a THEN to ELSE lists[tab].rows[b])
    BY <1>1, <1>2, <1>3, FlipMoves
  <1>5. ThreadPageTypeOK'
    BY <1>1, <1>3, <1>4 DEF ThreadPageTypeOK, TabList
  <1>6. /\ flips'[a] = [tab |-> tab, to |-> to]
        /\ \A b \in PageThread : b # a => flips'[b] = flips[b]
    BY <1>1 DEF ThreadPageTypeOK
  <1>7. LoadsAreTheirs'
    BY <1>1 DEF LoadsAreTheirs
  <1>8. FlipsAreTheirs'
    BY <1>1, <1>6 DEF FlipsAreTheirs
  <1>9. flips'[a] # NoFlip
    <2>1. tab # "none"
      BY <1>1, PageAssumption
    <2> QED
      BY <1>6, <2>1 DEF NoFlip
  <1>10. ASSUME NEW t \in Tab, lists[t].loaded, current[t] = NoTabLoad, ~lists[t].failed,
                t \notin muddled'
         PROVE  t = tab /\ FlagsAreCurrent(t)'
    <2>1. t = tab /\ t \notin muddled
      BY <1>1, <1>10
    <2>2. FlagsAreCurrent(t)
      BY <1>10, <2>1 DEF ListsAreCurrent
    <2>3. to <=> a \notin allowList
      BY <1>1, <2>1, <2>2 DEF to, FlagsAreCurrent
    <2>4. flips'[a].to = to
      BY <1>6
    <2>5. DOMAIN lists'[t].rows = DOMAIN lists[t].rows
      BY <1>4
    <2>6. ASSUME NEW b \in PageThread, b # a
          PROVE  /\ flips'[b] = flips[b]
                 /\ b \in DOMAIN lists[t].rows => lists'[t].rows[b] = lists[t].rows[b]
      BY <1>4, <1>6, <2>1, <2>6
    <2>7. lists'[t].rows[a] = to /\ a \in DOMAIN lists[t].rows
      BY <1>1, <1>4, <2>1
    <2>8. allowList' = allowList /\ Hits(t, searched[t])' = Hits(t, searched[t])
      BY <1>1 DEF Hits
    <2> QED
      BY <1>9, <2>1, <2>2, <2>3, <2>4, <2>5, <2>6, <2>7, <2>8 DEF FlagsAreCurrent
  <1>11. ListsAreCurrent'
    BY <1>1, <1>4, <1>10 DEF ListsAreCurrent
  <1> QED
    BY <1>5, <1>7, <1>8, <1>11

\* A switch is stored: the tab of the allowlist is to be loaded again, and the others say what
\* the server does.
LEMMA StoredKeeps ==
  ASSUME ThreadPageInv, NEW a \in PageThread, FlipStored(a)
  PROVE  ThreadPageInv'
  <1> USE DEF ThreadPageInv
  <1> DEFINE old == lists["allowed"].rows
             rows == IF flips[a].tab = "allowed" /\ ~flips[a].to
                     THEN Restrict(old, DOMAIN old \ {a}) ELSE old
  <1>1. /\ flips[a] # NoFlip
        /\ allowList' = IF flips[a].to THEN allowList \cup {a} ELSE allowList \ {a}
        /\ lists' = [lists EXCEPT !["allowed"].loaded = FALSE, !["allowed"].rows = rows]
        /\ flips' = [flips EXCEPT ![a] = NoFlip]
        /\ UNCHANGED <<tab, search, timer, asks, current, searched, muddled>>
    BY DEF FlipStored
  <1>2. "allowed" \in Tab
    BY PageAssumption
  <1>3. lists \in [Tab -> TabList]
    BY DEF ThreadPageTypeOK, TabList
  <1>4. rows \in FlagRows
    <2>1. old \in FlagRows
      BY <1>2, <1>3 DEF TabList
    <2>2. Restrict(old, DOMAIN old \ {a}) \in FlagRows
      <3>1. PICK S \in SUBSET PageThread : old \in [S -> BOOLEAN]
        BY <2>1 DEF FlagRows
      <3>2. Restrict(old, DOMAIN old \ {a}) \in [S \ {a} -> BOOLEAN]
        BY <3>1 DEF Restrict
      <3> QED
        BY <3>2 DEF FlagRows
    <2> QED
      BY <2>1, <2>2
  <1> HIDE DEF rows, old
  <1>5. /\ lists' \in [Tab -> TabList]
        /\ ~lists'["allowed"].loaded
        /\ \A u \in Tab : u # "allowed" => lists'[u] = lists[u]
    BY <1>1, <1>2, <1>3, <1>4 DEF TabList
  <1>6. /\ flips'[a] = NoFlip
        /\ \A b \in PageThread : b # a => flips'[b] = flips[b]
    BY <1>1 DEF ThreadPageTypeOK
  <1>7. flips' \in [PageThread -> [tab : Tab \cup {"none"}, to : BOOLEAN]]
    BY <1>1 DEF ThreadPageTypeOK, NoFlip
  <1>8. ThreadPageTypeOK'
    BY <1>1, <1>5, <1>7 DEF ThreadPageTypeOK, TabList
  <1>9. LoadsAreTheirs'
    BY <1>1 DEF LoadsAreTheirs
  <1>10. FlipsAreTheirs'
    BY <1>1, <1>6 DEF FlipsAreTheirs
  <1>11. ASSUME NEW t \in Tab, t # "allowed", lists[t].loaded, current[t] = NoTabLoad,
                ~lists[t].failed, t \notin muddled
         PROVE  FlagsAreCurrent(t)'
    <2>1. FlagsAreCurrent(t)
      BY <1>11 DEF ListsAreCurrent
    <2>2. Hits(t, searched[t])' = Hits(t, searched[t])
      BY <1>1, <1>11 DEF Hits
    <2>3. flips[a].to \in BOOLEAN /\ (flips[a].to <=> a \in allowList')
      BY <1>1 DEF ThreadPageTypeOK
    <2>4. ASSUME NEW b \in PageThread, b # a
          PROVE  b \in allowList' <=> b \in allowList
      BY <1>1, <2>4
    <2>5. a \in DOMAIN lists[t].rows => lists[t].rows[a] = (a \in allowList')
      BY <1>1, <2>1, <2>3 DEF FlagsAreCurrent
    <2>6. lists'[t] = lists[t]
      BY <1>5, <1>11
    <2> QED
      BY <1>6, <2>1, <2>2, <2>4, <2>5, <2>6 DEF FlagsAreCurrent
  <1>12. ListsAreCurrent'
    BY <1>1, <1>5, <1>11 DEF ListsAreCurrent
  <1> QED
    BY <1>8, <1>9, <1>10, <1>12

\* A switch is refused, and flipped back in its tab.
LEMMA RefusalKeeps ==
  ASSUME ThreadPageInv, NEW a \in PageThread, FlipFails(a)
  PROVE  ThreadPageInv'
  <1> USE DEF ThreadPageInv
  <1> DEFINE to == ~flips[a].to
             s == flips[a].tab
  <1>1. /\ flips[a] # NoFlip
        /\ lists' = Flip(lists, s, a, to)
        /\ flips' = [flips EXCEPT ![a] = NoFlip]
        /\ \/ UNCHANGED <<allowList, muddled>>
           \/ /\ allowList' = IF flips[a].to THEN allowList \cup {a} ELSE allowList \ {a}
              /\ muddled' = Tab
        /\ UNCHANGED <<tab, search, timer, asks, current, searched>>
    BY DEF FlipFails
  <1>2. lists \in [Tab -> TabList]
    BY DEF ThreadPageTypeOK, TabList
  <1>3. to \in BOOLEAN /\ s \in Tab
    BY <1>1 DEF FlipsAreTheirs
  <1> HIDE DEF to, s
  <1>4. /\ lists' \in [Tab -> TabList]
        /\ \A u \in Tab : /\ u # s => lists'[u] = lists[u]
                         /\ lists'[u].loaded = lists[u].loaded
                         /\ lists'[u].failed = lists[u].failed
                         /\ lists'[u].query = lists[u].query
                         /\ DOMAIN lists'[u].rows = DOMAIN lists[u].rows
        /\ \A b \in DOMAIN lists[s].rows :
               lists'[s].rows[b] = (IF b = a THEN to ELSE lists[s].rows[b])
    BY <1>1, <1>2, <1>3, FlipMoves
  <1>5. /\ flips'[a] = NoFlip
        /\ \A b \in PageThread : b # a => flips'[b] = flips[b]
    BY <1>1 DEF ThreadPageTypeOK
  <1>6. flips' \in [PageThread -> [tab : Tab \cup {"none"}, to : BOOLEAN]]
    BY <1>1 DEF ThreadPageTypeOK, NoFlip
  <1>7. ThreadPageTypeOK'
    BY <1>1, <1>4, <1>6 DEF ThreadPageTypeOK, TabList
  <1>8. LoadsAreTheirs'
    BY <1>1 DEF LoadsAreTheirs
  <1>9. FlipsAreTheirs'
    BY <1>1, <1>5 DEF FlipsAreTheirs
  <1>10. ASSUME NEW t \in Tab, lists[t].loaded, current[t] = NoTabLoad, ~lists[t].failed,
                t \notin muddled'
         PROVE  FlagsAreCurrent(t)'
    <2>1. t \notin muddled /\ allowList' = allowList /\ t = s
      BY <1>1, <1>10 DEF FlipsAreTheirs, s
    <2>2. FlagsAreCurrent(t)
      BY <1>10, <2>1 DEF ListsAreCurrent
    <2>3. to = (a \in allowList)
      BY <1>1, <2>2 DEF to, FlagsAreCurrent
    <2>4. lists'[t].rows[a] = to /\ a \in DOMAIN lists[t].rows
      BY <1>1, <1>4, <2>1, <2>2 DEF FlagsAreCurrent
    <2>5. ASSUME NEW b \in PageThread, b # a
          PROVE  /\ flips'[b] = flips[b]
                 /\ b \in DOMAIN lists[t].rows => lists'[t].rows[b] = lists[t].rows[b]
      BY <1>4, <1>5, <2>1, <2>5
    <2>6. DOMAIN lists'[t].rows = DOMAIN lists[t].rows
      BY <1>4
    <2>7. Hits(t, searched[t])' = Hits(t, searched[t])
      BY <1>1, <2>1 DEF Hits
    <2> QED
      BY <1>5, <2>1, <2>2, <2>3, <2>4, <2>5, <2>6, <2>7 DEF FlagsAreCurrent
  <1>11. ListsAreCurrent'
    BY <1>1, <1>4, <1>10 DEF ListsAreCurrent
  <1> QED
    BY <1>7, <1>8, <1>9, <1>11

\* A load arrives, or does not.
LEMMA LoadEndKeeps ==
  ASSUME ThreadPageInv, NEW x \in TabLoad, LoadArrives(x) \/ LoadFails(x)
  PROVE  ThreadPageInv'
  <1>1. asks[x] # NotLoading
    BY DEF LoadArrives, LoadFails
  <1>2. asks[x].tab \in Tab /\ asks[x].query \in Query
    BY <1>1 DEF ThreadPageInv, LoadsAreTheirs, ThreadPageTypeOK
  <1>3. <<>> \in FlagRows /\ ServerList(asks[x].tab, asks[x].query) \in FlagRows
    BY <1>2, ListsHaveTypes DEF ThreadPageInv
  <1>4. CASE LoadArrives(x)
    BY <1>1, <1>3, <1>4, LoadSettles DEF LoadArrives
  <1>5. CASE LoadFails(x)
    BY <1>1, <1>3, <1>5, LoadSettles DEF LoadFails
  <1> QED
    BY <1>4, <1>5

\* Whatever happens, a list is the server's but for the switches on their way, or it waits for
\* a load.
LEMMA ThreadPageSteps == ThreadPageInv /\ [ThreadPageNext]_threadPageVars => ThreadPageInv'
  <1> SUFFICES ASSUME ThreadPageInv, [ThreadPageNext]_threadPageVars
               PROVE  ThreadPageInv'
    OBVIOUS
  <1>1. PageTyped /\ "friends" \in Tab
    BY PageAssumption DEF ThreadPageInv, ThreadPageTypeOK, PageTyped
  <1>2. CASE UNCHANGED threadPageVars
    BY <1>1, <1>2, ViewKeeps DEF threadPageVars, PageTyped
  <1>3. CASE OpenPage
    <2>1. PageTyped' /\ search \in Query
      BY <1>1, <1>3 DEF OpenPage, PageTyped
    <2> QED
      BY <1>1, <1>3, <2>1, LoadBegins DEF OpenPage
  <1>4. ASSUME NEW t \in Tab, OpenTab(t)
        PROVE  ThreadPageInv'
    <2>1. PageTyped' /\ search \in Query
      BY <1>1, <1>4 DEF OpenTab, PageTyped
    <2> QED
      BY <1>4, <2>1, LoadBegins, ViewKeeps DEF OpenTab, NoLoadNow
  <1>5. ASSUME NEW q \in Query, TypeSearch(q)
        PROVE  ThreadPageInv'
    <2>1. PageTyped'
      BY <1>1, <1>5 DEF TypeSearch, PageTyped
    <2> QED
      BY <1>5, <2>1, ViewKeeps DEF TypeSearch, NoLoadNow
  <1>6. CASE SearchNow
    <2>1. PageTyped' /\ search \in Query /\ timer \in Tab
      BY <1>1, <1>6 DEF SearchNow, PageTyped
    <2> QED
      BY <1>6, <2>1, LoadBegins DEF SearchNow
  <1>7. CASE RefreshTab
    <2>1. PageTyped' /\ search \in Query /\ tab \in Tab
      BY <1>1, <1>7 DEF RefreshTab, PageTyped
    <2> QED
      BY <1>7, <2>1, LoadBegins DEF RefreshTab
  <1> QED
    BY <1>2, <1>3, <1>4, <1>5, <1>6, <1>7, LoadEndKeeps, ToggleKeeps, StoredKeeps, RefusalKeeps
    DEF ThreadPageNext

\* The inductive invariant of the page of threads.
THEOREM ThreadPageInvariant == ThreadPageSpec => []ThreadPageInv
  <1> QED
    BY ThreadPageInitHolds, ThreadPageSteps, PTL DEF ThreadPageSpec

\* A list without switches on their way is the server's.
LEMMA ListsAreTheServers == ThreadPageInv => ThreadsShownAreCurrent
  <1> SUFFICES ASSUME ThreadPageInv, NEW t \in Tab, lists[t].loaded, current[t] = NoTabLoad
               PROVE  /\ lists[t].query = searched[t]
                      /\ (/\ ~lists[t].failed /\ t \notin muddled
                          /\ \A a \in PageThread : flips[a] = NoFlip)
                            => lists[t].rows = ServerList(t, searched[t])
    BY DEF ThreadsShownAreCurrent
  <1> DEFINE rows == lists[t].rows
             hits == Hits(t, searched[t])
  <1>1. rows \in FlagRows
    BY DEF ThreadPageInv, ThreadPageTypeOK
  <1>2. lists[t].query = searched[t]
    BY DEF ThreadPageInv, ListsAreCurrent
  <1>3. ASSUME ~lists[t].failed, t \notin muddled, \A a \in PageThread : flips[a] = NoFlip
        PROVE  rows = ServerList(t, searched[t])
    <2>1. /\ DOMAIN rows = hits
          /\ \A a \in PageThread : a \in hits => rows[a] = (a \in allowList)
      BY <1>3 DEF ThreadPageInv, ListsAreCurrent, FlagsAreCurrent
    <2>2. hits \subseteq PageThread /\ rows = [a \in hits |-> rows[a]]
      BY <1>1, <2>1, RowsAreFlags
    <2>3. ServerList(t, searched[t]) = [a \in hits |-> a \in allowList]
      BY DEF ServerList, Hits
    <2> HIDE DEF rows, hits
    <2> QED
      BY <2>1, <2>2, <2>3
  <1> QED
    BY <1>2, <1>3

-----------------------------------------------------------------------------
(* The senders' roles *)

\* The fields the argument needs: loads know their filter, edits where they are.
ChangesHaveFields ==
    /\ changes = [c \in Change |-> changes[c]]
    /\ \A c \in Change :
          changes[c] = [at |-> changes[c].at, kind |-> changes[c].kind, who |-> changes[c].who,
                        to |-> changes[c].to, filter |-> changes[c].filter]

PrincipalsHaveFields ==
    /\ filter \in Filter \cup {"none"}
    /\ fetches \in [Fetch -> Filter \cup {"none"}]
    /\ ChangesHaveFields
    /\ \A c \in Change : changes[c].at # "none" => filter # "none" /\ changes[c].filter \in Filter
    /\ filter = "none" => DOMAIN listed = {} /\ \A x \in Fetch : fetches[x] = "none"

\* The strengthening of PrincipalsShownAreCurrent: after a clean load has begun every load is
\* for the filter, and the list is the server's unless an edit has yet to bring a load.
RolesAreCurrent ==
    clean =>
        /\ \A x \in Fetch : fetches[x] # "none" => fetches[x] = filter
        /\ (/\ ~listError /\ filter # "none" /\ \A x \in Fetch : fetches[x] = "none"
            /\ \A c \in Change : changes[c].at # "stored")
              => listed = Listed(filter)

PrincipalPageInv == PrincipalsHaveFields /\ RolesAreCurrent

\* Nothing is shown before the page is open.
LEMMA PrincipalPageInitHolds == PrincipalPageInit => PrincipalPageInv
  BY DEF PrincipalPageInit, PrincipalPageInv, PrincipalsHaveFields, ChangesHaveFields,
         RolesAreCurrent, NoChange

\* A load that begins is alone and for the filter, or the list is not clean.
LEMMA FetchBegins ==
  ASSUME PrincipalPageInv, NEW f \in Filter, FetchPrincipals(f, filter'), filter' \in Filter,
         ChangesHaveFields',
         \A c \in Change : changes'[c].at # "none" => changes'[c].filter \in Filter
  PROVE  PrincipalPageInv'
  <1>1. PICK x \in Fetch : fetches[x] = "none" /\ fetches' = [fetches EXCEPT ![x] = f]
    BY DEF FetchPrincipals
  <1>2. f # "none"
    BY DEF Filter
  <1>3. PrincipalsHaveFields'
    BY <1>1, <1>2 DEF PrincipalPageInv, PrincipalsHaveFields, ChangesHaveFields, Filter
  <1>4. fetches'[x] = f
    BY <1>1 DEF PrincipalPageInv, PrincipalsHaveFields, ChangesHaveFields
  <1>5. clean' => \A y \in Fetch : fetches'[y] # "none" => fetches'[y] = filter'
    BY <1>1 DEF PrincipalPageInv, PrincipalsHaveFields, ChangesHaveFields, FetchPrincipals
  <1> QED
    BY <1>2, <1>3, <1>4, <1>5 DEF PrincipalPageInv, RolesAreCurrent

\* What the handlers leave alone.
LEMMA ClicksKeep ==
  ASSUME PrincipalPageInv,
         UNCHANGED <<standing, filter, listed, listError, fetches, clean>>,
         ChangesHaveFields',
         \A c \in Change : changes[c].at = "stored" => changes'[c].at = "stored",
         \A c \in Change : changes'[c].at # "none" => filter # "none" /\ changes'[c].filter \in Filter
  PROVE  PrincipalPageInv'
  BY DEF PrincipalPageInv, PrincipalsHaveFields, ChangesHaveFields, RolesAreCurrent, Listed

\* An edit that is sent is not stored.
LEMMA SendsKeep ==
  ASSUME PrincipalPageInv, NEW kind, NEW w, NEW to, SendChange(kind, w, to), filter # "none"
  PROVE  PrincipalPageInv'
  <1>1. PICK c \in Change :
            /\ changes[c].at = "none"
            /\ changes' = [changes EXCEPT ![c] = [at |-> "sent", kind |-> kind, who |-> w,
                                                  to |-> to, filter |-> filter]]
    BY DEF SendChange
  <1>2. ChangesHaveFields'
    BY <1>1 DEF PrincipalPageInv, PrincipalsHaveFields, ChangesHaveFields
  <1>3. /\ \A d \in Change : changes[d].at = "stored" => changes'[d].at = "stored"
        /\ \A d \in Change :
              changes'[d].at # "none" => filter # "none" /\ changes'[d].filter \in Filter
    BY <1>1 DEF PrincipalPageInv, PrincipalsHaveFields, ChangesHaveFields
  <1> QED
    BY <1>2, <1>3, ClicksKeep DEF SendChange

\* Lists come, or do not.
LEMMA ListsKeep ==
  ASSUME PrincipalPageInv, NEW x \in Fetch, FetchArrives(x) \/ FetchFails(x)
  PROVE  PrincipalPageInv'
  <1>1. PrincipalsHaveFields'
    BY DEF FetchArrives, FetchFails, PrincipalPageInv, PrincipalsHaveFields, ChangesHaveFields
  <1>2. CASE FetchArrives(x)
    <2>1. clean => listed' = Listed(filter)
      BY <1>2 DEF FetchArrives, PrincipalPageInv, RolesAreCurrent
    <2>2. \A y \in Fetch : fetches'[y] # "none" => fetches'[y] = fetches[y]
      BY <1>2 DEF FetchArrives, PrincipalPageInv, PrincipalsHaveFields, ChangesHaveFields
    <2>3. UNCHANGED <<standing, filter, clean>>
      BY <1>2 DEF FetchArrives
    <2> QED
      BY <1>1, <2>1, <2>2, <2>3 DEF PrincipalPageInv, RolesAreCurrent, Listed
  <1>3. CASE FetchFails(x)
    <2>1. \A y \in Fetch : fetches'[y] # "none" => fetches'[y] = fetches[y]
      BY <1>3 DEF FetchFails, PrincipalPageInv, PrincipalsHaveFields, ChangesHaveFields
    <2>2. listError' = TRUE /\ UNCHANGED <<filter, clean>>
      BY <1>3 DEF FetchFails
    <2> QED
      BY <1>1, <2>1, <2>2 DEF PrincipalPageInv, RolesAreCurrent
  <1> QED
    BY <1>2, <1>3

\* The server carries out an edit or refuses it.
LEMMA ServerKeeps ==
  ASSUME PrincipalPageInv, NEW c \in Change, ServerEdits(c)
  PROVE  PrincipalPageInv'
  <1>1. PICK stored \in BOOLEAN, answered \in BOOLEAN :
            /\ answered => stored
            /\ standing' = IF stored THEN Edited(c) ELSE standing
            /\ changes' = [changes EXCEPT ![c].at = IF answered THEN "stored" ELSE "refused"]
            /\ clean' = (clean /\ (stored => answered))
    BY DEF ServerEdits
  <1>2. /\ UNCHANGED <<filter, listed, listError, fetches>>
        /\ changes[c].at = "sent"
    BY DEF ServerEdits
  <1>3. PrincipalsHaveFields'
    BY <1>1, <1>2 DEF PrincipalPageInv, PrincipalsHaveFields, ChangesHaveFields
  <1>4. CASE answered
    <2>1. changes' = [changes EXCEPT ![c].at = "stored"]
      BY <1>1, <1>4
    <2>2. changes'[c].at = "stored"
      BY <2>1 DEF PrincipalPageInv, PrincipalsHaveFields, ChangesHaveFields
    <2>3. clean' => clean
      BY <1>1
    <2> QED
      BY <1>2, <1>3, <2>2, <2>3 DEF PrincipalPageInv, RolesAreCurrent
  <1>5. CASE stored /\ ~answered
    BY <1>1, <1>3, <1>5 DEF PrincipalPageInv, RolesAreCurrent
  <1>6. CASE ~stored
    <2>1. standing' = standing /\ (clean' <=> clean)
      BY <1>1, <1>6
    <2>2. \A d \in Change : changes[d].at = "stored" => changes'[d].at = "stored"
      BY <1>1, <1>2 DEF PrincipalPageInv, PrincipalsHaveFields, ChangesHaveFields
    <2>3. Listed(filter)' = Listed(filter)
      BY <1>2, <2>1 DEF Listed
    <2> QED
      BY <1>2, <1>3, <2>1, <2>2, <2>3 DEF PrincipalPageInv, RolesAreCurrent
  <1> QED
    BY <1>1, <1>4, <1>5, <1>6

\* The answer of an edit brings a load.
LEMMA RepliesKeep ==
  ASSUME PrincipalPageInv, NEW c \in Change, EditStored(c) \/ EditRefused(c)
  PROVE  PrincipalPageInv'
  <1>1. CASE EditRefused(c)
    <2>1. ChangesHaveFields'
      BY <1>1 DEF EditRefused, PrincipalPageInv, PrincipalsHaveFields, ChangesHaveFields, NoChange
    <2>2. \A d \in Change : changes[d].at = "stored" => changes'[d].at = "stored"
      BY <1>1 DEF EditRefused, PrincipalPageInv, PrincipalsHaveFields, ChangesHaveFields
    <2>3. \A d \in Change :
             changes'[d].at # "none" => filter # "none" /\ changes'[d].filter \in Filter
      BY <1>1 DEF EditRefused, PrincipalPageInv, PrincipalsHaveFields, ChangesHaveFields, NoChange
    <2> QED
      BY <1>1, <2>1, <2>2, <2>3, ClicksKeep DEF EditRefused
  <1>2. CASE EditStored(c)
    <2>1. ChangesHaveFields'
      BY <1>2 DEF EditStored, PrincipalPageInv, PrincipalsHaveFields, ChangesHaveFields, NoChange
    <2>2. filter' = filter /\ FetchPrincipals(changes[c].filter, filter) /\ listed' = listed
      BY <1>2 DEF EditStored
    <2>3. changes[c].filter \in Filter /\ filter \in Filter
      BY <1>2 DEF EditStored, PrincipalPageInv, PrincipalsHaveFields, ChangesHaveFields
    <2>4. \A d \in Change : changes'[d].at # "none" => changes'[d].filter \in Filter
      BY <1>2 DEF EditStored, PrincipalPageInv, PrincipalsHaveFields, ChangesHaveFields, NoChange
    <2> QED
      BY <2>1, <2>2, <2>3, <2>4, FetchBegins
  <1> QED
    BY <1>1, <1>2

\* Whatever happens, a list is the server's, or it waits for a load.
LEMMA PrincipalPageSteps == PrincipalPageInv /\ [PrincipalPageNext]_principalPageVars
          => PrincipalPageInv'
  <1> SUFFICES ASSUME PrincipalPageInv, [PrincipalPageNext]_principalPageVars
               PROVE  PrincipalPageInv'
    OBVIOUS
  <1>1. CASE UNCHANGED principalPageVars
    BY <1>1 DEF principalPageVars, PrincipalPageInv, PrincipalsHaveFields, ChangesHaveFields,
                RolesAreCurrent, Listed
  <1>2. CASE OpenPrincipals
    <2>1. \A c \in Change : changes[c].at = "none"
      BY <1>2 DEF OpenPrincipals, PrincipalPageInv, PrincipalsHaveFields, ChangesHaveFields
    <2>2. /\ ChangesHaveFields'
          /\ \A c \in Change : changes'[c].at # "none" => changes'[c].filter \in Filter
      BY <1>2, <2>1 DEF OpenPrincipals, PrincipalPageInv, PrincipalsHaveFields, ChangesHaveFields
    <2>3. filter' = "all" /\ "all" \in Filter /\ FetchPrincipals("all", filter')
      BY <1>2 DEF OpenPrincipals, Filter
    <2> QED
      BY <2>2, <2>3, FetchBegins
  <1>3. ASSUME NEW f \in Filter, ChooseFilter(f)
        PROVE  PrincipalPageInv'
    <2>1. /\ ChangesHaveFields'
          /\ \A c \in Change : changes'[c].at # "none" => changes'[c].filter \in Filter
      BY <1>3 DEF ChooseFilter, PrincipalPageInv, PrincipalsHaveFields, ChangesHaveFields
    <2>2. filter' = f /\ FetchPrincipals(f, filter')
      BY <1>3 DEF ChooseFilter
    <2> QED
      BY <2>1, <2>2, FetchBegins
  <1>4. ASSUME NEW w \in Who, Create(w) \/ ChangeRole(w) \/ ToggleStatus(w)
        PROVE  PrincipalPageInv'
    <2>1. filter # "none"
      BY <1>4 DEF Create, ChangeRole, ToggleStatus, PrincipalPageInv, PrincipalsHaveFields,
                  ChangesHaveFields
    <2> QED
      BY <1>4, <2>1, SendsKeep DEF Create, ChangeRole, ToggleStatus
  <1>5. CASE SaveEdit
    <2>1. filter # "none"
      BY <1>5 DEF SaveEdit, PrincipalPageInv, PrincipalsHaveFields, ChangesHaveFields
    <2> QED
      BY <1>5, <2>1, SendsKeep DEF SaveEdit
  <1>6. CASE CancelEdit \/ \E w \in Who : StartEdit(w)
    <2>1. UNCHANGED <<standing, filter, listed, listError, fetches, changes, clean>>
      BY <1>6 DEF CancelEdit, StartEdit
    <2> QED
      BY <2>1, ClicksKeep DEF PrincipalPageInv, PrincipalsHaveFields, ChangesHaveFields
  <1> QED
    BY <1>1, <1>2, <1>3, <1>4, <1>5, <1>6, ListsKeep, ServerKeeps, RepliesKeep
    DEF PrincipalPageNext

\* The inductive invariant of the page of senders.
THEOREM PrincipalPageInvariant == PrincipalPageSpec => []PrincipalPageInv
  <1> QED
    BY PrincipalPageInitHolds, PrincipalPageSteps, PTL DEF PrincipalPageSpec

-----------------------------------------------------------------------------
(* All of them *)

\* What the console shows is what it would be told now, whatever order answers come in.
THEOREM ConsoleShows == ConsolePagesSpec => []ConsoleKeepsUp
  <1>1. CardInv /\ StatusInv => ConsoleIsCurrent
    BY DEF CardInv, StatusInv, LoadsSeeConnects, Owes, ConsoleIsCurrent, RefreshSeesConnect
  <1>2. PrincipalPageInv => PrincipalsShownAreCurrent
    BY DEF PrincipalPageInv, RolesAreCurrent, PrincipalsShownAreCurrent
  <1>3. CardInv /\ StatusInv /\ ThreadPageInv /\ PrincipalPageInv => ConsoleKeepsUp
    BY <1>1, <1>2, ListsAreTheServers DEF ConsoleKeepsUp
  <1> QED
    BY <1>3, ConsoleInvariant, ThreadPageInvariant, PrincipalPageInvariant, PTL
    DEF ConsolePagesSpec
=============================================================================
