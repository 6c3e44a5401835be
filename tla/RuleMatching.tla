----------------------------- MODULE RuleMatching -----------------------------
(***************************************************************************)
(* Which reply rule takes a message: evaluateRules of                      *)
(* services/rule-engine.service.ts, asked by the dispatcher and by the     *)
(* simulator of the console, while rules are edited and while the          *)
(* dispatcher counts its matches.                                          *)
(*                                                                         *)
(* A count is an update of the row, so it moves the row's updatedAt, which *)
(* is what orders rules of one priority; nobody awaits it.  Keywords and   *)
(* patterns are the words they find.                                       *)
(***************************************************************************)
EXTENDS Naturals, FiniteSets

CONSTANTS
    RuleId,
    RuleThread,       \* threads
    NoRule,
    MaxRuleEdits,     \* bound on the edits
    MaxCounts         \* bound on the counts

ASSUME RuleAssumption ==
    /\ NoRule \notin RuleId
    /\ MaxRuleEdits \in Nat /\ MaxCounts \in Nat

VARIABLES
    rules,       \* the Rule rows
    stamp,       \* the updatedAt given last
    counting,    \* counts nobody awaits
    counts,      \* counts made
    takenBy,     \* who took each message since the last edit: history
    rulesEdited

ruleMatchVars == <<rules, stamp, counting, counts, takenBy, rulesEdited>>

Trigger ==
    {[on |-> "words", of |-> w] : w \in {{}, {"hi"}, {"bye"}}}
    \cup {[on |-> f, of |-> v] : f \in {"type", "sender"}, v \in {{}, {"a"}}}
Action == {"fixed_reply", "ignore", "route_to_hermes"}

\* Messages, and the simulator's thread for a message of which none is named.
SimThread == "sim-thread"
Message == [thread : RuleThread \cup {SimThread}, words : {{"hi"}, {"hi", "bye"}}, type : {"a"}, sender : {"a"}]

RuleInit ==
    /\ rules = [r \in RuleId |-> [enabled |-> TRUE, priority |-> 1, targets |-> {},
                                  trigger |-> [on |-> "words", of |-> {"hi"}],
                                  action |-> "fixed_reply", updatedAt |-> 0]]
    /\ stamp = 0
    /\ counting = {}
    /\ counts = 0
    /\ takenBy = [m \in Message |-> "unasked"]
    /\ rulesEdited = 0

\* No targets are all threads; a field that is not configured matches nothing.
Matches(r, m) ==
    LET entry == rules[r]
    IN /\ entry.enabled
       /\ entry.targets = {} \/ m.thread \in entry.targets
       /\ IF entry.trigger.on = "words" THEN entry.trigger.of \cap m.words # {}
          ELSE m[entry.trigger.on] \in entry.trigger.of

\* listRules: the lower number goes first, among equals the row that was written last.
Before(r, q) ==
    \/ rules[r].priority < rules[q].priority
    \/ rules[r].priority = rules[q].priority /\ rules[r].updatedAt >= rules[q].updatedAt

Matching(m) == {r \in RuleId : Matches(r, m)}
Winners(m) == {r \in Matching(m) : \A q \in Matching(m) : Before(r, q)}

\* The winner, or none.
evaluateRules(m, w) == IF Matching(m) = {} THEN w = NoRule ELSE w \in Winners(m)

\* The dispatcher's message.  A fixed reply is counted when its other statements are done.
RuleTakes(m, w) ==
    /\ m.thread # SimThread /\ evaluateRules(m, w)
    /\ takenBy' = [takenBy EXCEPT ![m] = w]
    /\ counting' = IF w # NoRule /\ rules[w].action = "fixed_reply" THEN counting \cup {w} ELSE counting
    /\ UNCHANGED <<rules, stamp, counts, rulesEdited>>

\* The simulator changes nothing, and its answer is the dispatcher's for the thread it was
\* given.
simulateRule(m, w) ==
    /\ evaluateRules(m, w)
    /\ takenBy' = [takenBy EXCEPT ![m] = w]
    /\ UNCHANGED <<rules, stamp, counting, counts, rulesEdited>>

\* The update of matchCount and lastMatchedAt.
Count(r) ==
    /\ r \in counting /\ counts < MaxCounts
    /\ counting' = counting \ {r} /\ counts' = counts + 1
    /\ stamp' = stamp + 1
    /\ rules' = [rules EXCEPT ![r].updatedAt = stamp + 1]
    /\ UNCHANGED <<takenBy, rulesEdited>>

\* An operator changes a field of a rule.
EditRule(r) ==
    /\ rulesEdited < MaxRuleEdits /\ rulesEdited' = rulesEdited + 1
    /\ stamp' = stamp + 1
    /\ \E entry \in {[rules[r] EXCEPT !.enabled = ~@]}
                  \cup {[rules[r] EXCEPT !.priority = p] : p \in {1, 2}}
                  \cup {[rules[r] EXCEPT !.targets = ts] : ts \in SUBSET RuleThread}
                  \cup {[rules[r] EXCEPT !.trigger = t] : t \in Trigger}
                  \cup {[rules[r] EXCEPT !.action = a] : a \in Action} :
           rules' = [rules EXCEPT ![r] = [entry EXCEPT !.updatedAt = stamp + 1]]
    /\ takenBy' = [m \in Message |-> "unasked"]
    /\ UNCHANGED <<counting, counts>>

RuleNext ==
    \/ \E m \in Message, w \in RuleId \cup {NoRule} : RuleTakes(m, w) \/ simulateRule(m, w)
    \/ \E r \in RuleId : Count(r) \/ EditRule(r)

RuleSpec == RuleInit /\ [][RuleNext]_ruleMatchVars

-----------------------------------------------------------------------------
\* Properties.

\* The state has its type.
RuleTypeOK ==
    /\ rules \in [RuleId -> [enabled : BOOLEAN, priority : {1, 2}, targets : SUBSET RuleThread,
                             trigger : Trigger, action : Action, updatedAt : 0 .. stamp]]
    /\ stamp \in Nat
    /\ counting \subseteq RuleId /\ counts \in 0 .. MaxCounts
    /\ takenBy \in [Message -> RuleId \cup {NoRule, "unasked"}]
    /\ rulesEdited \in 0 .. MaxRuleEdits

\* Between two edits a message is always taken by the same rule, live and in the simulator,
\* unless rules of one priority match it: then it may be another after every count
\* (evaluateRules, the update of matchCount that moves updatedAt).
Tied(m) == \E r, q \in Matching(m) : r # q /\ rules[r].priority = rules[q].priority
VerdictsStand ==
    \A m \in Message : takenBy[m] # "unasked" => evaluateRules(m, takenBy[m]) \/ Tied(m)
=============================================================================
