---------------------------- MODULE ConsoleEdits ----------------------------
(***************************************************************************)
(* What an operator stores through the console: settings, records, rules.  *)
(* The three share no variable, and no statement of one waits for another. *)
(***************************************************************************)
EXTENDS Settings, AdminRecords, RuleMatching

ConsoleEditsSpec == SettingSpec /\ AdminSpec /\ RuleSpec

\* What an operator has stored is kept and acted on: the gates read what the table says, the
\* rows are what the console was told, and a message is taken by the same rule until the next
\* edit (allowlist.service, runtime-config.service, rule-engine.service, principal.service and
\* thread-settings.service).
EditsTakeHold == CachesFollowStore /\ RecordsAreKept /\ VerdictsStand
=============================================================================
