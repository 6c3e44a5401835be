------------------------------ MODULE MCServices ------------------------------
(***************************************************************************)
(* The services and the console side by side.  They share no variable, so  *)
(* a state of all of them says no more than one state of each: a behaviour *)
(* is one of a single part, chosen at the start, while the others rest     *)
(* where they begin.  That checks each part in full.                       *)
(***************************************************************************)
EXTENDS ToolTurn, ZaloActions, Pipeline, Documents, ConsoleEdits, Reports,
        ConsolePages, Instances, ReplyGuards, Reminders, Dialogue

VARIABLE part

\* A file without a word, and one with a paragraph and a line break.
Texts == {<<>>, <<0, 0, 0, 1, 0, 2>>}

\* A text of several parts, with a break late in the first and a surrogate pair at the end
\* of the second, and one that sanitizing changes.
Shapes ==
    LET c == "char"
    IN "long" :> <<c, c, c, "break", c, "high", "low", c, c, c, c, c>> @@ "quoted" :> <<>>

\* When messages come and which times they name: before and after, close to the minimum and
\* to midnight, with minutes, before and at noon, and beyond the day.
Times == {10795, 30600, 68395, 68400, 86340}
Clocks == {<<3, 0>>, <<7, 30>>, <<11, 0>>, <<12, 0>>, <<19, 0>>, <<25, 0>>}

\* One friend, whom the empty search finds and another does not.
Friends == [t \in {"friends"} |-> {"f1"}]
Searches == "" :> {"f1"} @@ "q" :> {}

Part == {"tools", "actions", "pipeline", "documents", "settings", "readiness",
         "instances", "records", "console", "guards", "reminders",
         "dialogue", "attendance", "matching", "threads", "principals", "traces", "identity"}

servicesVars == <<part, toolVars, actionVars, pipeVars, docVars, settingVars, readinessVars,
                  instanceVars, adminVars, consoleVars, guardVars, remindVars,
                  dialogVars, attendVars, ruleMatchVars, threadPageVars, principalPageVars,
                  traceVars, identityVars>>

\* A part at rest begins in one state, that of the moment when it has several.
Init ==
    /\ part \in Part
    /\ ToolInit /\ ActionInit /\ PipeInit /\ DocInit /\ SettingInit /\ ReadinessInit
    /\ InstanceInit /\ AdminInit /\ ConsoleInit /\ GuardInit
    /\ RemindInit /\ DialogInit /\ AttendInit /\ RuleInit
    /\ ThreadPageInit /\ PrincipalPageInit /\ TraceInit /\ IdentityInit
    /\ part # "pipeline" => structured
    /\ part # "instances" => lock = NoPid
    /\ part # "records" => area = "rules"
    /\ part # "attendance" => rollCall.status = "draft"
    /\ part # "threads" => allowList = {}
    /\ part # "dialogue" => provider = "bridge"

\* One step of the part.
Next ==
    /\ UNCHANGED part
    /\ part # "tools" => UNCHANGED toolVars
    /\ part # "actions" => UNCHANGED actionVars
    /\ part # "pipeline" => UNCHANGED pipeVars
    /\ part # "documents" => UNCHANGED docVars
    /\ part # "settings" => UNCHANGED settingVars
    /\ part # "readiness" => UNCHANGED readinessVars
    /\ part # "instances" => UNCHANGED instanceVars
    /\ part # "records" => UNCHANGED adminVars
    /\ part # "console" => UNCHANGED consoleVars
    /\ part # "guards" => UNCHANGED guardVars
    /\ part # "reminders" => UNCHANGED remindVars
    /\ part # "dialogue" => UNCHANGED dialogVars
    /\ part # "attendance" => UNCHANGED attendVars
    /\ part # "matching" => UNCHANGED ruleMatchVars
    /\ part # "threads" => UNCHANGED threadPageVars
    /\ part # "principals" => UNCHANGED principalPageVars
    /\ part # "traces" => UNCHANGED traceVars
    /\ part # "identity" => UNCHANGED identityVars
    /\ \/ part = "tools" /\ ToolNext
       \/ part = "actions" /\ ActionNext
       \/ part = "pipeline" /\ PipeNext
       \/ part = "documents" /\ DocNext
       \/ part = "settings" /\ SettingNext
       \/ part = "readiness" /\ ReadinessNext
       \/ part = "instances" /\ InstanceNext
       \/ part = "records" /\ AdminNext
       \/ part = "console" /\ ConsoleNext
       \/ part = "guards" /\ GuardNext
       \/ part = "reminders" /\ RemindNext
       \/ part = "dialogue" /\ DialogNext
       \/ part = "attendance" /\ AttendNext
       \/ part = "matching" /\ RuleNext
       \/ part = "threads" /\ ThreadPageNext
       \/ part = "principals" /\ PrincipalPageNext
       \/ part = "traces" /\ TraceNext
       \/ part = "identity" /\ IdentityNext

Spec == Init /\ [][Next]_servicesVars

\* The actors of a part are alike.  Every part has the same ones, since one part moves.
ServicesSymmetry == Permutations(Call)

\* What no later step and no property tells apart.  A tool or an action that did not succeed is
\* as good as another, and so is the record of one.
ToolView ==
    <<[c \in Call |-> [calls[c] EXCEPT !.status = (calls[c].status = "success")]],
      turn, {k \in ToolKey : toolRow[k] # "none"}, acted, unseen>>
ActionView ==
    <<[h \in Handler |-> <<handler[h].pc, handler[h].key, handler[h].outcome = "live_sent">>],
      cooling, reactions, {k \in ActionKey : record[k] # "none"}, actionLog, actionFaults>>

\* Of a deleted document there remains its text, in the shared file, and how it is read.
DocView ==
    <<ingesting, files, output, pollers, docFaults,
      [d \in DocId |->
          IF docs[d].status = "deleted"
          THEN [text |-> docs[d].text, direct |-> docs[d].direct /\ \E p \in Poller : pollers[p].doc = d]
          ELSE docs[d]]>>

\* A cache that need not follow its row is written before it is looked at again.
SettingView ==
    <<settingRow, requests, blurred, settingFaults, [k \in SettingKey \ blurred |-> settingCache[k]]>>

\* A collection that found anything does not end ready, whatever it found.
ReadinessView == <<beats, alive, todo, found # {}, took, verdict>>

\* The one request that writes a roll call's row settles its window; nothing reads its status.
AttendView ==
    <<hour, WindowStart, rollCall.ended, rollCall.actual, replies, present, clerks, orders, since, jostled>>

\* The answer to a load that was overtaken is not shown.
ThreadPageView ==
    <<allowList, tab, search, timer, lists, current, flips, searched, muddled,
      [x \in TabLoad |-> IF asks[x] # NotLoading /\ Overtaken(x) THEN "overtaken" ELSE asks[x]]>>

\* Of an event there counts who it is from, where, and how sure that is.
IdentityView ==
    <<event.pc, handledAs, roleRows, held, rowEdits, identityFaults,
      IF event.pc = "idle" THEN <<>>
      ELSE <<identity.threadId, identity.senderId, confidenceOf(event.raw) = "unknown", threadTypeOf(event.raw)>>>>

\* What is at rest tells no two states apart either.
ServicesView ==
    CASE part = "tools" -> <<part, ToolView>>
      [] part = "actions" -> <<part, ActionView>>
      [] part = "pipeline" -> <<part, pipeVars>>
      [] part = "documents" -> <<part, DocView>>
      [] part = "settings" -> <<part, SettingView>>
      [] part = "readiness" -> <<part, ReadinessView>>
      [] part = "instances" -> <<part, instanceVars>>
      [] part = "records" -> <<part, adminVars>>
      [] part = "console" -> <<part, consoleVars>>
      [] part = "guards" -> <<part, guardVars>>
      [] part = "reminders" -> <<part, remindVars>>
      [] part = "dialogue" -> <<part, dialogVars>>
      [] part = "attendance" -> <<part, AttendView>>
      [] part = "matching" -> <<part, ruleMatchVars>>
      [] part = "threads" -> <<part, ThreadPageView>>
      [] part = "principals" -> <<part, principalPageVars>>
      [] part = "traces" -> <<part, traceVars>>
      [] part = "identity" -> <<part, IdentityView>>

\* The type of the part that moves.
ServicesTypeOK ==
    CASE part = "tools" -> ToolTypeOK
      [] part = "actions" -> ActionTypeOK
      [] part = "pipeline" -> PipeTypeOK
      [] part = "documents" -> DocTypeOK
      [] part = "settings" -> SettingTypeOK
      [] part = "readiness" -> ReadinessTypeOK
      [] part = "instances" -> InstanceTypeOK
      [] part = "records" -> AdminTypeOK
      [] part = "console" -> ConsoleTypeOK
      [] part = "guards" -> GuardTypeOK
      [] part = "reminders" -> RemindTypeOK
      [] part = "dialogue" -> DialogTypeOK
      [] part = "attendance" -> AttendTypeOK
      [] part = "matching" -> RuleTypeOK
      [] part = "threads" -> ThreadPageTypeOK
      [] part = "principals" -> PrincipalPageTypeOK
      [] part = "traces" -> TraceTypeOK
      [] part = "identity" -> IdentityTypeOK
=============================================================================
