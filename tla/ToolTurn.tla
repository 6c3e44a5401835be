------------------------------- MODULE ToolTurn -------------------------------
(***************************************************************************)
(* Tool calls (services/tool-gateway, services/tools) and the bounded loop *)
(* of an agent's turn that makes them (services/agent-bridge).             *)
(*                                                                         *)
(* ToolGateway.execute is a coroutine per call: it checks the caller, looks*)
(* up the key of a write, asks whether the send may be live, races the tool*)
(* with a timer and writes one ToolCallRecord, whose key is unique, before *)
(* it answers.  The timer ends the wait and not the tool.  A turn of the   *)
(* bridge asks the model, makes the calls it wants one after another and   *)
(* asks again; it is granted read tools only, writes come from the direct  *)
(* entry executeTool.  Tools, arguments and results are data: a call has a *)
(* kind, and for a write the key its scope and arguments hash to.          *)
(***************************************************************************)
EXTENDS Naturals, FiniteSets

CONSTANTS
    Call,         \* calls of execute in progress, reused
    NoCall,
    ToolKey,      \* idempotency keys of the writes
    NoKey,
    MaxRounds,    \* AgentBridge.maxRounds
    MaxCalls      \* AgentBridge.maxCallsPerRound

ASSUME ToolTurnAssumption ==
    /\ NoCall \notin Call /\ NoKey \notin ToolKey
    /\ MaxRounds \in Nat /\ MaxCalls \in Nat

VARIABLES
    calls,      \* the coroutines of execute
    turn,       \* the turn of the bridge
    toolRow,    \* ToolCallRecord by key: the executionStatus it was written with
    acted,      \* how often the tool of a key took effect, up to 2
    unseen      \* keys of which a later call could not see an earlier one: history

toolVars == <<calls, turn, toolRow, acted, unseen>>

\* executionStatus: refused stands for blocked and unavailable, which nothing tells apart.
ToolStatus == {"requested", "success", "failed", "refused"}
CallRecord ==
    [pc : {"idle", "check", "lookup", "decide", "run", "record", "returned"},
     bridge : BOOLEAN, granted : BOOLEAN, key : ToolKey \cup {NoKey}, live : BOOLEAN,
     tool : BOOLEAN, status : ToolStatus, replay : BOOLEAN, recorded : BOOLEAN]
Turn ==
    [pc : {"idle", "adapter", "tools", "claim"}, rounds : 0 .. MaxRounds,
     left : 0 .. MaxCalls, call : Call \cup {NoCall}, results : SUBSET (ToolStatus \X BOOLEAN),
     claims : BOOLEAN, proven : BOOLEAN, out : {"none", "answer", "fallback"}]

IdleCall ==
    [pc |-> "idle", bridge |-> FALSE, granted |-> FALSE, key |-> NoKey, live |-> FALSE,
     tool |-> FALSE, status |-> "requested", replay |-> FALSE, recorded |-> FALSE]
IdleTurn ==
    [pc |-> "idle", rounds |-> 0, left |-> 0, call |-> NoCall, results |-> {},
     claims |-> FALSE, proven |-> FALSE, out |-> "none"]

ToolInit ==
    /\ calls = [c \in Call |-> IdleCall]
    /\ turn = IdleTurn
    /\ toolRow = [k \in ToolKey |-> "none"]
    /\ acted = [k \in ToolKey |-> 0]
    /\ unseen = {}

\* The call of c is made, answered, or dropped by everyone who could see it.
Free(c) == calls[c].pc = "idle"
Open(c) == calls[c].pc \notin {"idle", "returned"}

-----------------------------------------------------------------------------
\* ToolGateway.execute.

\* executeTool: a write of key k, by a caller that holds its grant or not.
CallDirect(c, k, permitted) ==
    /\ Free(c)
    /\ calls' = [calls EXCEPT ![c] = [IdleCall EXCEPT !.pc = "check", !.granted = permitted, !.key = k]]
    /\ unseen' = IF \E d \in Call : Open(d) /\ calls[d].key = k THEN unseen \cup {k} ELSE unseen
    /\ UNCHANGED <<turn, toolRow, acted>>

\* Role, registry, grant, blocked principal, minimum role, scope and arguments: any
\* of them refuses the call, a missing grant always does.  A read has no key and is
\* started at once, a write looks its key up.
Check(c) ==
    /\ calls[c].pc = "check"
    /\ \/ calls' = [calls EXCEPT ![c].pc = "record", ![c].key = NoKey, ![c].status = "refused"]
       \/ /\ calls[c].granted
          /\ calls' = [calls EXCEPT ![c].pc = IF calls[c].key = NoKey THEN "run" ELSE "lookup",
                                    ![c].tool = (calls[c].key = NoKey)]
    /\ UNCHANGED <<turn, toolRow, acted, unseen>>

\* findByIdempotencyKey: any row of the key, a failed one too, is a replay.
LookUpKey(c) ==
    /\ calls[c].pc = "lookup"
    /\ \E ok \in BOOLEAN :
          /\ calls' = [calls EXCEPT ![c] =
                IF ~ok THEN [@ EXCEPT !.pc = "record", !.status = "failed"]
                ELSE IF toolRow[calls[c].key] # "none"
                     THEN [@ EXCEPT !.pc = "record", !.status = "success", !.replay = TRUE]
                     ELSE [@ EXCEPT !.pc = "decide"]]
    /\ UNCHANGED <<turn, toolRow, acted, unseen>>

\* getDryRun answers true, getLiveAllowed what the live test session of the moment
\* says (and false when it cannot tell); the tool is started with the answer.
DecideLive(c, live) ==
    /\ calls[c].pc = "decide"
    /\ calls' = [calls EXCEPT ![c].pc = "run", ![c].live = live, ![c].tool = TRUE]
    /\ UNCHANGED <<turn, toolRow, acted, unseen>>

\* The tool resolves or throws, having taken effect or not; its result may be one its
\* schema refuses.  Nobody is waiting any more when the timer was first.
ToolEnds(c, status, effect) ==
    /\ calls[c].tool
    /\ effect => calls[c].live
    /\ calls' = [calls EXCEPT ![c] =
          IF @.pc = "returned" /\ ~@.bridge THEN IdleCall
          ELSE IF @.pc = "run" THEN [@ EXCEPT !.tool = FALSE, !.pc = "record", !.status = status]
          ELSE [@ EXCEPT !.tool = FALSE]]
    /\ acted' = IF effect THEN [acted EXCEPT ![calls[c].key] = IF @ = 2 THEN 2 ELSE @ + 1]
                ELSE acted
    /\ UNCHANGED <<turn, toolRow, unseen>>

ToolTimeout(c) ==
    /\ calls[c].pc = "run"
    /\ calls' = [calls EXCEPT ![c].pc = "record", ![c].status = "failed"]
    /\ UNCHANGED <<turn, toolRow, acted, unseen>>

\* writeToolCall, and execute returns: the unique key refuses a second row, and a
\* call without its row is a failed one.  A direct caller forgets the call; the
\* bridge takes the answer.
RecordCall(c) ==
    /\ calls[c].pc = "record"
    /\ \E ok \in BOOLEAN :
          LET k == calls[c].key
              taken == k # NoKey /\ toolRow[k] # "none"
              written == ok /\ ~taken
          IN /\ toolRow' = IF written /\ k # NoKey THEN [toolRow EXCEPT ![k] = calls[c].status] ELSE toolRow
             /\ unseen' = IF ~ok /\ k # NoKey /\ ~taken THEN unseen \cup {k} ELSE unseen
             /\ calls' = [calls EXCEPT ![c] =
                   [@ EXCEPT !.pc = "returned", !.recorded = written,
                             !.status = IF written THEN calls[c].status ELSE "failed"]]
    /\ UNCHANGED <<turn, acted>>

\* A direct caller has its answer.
DirectReturns(c) ==
    /\ calls[c].pc = "returned" /\ ~calls[c].bridge /\ ~calls[c].tool
    /\ calls' = [calls EXCEPT ![c] = IdleCall]
    /\ UNCHANGED <<turn, toolRow, acted, unseen>>

-----------------------------------------------------------------------------
\* AgentBridge.run.

\* Nothing else of a turn that falls back is looked at.
Fallback == [IdleTurn EXCEPT !.out = "fallback"]
TurnAnswers(t) == [t EXCEPT !.pc = "idle", !.out = "answer"]

\* The exact grant is built and the deadline set; the model is asked.
BeginTurn ==
    /\ turn.pc = "idle"
    /\ turn' = [IdleTurn EXCEPT !.pc = "adapter"]
    /\ UNCHANGED <<calls, toolRow, acted, unseen>>

\* A plausible defect: the limit of the calls of a round is off by one.
AdapterAnswersOneMore(n, claims) ==
    /\ turn.pc = "adapter"
    /\ turn' = IF n > MaxCalls + 1 \/ (n > 0 /\ turn.rounds >= MaxRounds) THEN Fallback
               ELSE IF n > 0 THEN [turn EXCEPT !.pc = "tools", !.left = n]
               ELSE IF claims THEN [turn EXCEPT !.pc = "claim", !.claims = TRUE]
               ELSE TurnAnswers(turn)
    /\ UNCHANGED <<calls, toolRow, acted, unseen>>

\* The model answers with a text, and so many calls: over the limit, or past the last
\* round, it is not trusted.  A text that claims an act of the system is checked.
AdapterAnswers(n, claims) ==
    /\ turn.pc = "adapter"
    /\ turn' = IF n > MaxCalls \/ (n > 0 /\ turn.rounds >= MaxRounds) THEN Fallback
               ELSE IF n > 0 THEN [turn EXCEPT !.pc = "tools", !.left = n]
               ELSE IF claims THEN [turn EXCEPT !.pc = "claim", !.claims = TRUE]
               ELSE TurnAnswers(turn)
    /\ UNCHANGED <<calls, toolRow, acted, unseen>>

\* It fails, is late, answers nonsense, no text at all, or that it must not answer.
AdapterFails ==
    /\ turn.pc = "adapter"
    /\ turn' = Fallback
    /\ UNCHANGED <<calls, toolRow, acted, unseen>>

\* The next call of the round, of a tool that is granted or is not; only reads are.
BridgeCalls(c, permitted) ==
    /\ turn.pc = "tools" /\ turn.call = NoCall /\ Free(c)
    /\ turn' = [turn EXCEPT !.call = c]
    /\ calls' = [calls EXCEPT ![c] = [IdleCall EXCEPT !.pc = "check", !.bridge = TRUE, !.granted = permitted]]
    /\ UNCHANGED <<toolRow, acted, unseen>>

\* A plausible defect: a result that is no success does not end the turn.
BridgeTakesAny(c) ==
    /\ turn.call = c /\ calls[c].pc = "returned"
    /\ LET t == [turn EXCEPT !.results = @ \cup {<<calls[c].status, calls[c].recorded>>},
                             !.call = NoCall, !.left = @ - 1]
       IN turn' = IF t.left = 0 THEN [t EXCEPT !.pc = "adapter", !.rounds = @ + 1] ELSE t
    /\ calls' = [calls EXCEPT ![c] = IF @.tool THEN [@ EXCEPT !.bridge = FALSE] ELSE IdleCall]
    /\ UNCHANGED <<toolRow, acted, unseen>>

\* Anything but a success ends the turn; after the last call the model is asked again.
BridgeTakes(c) ==
    /\ turn.call = c /\ calls[c].pc = "returned"
    /\ LET t == [turn EXCEPT !.results = @ \cup {<<calls[c].status, calls[c].recorded>>},
                             !.call = NoCall, !.left = @ - 1]
       IN turn' = IF calls[c].status # "success" THEN Fallback
                  ELSE IF t.left = 0 THEN [t EXCEPT !.pc = "adapter", !.rounds = @ + 1]
                  ELSE t
    /\ calls' = [calls EXCEPT ![c] = IF @.tool THEN [@ EXCEPT !.bridge = FALSE] ELSE IdleCall]
    /\ UNCHANGED <<toolRow, acted, unseen>>

\* hasSuccessfulWriteOrOutbound has nothing to find among reads; hasScheduleEvidence
\* finds a run or a new schedule of the thread, or none (an error counts as none).
ClaimChecked(proof) ==
    /\ turn.pc = "claim"
    /\ turn' = IF proof THEN TurnAnswers([turn EXCEPT !.proven = TRUE]) ELSE Fallback
    /\ UNCHANGED <<calls, toolRow, acted, unseen>>

\* The total time is up, whatever the turn awaits: a call in progress goes on alone.
TurnTimeout ==
    /\ turn.pc # "idle"
    /\ turn' = Fallback
    /\ calls' = [c \in Call |-> IF turn.call = c THEN [calls[c] EXCEPT !.bridge = FALSE] ELSE calls[c]]
    /\ UNCHANGED <<toolRow, acted, unseen>>

\* The dispatcher's own look at what the bridge returned: a reply, each call of it a read
\* that succeeded and names its record.
tryAgentBridgeReply(t) == t.out = "answer" /\ t.results \subseteq {<<"success", TRUE>>}

\* The process dies: its calls, its tools and its turn with it.
ToolCrash ==
    /\ unseen' = unseen \cup
          {calls[c].key : c \in {d \in Call : calls[d].pc \in {"run", "record"} /\ calls[d].key # NoKey}}
    /\ calls' = [c \in Call |-> IdleCall]
    /\ turn' = IdleTurn
    /\ UNCHANGED <<toolRow, acted>>

ToolNext ==
    \/ \E c \in Call, k \in ToolKey, permitted \in BOOLEAN : CallDirect(c, k, permitted)
    \/ \E c \in Call : Check(c)
    \/ \E c \in Call : LookUpKey(c)
    \/ \E c \in Call, live \in BOOLEAN : DecideLive(c, live)
    \/ \E c \in Call, s \in {"success", "failed", "refused"}, e \in BOOLEAN : ToolEnds(c, s, e)
    \/ \E c \in Call : ToolTimeout(c)
    \/ \E c \in Call : RecordCall(c)
    \/ \E c \in Call : DirectReturns(c)
    \/ BeginTurn
    \/ \E n \in 0 .. MaxCalls + 1, claims \in BOOLEAN : AdapterAnswers(n, claims)
    \/ AdapterFails
    \/ \E c \in Call, permitted \in BOOLEAN : BridgeCalls(c, permitted)
    \/ \E c \in Call : BridgeTakes(c)
    \/ \E proof \in BOOLEAN : ClaimChecked(proof)
    \/ TurnTimeout
    \/ ToolCrash

ToolSpec == ToolInit /\ [][ToolNext]_toolVars

-----------------------------------------------------------------------------
\* Properties.

\* The state has its type.
ToolTypeOK ==
    /\ calls \in [Call -> CallRecord]
    /\ turn \in Turn
    /\ toolRow \in [ToolKey -> {"none"} \cup ToolStatus]
    /\ acted \in [ToolKey -> 0 .. 2]
    /\ unseen \subseteq ToolKey

\* A write takes effect again only if a later call could not see the earlier one: they
\* overlapped, the record could not be written, or the process died before it was.
\* Timeouts, failures and tools that end late do not make it act twice (execute).
RepeatsAreSeen == \A k \in ToolKey : acted[k] > 1 => k \in unseen

\* The bridge answers with the model's text only when each call of the turn has
\* succeeded and has its record, which is what the dispatcher asks of an answer it
\* sends, none is still under way, and a claim is proven; anything else is the
\* fallback (AgentBridge.run, tryAgentBridgeReply).
AnswerRestsOnEvidence ==
    turn.out = "answer" =>
        /\ tryAgentBridgeReply(turn)
        /\ turn.claims => turn.proven
        /\ \A c \in Call : ~calls[c].bridge

\* What the tool gateway says of its calls, and the bridge of its turn, is so.
ToolsKeepTheirWord == RepeatsAreSeen /\ AnswerRestsOnEvidence
=============================================================================
