----------------------------- MODULE LoginConsole -----------------------------
(***************************************************************************)
(* The console's side of the QR login: the card that starts, polls, cancels*)
(* and replaces a login (zalo-login-card.tsx, zalo-login-polling.ts) and   *)
(* the coordinator that keeps the status all pages show                    *)
(* (operational-status-coordinator.ts), whose refresh the card asks for    *)
(* when it is connected and whose status remounts the card.                *)
(*                                                                         *)
(* A request is a coroutine suspended at its fetch.  What a click, an end  *)
(* of the flow or an unmount supersedes is aborted and its generation is   *)
(* over: its answer is let pass, so it leaves the set of those that wait.  *)
(* The backend answers as it likes, ZaloGateway says when; a changed       *)
(* credential turns all answers into STALE_RESPONSE until the gate of the  *)
(* console has taken the page away.                                        *)
(***************************************************************************)
EXTENDS Naturals

CONSTANT Caller   \* calls of refreshAfterMutation in progress at once

VARIABLES
    phase,      \* of the card, "none" when it is not there
    polling,    \* whether the interval of the card is set
    qr,         \* whether an image is shown
    waiting,    \* its requests in flight, by what they are for
    signedOut,  \* the credential changed and the page is still there
    running,    \* phase of the coordinator: running or stopped
    loads,      \* its loads: the current one and those that were stopped
    callers,    \* calls of refreshAfterMutation
    shown       \* callers whose connect precedes the load last committed: history

cardVars == <<phase, polling, qr, waiting>>
statusVars == <<loads, callers, shown>>
consoleVars == <<phase, polling, qr, waiting, signedOut, running, loads, callers, shown>>

CardPhase == {"checking", "idle", "starting", "pending", "cancelling", "connected",
              "expired", "blocked", "error"}
Operation == {"check", "start", "startStatus", "cancel", "cancelStatus", "replace",
              "replaceStatus", "poll", "qr"}
NoLoad == [is |-> "none", sees |-> {}]
NoCaller == [at |-> "idle", on |-> "none", last |-> FALSE]

ConsoleInit ==
    /\ phase = "none" /\ polling = FALSE /\ qr = FALSE /\ waiting = {} /\ signedOut = FALSE
    /\ running = FALSE /\ loads = [current |-> NoLoad, late |-> FALSE]
    /\ callers = [c \in Caller |-> NoCaller] /\ shown = {}

-----------------------------------------------------------------------------
(***************************************************************************)
(* The coordinator.                                                        *)
(***************************************************************************)
\* refresh: it joins the active load or begins one, which sees every connect before it.
Joined(also) ==
    IF loads.current # NoLoad THEN loads
    ELSE [loads EXCEPT !.current = [is |-> "load", sees |-> also \cup {c \in Caller : callers[c].at # "idle"}]]

StatusStarts ==
    /\ ~running /\ ~signedOut
    /\ running' = TRUE /\ loads' = Joined({})
    /\ UNCHANGED <<cardVars, signedOut, callers, shown>>

\* The timer of the coordinator, or the button of the page.
Refresh ==
    /\ running /\ loads' = Joined({})
    /\ UNCHANGED <<cardVars, signedOut, running, callers, shown>>

\* A call waits for whatever load is active, and begins one of its own only after that.
Waits(c) == [callers EXCEPT ![c] = [at |-> "awaits", on |-> "current", last |-> loads.current = NoLoad]]

\* refreshAfterMutation, when the card, which is there only while the coordinator runs,
\* says it is connected.  No load before knows of it.
AfterMutation(c) ==
    /\ callers[c].at = "idle"
    /\ loads' = [Joined({c}) EXCEPT !.current.sees = IF loads.current = NoLoad THEN @ ELSE @ \ {c}]
    /\ callers' = Waits(c)
    /\ shown' = shown \ {c}

\* A call goes on when the load it awaited is over.
CallerContinues(c) ==
    /\ callers[c].at = "woken"
    /\ IF callers[c].last \/ ~running
       THEN callers' = [callers EXCEPT ![c] = NoCaller] /\ UNCHANGED loads
       ELSE loads' = Joined({c}) /\ callers' = Waits(c)
    /\ UNCHANGED <<cardVars, signedOut, running, shown>>

Woken(on) == [c \in Caller |-> IF callers[c].at = "awaits" /\ callers[c].on = on
                               THEN [callers[c] EXCEPT !.at = "woken"] ELSE callers[c]]

\* stop: the current load is aborted and belongs to nobody.
StopsStatus ==
    /\ running' = FALSE
    /\ loads' = [current |-> NoLoad, late |-> loads.late \/ loads.current # NoLoad]
    /\ callers' = [c \in Caller |-> IF callers[c].at = "awaits" THEN [callers[c] EXCEPT !.on = "late"] ELSE callers[c]]

\* A load that was stopped ends: it commits nothing.
LateLoadEnds ==
    /\ loads.late
    /\ loads' = [loads EXCEPT !.late = FALSE] /\ callers' = Woken("late")
    /\ UNCHANGED <<cardVars, signedOut, running, shown>>

-----------------------------------------------------------------------------
(***************************************************************************)
(* The card.                                                               *)
(***************************************************************************)
\* A plausible defect: the interval survives the end of the flow.
NewFlowPolling(to, request) == phase' = to /\ qr' = FALSE /\ waiting' = request /\ UNCHANGED polling

\* invalidateLoginFlow, abortStatusRequest and clearQr, and the request the flow begins with:
\* the polling stops, the image goes, and so does all that is in flight.
NewFlow(to, request) == phase' = to /\ polling' = FALSE /\ qr' = FALSE /\ waiting' = request
EndsFlow(to) == NewFlow(to, {})

\* startPolling: at once, unless a status request holds the slot, and then on a timer.
StartsPolling(rest) ==
    /\ phase' = "pending" /\ polling' = TRUE
    /\ waiting' = IF "check" \in rest THEN rest ELSE rest \cup {"poll"}
    /\ UNCHANGED qr

\* What a status says (decideZaloLoginPoll): connected, pending with an image or without,
\* or the end of the flow.
LoginStatus == {"connected", "pendingQr", "pendingNoQr", "blocked", "expired", "idle", "error"}
IsPending(s) == s \in {"pendingQr", "pendingNoQr"}

Connected(notify) ==
    /\ phase' = "connected" /\ polling' = FALSE /\ qr' = FALSE /\ waiting' = {}
    /\ IF notify THEN \E c \in Caller : AfterMutation(c) ELSE UNCHANGED statusVars

\* applyKnownStatus
Known(s, rest, notify) ==
    IF s = "connected" THEN Connected(notify)
    ELSE /\ IF IsPending(s) THEN StartsPolling(rest) ELSE EndsFlow(s)
         /\ UNCHANGED statusVars

\* A request that fails ends its flow: blocked when the backend says so, else an error.
Fails == (EndsFlow("blocked") \/ EndsFlow("error")) /\ UNCHANGED statusVars
Ignored(rest) == waiting' = rest /\ UNCHANGED <<phase, polling, qr, statusVars>>
Goes(op, next) == Ignored((waiting \ {op}) \cup {next})

\* What the operator does, by the buttons of the phase (getZaloLoginUiActions).
Click(from, to, op) ==
    /\ phase \in from /\ ~signedOut
    /\ NewFlow(to, {op})
    /\ UNCHANGED <<signedOut, running, statusVars>>

Mounts == running /\ Click({"none"}, "checking", "check")
ChecksStatus == Click({"error"}, "checking", "check")
StartsLogin == Click({"idle", "expired"}, "starting", "start")
CancelsLogin == Click({"starting", "pending"}, "cancelling", "cancel")
ReplacesQr == Click({"pending"}, "cancelling", "replace")
ReturnsIdle ==
    /\ phase \in {"expired", "blocked"} /\ ~signedOut
    /\ EndsFlow("idle")
    /\ UNCHANGED <<signedOut, running, statusVars>>

\* pollStatus, by the interval: one status request at a time.
PollTicks ==
    /\ polling /\ waiting \cap {"check", "poll"} = {}
    /\ waiting' = waiting \cup {"poll"}
    /\ UNCHANGED <<phase, polling, qr, signedOut, running, statusVars>>

\* The answer to a request of the current flow; what is left is in flight still.
Rest(op) == waiting \ {op}
AnswerTo(op) == op \in waiting /\ ~signedOut /\ UNCHANGED <<signedOut, running>>

\* checkCurrentStatus tells nobody that it found the account connected.
CheckAnswers ==
    /\ AnswerTo("check")
    /\ Fails \/ \E s \in LoginStatus : Known(s, Rest("check"), FALSE)

\* Login started, or already connected, which is asked for again.
StartAnswers ==
    /\ AnswerTo("start")
    /\ \/ Fails
       \/ StartsPolling(Rest("start")) /\ UNCHANGED statusVars
       \/ Goes("start", "startStatus")
StartStatusAnswers ==
    /\ AnswerTo("startStatus")
    /\ Fails \/ \E s \in LoginStatus : Known(s, Rest("startStatus"), TRUE)

\* cancelAndReconcileZaloLogin: a cancel that fails is no truth, the status is.
CancelAnswers ==
    \/ AnswerTo("cancel") /\ Goes("cancel", "cancelStatus")
    \/ AnswerTo("replace") /\ Goes("replace", "replaceStatus")
CancelStatusAnswers ==
    /\ AnswerTo("cancelStatus")
    /\ Fails \/ \E s \in LoginStatus : Known(s, Rest("cancelStatus"), TRUE)

\* doRefresh starts anew only where the old login is gone.
ReplaceStatusAnswers ==
    /\ AnswerTo("replaceStatus")
    /\ \/ Fails
       \/ NewFlow("starting", {"start"}) /\ UNCHANGED statusVars
       \/ \E s \in LoginStatus \ {"idle", "expired"} : Known(s, Rest("replaceStatus"), TRUE)

\* pollStatus: a pending login's image is asked for, one at a time.
PollAnswers ==
    /\ AnswerTo("poll")
    /\ \/ Fails
       \/ Connected(TRUE)
       \/ \E s \in LoginStatus : s # "connected" /\ ~IsPending(s) /\ EndsFlow(s) /\ UNCHANGED statusVars
       \/ /\ phase' = "pending"
          /\ waiting' \in {Rest("poll"), Rest("poll") \cup {"qr"}}
          /\ UNCHANGED <<polling, qr, statusVars>>

\* runZaloLoginPollStep: the image, none yet, or an error that ends the flow.
QrAnswers ==
    /\ AnswerTo("qr")
    /\ \/ qr' = TRUE /\ waiting' = Rest("qr") /\ UNCHANGED <<phase, polling, statusVars>>
       \/ Ignored(Rest("qr"))
       \/ Fails
       \/ EndsFlow("expired") /\ UNCHANGED statusVars

\* STALE_RESPONSE is ignored.
StaleAnswers(op) ==
    /\ signedOut /\ op \in waiting
    /\ Ignored(Rest(op))
    /\ UNCHANGED <<signedOut, running>>

-----------------------------------------------------------------------------
(***************************************************************************)
(* Pages.                                                                  *)
(***************************************************************************)
Leaves == EndsFlow("none")

\* A load ends and is committed: the status may keep the card, give it another key, or be
\* unknown.
LoadEnds ==
    /\ loads.current # NoLoad
    /\ shown' = loads.current.sees
    /\ loads' = [loads EXCEPT !.current = NoLoad] /\ callers' = Woken("current")
    /\ \/ UNCHANGED cardVars
       \/ phase # "none" /\ Leaves
       \/ phase # "none" /\ NewFlow("checking", {"check"})
    /\ UNCHANGED <<signedOut, running>>

LeavesPage ==
    /\ phase # "none" /\ Leaves
    /\ UNCHANGED <<signedOut, running, statusVars>>

\* A 401, a logout: every answer is stale, until the gate unmounts the console.
SignsOut ==
    /\ running /\ ~signedOut /\ signedOut' = TRUE
    /\ UNCHANGED <<cardVars, running, statusVars>>
GateCloses ==
    /\ signedOut /\ signedOut' = FALSE
    /\ Leaves /\ StopsStatus /\ UNCHANGED shown

ConsoleNext ==
    \/ StatusStarts \/ Refresh \/ LateLoadEnds \/ LoadEnds
    \/ \E c \in Caller : CallerContinues(c)
    \/ Mounts \/ ChecksStatus \/ StartsLogin \/ CancelsLogin \/ ReplacesQr \/ ReturnsIdle
    \/ PollTicks
    \/ CheckAnswers \/ StartAnswers \/ StartStatusAnswers
    \/ CancelAnswers \/ CancelStatusAnswers \/ ReplaceStatusAnswers
    \/ PollAnswers \/ QrAnswers
    \/ \E op \in waiting : StaleAnswers(op)
    \/ LeavesPage \/ SignsOut \/ GateCloses

ConsoleSpec == ConsoleInit /\ [][ConsoleNext]_consoleVars

-----------------------------------------------------------------------------
\* The type invariant.
ConsoleTypeOK ==
    /\ phase \in CardPhase \cup {"none"} /\ polling \in BOOLEAN /\ qr \in BOOLEAN
    /\ waiting \subseteq Operation
    /\ signedOut \in BOOLEAN /\ running \in BOOLEAN
    /\ loads.current.sees \subseteq Caller /\ loads.late \in BOOLEAN
    /\ callers \in [Caller -> [at : {"idle", "awaits", "woken"}, on : {"none", "current", "late"}, last : BOOLEAN]]
    /\ shown \subseteq Caller

\* The card never waits for nothing: while it offers no more than to give up, something that
\* will end the phase is in flight or the interval is set (doStart, doCancel, doRefresh,
\* checkCurrentStatus, pollStatus).
CardNeverHangs ==
    signedOut \/
        /\ phase = "checking" => "check" \in waiting
        /\ phase = "starting" => waiting \cap {"start", "startStatus"} # {}
        /\ phase = "cancelling" => waiting \cap {"cancel", "cancelStatus", "replace", "replaceStatus"} # {}
        /\ phase = "pending" => polling

\* Nor is it moved by what it has given up: where only the operator or nobody goes on, nothing
\* of the card is in flight that counts, and an image to scan is shown only while the login is
\* pending and watched.
CardIsSettled ==
    /\ phase \in CardPhase \ {"checking", "starting", "cancelling", "pending"} => ~polling /\ waiting = {}
    /\ qr => phase = "pending" /\ polling

\* refreshAfterMutation: when a call that was not stopped comes back, what all pages show was
\* loaded after the connect it was made for, however loads, ticks and calls overlap.
RefreshSeesConnect ==
    \A c \in Caller : callers[c].at = "woken" /\ callers[c].last /\ callers[c].on = "current" => c \in shown

\* What the console shows is of now.
ConsoleIsCurrent == CardNeverHangs /\ CardIsSettled /\ RefreshSeesConnect
=============================================================================
