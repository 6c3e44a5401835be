------------------------------ MODULE SendGuards ------------------------------
(***************************************************************************)
(* What stands between a reply and Zalo inside ZaloMessageSender: the      *)
(* reply window of a group (group-safety.service), the memory of recent    *)
(* texts and the splitting (outbound-guardrails.service), and the rate     *)
(* limiter.  All of it is memory of one process; calls are coroutines that *)
(* share it, and a send awaits between being checked and being remembered. *)
(*                                                                         *)
(* Time passes in ticks; a window of n is open for n ticks after its       *)
(* start.  Media and voice answer as dry runs and pass none of this.       *)
(***************************************************************************)
EXTENDS Integers, FiniteSetsExt, SequencesExt

CONSTANTS
    Sending,       \* calls in progress at once
    DirectThread, GroupThread,
    Text,          \* texts, as the callers give them
    Straightened,  \* those of them that sanitizeText changes
    Shape,         \* Text -> the kinds of its positions
    RateWindow, RateLimit, GlobalLimit,   \* one minute, config.zalo
    SameWindow, OtherWindow,              \* how long a text is remembered: 60 s, 5 s
    Kept,          \* entries remembered for a thread
    ReplyWindow,   \* groupReplyWindowSeconds
    MaxChars, MaxParts, NoteRoom,         \* of a split
    MaxSends       \* bound on the calls

ASSUME SendGuardsAssumption ==
    /\ {RateWindow, RateLimit, GlobalLimit, SameWindow, OtherWindow, ReplyWindow, MaxSends} \subseteq Nat
    /\ {Kept, MaxChars, MaxParts, NoteRoom} \subseteq Nat \ {0} /\ NoteRoom < MaxChars
    /\ OtherWindow <= SameWindow /\ Straightened \subseteq Text
    /\ Shape \in [Text -> Seq({"char", "break", "high", "low"})]

GuardThread == DirectThread \cup GroupThread

VARIABLES
    perThread,   \* the limiter's window of each thread: its count and the ticks left of it
    allThreads,  \* its global window
    recent,      \* thread -> the texts remembered, oldest first, with their ages
    replyUntil,  \* ticks for which the reply window of a group is open
    sends,       \* the calls
    sendCount,
    granted,     \* sends let through since perThread's, and allThreads', window began: history
    promised,    \* thread -> text -> ticks for which a text that was delivered should still be
                 \* remembered; none once the process has had a reason to forget it: history
    repeated     \* a text went out twice although it should have been remembered: history

guardVars == <<perThread, allThreads, recent, replyUntil, sends, sendCount, granted, promised, repeated>>

\* A window that is over: its count is not read again.
Elapsed == [count |-> 0, left |-> 0]

NoSend == [pc |-> "idle", thread |-> "none", text |-> "none", left |-> 0, overlapped |-> FALSE]

GuardInit ==
    /\ perThread = [t \in GuardThread |-> Elapsed]
    /\ allThreads = Elapsed
    /\ recent = [t \in GuardThread |-> <<>>]
    /\ replyUntil = [g \in GroupThread |-> 0]
    /\ sends = [s \in Sending |-> NoSend]
    /\ sendCount = 0
    /\ granted = [threads |-> [t \in GuardThread |-> 0], all |-> 0]
    /\ promised = [t \in GuardThread |-> [x \in Text \ Straightened |-> 0]]
    /\ repeated = FALSE

-----------------------------------------------------------------------------
\* splitLongMessage: the parts as pairs of the positions they lie between.  A part ends at
\* the last break beyond six tenths of it while more than the last of the parts that were
\* counted on is to come, and before any low surrogates it would leave at its end; the last
\* part that is allowed is cut short to leave room for a note.
Cut(t, total, i, from) ==
    LET natural == {k \in 1 .. MaxChars : t[from + k] = "break" /\ 10 * (k - 1) > 6 * MaxChars}
        at == IF i < total /\ natural # {} THEN Max(natural) ELSE MaxChars
    IN Max({0} \cup {k \in 1 .. at : t[from + k + 1] # "low"})

\* Where the i-th part ends, of what is left after position from.
PartEnd(t, i, from) ==
    LET n == Len(t)
        total == Min({(n + MaxChars - 1) \div MaxChars, MaxParts})
    IN IF n - from <= MaxChars THEN n
       ELSE IF i = MaxParts THEN from + MaxChars - NoteRoom
       ELSE from + Cut(t, total, i, from)

Split(t) ==
    LET after[i \in 0 .. MaxParts] ==
            IF i = 0 THEN <<>>
            ELSE LET parts == after[i - 1]
                     from == IF parts = <<>> THEN 0 ELSE Last(parts)[2]
                 IN IF parts # <<>> /\ from = Len(t) THEN parts
                    ELSE Append(parts, <<from, PartEnd(t, i, from)>>)
    IN after[MaxParts]

-----------------------------------------------------------------------------
\* A plausible defect: the hash that is looked up has a form that is never remembered.
LookedUpOtherwise(x) == <<"sanitized", x>>

\* The hash that is looked up is of the sanitized text, the one that is remembered of the
\* text as it was given.
LookedUp(x) == IF x \in Straightened THEN <<"sanitized", x>> ELSE <<"given", x>>
Remembered(x) == <<"given", x>>

StillKept(e, x) == e.age < (IF e.hash = LookedUp(x) THEN SameWindow ELSE OtherWindow)

\* checkOutboundDedup prunes with the windows of the text it is asked about.
Pruned(t, x) ==
    LET entries == recent[t]
        active[n \in 0 .. Len(entries)] ==
            IF n = 0 THEN <<>>
            ELSE IF StillKept(entries[n], x) THEN Append(active[n - 1], entries[n])
            ELSE active[n - 1]
    IN active[Len(entries)]
IsDuplicate(t, x) == \E i \in DOMAIN Pruned(t, x) : Pruned(t, x)[i].hash = LookedUp(x)

\* recordOutboundDedup
Remember(t, x) ==
    LET longer == Append(recent[t], [hash |-> Remembered(x), age |-> 0])
    IN [recent EXCEPT ![t] = IF Len(longer) > Kept THEN Tail(longer) ELSE longer]

-----------------------------------------------------------------------------
\* RateLimiter.check.  A thread's window begins before the global one has agreed, and the
\* send that begins a global window is not counted against a thread whose window is open.
ThreadOpen(t) == perThread[t].left > 0
GlobalOpen == allThreads.left > 0
Opened == [count |-> 1, left |-> RateWindow + 1]
OneMore(window) == [window EXCEPT !.count = @ + 1]
ThreadFull(t) == ThreadOpen(t) /\ perThread[t].count >= RateLimit
GlobalFull == GlobalOpen /\ allThreads.count >= GlobalLimit

Counted(t) ==
    /\ perThread' = [perThread EXCEPT ![t] =
          IF ~ThreadOpen(t) THEN Opened
          ELSE IF GlobalOpen THEN OneMore(@)
          ELSE @]
    /\ allThreads' = IF GlobalOpen THEN OneMore(allThreads) ELSE Opened

Refused(t) ==
    /\ perThread' = [perThread EXCEPT ![t] = IF ThreadOpen(t) THEN @ ELSE Opened]
    /\ UNCHANGED allThreads

SendEnds(s) == sends' = [sends EXCEPT ![s] = NoSend]

\* What the limiter says, for a call about thread t whose next step is to send.
Limited(s, t, x) ==
    IF ThreadFull(t)
    THEN SendEnds(s) /\ UNCHANGED <<perThread, allThreads, granted>>
    ELSE IF GlobalFull
    THEN /\ SendEnds(s) /\ Refused(t)
         /\ granted' = [granted EXCEPT !.threads[t] = IF ThreadOpen(t) THEN @ ELSE 0]
    ELSE /\ Counted(t)
         /\ sends' = [sends EXCEPT ![s].pc = "send", ![s].left = Len(Split(Shape[x]))]
         /\ granted' = [threads |-> [granted.threads EXCEPT ![t] = IF ThreadOpen(t) THEN @ + 1 ELSE 1],
                        all |-> IF GlobalOpen THEN granted.all + 1 ELSE 1]

-----------------------------------------------------------------------------
\* sendMessage under a live session: checkGroupOutboundGate lets a call of a group pass
\* only while the reply window is open.
GateClosed(t) == t \in GroupThread /\ replyUntil[t] = 0

SendBegins(s, t, x) ==
    /\ sends[s].pc = "idle" /\ sendCount < MaxSends /\ ~GateClosed(t)
    /\ sendCount' = sendCount + 1
    /\ sends' = [sends EXCEPT ![s] = [NoSend EXCEPT !.pc = "guard", !.thread = t, !.text = x]]
    /\ UNCHANGED <<perThread, allThreads, recent, replyUntil, granted, promised, repeated>>

Forgotten(promises, gone) == [y \in DOMAIN promises |-> IF y \in gone THEN 0 ELSE promises[y]]

\* applyOutboundGuardrails and, unless the session must be restored first, the limiter.
Guardrails(s) ==
    LET t == sends[s].thread
        x == sends[s].text
        pruned == {y \in Text \ {x} : y \notin Straightened /\ SameWindow - promised[t][y] >= OtherWindow}
    IN /\ sends[s].pc = "guard"
       /\ recent' = [recent EXCEPT ![t] = Pruned(t, x)]
       /\ promised' = [promised EXCEPT ![t] = Forgotten(@, pruned)]
       /\ IF IsDuplicate(t, x)
          THEN SendEnds(s) /\ UNCHANGED <<perThread, allThreads, granted>>
          ELSE \/ Limited(s, t, x)
               \/ sends' = [sends EXCEPT ![s].pc = "restore"] /\ UNCHANGED <<perThread, allThreads, granted>>
       /\ UNCHANGED <<replyUntil, sendCount, repeated>>

\* The restore of the session is over: connected or not.
Reconnected(s) ==
    /\ sends[s].pc = "restore"
    /\ \/ Limited(s, sends[s].thread, sends[s].text)
       \/ SendEnds(s) /\ UNCHANGED <<perThread, allThreads, granted>>
    /\ UNCHANGED <<recent, replyUntil, sendCount, promised, repeated>>

\* Zalo accepts a part that is not the last.
PartSent(s) ==
    /\ sends[s].pc = "send" /\ sends[s].left > 1
    /\ sends' = [sends EXCEPT ![s].left = @ - 1]
    /\ UNCHANGED <<perThread, allThreads, recent, replyUntil, sendCount, granted, promised, repeated>>

\* The last part is accepted, and the text remembered in the same step.
AllSent(s) ==
    LET t == sends[s].thread
        x == sends[s].text
        dropped == IF Len(recent[t]) >= Kept THEN {y \in Text : Remembered(y) = recent[t][1].hash} ELSE {}
    IN /\ sends[s].pc = "send" /\ sends[s].left = 1
       /\ recent' = Remember(t, x)
       /\ promised' = [promised EXCEPT ![t] = [y \in DOMAIN @ |->
              IF y = x THEN SameWindow ELSE Forgotten(@, dropped)[y]]]
       /\ repeated' = (repeated \/ (x \notin Straightened /\ promised[t][x] > 0 /\ ~sends[s].overlapped))
       /\ sends' = [r \in Sending |->
              IF r = s THEN NoSend
              ELSE IF sends[r].thread = t /\ sends[r].text = x /\ sends[r].pc \in {"restore", "send"}
              THEN [sends[r] EXCEPT !.overlapped = TRUE] ELSE sends[r]]
       /\ UNCHANGED <<perThread, allThreads, replyUntil, sendCount, granted>>

\* A part fails: the send is reported as failed and nothing is remembered.
SendFails(s) ==
    /\ sends[s].pc = "send"
    /\ SendEnds(s)
    /\ UNCHANGED <<perThread, allThreads, recent, replyUntil, sendCount, granted, promised, repeated>>

\* groupGateCheck: a mention in a group that asks for one opens the window or extends it.
Mentioned(g) ==
    /\ replyUntil' = [replyUntil EXCEPT ![g] = ReplyWindow]
    /\ UNCHANGED <<perThread, allThreads, recent, sends, sendCount, granted, promised, repeated>>

Sooner(n) == Max({n - 1, 0})
Aged(window) == IF window.left <= 1 THEN Elapsed ELSE [window EXCEPT !.left = @ - 1]

GuardTick ==
    /\ perThread' = [t \in GuardThread |-> Aged(perThread[t])]
    /\ allThreads' = Aged(allThreads)
    /\ granted' = [threads |-> [t \in GuardThread |-> IF perThread[t].left <= 1 THEN 0 ELSE granted.threads[t]],
                    all |-> IF allThreads.left <= 1 THEN 0 ELSE granted.all]
    /\ recent' = [t \in GuardThread |-> [i \in DOMAIN recent[t] |->
                     [recent[t][i] EXCEPT !.age = Min({@ + 1, SameWindow})]]]
    /\ replyUntil' = [g \in GroupThread |-> Sooner(replyUntil[g])]
    /\ promised' = [t \in GuardThread |-> [x \in DOMAIN promised[t] |-> Sooner(promised[t][x])]]
    /\ UNCHANGED <<sends, sendCount, repeated>>

GuardNext ==
    \/ \E s \in Sending :
          \/ \E t \in GuardThread, x \in Text : SendBegins(s, t, x)
          \/ Guardrails(s) \/ Reconnected(s)
          \/ PartSent(s) \/ AllSent(s) \/ SendFails(s)
    \/ \E g \in GroupThread : Mentioned(g)
    \/ GuardTick

GuardSpec == GuardInit /\ [][GuardNext]_guardVars

-----------------------------------------------------------------------------
\* A limit of none lets the send through that begins a window.
Most(limit) == IF limit = 0 THEN 1 ELSE limit

\* The type invariant.
GuardTypeOK ==
    /\ perThread \in [GuardThread -> [count : 0..Most(RateLimit), left : 0..RateWindow + 1]]
    /\ allThreads \in [count : 0..Most(GlobalLimit), left : 0..RateWindow + 1]
    /\ \A t \in GuardThread : Len(recent[t]) <= Kept
    /\ replyUntil \in [GroupThread -> 0..ReplyWindow]
    /\ \A s \in Sending : sends[s].pc \in {"idle", "guard", "restore", "send"}
    /\ sendCount \in 0..MaxSends /\ repeated \in BOOLEAN

\* The limits of a minute: no more sends of all threads than the global limit in a global
\* window, and no more of one thread than its limit in its own, but for one: the send that
\* begins a global window (RateLimiter.check).
LimitsHold ==
    /\ granted.all <= Most(GlobalLimit)
    /\ \A t \in GuardThread : granted.threads[t] <= RateLimit + 1

\* "60s for identical content to same thread": a text delivered within the window does not
\* go out again, unless the calls overlapped, a check of another text or the number of texts
\* made the process forget it, or sanitizing changes the text (checkOutboundDedup).
RepeatsAreStopped == ~repeated

\* The parts of a text follow each other, at most MaxParts of at most MaxChars positions;
\* all of the text is in them unless the last allowed part was cut short, and no cut before
\* that goes through a surrogate pair (splitLongMessage).
SplitIsSound ==
    \A x \in Text :
        LET t == Shape[x]
            parts == Split(t)
        IN /\ Len(parts) <= MaxParts
           /\ parts[1][1] = 0
           /\ \A i \in DOMAIN parts : parts[i][1] <= parts[i][2] /\ parts[i][2] - parts[i][1] <= MaxChars
           /\ \A i \in DOMAIN parts \ {1} :
                 parts[i][1] = parts[i - 1][2] /\ (parts[i][1] # 0 => t[parts[i][1] + 1] # "low")
           /\ Last(parts)[2] = Len(t) \/ Len(parts) = MaxParts

\* What a reader of the guards would count on.
GuardsHold == LimitsHold /\ RepeatsAreStopped /\ SplitIsSound
=============================================================================
