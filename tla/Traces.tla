-------------------------------- MODULE Traces --------------------------------
(***************************************************************************)
(* What the console tells of a reply afterwards: the decision trace of a   *)
(* message (trace.service.ts) and the outbound status beside a reply in    *)
(* the list of messages (listMessages of zalo-receive.ts).  Both join rows *)
(* that the turns of two threads are still writing, read one after the     *)
(* other: a reply's own row and its record get the id of the provider in   *)
(* two updates, of which one is not awaited, and records are looked up by  *)
(* that id, by their text or by their time.  The text need not agree       *)
(* either: a record has the hash of all of it, a row its first 4000        *)
(* characters.                                                             *)
(*                                                                         *)
(* The clock is the order of the records, and a row may be stamped in the  *)
(* millisecond of the record before it.  The actions of an agent's tools,  *)
(* which a trace lists by their thread alone, are left out.                *)
(***************************************************************************)
EXTENDS Naturals, Sequences, FiniteSetsExt

CONSTANTS
    Told,           \* inbound messages, each with the turn that answers it
    TraceWindow,    \* records a trace looks at (50)
    ListWindow,     \* records a list looks at (200)
    MaxTellFaults   \* bound on database errors

ASSUME TracesAssumption ==
    IsFiniteSet(Told) /\ TraceWindow \in Nat \ {0} /\ ListWindow \in Nat \ {0} /\ MaxTellFaults \in Nat

VARIABLES
    told,       \* the turns
    sentRows,   \* OutboundRecord rows, oldest first
    replyRows,  \* the assistant's Message of a turn: none, draft, or with the id it was sent under
    replyAt,    \* the number of records older than it
    marking,    \* turns whose updateMessageStatus is on its way
    report,     \* a request for a trace or a list, and its answer; it changes nothing, so one is enough
    tellFaults

turnVars == <<told, sentRows, replyRows, replyAt, marking>>
traceVars == <<turnVars, report, tellFaults>>

Place == {"here", "there"}
\* The texts of replies: one longer than the 4000 characters its row keeps, and its beginning.
Wording == {"opening", "speech"}
InRow(text) == IF text = "speech" THEN "opening" ELSE text
IsWhole(text) == InRow(text) = text

NoReport == [pc |-> "idle"]

TraceInit ==
    /\ told = [t \in Told |-> [pc |-> "idle"]]
    /\ sentRows = <<>> /\ replyRows = [t \in Told |-> "none"] /\ replyAt = [t \in Told |-> 0]
    /\ marking = {} /\ report = NoReport /\ tellFaults = 0

TraceTypeOK ==
    /\ \A t \in Told : told[t].pc \in {"idle", "received", "reserved", "drafted", "sent", "done"}
    /\ \A i \in DOMAIN sentRows : sentRows[i].of \in Told /\ sentRows[i].sent \in BOOLEAN
    /\ replyRows \in [Told -> {"none", "draft", "marked"}]
    /\ replyAt \in [Told -> 0 .. Cardinality(Told)]
    /\ marking \subseteq Told
    /\ report.pc \in {"idle", "reply", "records", "traced", "replies", "listed"}
    /\ tellFaults \in 0 .. MaxTellFaults

TellOk == UNCHANGED tellFaults
TellError == tellFaults < MaxTellFaults /\ tellFaults' = tellFaults + 1
Reading == UNCHANGED <<turnVars, tellFaults>>
Writing == UNCHANGED report

-----------------------------------------------------------------------------
(***************************************************************************)
(* What a turn writes (Outbound has the dispatcher in full).               *)
(***************************************************************************)
TurnGoes(t, pc) == told' = [told EXCEPT ![t].pc = pc]
Row(t, sent) == [of |-> t, sent |-> sent, place |-> told[t].place, text |-> told[t].text]

\* The message is stored, at the time of the last record or after it.  Threads are named in the
\* order they come.
IsTold(t, place, text) ==
    /\ told[t].pc = "idle"
    /\ (\A u \in Told : told[u].pc = "idle") => place = "here"
    /\ \E earlier \in {Len(sentRows), Len(sentRows) - 1} \cap Nat :
          told' = [told EXCEPT ![t] = [pc |-> "received", place |-> place, text |-> text, since |-> earlier]]
    /\ UNCHANGED <<sentRows, replyRows, replyAt, marking>> /\ TellOk /\ Writing

\* The reservation, or none: a turn goes on without it.
Reserves(t) ==
    /\ told[t].pc = "received" /\ TurnGoes(t, "reserved")
    /\ \/ sentRows' = Append(sentRows, Row(t, FALSE)) /\ TellOk
       \/ UNCHANGED sentRows /\ TellError
    /\ UNCHANGED <<replyRows, replyAt, marking>> /\ Writing

\* The reply's own row, or none: it goes on without that too.
Drafts(t) ==
    /\ told[t].pc = "reserved" /\ TurnGoes(t, "drafted")
    /\ \/ /\ replyRows' = [replyRows EXCEPT ![t] = "draft"]
          /\ replyAt' = [replyAt EXCEPT ![t] = Len(sentRows)]
          /\ TellOk
       \/ UNCHANGED <<replyRows, replyAt>> /\ TellError
    /\ UNCHANGED <<sentRows, marking>> /\ Writing

\* The provider takes it, or a dry run does: updateMessageStatus sets out.  One that fails
\* leaves its rows without an id.
Sends(t) ==
    /\ told[t].pc = "drafted"
    /\ \/ TurnGoes(t, "sent") /\ marking' = marking \cup {u \in {t} : replyRows[u] = "draft"}
       \/ TurnGoes(t, "done") /\ UNCHANGED marking
    /\ UNCHANGED <<sentRows, replyRows, replyAt>> /\ TellOk /\ Writing

\* The record gets the id, or is written now when there was no reservation, or stays as it is.
Settles(t) ==
    /\ told[t].pc = "sent" /\ TurnGoes(t, "done")
    /\ \/ /\ IF \E i \in DOMAIN sentRows : sentRows[i].of = t
             THEN sentRows' = [i \in DOMAIN sentRows |->
                                 IF sentRows[i].of = t THEN [sentRows[i] EXCEPT !.sent = TRUE] ELSE sentRows[i]]
             ELSE sentRows' = Append(sentRows, Row(t, TRUE))
          /\ TellOk
       \/ UNCHANGED sentRows /\ TellError
    /\ UNCHANGED <<replyRows, replyAt, marking>> /\ Writing

\* updateMessageStatus arrives, or is logged as failed.
Marks(t) ==
    /\ t \in marking /\ marking' = marking \ {t}
    /\ \/ replyRows' = [replyRows EXCEPT ![t] = "marked"] /\ TellOk
       \/ UNCHANGED replyRows /\ TellError
    /\ UNCHANGED <<told, sentRows, replyAt>> /\ Writing

-----------------------------------------------------------------------------
(***************************************************************************)
(* The report.                                                              *)
(***************************************************************************)
OfPlace(place) == {i \in DOMAIN sentRows : sentRows[i].place = place}
Oldest(rows, n) == {i \in rows : Cardinality({j \in rows : j < i}) < n}
Newest(rows, n) == {i \in rows : Cardinality({j \in rows : j > i}) < n}
IsDone(t) == told[t].pc = "done" /\ t \notin marking

\* buildTrace begins with the message.
TraceBegins(t) ==
    /\ report.pc = "idle" /\ told[t].pc # "idle"
    /\ report' = [pc |-> "reply", of |-> t, complete |-> IsDone(t)]
    /\ Reading

ReadReply ==
    /\ report.pc = "reply"
    /\ report' = [pc |-> "records", of |-> report.of, complete |-> report.complete,
                  reply |-> replyRows[report.of]]
    /\ Reading

\* getOutboundRecords
Candidates(t) == Oldest({i \in OfPlace(told[t].place) : i > told[t].since}, TraceWindow)

\* resolveOutbound: by the id both rows have, else the oldest record since the message.
resolveOutbound(t, reply) ==
    LET candidates == Candidates(t)
        exact == {i \in candidates : reply = "marked" /\ sentRows[i].sent /\ sentRows[i].of = t}
    IN IF candidates = {} THEN [link |-> "none", record |-> 0]
       ELSE IF exact # {} THEN [link |-> "exact", record |-> Min(exact)]
       ELSE [link |-> "best_effort", record |-> Min(candidates)]

ReadRecords ==
    /\ report.pc = "records"
    /\ report' = [pc |-> "traced", of |-> report.of, complete |-> report.complete,
                  outbound |-> resolveOutbound(report.of, report.reply)]
    /\ Reading

-----------------------------------------------------------------------------
(***************************************************************************)
(* The list of messages.                                                   *)
(***************************************************************************)
\* listMessages reads the replies there are.
ListBegins ==
    /\ report.pc = "idle"
    /\ report' = [pc |-> "replies", replies |-> {t \in Told : replyRows[t] # "none"}]
    /\ Reading

Looked == Newest(DOMAIN sentRows, ListWindow)

\* The records whose hash is that of the thread and of the text in the row.
SameText(t) ==
    {i \in Looked : sentRows[i].place = told[t].place /\ sentRows[i].text = InRow(told[t].text)}

\* findOutboundFallback: the record next to the reply in time, or none when two are as near
\* or none is near.
Nearest(t) ==
    LET near == Looked \cap OfPlace(told[t].place)
        before == {i \in near : i <= replyAt[t]}
    IN {0} \cup Newest(before, 1) \cup Oldest(near \ before, 1)

\* The status beside a reply: the record of the same text, unless several have it.
Beside(t) ==
    IF SameText(t) = {} THEN Nearest(t)
    ELSE IF Cardinality(SameText(t)) > 1 THEN {0} ELSE SameText(t)

ListAnswers ==
    /\ report.pc = "replies"
    /\ \E beside \in [report.replies -> 0 .. Len(sentRows)] :
          /\ \A t \in report.replies : beside[t] \in Beside(t)
          /\ report' = [pc |-> "listed", replies |-> report.replies, beside |-> beside]
    /\ Reading

TraceNext ==
    \/ \E t \in Told :
          \/ \E place \in Place, text \in Wording : IsTold(t, place, text)
          \/ Reserves(t) \/ Drafts(t) \/ Sends(t) \/ Settles(t) \/ Marks(t)
          \/ TraceBegins(t)
    \/ ReadReply \/ ReadRecords \/ ListBegins \/ ListAnswers

TraceSpec == TraceInit /\ [][TraceNext]_traceVars

-----------------------------------------------------------------------------
\* A link called exact is to the message's own record and no trace reaches into another
\* thread.  A trace begun when its turn was over is exact, if nothing failed, the reply was
\* sent and few enough records came between.
TracesTell ==
    report.pc = "traced" =>
        LET t == report.of
            i == report.outbound.record
        IN /\ report.outbound.link = "exact" => sentRows[i].of = t
           /\ report.outbound.link # "none" => sentRows[i].place = told[t].place
           /\ (/\ report.complete /\ tellFaults = 0
               /\ \E j \in Candidates(t) : sentRows[j].of = t /\ sentRows[j].sent)
              => report.outbound.link = "exact"

\* The status beside a reply is of its thread.  Without a fault, and with its own record among
\* those that are looked at, it is its own even when the same words were sent twice, or none;
\* but a text that its row has cut may get the record of another: of one that was no more than
\* its beginning, or of one that came after its own.
ListTells ==
    report.pc = "listed" =>
        \A t \in report.replies :
            LET i == report.beside[t]
            IN i # 0 =>
                 /\ sentRows[i].place = told[t].place
                 /\ \A j \in Looked :
                       tellFaults = 0 /\ sentRows[j].of = t =>
                          /\ IsWhole(told[t].text) => sentRows[i].of = t
                          /\ sentRows[i].text # InRow(told[t].text) => j <= i

TracesAreTrue == TracesTell /\ ListTells
=============================================================================
