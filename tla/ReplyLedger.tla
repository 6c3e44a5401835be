----------------------------- MODULE ReplyLedger -----------------------------
(***************************************************************************)
(* What the idempotency gate of the outbound path promises, with the       *)
(* sessions, parts, retries and crashes left out: an entry is written      *)
(* before its reply is delivered, one sender at most delivers it, and that *)
(* sender never starts after the entry has been given its outcome.         *)
(***************************************************************************)
CONSTANTS Key, Sender

VARIABLES
    entry,    \* the write-ahead entry of each key
    senders   \* who has delivered (a part of) the reply to Zalo

vars == <<entry, senders>>

Init ==
    /\ entry = [k \in Key |-> "free"]
    /\ senders = [k \in Key |-> {}]

Reserve(k) ==
    /\ entry[k] = "free"
    /\ entry' = [entry EXCEPT ![k] = "reserved"]
    /\ UNCHANGED senders

Deliver(k) ==
    /\ entry[k] = "reserved"
    /\ senders[k] = {}
    /\ \E x \in Sender : senders' = [senders EXCEPT ![k] = {x}]
    /\ UNCHANGED entry

Settle(k) ==
    /\ entry[k] = "reserved"
    /\ entry' = [entry EXCEPT ![k] = "settled"]
    /\ UNCHANGED senders

Next == \E k \in Key : Reserve(k) \/ Deliver(k) \/ Settle(k)

Spec == Init /\ [][Next]_vars
=============================================================================
