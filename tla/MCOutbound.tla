------------------------------ MODULE MCOutbound ------------------------------
(* The intents and the symmetry of the runs of Outbound. *)
EXTENDS Outbound, TLC

CONSTANTS t1, k1, k2

\* One inbound answered under either policy, a media intent, and a message on its own.
ReplyJob ==
    {[thread |-> t1, key |-> k1, strict |-> p, inbound |-> TRUE] : p \in BOOLEAN}
    \cup {[thread |-> t1, key |-> NoKey, strict |-> FALSE, inbound |-> TRUE],
          [thread |-> t1, key |-> k2, strict |-> FALSE, inbound |-> FALSE]}

\* One message for each key, all of one thread.
MessageJob == {[thread |-> t1, key |-> k, strict |-> FALSE, inbound |-> FALSE] : k \in Key}

DispatchSymmetry == Permutations(Dispatch)
=============================================================================
