----------------------------- MODULE ReplyGuards ----------------------------
(***************************************************************************)
(* Who is answered, and what of an answer is sent: the role of a message's *)
(* sender on its way in, the limits and the memory of the sender on the    *)
(* way out.  They share no variable.                                       *)
(***************************************************************************)
EXTENDS SendGuards, Identity

ReplyGuardsSpec == GuardSpec /\ IdentitySpec

\* The guards before a dispatch and a send keep what they promise: roles are their senders',
\* and the memories of duplicates and rates hold (Identity, SendGuards).
GuardsStand == GuardsHold /\ RolesAreTheirs
=============================================================================
