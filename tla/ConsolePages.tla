---------------------------- MODULE ConsolePages ----------------------------
(***************************************************************************)
(* The pages of the console that keep state of their own: the login card   *)
(* with the status all pages show, the threads and the senders' roles.     *)
(* Each asks the backend for itself.                                       *)
(***************************************************************************)
EXTENDS LoginConsole, AllowThreadsPage, PrincipalsPage

ConsolePagesSpec == ConsoleSpec /\ ThreadPageSpec /\ PrincipalPageSpec

\* What the console shows is what it would be told now (zalo-login-card, the coordinator of
\* the operational status, allow-threads/page and access-control/page).
ConsoleKeepsUp == ConsoleIsCurrent /\ ThreadsShownAreCurrent /\ PrincipalsShownAreCurrent
=============================================================================
