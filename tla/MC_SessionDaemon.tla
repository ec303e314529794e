--------------------------- MODULE MC_SessionDaemon ---------------------------
(* SessionDaemon on small sets of clients, daemons and versions.            *)
EXTENDS SessionDaemon, TLC
=============================================================================
