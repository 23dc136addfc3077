-------------------------- MODULE MCDaemonService --------------------------
(* Three processes, the first two with one pid after each other; a client  *)
(* of the old installation and one of the new.                             *)
EXTENDS DaemonService

MCProc == {<<10, 1>>, <<10, 2>>, <<11, 1>>}

MCMajor == [a |-> 1, n |-> 2]

MCClient == DOMAIN MCMajor
============================================================================
