---------------------------- MODULE MCGraphPool ----------------------------
(* Two stores, two clients with jobs on both, and a pool of one worker, so  *)
(* that the cap, the retirement and a second worker for a store all happen. *)
EXTENDS GraphPool

MCJobKey == [j1 |-> "k", j2 |-> "l", j3 |-> "k"]

MCJobOwner == [j1 |-> "a", j2 |-> "a", j3 |-> "b"]

MCJob == DOMAIN MCJobKey
=============================================================================
