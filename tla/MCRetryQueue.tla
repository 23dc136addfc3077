---------------------------- MODULE MCRetryQueue ----------------------------
(* Two namespaces with a client each, three records, a queue of two         *)
(* and two retries: the cap is met, an enqueue lands in every window of a   *)
(* drain, and a foreign record is between own ones.                         *)
EXTENDS RetryQueue

MCNsOf == [k1 |-> "n", k2 |-> "m", k3 |-> "n"]

MCKey == DOMAIN MCNsOf

MCOwns == [d |-> {"n"}, e |-> {"m"}]

MCDrainer == DOMAIN MCOwns
=============================================================================
