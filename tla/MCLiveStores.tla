---------------------------- MODULE MCLiveStores ----------------------------
(* A store with its sidecar and a second store with none, two connections   *)
(* to the first, and three readers of it, one at its sidecar.               *)
EXTENDS LiveStores

MCStore == {"s", "t"}

MCSide == {"s-shm", "t-shm"}

MCSideOf == [s |-> "s-shm", t |-> "t-shm"]

MCConnAt == [c |-> "s", d |-> "s"]

MCConn == DOMAIN MCConnAt

MCFdAt == [f |-> "s", g |-> "s", h |-> "s-shm"]

MCFd == DOMAIN MCFdAt
=============================================================================
