---------------------------- MODULE MCStoreLock ----------------------------
(* Two processes: p has the contexts a and b (one can be a copy of the    *)
(* other), q has c.  They open connections, recover, import and serve.     *)
EXTENDS StoreLock

MCProc == {"p", "q"}

MCCtx == {"a", "b", "c"}

MCCtxProc == [x \in MCCtx |-> IF x = "c" THEN "q" ELSE "p"]

MCHoldOp == [ao |-> "open", br |-> "recover", bo |-> "open", ci |-> "import", cs |-> "serve"]

MCHoldCtx == [ao |-> "a", br |-> "b", bo |-> "b", ci |-> "c", cs |-> "c"]

MCHold == DOMAIN MCHoldOp
============================================================================
