SPECIFICATION FairSpec
CONSTANTS
    Proc <- MCProc
    Ctx <- MCCtx
    CtxProc <- MCCtxProc
    Hold <- MCHold
    HoldCtx <- MCHoldCtx
    HoldOp <- MCHoldOp
INVARIANTS ExclusiveAlone QuiescingAlone KernelBacksHolds
PROPERTIES AccessSpec AcquireEnds
