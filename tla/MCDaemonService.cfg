SPECIFICATION FairSpec
CONSTANTS
    Proc <- MCProc
    Client <- MCClient
    Major <- MCMajor
    Replayable = {"n"}
    Lists = {"n"}
    Pinned = {"a"}
INVARIANTS OneFindable CallsKept
PROPERTIES DoorSettles
CHECK_DEADLOCK FALSE
