\* Three rows, pages of two, the first row held back by the client, one
\* writer that stores from a copy of its own.
SPECIFICATION PushFairSpec
CONSTANTS
    MAX_ID = 3
    LIMIT = 2
    Held = {1}
    Writer = {w1}
    MAX_EDITS = 2
    MAX_MOVES = 1
    MAX_FAILS = 1
INVARIANT CycleExact
PROPERTY DirtyIsPushed
CHECK_DEADLOCK FALSE
