SPECIFICATION FairSpec
CONSTANTS
    Key <- MCKey
    NsOf <- MCNsOf
    Drainer <- MCDrainer
    Owns <- MCOwns
    MAX_QUEUE_DEPTH = 2
    MAX_RETRIES = 2
    MAX_MISHAPS = 2
INVARIANT RecordsKept
PROPERTY QueuedLeaves
CHECK_DEADLOCK FALSE
