SPECIFICATION FairSpec
CONSTANTS
    Key = {"k", "l"}
    Worker = {"v", "w"}
    Owner = {"a", "b"}
    Job <- MCJob
    JobKey <- MCJobKey
    JobOwner <- MCJobOwner
    MAX_COUNT = 1
INVARIANT OneWriterPerStore
PROPERTIES NoStartAfterClose HandlesFinish
CHECK_DEADLOCK FALSE
