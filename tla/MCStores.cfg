SPECIFICATION AllSpec
CONSTANTS
    Ns = {"n", "m"}
    Id = {"a", "b"}
    Default = "n"
    Tag = {"t"}
    File = {"f"}
    Sample <- MCSample
    Batch <- MCBatch
    Change <- MCChange
    Process = {"full", "bare"}
    VecProcess = {"full"}
    FtsProcess = {"full"}
    MAX_WRITES = 4
    MAX_PLACE = 4
    LIMIT = 2
    PAGE = 2
    OVERFETCH = 1
    MAX_READ_WRITES = 1
    WRITES_PER_MINUTE = 1
    MINUTE = 2
    RETENTION = 1
    BATCH = 2
    MAX_NOW = 2
    MAX_FAULTS = 1
    FileId = {"a", "b"}
    Does <- MCDoes
    StoredFiles <- MCStored
    Blocked <- MCBlocked
    FileValue = {"none", "n", "m", "x", "y", "z", "p", "q", "plain", "unsupported", "demoted"}
    MAX_FILE_CALLS = 3
    MAX_FILE_KILLS = 1
    ImportId = {"a", "b", "c"}
    Canary = {"c"}
    Contents <- MCContents
    RowText = {"none", "t1", "t2", "t3", "pinned", "marked"}
    RowVec = {"none", "1", "other"}
    TenantRows <- MCForeign
    MAX_OWNER_WRITES = 2
    MAX_IMPORTS = 2
    MAX_TENANT_WRITES = 2
    MAX_OTHER_WRITES = 3
    Node = {1, 2, 3, 4}
    SCAN_MULTIPLIER = 3
    NO_CAP = 3
    MIN_SIZE = 2
    MIN_CONNECTIVITY = 60
    MAX_GRAPH_WRITES = 1
    Member = {"a", "b"}
    FEED_LIMIT = 1
    RECONCILE = 1
    MAX_INDEX_ROWS = 1
    MAX_CLOCK = 4
    MAX_VECTOR_WRITES = 2
    TeamRow = {"a", "b"}
    MAX_STORES = 3
    MAX_EDITS = 2
    MAX_PROMOTIONS = 2
    TTL = 1
    t1 = t1
    t2 = t2
    Thread <- MCThread
    Model = {"k", "m"}
    Coded = {"m"}
    MAX_ASKS = 3
    MAX_CHANGES = 1
    MAX_FETCHES = 2
    MAX_MISSES = 1
INVARIANTS ReadsExact TrailKept FilesKept GraphAnswers ProvidersSound
PROPERTIES ImportSound TeamSound
SYMMETRY MCSymmetry
CHECK_DEADLOCK FALSE
