SPECIFICATION AllSpec
CONSTANTS
    Id = {"x", "y"}
    Job <- MCJob
    Kind <- MCKind
    On <- MCOn
    Embeds = {"s", "e", "m", "v"}
    MIN_CLUSTER = 2
    MAX_CALLS = 3
    Call <- MCCall
    Role <- MCRole
    TextOf <- MCTextOf
    Tainted = {"second"}
    MAX_KILLS = 1
    HomeId = {"a", "b"}
    SiblingId = {"r", "s", "t"}
    Enrichment = {"p1", "p2"}
    Backfill = {"p2"}
    CANDIDATE_LIMIT = 2
    MAX_CACHED_BYTES = 1
    MAX_ROW_WRITES = 1
    LAST = 3
    Sims = {800, 900, 1000}
INVARIANTS RowsWhole SimilarRowsSound
PROPERTIES NothingComesBack ReviewSound
CHECK_DEADLOCK FALSE
