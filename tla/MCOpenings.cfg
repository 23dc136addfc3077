SPECIFICATION AllSpec
CONSTANTS
    Content = {"a", "b"}
    First = "a"
    Writer = {"w", "x"}
    Job = {"j1", "j2"}
    MAX_EDITS = 3
    MAX_RETRIES = 1
    MAX_FAILS = 2
    Proc = {p, q}
    Row = {"a", "b", "c"}
    Old = {"a"}
    Cold = {"c"}
    KEEP = 1
    MAX_FILES = 3
    MAX_DAMAGE = 1
    MAX_KILLS = 1
    MAX_OPENS = 2
    Item = {"a"}
    Query = {a, b}
    CACHE_MAX = 1
    MAX_EVENTS = 2
    MAX_MISSES = 1
    MAX_SWITCHES = 2
INVARIANTS SyncedIsPushed StoreRecovers RemoteSound
SYMMETRY MCSymmetry
CHECK_DEADLOCK FALSE
