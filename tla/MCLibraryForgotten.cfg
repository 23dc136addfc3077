SPECIFICATION TiersSpec
CONSTANTS
    Pool <- MCPool
    Tier <- MCTier
    Org <- MCOrg
    Choose <- MCChoose
    Source <- MCSource
    Entry = {"a", "b"}
    TierCall = {"s", "u", "f", "r"}
    HOT_MAX = 1
    COMPACT_MIN_DEAD = 1
    MAX_TIER_CALLS = 4
    MAX_TIER_FAULTS = 0
    Key = {"a", "b"}
    BATCH_LIMIT = 1
    MAX_TENANT = 2
    MAX_MOVE_KILLS = 1
    LAST = 3
    Tree <- MCTree
    VERIFY_PAGE = 2
    DECAY_WINDOW = 2
    STALE_DAYS = 0
    KEEP_DAILY = 1
    MAX_DAY = 2
    MAX_MAINTAIN_CALLS = 2
    MAX_ROW_WRITES = 1
    MAX_PASS_FAULTS = 1
    MAX_UPSETS = 3
INVARIANT ErasedEverywhere
CHECK_DEADLOCK FALSE
