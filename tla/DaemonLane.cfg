\* Three tenants, one of them with background work, and a memory of two.
SPECIFICATION LaneFairSpec
CONSTANTS
    Job = {"a", "b", "c"}
    Tenants = {{"a"}, {"b"}, {"c"}}
    Background = {"a"}
    SERVED_MAX = 2
    MAX_CALLS = 2
INVARIANT LaneKept
PROPERTIES NoStartWithdrawn EverySubmitEnds
CHECK_DEADLOCK FALSE
