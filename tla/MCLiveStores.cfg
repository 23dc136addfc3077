SPECIFICATION FairSpec
CONSTANTS
    Store <- MCStore
    Side <- MCSide
    SideOf <- MCSideOf
    Conn <- MCConn
    ConnAt <- MCConnAt
    Fd <- MCFd
    FdAt <- MCFdAt
    MAX_PARKED = 2
INVARIANTS LocksKept
PROPERTIES ConnectEnds
