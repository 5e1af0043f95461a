SPECIFICATION Spec
CONSTANTS
    None = None
    Buses = {"shmem", "spi"}
    MaxPackets = 3
 
INVARIANT NothingLeftBehind
PROPERTY RemovalEnds
CHECK_DEADLOCK FALSE
