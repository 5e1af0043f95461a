SPECIFICATION Spec
CONSTANTS
    None = None
    Buses = {"shmem", "spi"}
    MaxPackets = 3
CHECK_DEADLOCK FALSE
INVARIANT ReadyHasInterface
