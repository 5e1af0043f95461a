SPECIFICATION FairSpec
CONSTANTS
    MM = {p1, p2}
    Region = {stack, heap, dma}
    Value = {0}
    Zero = 0
    None = None
    MaxPages = 2
    MaxTasks = 2
    PinAllowed = {heap}
    ForkRefused = {}
    DontCopy = {dma}
    MaxTotal = 3
    FreePages = 3
    OrphanSlots = 1
INVARIANTS
    PinnedIsNeverBanked
    BankedWithinBudget
    LatchNeverFires
PROPERTIES
    ForkReturns
