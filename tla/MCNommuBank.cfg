SPECIFICATION Spec
CONSTANTS
    MM = {p1, p2, p3}
    Region = {stack, heap}
    Value = {0, 1}
    Zero = 0
    None = None
    MaxPages = 1
    MaxTasks = 1
    PinAllowed = {}
    ForkRefused = {}
    DontCopy = {}
    MaxTotal = 2
    FreePages = 3
    OrphanSlots = 1
SYMMETRY Symmetry
INVARIANTS
    OneSetPerAbsentee
    RunningIsResident
    ShadowPagesCounted
PROPERTIES
    MemoryIsPrivate
