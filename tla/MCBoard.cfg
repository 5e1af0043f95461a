SPECIFICATION MCSpec
CONSTANTS
    Chunks = {0, 1, 2}
    K = 2
    Psram = {0, 1, 2}
    Values = {a, b}
    None = None
    CachedLines = 2
    Window = {1, 2}
    Frames = {11, 12, 13}
    HANDLES = 2
    ALLOCATIONS = 2
    HEAP_LIMIT = 3
    Fds = {5, 6}
    Pointers = {71, 72}
    Sizes = {1, 2}
    JobCount = 3
    Parallel = 2
    Tfms = {t1, t2}
    Messages = {1}
    Lows = {4, 3, 171}
    Rounds = 3
    Edits = {"mine"}
INVARIANT Coherent
INVARIANT OwnWindow
INVARIANT NothingLeaks
INVARIANT JobsAccounted
INVARIANT ResultIsRight
INVARIANT ConfigurationSurvives
PROPERTY ExchangeIsAtomic
 
CHECK_DEADLOCK FALSE
