SPECIFICATION Spec
CONSTANTS
    None = None
    MaxEntries = 2
    MaxInflight = 2
    ElementSizes = {1, 2}
    Values = {v1, v2}
    Limits = {150, 2000, 2001}
    MaxAsks = 3
SYMMETRY Symmetry
 
PROPERTY AnswerIsOwn
INVARIANT CoreZeroFollows
CHECK_DEADLOCK FALSE
