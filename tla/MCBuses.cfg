SPECIFICATION Spec
CONSTANTS
    Msg = {a, b}
    Mask = 3
    Modulus = 8
    Header = 3
    BufSize = 12
    Width = 32
    Lengths = {0, 1, 9, 10, 28, 29, 31}
    Offsets = {0, 3, 4, 31}
    ByteMax = 8
    Block = 2
    MaxUnread = 5
    MaxQueued = 3
    MaxPending = 2
    ResumeThreshold = 1
    TokenMax = 4
    BufCount = 2
INVARIANT ReceivedWhole
INVARIANT AllGivenBack
 
INVARIANT NeverOverrun
PROPERTY RingIsFifo
CHECK_DEADLOCK FALSE
