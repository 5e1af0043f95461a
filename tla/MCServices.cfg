SPECIFICATION Spec
CONSTANTS
    None = None
    Task = {etc, home}
    Block = {b1, b2}
    Value = {ff, v}
    Erased = ff
    MaxScans = 3
    MaxBytes = 3
    MaxPacket = 2
    HostQueue = 2
    MaxQueue = 2
INVARIANT FlashReadable
INVARIANT SuccessMeansWritten
 
INVARIANT PipeIsStream
PROPERTY OperationsReturn
PROPERTY DoneIsOwn
 
PROPERTY Discoverable
