SPECIFICATION PartsSpec
CONSTANTS
    OrderedList = {d}
    RoundRobinList = {r}
    Item = {x1, x2, x3}
    portMAX_DELAY = 2
    NULL = NULL
    Message = {m1, m2}
    NoMessage = NoMessage
    Length = 3
    MaxBytes = 4
    RecvMboxSize = 2
    TcpWnd = 3
    MaxLen = 3
    NoPbuf = NoPbuf
INVARIANTS
    ListInv
    LengthIsExact
    StoreInv
    WindowIsReturned
PROPERTIES
    ImplementsListSpec
    TurnComesCloser
    SearchEnds
    ImplementsFifo
    OneSlotImplementsFifo
    ImplementsStream
    EndIsReported
