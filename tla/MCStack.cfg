SPECIFICATION StackSpec
CONSTANTS
    reader = reader
    writer = writer
    manager = manager
    c1 = c1
    c2 = c2
    Task = {reader, writer, manager}
    NUM_SOCKETS = 2
    Conn = {c1, c2}
    TcpConn = {c1}
    Buf = {b1, b2}
    Program <- ReadWriteClose
    NULL = NULL
    Holder = {b1, b2}
    PBUF = {pb1, pb2, pb3}
    MaxPayload = 2
    NoBuf = NoBuf
SYMMETRY Symmetry
INVARIANTS
    UsesAreCounted
    BuffersHaveOneOwner
    FreeSlotsAreClean
    RefsAreExact
    ReadsAreExact
PROPERTIES
    SlotIsKeptInCalls
    HeadersAreCutExactly
