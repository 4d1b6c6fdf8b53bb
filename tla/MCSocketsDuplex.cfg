SPECIFICATION Spec
CONSTANTS
    reader = reader
    writer = writer
    manager = manager
    c1 = c1
    c2 = c2
    Task = {reader, writer, manager}
    NUM_SOCKETS = 1
    Conn = {c1, c2}
    TcpConn = {c1}
    Buf = {b1, b2}
    Program <- ReadWriteClose
    NULL = NULL
INVARIANT
    CallsUseOpenConns
