\* A client that leaves while the server sends to it.
CONSTANTS
    Clients = {c1, c2}
    Server = server
    Nobody = nobody
    MaxClients = 2
    QueueSize = 2
    Calls = 2
    PipeSize = 4
    ServerLines = 1
    Typists = {c1}
    ClientLines = 1
SPECIFICATION Spec
SYMMETRY ClientSymmetry
INVARIANT KeepsOperating
\* An idle chat waits for its users; one that is over stays so.
CHECK_DEADLOCK FALSE
