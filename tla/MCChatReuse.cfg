\* Two clients take turns in the only slot; each types two lines, the operator one.
CONSTANTS
    Clients = {c1, c2}
    Server = server
    Nobody = nobody
    MaxClients = 1
    QueueSize = 2
    Calls = 2
    PipeSize = 4
    ServerLines = 1
    Typists = {c1, c2}
    ClientLines = 2
SPECIFICATION Spec
SYMMETRY ClientSymmetry
INVARIANTS NoInheritance LogIsSent WholeAtBoundary
\* An idle chat waits for its users; one that is over stays so.
CHECK_DEADLOCK FALSE
