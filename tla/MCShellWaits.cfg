\* A pipeline, then a simple command.
CONSTANTS
    Lines <- MCLines
    MaxLines = 2
    MaxPids = 4
    Capacity = 1
    Volume = 2
SPECIFICATION Spec
\* An idle shell waits for its user.
CHECK_DEADLOCK FALSE
INVARIANT WaitsForItsCommand
