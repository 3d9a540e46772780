\* A simple command that fails.
CONSTANTS
    Lines <- MCLines
    MaxLines = 1
    MaxPids = 3
    Capacity = 1
    Volume = 2
SPECIFICATION Spec
\* An idle shell waits for its user.
CHECK_DEADLOCK FALSE
INVARIANT ShowsExitCode
