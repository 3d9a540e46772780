\* Three files; any fork, exec or mkdir may fail, any sort be killed.
CONSTANTS
    N = 3
    Faults = {"fork", "exec", "signal", "mkdir"}
SPECIFICATION FairSpec
INVARIANTS TypeOK AllReaped StatusOfItsChild NoFailureLost
PROPERTY Terminates
\* The program ends.
CHECK_DEADLOCK FALSE
