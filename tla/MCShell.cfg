\* Two lines; the fifth process fills the table, so that fork() also fails.
CONSTANTS
    Lines <- MCLines
    MaxLines = 2
    MaxPids = 5
    Capacity = 1
    Volume = 2
SPECIFICATION FairSpec
\* An idle shell waits for its user.
CHECK_DEADLOCK FALSE
INVARIANTS TypeOK OutputComplete PipelineStatus PromptIsClean OnlyFeederWrites
PROPERTY LineEnds
