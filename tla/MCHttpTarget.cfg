CONSTANTS
    None = None
    MaxCalls = 1
    Parses <- MCParses
SPECIFICATION CommitSpec
CHECK_DEADLOCK FALSE
INVARIANTS TargetApart
