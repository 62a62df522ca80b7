CONSTANTS
    None = None
    MaxCalls = 2
    Parses <- MCParses
SPECIFICATION CommitSpec
CHECK_DEADLOCK FALSE
INVARIANTS StructureHides OneMessage StructureOpens SelectionOpens
