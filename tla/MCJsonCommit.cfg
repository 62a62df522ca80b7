CONSTANTS
    None = None
    MaxCalls = 2
    Documents <- MCDocuments
SPECIFICATION Spec
CHECK_DEADLOCK FALSE
INVARIANTS TypeOK StructureHides StaysInside StructureOpens SelectionOpens RedactedFails
