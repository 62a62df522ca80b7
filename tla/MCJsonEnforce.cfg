CONSTANTS
    Values <- MCValues
    Steps <- MCSteps
    Disclosures <- MCDisclosures
SPECIFICATION Spec
CHECK_DEADLOCK FALSE
INVARIANTS TypeOK AcceptedAgrees DisclosureAccepted
