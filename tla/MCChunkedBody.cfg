CONSTANTS
    CR = "CR"
    LF = "LF"
    None = None
    MaxUsize = 36
    MaxPieces = 4
    Builds = {"Checked", "Unchecked"}
    DigitValue <- MCDigitValue
    Sources <- MCSources
    Bodies <- MCBodies
SPECIFICATION FairSpec
CHECK_DEADLOCK FALSE
INVARIANTS TypeOK Apart ParsedInside RoundTrip
PROPERTIES Terminates
