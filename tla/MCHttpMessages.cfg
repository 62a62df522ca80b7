CONSTANTS
    CR = "CR"
    LF = "LF"
    MaxUsize = 200
    Builds = {"Checked", "Unchecked"}
    NotText = {"raw"}
    DigitValue <- MCDigitValue
    LengthValue <- MCLengthValue
    JsonOf <- MCJsonOf
    Transcripts <- MCTranscripts
SPECIFICATION FairSpec
CHECK_DEADLOCK FALSE
INVARIANTS TypeOK SpansTile PartsApart OnlyWholeMessages WellFormedParses WithoutDataHides
PROPERTIES Returns
