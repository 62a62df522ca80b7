CONSTANTS
    CR = "CR"
    LF = "LF"
    MaxUsize = 200
    Builds = {"Unchecked"}
    NotText = {"raw"}
    DigitValue <- MCDigitValue
    LengthValue <- MCLengthValue
    JsonOf <- MCJsonOf
    Transcripts <- TraileredTranscripts
SPECIFICATION FairSpec
CHECK_DEADLOCK FALSE
INVARIANTS TrailersParse
