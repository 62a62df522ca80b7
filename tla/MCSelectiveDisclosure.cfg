CONSTANTS
    CR = "CR"
    LF = "LF"
    MaxUsize = 200
    Builds = {"Unchecked"}
    NotText = {"raw"}
    Infinite = Infinite
    None = None
    DigitValue <- MCDigitValue
    LengthValue <- MCLengthValue
    JsonOf <- MCJsonOf
    IntegerOf <- MCIntegerOf
    FloatOf <- MCFloatOf
    Transcripts <- MCTranscripts
SPECIFICATION DisclosureSpec
CHECK_DEADLOCK FALSE
INVARIANTS DisclosedExactly FramingAgrees ContextTrue
