CONSTANTS
    s1 = s1
    s2 = s2
    None = None
    MaxCalls = 4
    MaxLength = 2
    Slot <- MCSlot
    Byte <- MCByte
    Filler <- MCFiller
    Transcripts <- Sessions
SYMMETRY Symmetry
SPECIFICATION Spec
CHECK_DEADLOCK FALSE
INVARIANTS TypeOK AuthedSound NoLeak CompleteIsTranscript MergeCommutes
PROPERTIES ImplementsDisclosure
