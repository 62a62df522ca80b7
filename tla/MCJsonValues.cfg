CONSTANTS
    Infinite = Infinite
    MaxUsize = 30
    MaxCalls = 3
    Offsets = {1, 9}
    IndexOf <- MCIndexOf
    IntegerOf <- MCIntegerOf
    FloatOf <- MCFloatOf
    Paths <- MCPaths
    Values <- MCValues
SPECIFICATION Spec
CHECK_DEADLOCK FALSE
INVARIANTS NamesSource VisitsInOrder PathsAgree
