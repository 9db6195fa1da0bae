\* Buffers that need not, may and cannot grow, and memory for some sizes only.
CONSTANTS
    Wrap = 128
    NoData = NoData
    Plain <- MCPlain
    HexOf <- MCHexOf
    Chars <- MCChars
    Pieces <- MCPieces
    Numbers <- MCNumbers
    Capacities <- MCCapacities
    Rooms = {0, 9, 63}
    Garbage = {0, 2}
    Longest = 3
SPECIFICATION Spec
INVARIANTS FitsInBuffer KeepsText
PROPERTY ErrorStays
