\* A text, a signed and an unsigned register; the line grows by one character at a time.
CONSTANTS
    Wrap = 4096
    NoData = NoData
    Plain <- MCPlain
    HexOf <- MCHexOf
    Subscribed <- MCSubscribed
    MaxParams = 3
    LongBits = 16
    Registers <- MCRegisters
    Groups <- MCGroups
    Lines <- MCLines
    LineSize = 8
    Rooms = {8, 64}
SPECIFICATION Spec
INVARIANTS ListedSetsTheSame ValueFits SplitsAtCommas
