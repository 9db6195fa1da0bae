\* Replies of every framing, one after the other, cut in every way in reads.
CONSTANTS
    LongBits = 16
    Replies <- MCReplies
    Http <- MCHttp
    Names <- MCNames
    BufSize = 3
    HexSize = 3
SPECIFICATION Spec
INVARIANTS ParserTypeOK BodyIsWhatWasSent DoneWithTheLastCharacter OnlyTheCallbackRefuses
