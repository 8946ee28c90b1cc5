SPECIFICATION Spec
CONSTANTS
    Symbols <- MCSymbols
    Streams <- MCStreams
    Payload <- MCPayload
    MaxLine = 4
    MaxEvent = 3
    Overhead = 1
    Length = 6
CHECK_DEADLOCK FALSE
INVARIANTS LimitsAreExact FragmentsTogether BilledIsReported DoneMeansWhole ClientReadsSame
PROPERTIES ReadsLikeWhole
